--------------------------- MODULE ProcSchedProof ---------------------------
(***************************************************************************)
(* Proofs about ProcSched, for every number of terminals and processes and *)
(* every bound.                                                            *)
(*   Its types first; then that the process tables and the saved frames    *)
(* stay consistent and the kernel never goes on with a frame in released   *)
(* stack space, as long as the environment keeps to the three conditions   *)
(* of Quiet.  Exceptions of any kind are allowed.                          *)
(*   What execute returns: 256 exactly when the program died of an         *)
(* exception, as long as the environment is the plain one.  The flag that  *)
(* says so is one for the whole kernel, so the proof is that nobody else   *)
(* comes between the exception that sets it and the halt that reads it.    *)
(*   The processes of each terminal are a stack of jobs, which is what     *)
(* TerminalJobs promises, and get_owner_terminal finds the terminal.  Both *)
(* rest on one fact: for every terminal there is a sequence of processes,  *)
(* from its base shell to its active process, each the parent of the next, *)
(* without repetition, and every process is in one.                        *)
(***************************************************************************)
EXTENDS MCProcSched, Induction, SequenceTheorems, FiniteSetTheorems

----------------------------------------------------------------------------
(* Lemmas about pids                                                       *)

\* Every set of pids that is not empty has a least element.
LEMMA LeastPid ==
    ASSUME NEW S \in SUBSET Pid, S # {}
    PROVE  \E p \in S : \A q \in S : p <= q
<1>1. S \in SUBSET Nat
  BY ConstantsAssumption DEF Pid
<1> QED BY <1>1, LeastElement

\* The slot execute takes (system_call.c:196-203) is free, and all slots before
\* it are taken.
LEMMA FirstFreeLeast ==
    ASSUME NEW pa, Free(pa) # {}
    PROVE  /\ FirstFree(pa) \in Pid
           /\ pa[FirstFree(pa)] = 0
           /\ \A q \in Pid : pa[q] = 0 => FirstFree(pa) <= q
<1>1. PICK p \in Free(pa) : \A q \in Free(pa) : p <= q
  BY LeastPid DEF Free
<1>2. FirstFree(pa) \in Free(pa) /\ \A q \in Free(pa) : FirstFree(pa) <= q
  BY <1>1 DEF FirstFree
<1> QED BY <1>2 DEF Free

LEMMA ConstantFacts ==
    /\ 0 \in Terminal /\ 0 \in Pid
    /\ Terminal \subseteq Pid
    /\ Pid \subseteq Nat
    /\ NONE \notin Pid
    /\ \A t \in Terminal : NextTerminal(t) \in Terminal
<1>1. /\ 0 \in Terminal /\ 0 \in Pid
      /\ Terminal \subseteq Pid
      /\ Pid \subseteq Nat
      /\ NONE \notin Pid
  BY ConstantsAssumption DEF Terminal, Pid, NONE
<1>2. \A t \in Terminal : NextTerminal(t) \in Terminal
  BY ConstantsAssumption DEF Terminal, NextTerminal
<1> QED BY <1>1, <1>2

----------------------------------------------------------------------------
(* Type correctness                                                        *)

\* Before Boot no slot is taken.
BootFree == ~lost /\ cur_process = NONE => \A p \in Pid : process_array[p] = 0

TypeInv == TypeOK /\ BootFree

\* execute keeps the types when there is a free slot.
LEMMA StartProcessType ==
    ASSUME TypeOK,
           NEW t \in Terminal, NEW caller \in Pid \cup {NONE},
           NEW pa \in [Pid -> {0, 1}], Free(pa) # {},
           NEW s \in Pid, NEW under \in Seq(Frame),
           StartProcess(t, caller, pa, s, under)
    PROVE  /\ process_array' \in [Pid -> {0, 1}]
           /\ parent_pid' \in [Pid -> Pid \cup {NONE}]
           /\ active_array' \in [Terminal -> Pid \cup {NONE}]
           /\ home' \in [Pid -> Terminal]
           /\ cur_process' \in Pid
           /\ page_dir' \in Pid \cup {NONE}
           /\ esp0' \in Pid
           /\ kstack' \in [Pid -> Seq(Frame)]
           /\ exe_ebp' \in [Pid -> Address]
           /\ pc' \in [Pid -> {"run", "iret", "intr", "trap"}]
<1> DEFINE p == FirstFree(pa)
<1>1. p \in Pid
  BY FirstFreeLeast
<1>2. Exe(p) \in Frame
  BY <1>1 DEF Exe, Frame
<1>3. Append(under, Exe(p)) \in Seq(Frame) /\ Len(under) + 1 \in Nat
  BY <1>2
<1>4. [stack |-> s, depth |-> Len(under) + 1] \in Address
  BY <1>3 DEF Address
<1> HIDE DEF p
<1>5. /\ process_array' = [pa EXCEPT ![p] = 1]
      /\ active_array' = [active_array EXCEPT ![t] = p]
      /\ parent_pid' = [parent_pid EXCEPT ![p] = caller]
      /\ home' = [home EXCEPT ![p] = t]
      /\ cur_process' = p /\ page_dir' = p /\ esp0' = p
      /\ kstack' = [kstack EXCEPT ![s] = Append(under, Exe(p))]
      /\ exe_ebp' = [exe_ebp EXCEPT ![p] = [stack |-> s, depth |-> Len(under) + 1]]
      /\ pc' = [pc EXCEPT ![p] = "iret"]
  BY DEF StartProcess, ParentOf, p
<1>6. /\ process_array' \in [Pid -> {0, 1}]
      /\ parent_pid' \in [Pid -> Pid \cup {NONE}]
      /\ active_array' \in [Terminal -> Pid \cup {NONE}]
      /\ home' \in [Pid -> Terminal]
      /\ pc' \in [Pid -> {"run", "iret", "intr", "trap"}]
  BY <1>1, <1>5 DEF TypeOK
<1>7. kstack' \in [Pid -> Seq(Frame)] /\ exe_ebp' \in [Pid -> Address]
  BY <1>1, <1>3, <1>4, <1>5 DEF TypeOK
<1> QED BY <1>1, <1>5, <1>6, <1>7

LEMMA NoFrameType == \A p \in Pid : NoFrame(p) \in Address
BY DEF NoFrame, Address

LEMMA NewPcbType ==
    ASSUME NEW pa, Free(pa) # {}, NEW saved \in [Pid -> Address]
    PROVE  NewPcb(pa, saved) \in [Pid -> Address]
BY FirstFreeLeast, NoFrameType DEF NewPcb

\* The stack the running process is on, and what the scheduler saves there.
LEMMA StackType ==
    ASSUME TypeOK, cur_process \in Pid
    PROVE  /\ StackOf(cur_process) \in Pid
           /\ Beneath(cur_process) \in Seq(Frame)
           /\ Len(Beneath(cur_process)) \in Nat
           /\ SavedEbps \in [Pid -> Address]
           /\ SavedStacks \in [Pid -> Seq(Frame)]
<1> DEFINE s == StackOf(cur_process)
           u == Beneath(cur_process)
<1>1. s \in Pid
  BY DEF TypeOK, StackOf, Address
<1>2. u \in Seq(Frame)
  <2>1. CASE pc[cur_process] = "iret"
    BY <1>1, <2>1 DEF TypeOK, Beneath
  <2>2. CASE pc[cur_process] # "iret"
    BY <2>2 DEF Beneath
  <2> QED BY <2>1, <2>2
<1>3. Sche(cur_process) \in Frame
  BY DEF Sche, Frame
<1> HIDE DEF s, u
<1>4. Len(u) \in Nat /\ Append(u, Sche(cur_process)) \in Seq(Frame)
  BY <1>2, <1>3
<1>5. [stack |-> s, depth |-> Len(u) + 1] \in Address
  BY <1>1, <1>4 DEF Address
<1>6. SavedEbps \in [Pid -> Address]
  BY <1>5 DEF SavedEbps, TypeOK, s, u
<1>7. SavedStacks \in [Pid -> Seq(Frame)]
  BY <1>4 DEF SavedStacks, TypeOK, s, u
<1> QED BY <1>1, <1>2, <1>4, <1>6, <1>7 DEF s, u

LEMMA DiscardType ==
    ASSUME NEW K \in [Pid -> Seq(Frame)], NEW a \in Address
    PROVE  Discard(K, a) \in [Pid -> Seq(Frame)]
<1>1. a.stack \in Pid /\ a.depth \in Nat
  BY DEF Address
<1>2. ASSUME a.depth <= Len(K[a.stack])
      PROVE  SubSeq(K[a.stack], 1, a.depth - 1) \in Seq(Frame)
  <2>1. \A i \in 1 .. a.depth - 1 : K[a.stack][i] \in Frame
    BY <1>1, <1>2, ElementOfSeq
  <2> QED BY <1>1, <2>1, SubSeqProperties
<1> QED BY <1>1, <1>2 DEF Discard

\* Every step keeps the types, whatever the environment does.
LEMMA TypeStep ==
    ASSUME TypeInv, [Next]_vars
    PROVE  TypeInv'
<1> USE DEF TypeInv, TypeOK
<1>1. CASE Boot
  <2>1. Free(process_array) # {}
    BY <1>1, ConstantFacts DEF Boot, BootFree, Free
  <2>2. /\ UNCHANGED << sche_term, exception_flag, eax, lost >>
        /\ StartProcess(sche_term, NONE, process_array, 0, << >>)
        /\ sche_ebp' = NewPcb(process_array, sche_ebp)
    BY <1>1 DEF Boot
  <2>3. << >> \in Seq(Frame) /\ 0 \in Pid /\ NONE \in Pid \cup {NONE}
    BY ConstantFacts
  <2>4. sche_ebp' \in [Pid -> Address]
    BY <2>1, <2>2, NewPcbType
  <2>5. cur_process' \in Pid
    BY <2>1, <2>2, <2>3, StartProcessType
  <2>6. TypeOK'
    BY <2>1, <2>2, <2>3, <2>4, StartProcessType
  <2> QED BY <2>5, <2>6, ConstantFacts DEF BootFree
<1>2. CASE Execute
  <2>1. /\ UNCHANGED << sche_term, exception_flag, eax, lost >>
        /\ cur_process \in Pid
        /\ Free(process_array) # {}
        /\ StartProcess(sche_term, cur_process, process_array, cur_process, << >>)
        /\ sche_ebp' = NewPcb(process_array, sche_ebp)
    BY <1>2 DEF Execute, Up
  <2>2. << >> \in Seq(Frame)
    OBVIOUS
  <2>3. sche_ebp' \in [Pid -> Address]
    BY <2>1, NewPcbType
  <2>4. cur_process' \in Pid
    BY <2>1, <2>2, StartProcessType
  <2>5. TypeOK'
    BY <2>1, <2>2, <2>3, StartProcessType
  <2> QED BY <2>4, <2>5, ConstantFacts DEF BootFree
<1>3. CASE ExecuteFails
  <2>1. eax' \in Status \cup {EXCEPTION_RET, NONE}
    BY <1>3 DEF ExecuteFails, NONE
  <2>2. kstack' \in [Pid -> Seq(Frame)]
    <3>1. << >> \in Seq(Frame)
      OBVIOUS
    <3>2. kstack' = [kstack EXCEPT ![cur_process] = << >>]
      BY <1>3 DEF ExecuteFails
    <3>3. kstack \in [Pid -> Seq(Frame)]
      OBVIOUS
    <3> HIDE DEF TypeInv, TypeOK
    <3> QED BY <3>1, <3>2, <3>3
  <2> QED BY <1>3, <2>1, <2>2 DEF ExecuteFails, Up, tables, cpu, BootFree
<1>4. CASE Iret
  BY <1>4 DEF Iret, Up, tables, cpu, frames, BootFree
<1>5. ASSUME NEW how \in {"intr", "trap", "run"}, Raise(how)
      PROVE  TypeInv'
  BY <1>5 DEF Raise, Up, tables, cpu, BootFree
<1>6. ASSUME NEW status \in Status, HaltChild(status)
      PROVE  TypeInv'
  <2> DEFINE p == cur_process
  <2>1. p \in Pid /\ parent_pid[p] \in Pid
    BY <1>6 DEF HaltChild, HaltsWith, Up
  <2>2. /\ process_array' = [process_array EXCEPT ![p] = 0]
        /\ cur_process' = parent_pid[p]
        /\ active_array' = [active_array EXCEPT ![sche_term] = parent_pid[p]]
        /\ parent_pid' = [parent_pid EXCEPT ![p] = NONE]
        /\ page_dir' = parent_pid[p]
        /\ esp0' = parent_pid[p]
        /\ eax' = HaltRet(status)
        /\ exception_flag' \in {0, 1}
        /\ lost' \in BOOLEAN
        /\ kstack' = Discard(kstack, exe_ebp[p])
        /\ sche_ebp' = [sche_ebp EXCEPT ![p] = NoFrame(p)]
        /\ exe_ebp' = [exe_ebp EXCEPT ![p] = NoFrame(p)]
        /\ pc' = [pc EXCEPT ![p] = "run"]
        /\ home' = [home EXCEPT ![p] = 0]
        /\ sche_term' = sche_term
    BY <1>6 DEF HaltChild, Released, ActiveAfterHalt, Esp0Of, FlagReported
  <2>3. HaltRet(status) \in Status \cup {EXCEPTION_RET, NONE}
    BY DEF HaltRet
  <2>4. kstack' \in [Pid -> Seq(Frame)]
    BY <2>1, <2>2, DiscardType
  <2>5. sche_ebp' \in [Pid -> Address] /\ exe_ebp' \in [Pid -> Address]
    BY <2>1, <2>2, NoFrameType
  <2>6. /\ home' \in [Pid -> Terminal]
        /\ pc' \in [Pid -> {"run", "iret", "intr", "trap"}]
        /\ process_array' \in [Pid -> {0, 1}]
        /\ parent_pid' \in [Pid -> Pid \cup {NONE}]
        /\ active_array' \in [Terminal -> Pid \cup {NONE}]
    BY <2>1, <2>2, ConstantFacts
  <2> HIDE DEF p
  <2>7. TypeOK'
    BY <2>1, <2>2, <2>3, <2>4, <2>5, <2>6
  <2> QED BY <2>1, <2>2, <2>7, ConstantFacts DEF BootFree
<1>7. ASSUME NEW status \in Status, HaltBase(status)
      PROVE  TypeInv'
  <2> DEFINE p == cur_process
             s == StackOf(p)
             u == Beneath(p)
  <2>1. /\ p \in Pid
        /\ UNCHANGED << sche_term, exception_flag, eax >>
        /\ parent_pid[p] = NONE
    BY <1>7 DEF HaltBase, HaltsWith, Up
  <2>2. s \in Pid /\ u \in Seq(Frame)
    BY <2>1, StackType
  <2>3. Released(p) \in [Pid -> {0, 1}] /\ Free(Released(p)) # {}
    BY <2>1 DEF Released, Free
  <2>4. PICK found \in ShellLookup :
          IF found
          THEN /\ StartProcess(sche_term, NONE, Released(p), s, u)
               /\ sche_ebp' = NewPcb(Released(p), sche_ebp)
               /\ lost' = FALSE
          ELSE /\ process_array' = Released(p)
               /\ cur_process' = NONE
               /\ lost' = TRUE
               /\ UNCHANGED << parent_pid, active_array, home, page_dir, esp0,
                               frames, pc >>
    BY <1>7 DEF HaltBase
  <2>5. CASE found
    <3> HIDE DEF s, u
    <3>0. sche_ebp' = NewPcb(Released(p), sche_ebp)
      BY <2>4, <2>5
    <3>1. sche_ebp' \in [Pid -> Address]
      BY <2>3, <3>0, NewPcbType
    <3>2. cur_process' \in Pid
      BY <2>1, <2>2, <2>3, <2>4, <2>5, StartProcessType
    <3>3. TypeOK'
      BY <2>1, <2>2, <2>3, <2>4, <2>5, <3>1, StartProcessType
    <3> QED BY <3>2, <3>3, ConstantFacts DEF BootFree
  <2>6. CASE ~found
    BY <2>1, <2>3, <2>4, <2>6 DEF frames, BootFree
  <2> QED BY <2>5, <2>6
<1>8. CASE PitSwitch
  <2> DEFINE t == NextTerminal(sche_term)
             q == active_array[t]
  <2>1. /\ cur_process \in Pid
        /\ t \in Terminal
        /\ q \in Pid
        /\ sche_ebp' = SavedEbps
        /\ sche_term' = t
        /\ cur_process' = q
        /\ page_dir' = q
        /\ esp0' = q
        /\ lost' \in BOOLEAN
        /\ kstack' = Discard(SavedStacks, SavedEbps[q])
        /\ UNCHANGED << tables, exe_ebp, pc, exception_flag, eax >>
    BY <1>8, ConstantFacts DEF PitSwitch, TickTaken, Up, Esp0Of
  <2>2. SavedEbps \in [Pid -> Address] /\ SavedStacks \in [Pid -> Seq(Frame)]
    BY <2>1, StackType
  <2>3. kstack' \in [Pid -> Seq(Frame)]
    BY <2>1, <2>2, DiscardType
  <2> QED BY <2>1, <2>2, <2>3, ConstantFacts DEF tables, BootFree
<1>9. CASE PitLaunch
  <2> DEFINE t == NextTerminal(sche_term)
             s == StackOf(cur_process)
  <2>1. /\ cur_process \in Pid
        /\ t \in Terminal
        /\ sche_term' = t
        /\ UNCHANGED << exception_flag, eax >>
    BY <1>9, ConstantFacts DEF PitLaunch, TickTaken, Up
  <2>2. /\ s \in Pid
        /\ SavedEbps \in [Pid -> Address]
        /\ SavedStacks \in [Pid -> Seq(Frame)]
        /\ SavedStacks[s] \in Seq(Frame)
    BY <2>1, StackType
  <2>3. PICK found \in ShellLookup :
          IF found /\ Free(process_array) # {}
          THEN /\ StartProcess(t, NONE, process_array, s, SavedStacks[s])
               /\ sche_ebp' = NewPcb(process_array, SavedEbps)
               /\ lost' = FALSE
          ELSE /\ cur_process' = NONE
               /\ lost' = TRUE
               /\ kstack' = SavedStacks
               /\ sche_ebp' = SavedEbps
               /\ UNCHANGED << tables, page_dir, esp0, exe_ebp, pc >>
    BY <1>9 DEF PitLaunch
  <2> HIDE DEF t, s
  <2>4. CASE found /\ Free(process_array) # {}
    <3>0. sche_ebp' = NewPcb(process_array, SavedEbps)
      BY <2>3, <2>4
    <3>1. sche_ebp' \in [Pid -> Address]
      BY <2>2, <2>4, <3>0, NewPcbType
    <3>2. cur_process' \in Pid
      BY <2>1, <2>2, <2>3, <2>4, StartProcessType
    <3>3. TypeOK'
      BY <2>1, <2>2, <2>3, <2>4, <3>1, StartProcessType
    <3> QED BY <3>2, <3>3, ConstantFacts DEF BootFree
  <2>5. CASE ~(found /\ Free(process_array) # {})
    BY <2>1, <2>2, <2>3, <2>5 DEF tables, BootFree
  <2> QED BY <2>4, <2>5
<1>10. CASE UNCHANGED vars
  BY <1>10 DEF vars, tables, cpu, frames, BootFree
<1> QED BY <1>1, <1>2, <1>3, <1>4, <1>5, <1>6, <1>7, <1>8, <1>9, <1>10
        DEF Next, Pit

LEMMA InitType ==
    ASSUME Init
    PROVE  TypeInv
<1>1. /\ kstack \in [Pid -> Seq(Frame)]
      /\ sche_ebp \in [Pid -> Address]
      /\ exe_ebp \in [Pid -> Address]
  BY NoFrameType DEF Init
<1>2. eax \in Status
  BY ConstantsAssumption DEF Init
<1> QED BY <1>1, <1>2, ConstantFacts DEF Init, TypeInv, TypeOK, BootFree

\* TypeOK holds in every state, for every environment.
THEOREM TypeCorrect == Spec => []TypeOK
<1>1. Init => TypeInv
  BY InitType
<1>2. TypeInv /\ [Next]_vars => TypeInv'
  BY TypeStep
<1>3. TypeInv => TypeOK
  BY DEF TypeInv
<1> QED BY <1>1, <1>2, <1>3, PTL DEF Spec

----------------------------------------------------------------------------
(* Safety                                                                  *)

\* No command before the base shells are up, no tick at the sti of a base shell
\* that the scheduler starts, and the file "shell" stays what it is.
Quiet == Env \cap {"EarlyCommand", "LaunchPreempt", "ShellRemoved"} = {}

----------------------------------------------------------------------------
(* The inductive invariant                                                 *)

\* Before Boot nothing is running and nothing is taken.
BeforeBoot ==
    cur_process = NONE =>
      /\ sche_term = 0
      /\ \A p \in Pid : process_array[p] = 0 /\ parent_pid[p] = NONE
      /\ \A t \in Terminal : active_array[t] = NONE

\* While base shells are missing, the taken slots are those of the base shells
\* of the terminals up to the current one.
Booting ==
    cur_process # NONE /\ ~BaseShellsUp =>
      /\ \A t \in Terminal : active_array[t] # NONE <=> t <= sche_term
      /\ \A p \in Pid : Busy(p) <=> p <= sche_term

\* A free slot is nobody's.
FreeSlots ==
    \A p \in Pid : ~Busy(p) => /\ parent_pid[p] = NONE
                               /\ \A t \in Terminal : active_array[t] # p

\* A terminal that is up has its base shell, with its own number as pid, and an
\* active process, which was executed there.
UpTerminals ==
    \A t \in Terminal : active_array[t] # NONE =>
      /\ Busy(t) /\ parent_pid[t] = NONE
      /\ Busy(active_array[t]) /\ home[active_array[t]] = t

\* A process without a parent is the base shell of its terminal.
BaseShells ==
    \A p \in Pid : Busy(p) /\ parent_pid[p] = NONE => p \in Terminal /\ home[p] = p

\* A parent waits: it is on its child's terminal, is not active, is in no
\* exception and not on its way to user mode; and it has one child.
Parents ==
    \A c \in Pid : Busy(c) /\ parent_pid[c] # NONE =>
      /\ Busy(parent_pid[c])
      /\ home[parent_pid[c]] = home[c]
      /\ active_array[home[c]] # parent_pid[c]
      /\ pc[parent_pid[c]] = "run"
      /\ \A d \in Pid : Busy(d) /\ parent_pid[d] = parent_pid[c] => d = c

\* Who is not active waits for a child.
Waiting ==
    \A p \in Pid : Busy(p) =>
      \/ active_array[home[p]] = p
      \/ \E c \in Pid : Busy(c) /\ parent_pid[c] = p

\* Where execute's frames are.
ExeFrames ==
    \A p \in Pid : Busy(p) =>
      /\ parent_pid[p] # NONE =>
           exe_ebp[p].stack = parent_pid[p] /\ exe_ebp[p].depth = 1
      /\ parent_pid[p] = NONE /\ pc[p] = "iret" /\ p # cur_process =>
           exe_ebp[p].stack = p
      /\ parent_pid[p] # NONE \/ pc[p] = "iret" =>
           Holds(kstack, exe_ebp[p], Exe(p))

\* p is the active process of a terminal whose turn it is not.
Preempted(p) == Busy(p) /\ p # cur_process /\ active_array[home[p]] = p

\* Where the scheduler's frames are.
ScheFrames ==
    \A p \in Pid : Preempted(p) =>
      /\ Holds(kstack, sche_ebp[p], Sche(p))
      /\ IF pc[p] = "iret"
         THEN /\ sche_ebp[p].stack = exe_ebp[p].stack
              /\ sche_ebp[p].depth = exe_ebp[p].depth + 1
         ELSE sche_ebp[p].stack = p

\* Who is about to leave execute is right above execute's frame.
OnTop ==
    cur_process # NONE /\ pc[cur_process] = "iret" =>
      Len(kstack[exe_ebp[cur_process].stack]) = exe_ebp[cur_process].depth

Tree == FreeSlots /\ UpTerminals /\ BaseShells /\ Parents /\ Waiting

Stacks == ExeFrames /\ ScheFrames /\ OnTop

IInv == TypeOK /\ NeverLost /\ BeforeBoot /\ Booting /\ Running /\ Tree /\ Stacks

----------------------------------------------------------------------------
(* Lemmas about saved frames                                               *)

\* Writing one stack leaves the frames on the others alone.
LEMMA HoldsElsewhere ==
    ASSUME NEW K \in [Pid -> Seq(Frame)], NEW s, NEW v, NEW a \in Address,
           a.stack # s, NEW f
    PROVE  Holds([K EXCEPT ![s] = v], a, f) <=> Holds(K, a, f)
BY DEF Holds, Address

\* Saving a frame on top of a stack leaves what is below alone.
LEMMA HoldsBelow ==
    ASSUME NEW K \in [Pid -> Seq(Frame)], NEW s \in Pid, NEW g \in Frame,
           NEW a \in Address, NEW f, Holds(K, a, f)
    PROVE  Holds([K EXCEPT ![s] = Append(K[s], g)], a, f)
<1>1. CASE a.stack # s
  BY <1>1, HoldsElsewhere
<1>2. CASE a.stack = s
  <2>1. K[s] \in Seq(Frame) /\ a.depth \in 1 .. Len(K[s]) /\ K[s][a.depth] = f
    BY <1>2 DEF Holds
  <2>2. Append(K[s], g)[a.depth] = f /\ a.depth \in 1 .. Len(Append(K[s], g))
    BY <2>1
  <2> QED BY <1>2, <2>2 DEF Holds
<1> QED BY <1>1, <1>2

\* A frame just saved is there.
LEMMA HoldsTop ==
    ASSUME NEW K \in [Pid -> Seq(Frame)], NEW s \in Pid, NEW u \in Seq(Frame),
           NEW g \in Frame
    PROVE  /\ Holds([K EXCEPT ![s] = Append(u, g)],
                    [stack |-> s, depth |-> Len(u) + 1], g)
           /\ Len([K EXCEPT ![s] = Append(u, g)][s]) = Len(u) + 1
           /\ [K EXCEPT ![s] = Append(u, g)] \in [Pid -> Seq(Frame)]
<1>1. /\ Append(u, g)[Len(u) + 1] = g
      /\ Len(Append(u, g)) = Len(u) + 1
      /\ Len(u) \in Nat
      /\ Append(u, g) \in Seq(Frame)
  OBVIOUS
<1>2. [K EXCEPT ![s] = Append(u, g)][s] = Append(u, g)
  OBVIOUS
<1>3. [K EXCEPT ![s] = Append(u, g)] \in [Pid -> Seq(Frame)]
  BY <1>1
<1> QED BY <1>1, <1>2, <1>3 DEF Holds

\* Going back to the frame at a leaves the frames on other stacks, and those
\* below it, alone.
LEMMA HoldsDiscard ==
    ASSUME NEW K \in [Pid -> Seq(Frame)], NEW a \in Address, NEW b \in Address,
           NEW g, Holds(K, b, g),
           b.stack # a.stack \/ b.depth < a.depth
    PROVE  Holds(Discard(K, a), b, g)
<1>1. /\ a.stack \in Pid /\ a.depth \in Nat
      /\ b.stack \in Pid /\ b.depth \in Nat
  BY DEF Address
<1>2. CASE b.stack # a.stack
  BY <1>1, <1>2, HoldsElsewhere DEF Discard
<1>3. CASE b.stack = a.stack /\ b.depth < a.depth
  <2> DEFINE k == K[a.stack]
  <2>1. k \in Seq(Frame) /\ b.depth \in 1 .. Len(k) /\ k[b.depth] = g
    BY <1>1, <1>3 DEF Holds
  <2>2. Discard(K, a)[a.stack] =
          IF a.depth <= Len(k) THEN SubSeq(k, 1, a.depth - 1) ELSE k
    BY <1>1 DEF Discard
  <2> HIDE DEF k
  <2>3. CASE a.depth <= Len(k)
    <3>1. \A i \in 1 .. a.depth - 1 : k[i] \in Frame
      BY <1>1, <2>1, <2>3, ElementOfSeq
    <3>2. /\ Len(SubSeq(k, 1, a.depth - 1)) =
               IF 1 <= a.depth - 1 THEN a.depth - 1 ELSE 0
          /\ SubSeq(k, 1, a.depth - 1)[b.depth] = k[b.depth]
      BY <1>1, <1>3, <2>1, <3>1, SubSeqProperties
    <3>3. b.depth \in 1 .. Len(SubSeq(k, 1, a.depth - 1))
      BY <1>1, <1>3, <2>1, <3>2
    <3>4. Discard(K, a)[b.stack] = SubSeq(k, 1, a.depth - 1)
      BY <1>3, <2>2, <2>3
    <3> QED BY <2>1, <3>2, <3>3, <3>4 DEF Holds
  <2>4. CASE ~(a.depth <= Len(k))
    BY <1>3, <2>1, <2>2, <2>4 DEF Holds
  <2> QED BY <2>3, <2>4
<1> QED BY <1>2, <1>3

LEMMA LenDiscard ==
    ASSUME NEW K \in [Pid -> Seq(Frame)], NEW a \in Address, NEW f, Holds(K, a, f)
    PROVE  Len(Discard(K, a)[a.stack]) = a.depth - 1
<1> DEFINE k == K[a.stack]
<1>1. /\ a.stack \in Pid /\ a.depth \in Nat
      /\ k \in Seq(Frame) /\ a.depth \in 1 .. Len(k)
  BY DEF Address, Holds
<1>2. Discard(K, a)[a.stack] = SubSeq(k, 1, a.depth - 1)
  BY <1>1 DEF Discard
<1> HIDE DEF k
<1>3. \A i \in 1 .. a.depth - 1 : k[i] \in Frame
  BY <1>1, ElementOfSeq
<1>4. Len(SubSeq(k, 1, a.depth - 1)) = IF 1 <= a.depth - 1 THEN a.depth - 1 ELSE 0
  BY <1>1, <1>3, SubSeqProperties
<1> QED BY <1>1, <1>2, <1>4

----------------------------------------------------------------------------
(* What the running process can do to the frames of the others             *)

\* Who needs the frame execute saved for it.
NeedsExe(p) == Busy(p) /\ (parent_pid[p] # NONE \/ pc[p] = "iret")

\* No frame that is still needed is on the stack of a running process that
\* uses its own stack.
LEMMA OwnStackUnneeded ==
    ASSUME IInv, Up, pc[cur_process] # "iret", NEW p \in Pid
    PROVE  /\ NeedsExe(p) => exe_ebp[p].stack # cur_process
           /\ Preempted(p) => sche_ebp[p].stack # cur_process
<1>1. /\ cur_process \in Pid
      /\ active_array[home[cur_process]] = cur_process
  BY DEF IInv, TypeOK, Up, Running
<1>2. ASSUME Busy(p), parent_pid[p] # NONE
      PROVE  parent_pid[p] # cur_process
  BY <1>1, <1>2 DEF IInv, Tree, Parents
<1>3. ASSUME NeedsExe(p) PROVE exe_ebp[p].stack # cur_process
  BY <1>2, <1>3 DEF IInv, Stacks, ExeFrames, NeedsExe
<1>4. ASSUME Preempted(p) PROVE sche_ebp[p].stack # cur_process
  BY <1>3, <1>4 DEF IInv, Stacks, ScheFrames, NeedsExe, Preempted
<1> QED BY <1>3, <1>4

\* A frame the running process saves on the stack it is on destroys none that
\* is still needed.
LEMMA PushKeeps ==
    ASSUME IInv, Up, NEW g \in Frame, NEW p \in Pid, NEW K,
           K = [kstack EXCEPT ![StackOf(cur_process)] =
                  Append(Beneath(cur_process), g)]
    PROVE  /\ NeedsExe(p) => Holds(K, exe_ebp[p], Exe(p))
           /\ Preempted(p) => Holds(K, sche_ebp[p], Sche(p))
<1>1. /\ cur_process \in Pid
      /\ kstack \in [Pid -> Seq(Frame)]
      /\ exe_ebp[p] \in Address /\ sche_ebp[p] \in Address
      /\ StackOf(cur_process) \in Pid
  BY StackType DEF IInv, TypeOK, Up
<1>2. /\ NeedsExe(p) => Holds(kstack, exe_ebp[p], Exe(p))
      /\ Preempted(p) => Holds(kstack, sche_ebp[p], Sche(p))
  BY DEF IInv, Stacks, ExeFrames, ScheFrames, NeedsExe
<1>3. CASE pc[cur_process] = "iret"
  <2>1. K = [kstack EXCEPT ![StackOf(cur_process)] =
               Append(kstack[StackOf(cur_process)], g)]
    BY <1>3 DEF Beneath
  <2>2. ASSUME NEW a \in Address, NEW f, Holds(kstack, a, f)
        PROVE  Holds(K, a, f)
    <3> DEFINE s == StackOf(cur_process)
    <3>1. s \in Pid /\ K = [kstack EXCEPT ![s] = Append(kstack[s], g)]
      BY <1>1, <2>1
    <3> HIDE DEF s
    <3>2. Holds([kstack EXCEPT ![s] = Append(kstack[s], g)], a, f)
      BY <1>1, <2>2, <3>1, HoldsBelow
    <3> QED BY <3>1, <3>2
  <2> QED BY <1>1, <1>2, <2>2
<1>4. CASE pc[cur_process] # "iret"
  <2>1. StackOf(cur_process) = cur_process
    BY <1>4 DEF StackOf
  <2> QED BY <1>1, <1>2, <1>4, <2>1, OwnStackUnneeded, HoldsElsewhere
<1> QED BY <1>3, <1>4

\* Neither does an entry from user mode that saves no frame.
LEMMA ClearKeeps ==
    ASSUME IInv, Up, pc[cur_process] # "iret", NEW p \in Pid
    PROVE  /\ NeedsExe(p) =>
                Holds([kstack EXCEPT ![cur_process] = << >>], exe_ebp[p], Exe(p))
           /\ Preempted(p) =>
                Holds([kstack EXCEPT ![cur_process] = << >>], sche_ebp[p], Sche(p))
<1>1. /\ kstack \in [Pid -> Seq(Frame)]
      /\ exe_ebp[p] \in Address /\ sche_ebp[p] \in Address
  BY DEF IInv, TypeOK
<1>2. /\ NeedsExe(p) => Holds(kstack, exe_ebp[p], Exe(p))
      /\ Preempted(p) => Holds(kstack, sche_ebp[p], Sche(p))
  BY DEF IInv, Stacks, ExeFrames, ScheFrames, NeedsExe
<1> QED BY <1>1, <1>2, OwnStackUnneeded, HoldsElsewhere

----------------------------------------------------------------------------
(* One lemma per action                                                    *)

\* Boot: the first shell, in slot 0.
LEMMA BootKeeps ==
    ASSUME IInv, Boot, TypeOK'
    PROVE  IInv'
<1>1. /\ cur_process = NONE /\ sche_term = 0
      /\ \A p \in Pid : process_array[p] = 0 /\ parent_pid[p] = NONE
      /\ \A t \in Terminal : active_array[t] = NONE
      /\ kstack \in [Pid -> Seq(Frame)]
  BY DEF Boot, IInv, BeforeBoot, TypeOK
<1>2. FirstFree(process_array) = 0
  <2>1. Free(process_array) # {}
    BY <1>1, ConstantFacts DEF Free
  <2>2. FirstFree(process_array) \in Nat /\ FirstFree(process_array) <= 0
    BY <1>1, <2>1, ConstantFacts, FirstFreeLeast
  <2> QED BY <2>2
<1>3. /\ process_array' = [process_array EXCEPT ![0] = 1]
      /\ active_array' = [active_array EXCEPT ![0] = 0]
      /\ parent_pid' = [parent_pid EXCEPT ![0] = NONE]
      /\ home' = [home EXCEPT ![0] = 0]
      /\ cur_process' = 0 /\ page_dir' = 0 /\ esp0' = 0
      /\ kstack' = [kstack EXCEPT ![0] = Append(<< >>, Exe(0))]
      /\ exe_ebp' = [exe_ebp EXCEPT ![0] = [stack |-> 0, depth |-> 1]]
      /\ pc' = [pc EXCEPT ![0] = "iret"]
      /\ sche_term' = 0 /\ lost' = lost
  BY <1>1, <1>2 DEF Boot, StartProcess, ParentOf
<1>4. Holds(kstack', [stack |-> 0, depth |-> 1], Exe(0)) /\ Len(kstack'[0]) = 1
  <2>1. Exe(0) \in Frame /\ << >> \in Seq(Frame) /\ 0 \in Pid
    BY ConstantFacts DEF Exe, Frame
  <2>2. Len(<< >>) + 1 = 1
    OBVIOUS
  <2> QED BY <1>1, <1>3, <2>1, <2>2, HoldsTop
<1>5. \A p \in Pid : Busy(p)' <=> p = 0
  BY <1>1, <1>3 DEF Busy, IInv, TypeOK
<1>6. active_array'[0] = 0 /\ \A t \in Terminal : t # 0 => active_array'[t] = NONE
  BY <1>1, <1>3, ConstantFacts DEF IInv, TypeOK
<1>7. \A p \in Pid : parent_pid'[p] = NONE
  BY <1>1, <1>3, ConstantFacts DEF IInv, TypeOK
<1>8. home'[0] = 0 /\ pc'[0] = "iret" /\ exe_ebp'[0] = [stack |-> 0, depth |-> 1]
  BY <1>3, ConstantFacts DEF IInv, TypeOK
<1>9. NeverLost' /\ BeforeBoot' /\ Running'
  BY <1>3, <1>5, <1>6, <1>8, ConstantFacts
     DEF IInv, NeverLost, BeforeBoot, Running, NONE
<1>10. Booting'
  BY <1>3, <1>5, <1>6, ConstantFacts DEF Booting
<1>11. Tree'
  BY <1>3, <1>5, <1>6, <1>7, <1>8, ConstantFacts
     DEF Tree, FreeSlots, UpTerminals, BaseShells, Parents, Waiting
<1>12. ExeFrames'
  BY <1>3, <1>4, <1>5, <1>7, <1>8, ConstantFacts DEF ExeFrames
<1>13. ScheFrames'
  BY <1>3, <1>5 DEF ScheFrames, Preempted
<1>14. OnTop'
  <2>1. cur_process' = 0
    BY <1>3
  <2>2. exe_ebp'[0].stack = 0 /\ exe_ebp'[0].depth = 1
    BY <1>8
  <2>3. Len(kstack'[0]) = 1
    BY <1>4
  <2> QED BY <2>1, <2>2, <2>3 DEF OnTop
<1> QED BY <1>9, <1>10, <1>11, <1>12, <1>13, <1>14 DEF IInv, Stacks

\* Execute: the new process takes a slot that is nobody's, and its caller waits.
LEMMA ExecuteKeeps ==
    ASSUME Quiet, IInv, Execute, TypeOK'
    PROVE  IInv'
<1> DEFINE c == cur_process
           n == FirstFree(process_array)
<1>1. /\ c \in Pid /\ c # NONE
      /\ n \in Pid /\ ~Busy(n)
      /\ BaseShellsUp
      /\ pc[c] = "run"
      /\ Up
      /\ active_array[sche_term] = c /\ home[c] = sche_term /\ Busy(c)
      /\ sche_term \in Terminal
  BY FirstFreeLeast DEF Execute, Up, IInv, TypeOK, Quiet, Running, Busy
<1>2. /\ process_array' = [process_array EXCEPT ![n] = 1]
      /\ active_array' = [active_array EXCEPT ![sche_term] = n]
      /\ parent_pid' = [parent_pid EXCEPT ![n] = c]
      /\ home' = [home EXCEPT ![n] = sche_term]
      /\ cur_process' = n /\ page_dir' = n /\ esp0' = n
      /\ kstack' = [kstack EXCEPT ![c] = Append(<< >>, Exe(n))]
      /\ exe_ebp' = [exe_ebp EXCEPT ![n] = [stack |-> c, depth |-> 1]]
      /\ pc' = [pc EXCEPT ![n] = "iret"]
      /\ sche_ebp' = [sche_ebp EXCEPT ![n] = NoFrame(n)]
      /\ sche_term' = sche_term /\ lost' = lost
  BY DEF Execute, StartProcess, ParentOf, NewPcb
<1> HIDE DEF n
<1>3. /\ StackOf(c) = c /\ Beneath(c) = << >>
      /\ Exe(n) \in Frame /\ << >> \in Seq(Frame)
  BY <1>1 DEF StackOf, Beneath, Exe, Frame
<1>4. Holds(kstack', [stack |-> c, depth |-> 1], Exe(n)) /\ Len(kstack'[c]) = 1
  <2>1. Len(<< >>) + 1 = 1 /\ kstack \in [Pid -> Seq(Frame)]
    BY DEF IInv, TypeOK
  <2> QED BY <1>1, <1>2, <1>3, <2>1, HoldsTop
<1>5. ASSUME NEW p \in Pid
      PROVE  /\ NeedsExe(p) => Holds(kstack', exe_ebp[p], Exe(p))
             /\ Preempted(p) => Holds(kstack', sche_ebp[p], Sche(p))
  <2>1. kstack' = [kstack EXCEPT ![StackOf(c)] = Append(Beneath(c), Exe(n))]
    BY <1>2, <1>3
  <2> QED BY <1>1, <1>3, <2>1, PushKeeps
<1>6. /\ \A p \in Pid : Busy(p)' <=> Busy(p) \/ p = n
      /\ n # c /\ process_array'[c] = 1 /\ process_array'[n] = 1
  <2>1. process_array' = [process_array EXCEPT ![n] = 1]
    BY <1>2
  <2>2. \A p \in Pid : process_array'[p] = IF p = n THEN 1 ELSE process_array[p]
    BY <2>1 DEF IInv, TypeOK
  <2> QED BY <1>1, <2>2 DEF Busy
<1>7. /\ active_array'[sche_term] = n
      /\ \A t \in Terminal : t # sche_term => active_array'[t] = active_array[t]
      /\ home'[n] = sche_term /\ parent_pid'[n] = c /\ pc'[n] = "iret"
      /\ exe_ebp'[n] = [stack |-> c, depth |-> 1]
      /\ \A p \in Pid : p # n => /\ home'[p] = home[p]
                                 /\ parent_pid'[p] = parent_pid[p]
                                 /\ pc'[p] = pc[p]
                                 /\ exe_ebp'[p] = exe_ebp[p]
                                 /\ sche_ebp'[p] = sche_ebp[p]
  BY <1>1, <1>2 DEF IInv, TypeOK
<1>8. \A p \in Pid : Busy(p) /\ parent_pid[p] # NONE =>
        parent_pid[p] # n /\ parent_pid[p] # c /\ parent_pid[p] \in Pid
  BY <1>1 DEF IInv, TypeOK, Tree, Parents
<1>9. \A t \in Terminal : active_array[t] # n /\ active_array[t] # NONE
  BY <1>1 DEF IInv, Tree, FreeSlots, BaseShellsUp
<1>10. \A t \in Terminal : active_array[t] \in Pid /\ home[active_array[t]] = t
                           /\ Busy(active_array[t])
  BY <1>9 DEF IInv, TypeOK, Tree, UpTerminals
<1>11. /\ cur_process' = n /\ page_dir' = n /\ esp0' = n
       /\ sche_term' = sche_term /\ lost' = lost
  BY <1>2
<1>12. NeverLost' /\ BeforeBoot' /\ Running'
  BY <1>1, <1>6, <1>7, <1>11, ConstantFacts
     DEF IInv, NeverLost, BeforeBoot, Running
<1>13. Booting'
  BY <1>1, <1>7, <1>9, ConstantFacts DEF Booting, BaseShellsUp
<1>14. FreeSlots'
  BY <1>1, <1>6, <1>7 DEF IInv, Tree, FreeSlots
<1>15. UpTerminals'
  <2>1. ASSUME NEW t \in Terminal
        PROVE  /\ Busy(t)' /\ parent_pid'[t] = NONE
               /\ process_array'[active_array'[t]] = 1
               /\ home'[active_array'[t]] = t
    <3>1. t \in Pid /\ Busy(t) /\ parent_pid[t] = NONE /\ t # n
      BY <1>1, <1>9, ConstantFacts DEF IInv, Tree, UpTerminals
    <3>2. Busy(t)' /\ parent_pid'[t] = NONE
      BY <1>6, <1>7, <3>1
    <3>3. CASE t = sche_term
      BY <1>1, <1>6, <1>7, <3>2, <3>3 DEF Busy
    <3>4. CASE t # sche_term
      BY <1>6, <1>7, <1>9, <1>10, <3>2, <3>4 DEF Busy
    <3> QED BY <3>3, <3>4
  <2> QED BY <2>1 DEF UpTerminals, Busy
<1>16. BaseShells'
  BY <1>1, <1>6, <1>7 DEF IInv, Tree, BaseShells
<1>17. Parents'
  <2>1. ASSUME NEW d \in Pid, Busy(d)', parent_pid'[d] # NONE
        PROVE  /\ process_array'[parent_pid'[d]] = 1
               /\ home'[parent_pid'[d]] = home'[d]
               /\ active_array'[home'[d]] # parent_pid'[d]
               /\ pc'[parent_pid'[d]] = "run"
               /\ \A e \in Pid :
                    Busy(e)' /\ parent_pid'[e] = parent_pid'[d] => e = d
    <3>1. CASE d = n
      <4>1. parent_pid'[d] = c /\ home'[c] = sche_term /\ pc'[c] = "run"
        BY <1>1, <1>6, <1>7, <3>1
      <4>2. \A e \in Pid : Busy(e)' /\ parent_pid'[e] = c => e = d
        BY <1>1, <1>6, <1>7, <1>8, <3>1
      <4>3. process_array'[c] = 1 /\ home'[d] = sche_term
        BY <1>6, <1>7, <3>1 DEF Busy
      <4>4. active_array'[sche_term] # c
        BY <1>6, <1>7
      <4> QED BY <4>1, <4>2, <4>3, <4>4
    <3>2. CASE d # n
      <4>1. /\ Busy(d) /\ parent_pid'[d] = parent_pid[d] /\ parent_pid[d] # NONE
            /\ home'[d] = home[d] /\ home[d] \in Terminal
            /\ parent_pid[d] \in Pid
        BY <1>6, <1>7, <2>1, <3>2 DEF IInv, TypeOK
      <4>2. /\ Busy(parent_pid[d])
            /\ home[parent_pid[d]] = home[d]
            /\ active_array[home[d]] # parent_pid[d]
            /\ pc[parent_pid[d]] = "run"
            /\ \A e \in Pid : Busy(e) /\ parent_pid[e] = parent_pid[d] => e = d
        BY <4>1 DEF IInv, Tree, Parents
      <4>3. parent_pid[d] # n /\ parent_pid[d] # c
        BY <1>8, <4>1
      <4>4. /\ process_array'[parent_pid[d]] = 1
            /\ home'[parent_pid[d]] = home[d]
            /\ pc'[parent_pid[d]] = "run"
        BY <1>6, <1>7, <4>1, <4>2, <4>3 DEF Busy
      <4>5. active_array'[home[d]] # parent_pid[d]
        BY <1>7, <4>1, <4>2, <4>3
      <4>6. \A e \in Pid : Busy(e)' /\ parent_pid'[e] = parent_pid[d] => e = d
        BY <1>6, <1>7, <4>2, <4>3
      <4> QED BY <4>1, <4>4, <4>5, <4>6
    <3> QED BY <3>1, <3>2
  <2> QED BY <2>1 DEF Parents, Busy
<1>18. Waiting'
  <2>1. ASSUME NEW p \in Pid, Busy(p)'
        PROVE  \/ active_array'[home'[p]] = p
               \/ \E d \in Pid : Busy(d)' /\ parent_pid'[d] = p
    <3>1. CASE p = n
      BY <1>7, <3>1
    <3>2. CASE p = c
      BY <1>1, <1>6, <1>7, <3>2
    <3>3. CASE p # n /\ p # c
      <4>1. /\ Busy(p) /\ home[p] \in Terminal
            /\ \/ active_array[home[p]] = p
               \/ \E d \in Pid : Busy(d) /\ parent_pid[d] = p
        BY <1>6, <2>1, <3>3 DEF IInv, TypeOK, Tree, Waiting
      <4>2. CASE active_array[home[p]] = p
        BY <1>1, <1>7, <3>3, <4>1, <4>2
      <4>3. CASE \E d \in Pid : Busy(d) /\ parent_pid[d] = p
        BY <1>1, <1>6, <1>7, <4>3
      <4> QED BY <4>1, <4>2, <4>3
    <3> QED BY <3>1, <3>2, <3>3
  <2> QED BY <2>1 DEF Waiting
<1>19. ExeFrames'
  <2>1. ASSUME NEW p \in Pid, Busy(p)'
        PROVE  /\ parent_pid'[p] # NONE =>
                    exe_ebp'[p].stack = parent_pid'[p] /\ exe_ebp'[p].depth = 1
               /\ parent_pid'[p] = NONE /\ pc'[p] = "iret" /\ p # cur_process'
                    => exe_ebp'[p].stack = p
               /\ parent_pid'[p] # NONE \/ pc'[p] = "iret" =>
                    Holds(kstack', exe_ebp'[p], Exe(p))
    <3>1. CASE p = n
      BY <1>1, <1>4, <1>7, <3>1
    <3>2. CASE p # n
      <4>1. /\ Busy(p) /\ parent_pid'[p] = parent_pid[p]
            /\ pc'[p] = pc[p] /\ exe_ebp'[p] = exe_ebp[p]
        BY <1>6, <1>7, <2>1, <3>2
      <4>2. parent_pid[p] = NONE /\ pc[p] = "iret" => p # c
        BY <1>1
      <4>3. NeedsExe(p) => Holds(kstack', exe_ebp[p], Exe(p))
        BY <1>5
      <4> QED BY <4>1, <4>2, <4>3 DEF IInv, Stacks, ExeFrames, NeedsExe
    <3> QED BY <3>1, <3>2
  <2> QED BY <2>1 DEF ExeFrames
<1>20. ScheFrames'
  <2>1. ASSUME NEW p \in Pid, Preempted(p)'
        PROVE  /\ Holds(kstack', sche_ebp'[p], Sche(p))
               /\ IF pc'[p] = "iret"
                  THEN /\ sche_ebp'[p].stack = exe_ebp'[p].stack
                       /\ sche_ebp'[p].depth = exe_ebp'[p].depth + 1
                  ELSE sche_ebp'[p].stack = p
    <3>1. Busy(p)' /\ p # n /\ active_array'[home'[p]] = p
      BY <1>11, <2>1 DEF Preempted
    <3>2. Busy(p) /\ home'[p] = home[p] /\ home[p] \in Terminal
      BY <1>6, <1>7, <3>1 DEF IInv, TypeOK
    <3>3. Preempted(p)
      BY <1>1, <1>7, <3>1, <3>2 DEF Preempted
    <3>4. pc'[p] = pc[p] /\ exe_ebp'[p] = exe_ebp[p] /\ sche_ebp'[p] = sche_ebp[p]
      BY <1>7, <3>1
    <3> QED BY <1>5, <3>3, <3>4 DEF IInv, Stacks, ScheFrames
  <2> QED BY <2>1 DEF ScheFrames
<1>21. OnTop'
  <2>1. exe_ebp'[n].stack = c /\ exe_ebp'[n].depth = 1
    BY <1>7
  <2>2. Len(kstack'[c]) = 1
    BY <1>4
  <2> QED BY <1>11, <2>1, <2>2 DEF OnTop
<1> QED BY <1>12, <1>13, <1>14, <1>15, <1>16, <1>17, <1>18, <1>19, <1>20, <1>21
        DEF IInv, Tree, Stacks

\* A step in which only the running process changes where it is, and does not go
\* into execute.
LEMMA OwnStepKeeps ==
    ASSUME IInv, Up, TypeOK',
           UNCHANGED << tables, cpu, sche_ebp, exe_ebp, lost >>,
           pc'[cur_process] # "iret",
           \A p \in Pid : p # cur_process => pc'[p] = pc[p],
           \A p \in Pid : /\ NeedsExe(p) => Holds(kstack', exe_ebp[p], Exe(p))
                          /\ Preempted(p) => Holds(kstack', sche_ebp[p], Sche(p))
    PROVE  IInv'
<1>1. /\ cur_process \in Pid
      /\ active_array[home[cur_process]] = cur_process
  BY DEF IInv, TypeOK, Up, Running
<1>2. /\ process_array' = process_array /\ parent_pid' = parent_pid
      /\ active_array' = active_array /\ home' = home
      /\ sche_term' = sche_term /\ cur_process' = cur_process
      /\ page_dir' = page_dir /\ esp0' = esp0 /\ lost' = lost
      /\ sche_ebp' = sche_ebp /\ exe_ebp' = exe_ebp
  BY DEF tables, cpu
<1>3. NeverLost' /\ BeforeBoot' /\ Running' /\ Booting'
  BY <1>2 DEF IInv, NeverLost, BeforeBoot, Running, Booting, Up, Busy, BaseShellsUp
<1>4. FreeSlots' /\ UpTerminals' /\ BaseShells' /\ Waiting'
  BY <1>2 DEF IInv, Tree, FreeSlots, UpTerminals, BaseShells, Waiting, Busy
<1>5. Parents'
  <2>1. ASSUME NEW c \in Pid, process_array[c] = 1, parent_pid[c] # NONE
        PROVE  /\ process_array[parent_pid[c]] = 1
               /\ home[parent_pid[c]] = home[c]
               /\ active_array[home[c]] # parent_pid[c]
               /\ pc'[parent_pid[c]] = "run"
               /\ \A d \in Pid :
                    process_array[d] = 1 /\ parent_pid[d] = parent_pid[c] => d = c
    <3>1. /\ process_array[parent_pid[c]] = 1
          /\ home[parent_pid[c]] = home[c]
          /\ active_array[home[c]] # parent_pid[c]
          /\ pc[parent_pid[c]] = "run"
          /\ \A d \in Pid :
               process_array[d] = 1 /\ parent_pid[d] = parent_pid[c] => d = c
      BY <2>1 DEF IInv, Tree, Parents, Busy
    <3>2. parent_pid[c] # cur_process /\ parent_pid[c] \in Pid
      BY <1>1, <2>1, <3>1 DEF IInv, TypeOK
    <3> QED BY <3>1, <3>2
  <2> QED BY <1>2, <2>1 DEF Parents, Busy
<1>6. ExeFrames'
  <2>1. ASSUME NEW p \in Pid, Busy(p)
        PROVE  /\ parent_pid[p] # NONE =>
                    exe_ebp[p].stack = parent_pid[p] /\ exe_ebp[p].depth = 1
               /\ parent_pid[p] = NONE /\ pc'[p] = "iret" /\ p # cur_process
                    => exe_ebp[p].stack = p
               /\ parent_pid[p] # NONE \/ pc'[p] = "iret" =>
                    Holds(kstack', exe_ebp[p], Exe(p))
    <3>1. /\ parent_pid[p] # NONE =>
               exe_ebp[p].stack = parent_pid[p] /\ exe_ebp[p].depth = 1
          /\ parent_pid[p] = NONE /\ pc[p] = "iret" /\ p # cur_process
               => exe_ebp[p].stack = p
      BY <2>1 DEF IInv, Stacks, ExeFrames
    <3>2. pc'[p] = "iret" => pc[p] = "iret" /\ p # cur_process
      OBVIOUS
    <3>3. NeedsExe(p) => Holds(kstack', exe_ebp[p], Exe(p))
      BY DEF NeedsExe, Preempted
    <3> QED BY <2>1, <3>1, <3>2, <3>3 DEF NeedsExe
  <2> QED BY <1>2, <2>1 DEF ExeFrames, Busy
<1>7. ScheFrames'
  <2>1. ASSUME NEW p \in Pid, Preempted(p)
        PROVE  /\ Holds(kstack', sche_ebp[p], Sche(p))
               /\ IF pc'[p] = "iret"
                  THEN /\ sche_ebp[p].stack = exe_ebp[p].stack
                       /\ sche_ebp[p].depth = exe_ebp[p].depth + 1
                  ELSE sche_ebp[p].stack = p
    <3>1. pc'[p] = pc[p]
      BY <2>1 DEF Preempted
    <3>2. IF pc[p] = "iret"
          THEN /\ sche_ebp[p].stack = exe_ebp[p].stack
               /\ sche_ebp[p].depth = exe_ebp[p].depth + 1
          ELSE sche_ebp[p].stack = p
      BY <2>1 DEF IInv, Stacks, ScheFrames
    <3>3. Holds(kstack', sche_ebp[p], Sche(p))
      BY <2>1 DEF NeedsExe, Preempted
    <3> QED BY <3>1, <3>2, <3>3
  <2> QED BY <1>2, <2>1 DEF ScheFrames, Preempted, Busy
<1>8. OnTop'
  BY <1>2 DEF OnTop
<1> QED BY <1>3, <1>4, <1>5, <1>6, <1>7, <1>8 DEF IInv, Tree, Stacks

LEMMA ExecuteFailsKeeps ==
    ASSUME IInv, ExecuteFails, TypeOK'
    PROVE  IInv'
<1>1. /\ Up /\ pc[cur_process] = "run" /\ pc' = pc
      /\ kstack' = [kstack EXCEPT ![cur_process] = << >>]
      /\ UNCHANGED << tables, cpu, sche_ebp, exe_ebp, lost >>
  BY DEF ExecuteFails
<1>2. \A p \in Pid : /\ NeedsExe(p) => Holds(kstack', exe_ebp[p], Exe(p))
                     /\ Preempted(p) => Holds(kstack', sche_ebp[p], Sche(p))
  BY <1>1, ClearKeeps
<1> QED BY <1>1, <1>2, OwnStepKeeps

LEMMA IretKeeps ==
    ASSUME IInv, Iret, TypeOK'
    PROVE  IInv'
<1>1. /\ Up /\ pc' = [pc EXCEPT ![cur_process] = "run"] /\ kstack' = kstack
      /\ UNCHANGED << tables, cpu, sche_ebp, exe_ebp, lost >>
  BY DEF Iret, frames
<1>2. \A p \in Pid : /\ NeedsExe(p) => Holds(kstack', exe_ebp[p], Exe(p))
                     /\ Preempted(p) => Holds(kstack', sche_ebp[p], Sche(p))
  BY <1>1 DEF IInv, Stacks, ExeFrames, ScheFrames, NeedsExe
<1>3. /\ pc'[cur_process] # "iret"
      /\ \A p \in Pid : p # cur_process => pc'[p] = pc[p]
  BY <1>1 DEF IInv, TypeOK, Up
<1> QED BY <1>1, <1>2, <1>3, OwnStepKeeps

LEMMA RaiseKeeps ==
    ASSUME IInv, NEW how \in {"intr", "trap", "run"}, Raise(how), TypeOK'
    PROVE  IInv'
<1>1. /\ Up /\ pc[cur_process] = "run" /\ pc' = [pc EXCEPT ![cur_process] = how]
      /\ kstack' = [kstack EXCEPT ![cur_process] = << >>]
      /\ UNCHANGED << tables, cpu, sche_ebp, exe_ebp, lost >>
  BY DEF Raise
<1>2. \A p \in Pid : /\ NeedsExe(p) => Holds(kstack', exe_ebp[p], Exe(p))
                     /\ Preempted(p) => Holds(kstack', sche_ebp[p], Sche(p))
  BY <1>1, ClearKeeps
<1>3. /\ pc'[cur_process] # "iret"
      /\ \A p \in Pid : p # cur_process => pc'[p] = pc[p]
  BY <1>1 DEF IInv, TypeOK, Up
<1> QED BY <1>1, <1>2, <1>3, OwnStepKeeps

\* A base shell that is on its way to user mode for its terminal's own reasons,
\* not because the scheduler has just started it, is on its own stack.
OnOwnStack(p) ==
    parent_pid[p] = NONE /\ pc[p] = "iret" => exe_ebp[p].stack = p

\* The stack an active process is on is no other active process's, and holds no
\* frame that execute saved for another one.
LEMMA Apart ==
    ASSUME IInv, NEW p \in Pid, NEW q \in Pid, p # q,
           Busy(q), active_array[home[q]] = q,
           OnOwnStack(p), OnOwnStack(q)
    PROVE  /\ NeedsExe(p) => exe_ebp[p].stack # StackOf(q)
           /\ Busy(p) /\ active_array[home[p]] = p => StackOf(p) # StackOf(q)
<1>1. \A d \in Pid : Busy(d) /\ parent_pid[d] # NONE =>
        /\ active_array[home[parent_pid[d]]] # parent_pid[d]
        /\ pc[parent_pid[d]] = "run"
        /\ exe_ebp[d].stack = parent_pid[d]
        /\ \A e \in Pid : Busy(e) /\ parent_pid[e] = parent_pid[d] => e = d
  BY DEF IInv, Tree, Parents, Stacks, ExeFrames
<1>2. StackOf(q) = q \/ (parent_pid[q] # NONE /\ StackOf(q) = parent_pid[q])
  <2>1. parent_pid[q] # NONE => exe_ebp[q].stack = parent_pid[q]
    BY <1>1
  <2>2. CASE pc[q] = "iret"
    <3>1. StackOf(q) = exe_ebp[q].stack
      BY <2>2 DEF StackOf
    <3>2. parent_pid[q] = NONE => exe_ebp[q].stack = q
      BY <2>2 DEF OnOwnStack
    <3> QED BY <2>1, <3>1, <3>2
  <2>3. CASE pc[q] # "iret"
    BY <2>3 DEF StackOf
  <2> QED BY <2>2, <2>3
<1>3. ASSUME NeedsExe(p) PROVE exe_ebp[p].stack # StackOf(q)
  <2>1. CASE parent_pid[p] # NONE
    <3>1. Busy(p) /\ exe_ebp[p].stack = parent_pid[p] /\ parent_pid[p] # q
      BY <1>1, <1>3, <2>1 DEF NeedsExe
    <3>2. parent_pid[q] # NONE => parent_pid[q] # parent_pid[p]
      BY <1>1, <3>1
    <3> QED BY <1>2, <3>1, <3>2
  <2>2. CASE parent_pid[p] = NONE
    <3>1. pc[p] = "iret" /\ exe_ebp[p].stack = p
      BY <1>3, <2>2 DEF NeedsExe, OnOwnStack
    <3>2. parent_pid[q] # NONE => parent_pid[q] # p
      BY <1>1, <3>1
    <3> QED BY <1>2, <3>1, <3>2
  <2> QED BY <2>1, <2>2
<1>4. ASSUME Busy(p), active_array[home[p]] = p PROVE StackOf(p) # StackOf(q)
  <2>1. CASE pc[p] = "iret"
    BY <1>3, <1>4, <2>1 DEF NeedsExe, StackOf
  <2>2. CASE pc[p] # "iret"
    <3>1. StackOf(p) = p
      BY <2>2 DEF StackOf
    <3>2. parent_pid[q] # NONE => parent_pid[q] # p
      BY <1>1, <1>4
    <3> QED BY <1>2, <3>1, <3>2
  <2> QED BY <2>1, <2>2
<1> QED BY <1>3, <1>4

\* When a tick is taken, every process is on its own stack or on its parent's.
LEMMA OnOwnStacks ==
    ASSUME Quiet, IInv, TickTaken, NEW p \in Pid, Busy(p)
    PROVE  OnOwnStack(p)
BY DEF Quiet, TickTaken, OnOwnStack, IInv, Stacks, ExeFrames

\* The frame the scheduler saves for the running process, and where.
LEMMA SavedFrame ==
    ASSUME IInv, Up
    PROVE  /\ SavedEbps[cur_process].stack = StackOf(cur_process)
           /\ SavedEbps[cur_process].depth = Len(Beneath(cur_process)) + 1
           /\ \A p \in Pid : p # cur_process => SavedEbps[p] = sche_ebp[p]
           /\ Holds(SavedStacks, SavedEbps[cur_process], Sche(cur_process))
           /\ pc[cur_process] = "iret" =>
                Len(Beneath(cur_process)) = exe_ebp[cur_process].depth
<1> DEFINE c == cur_process
           s == StackOf(c)
           u == Beneath(c)
<1>1. /\ c \in Pid /\ c # NONE /\ s \in Pid /\ u \in Seq(Frame)
      /\ active_array[sche_term] = c
      /\ kstack \in [Pid -> Seq(Frame)] /\ sche_ebp \in [Pid -> Address]
      /\ Sche(c) \in Frame
  BY StackType DEF IInv, TypeOK, Up, Running, Sche, Frame
<1>2. SavedEbps = [sche_ebp EXCEPT ![c] = [stack |-> s, depth |-> Len(u) + 1]]
  BY <1>1 DEF SavedEbps, SavedFor
<1>3. SavedStacks = [kstack EXCEPT ![s] = Append(u, Sche(c))]
  BY DEF SavedStacks
<1>4. pc[c] = "iret" => Len(u) = exe_ebp[c].depth
  BY <1>1 DEF IInv, Stacks, OnTop, Beneath, StackOf
<1> HIDE DEF s, u
<1>5. SavedEbps[c] = [stack |-> s, depth |-> Len(u) + 1]
  BY <1>1, <1>2
<1>6. Holds(SavedStacks, SavedEbps[c], Sche(c))
  <2>1. Holds([kstack EXCEPT ![s] = Append(u, Sche(c))],
              [stack |-> s, depth |-> Len(u) + 1], Sche(c))
    BY <1>1, HoldsTop
  <2> QED BY <1>3, <1>5, <2>1
<1>7. \A p \in Pid : p # c => SavedEbps[p] = sche_ebp[p]
  BY <1>1, <1>2
<1> QED BY <1>4, <1>5, <1>6, <1>7 DEF s, u

\* While base shells are missing the turn goes to a terminal without one.
LEMMA NextMissing ==
    ASSUME IInv, Up, ~BaseShellsUp
    PROVE  /\ NextTerminal(sche_term) = sche_term + 1
           /\ active_array[sche_term + 1] = NONE
<1>1. PICK t \in Terminal : active_array[t] = NONE
  BY DEF BaseShellsUp
<1>2. /\ \A u \in Terminal : active_array[u] # NONE <=> u <= sche_term
      /\ sche_term \in Terminal
  BY DEF IInv, TypeOK, Up, Booting
<1>3. ~(t <= sche_term)
  BY <1>1, <1>2
<1>4. NextTerminal(sche_term) = sche_term + 1 /\ sche_term + 1 \in Terminal
  BY <1>2, <1>3, ConstantsAssumption DEF Terminal, NextTerminal
<1>5. ~(sche_term + 1 <= sche_term)
  BY <1>2 DEF Terminal
<1> QED BY <1>2, <1>4, <1>5

\* PitSwitch: the process that is continued discards what is above its frame on
\* the stack it is on, and nobody else's frame is there.
LEMMA PitSwitchKeeps ==
    ASSUME Quiet, IInv, PitSwitch, TypeOK'
    PROVE  IInv'
<1> DEFINE c == cur_process
           t == NextTerminal(sche_term)
           q == active_array[t]
           K == SavedStacks
           a == SavedEbps[q]
<1>1. /\ TickTaken /\ Up /\ c \in Pid /\ c # NONE
      /\ active_array[sche_term] = c /\ home[c] = sche_term /\ Busy(c)
      /\ q # NONE /\ t \in Terminal /\ q \in Pid
      /\ lost' = ~Holds(K, a, Sche(q)) /\ kstack' = Discard(K, a)
      /\ sche_ebp' = SavedEbps
      /\ sche_term' = t /\ cur_process' = q /\ page_dir' = q /\ esp0' = q
  BY ConstantFacts DEF PitSwitch, TickTaken, Up, IInv, TypeOK, Running, Esp0Of
<1>2. /\ process_array' = process_array /\ parent_pid' = parent_pid
      /\ active_array' = active_array /\ home' = home
      /\ exe_ebp' = exe_ebp /\ pc' = pc
  BY DEF PitSwitch, tables
<1>3. Busy(q) /\ home[q] = t /\ active_array[home[q]] = q
  BY <1>1 DEF IInv, Tree, UpTerminals
<1>4. BaseShellsUp
  BY <1>1, NextMissing
<1>5. /\ SavedEbps[c].stack = StackOf(c)
      /\ SavedEbps[c].depth = Len(Beneath(c)) + 1
      /\ \A p \in Pid : p # c => SavedEbps[p] = sche_ebp[p]
      /\ Holds(K, SavedEbps[c], Sche(c))
      /\ pc[c] = "iret" => Len(Beneath(c)) = exe_ebp[c].depth
  BY <1>1, SavedFrame
<1>6. /\ K \in [Pid -> Seq(Frame)] /\ SavedEbps \in [Pid -> Address]
      /\ exe_ebp \in [Pid -> Address]
  BY <1>1, StackType DEF IInv, TypeOK
<1> HIDE DEF K, a, t, q
<1>7. ASSUME NEW p \in Pid
      PROVE  /\ NeedsExe(p) => Holds(K, exe_ebp[p], Exe(p))
             /\ Preempted(p) => Holds(K, sche_ebp[p], Sche(p))
  <2>1. K = [kstack EXCEPT ![StackOf(c)] = Append(Beneath(c), Sche(c))]
    BY DEF K, SavedStacks
  <2>2. Sche(c) \in Frame
    BY <1>1 DEF Sche, Frame
  <2> QED BY <1>1, <2>1, <2>2, PushKeeps
\* The frame of every active process, once the scheduler has saved its own.
<1>8. ASSUME NEW p \in Pid, Busy(p), active_array[home[p]] = p
      PROVE  /\ Holds(K, SavedEbps[p], Sche(p))
             /\ SavedEbps[p].stack = StackOf(p)
             /\ pc[p] = "iret" => SavedEbps[p].depth = exe_ebp[p].depth + 1
  <2>1. CASE p = c
    BY <1>5, <2>1
  <2>2. CASE p # c
    <3>1. Preempted(p) /\ SavedEbps[p] = sche_ebp[p]
      BY <1>5, <1>8, <2>2 DEF Preempted
    <3>2. /\ Holds(K, SavedEbps[p], Sche(p))
          /\ IF pc[p] = "iret"
             THEN /\ SavedEbps[p].stack = exe_ebp[p].stack
                  /\ SavedEbps[p].depth = exe_ebp[p].depth + 1
             ELSE SavedEbps[p].stack = p
      BY <1>7, <3>1 DEF IInv, Stacks, ScheFrames
    <3> QED BY <3>2 DEF StackOf
  <2> QED BY <2>1, <2>2
<1>9. /\ Holds(K, a, Sche(q)) /\ a.stack = StackOf(q) /\ a \in Address
      /\ pc[q] = "iret" => a.depth = exe_ebp[q].depth + 1
  BY <1>1, <1>3, <1>6, <1>8 DEF a
<1>10. ASSUME NEW p \in Pid, NeedsExe(p)
       PROVE  Holds(kstack', exe_ebp[p], Exe(p))
  <2>1. Holds(K, exe_ebp[p], Exe(p)) /\ exe_ebp[p] \in Address /\ Busy(p)
    BY <1>6, <1>7, <1>10 DEF NeedsExe
  <2>2. OnOwnStack(p) /\ OnOwnStack(q)
    BY <1>1, <1>3, <2>1, OnOwnStacks
  <2>3. CASE p # q
    <3>1. exe_ebp[p].stack # a.stack
      BY <1>1, <1>3, <1>9, <1>10, <2>2, <2>3, Apart
    <3> QED BY <1>1, <1>6, <1>9, <2>1, <3>1, HoldsDiscard
  <2>4. CASE p = q /\ pc[q] = "iret"
    <3>1. exe_ebp[p].depth < a.depth
      BY <1>9, <2>1, <2>4 DEF Address
    <3> QED BY <1>1, <1>6, <1>9, <2>1, <3>1, HoldsDiscard
  <2>5. CASE p = q /\ pc[q] # "iret"
    <3>1. exe_ebp[p].stack = parent_pid[p] /\ parent_pid[p] # p
      BY <1>3, <1>10, <2>1, <2>5 DEF IInv, Tree, Parents, Stacks, ExeFrames, NeedsExe
    <3>2. a.stack = p
      BY <1>9, <2>5 DEF StackOf
    <3> QED BY <1>1, <1>6, <1>9, <2>1, <3>1, <3>2, HoldsDiscard
  <2> QED BY <2>3, <2>4, <2>5
<1>11. ASSUME NEW p \in Pid, Busy(p), active_array[home[p]] = p, p # q
       PROVE  Holds(kstack', SavedEbps[p], Sche(p))
  <2>1. OnOwnStack(p) /\ OnOwnStack(q)
    BY <1>1, <1>3, <1>11, OnOwnStacks
  <2>2. SavedEbps[p].stack # a.stack /\ Holds(K, SavedEbps[p], Sche(p))
    BY <1>1, <1>3, <1>8, <1>9, <1>11, <2>1, Apart
  <2> QED BY <1>1, <1>6, <1>9, <2>2, HoldsDiscard
<1>12. NeverLost' /\ BeforeBoot' /\ Running'
  BY <1>1, <1>2, <1>3, <1>9
     DEF NeverLost, BeforeBoot, Running, Busy, q
<1>13. Booting'
  BY <1>2, <1>4 DEF Booting, BaseShellsUp
<1>14. FreeSlots' /\ UpTerminals' /\ BaseShells' /\ Parents' /\ Waiting'
  BY <1>2 DEF IInv, Tree, FreeSlots, UpTerminals, BaseShells, Parents, Waiting, Busy
<1>15. ExeFrames'
  <2>1. ASSUME NEW p \in Pid, process_array[p] = 1
        PROVE  /\ parent_pid[p] # NONE =>
                    exe_ebp[p].stack = parent_pid[p] /\ exe_ebp[p].depth = 1
               /\ parent_pid[p] = NONE /\ pc[p] = "iret" => exe_ebp[p].stack = p
               /\ parent_pid[p] # NONE \/ pc[p] = "iret" =>
                    Holds(kstack', exe_ebp[p], Exe(p))
    <3>1. Busy(p) /\ OnOwnStack(p)
      BY <1>1, <2>1, OnOwnStacks DEF Busy
    <3>2. parent_pid[p] # NONE =>
            exe_ebp[p].stack = parent_pid[p] /\ exe_ebp[p].depth = 1
      BY <3>1 DEF IInv, Stacks, ExeFrames
    <3>3. NeedsExe(p) => Holds(kstack', exe_ebp[p], Exe(p))
      BY <1>10
    <3> QED BY <3>1, <3>2, <3>3 DEF NeedsExe, OnOwnStack
  <2> QED BY <1>2, <2>1 DEF ExeFrames, Busy
<1>16. ScheFrames'
  <2>1. ASSUME NEW p \in Pid, process_array[p] = 1, p # q, active_array[home[p]] = p
        PROVE  /\ Holds(kstack', SavedEbps[p], Sche(p))
               /\ IF pc[p] = "iret"
                  THEN /\ SavedEbps[p].stack = exe_ebp[p].stack
                       /\ SavedEbps[p].depth = exe_ebp[p].depth + 1
                  ELSE SavedEbps[p].stack = p
    <3>1. /\ Holds(kstack', SavedEbps[p], Sche(p))
          /\ SavedEbps[p].stack = StackOf(p)
          /\ pc[p] = "iret" => SavedEbps[p].depth = exe_ebp[p].depth + 1
      BY <1>8, <1>11, <2>1 DEF Busy
    <3> QED BY <3>1 DEF StackOf
  <2>2. sche_ebp' = SavedEbps /\ cur_process' = q
    BY <1>1
  <2> QED BY <1>2, <2>1, <2>2 DEF ScheFrames, Preempted, Busy
<1>17. OnTop'
  <2>1. ASSUME pc[q] = "iret"
        PROVE  Len(kstack'[exe_ebp[q].stack]) = exe_ebp[q].depth
    <3>1. a.stack = exe_ebp[q].stack /\ a.depth = exe_ebp[q].depth + 1
      BY <1>9, <2>1 DEF StackOf
    <3>2. Len(kstack'[a.stack]) = a.depth - 1
      BY <1>1, <1>6, <1>9, LenDiscard
    <3>3. exe_ebp[q].depth \in Nat
      BY <1>1, <1>6 DEF Address
    <3> QED BY <3>1, <3>2, <3>3
  <2> QED BY <1>1, <1>2, <2>1 DEF OnTop
<1> QED BY <1>12, <1>13, <1>14, <1>15, <1>16, <1>17 DEF IInv, Tree, Stacks

\* HaltBase: the shell that is executed takes the slot of the one that ends, so
\* the tables stay what they are.
LEMMA SlotOfBase ==
    ASSUME IInv, Up, parent_pid[cur_process] = NONE
    PROVE  FirstFree(Released(cur_process)) = cur_process
<1> DEFINE p == cur_process
           pa == Released(p)
<1>1. /\ p \in Pid /\ Busy(p) /\ home[p] = sche_term /\ p # NONE
      /\ process_array \in [Pid -> {0, 1}]
  BY DEF IInv, TypeOK, Up, Running
<1>2. p \in Terminal /\ p = sche_term
  BY <1>1 DEF IInv, Tree, BaseShells
<1>3. \A x \in Pid : pa[x] = IF x = p THEN 0 ELSE process_array[x]
  BY <1>1 DEF Released
<1>4. ASSUME NEW x \in Pid, x < p PROVE Busy(x)
  <2>1. x \in Terminal
    BY <1>2, <1>4, ConstantsAssumption DEF Terminal, Pid
  <2>2. CASE BaseShellsUp
    BY <2>1, <2>2 DEF BaseShellsUp, IInv, Tree, UpTerminals
  <2>3. CASE ~BaseShellsUp
    <3>1. x <= sche_term
      BY <1>2, <1>4, ConstantFacts
    <3> QED BY <1>1, <2>3, <3>1 DEF IInv, Booting
  <2> QED BY <2>2, <2>3
<1> HIDE DEF pa
<1>5. FirstFree(pa) \in Pid /\ pa[FirstFree(pa)] = 0 /\ FirstFree(pa) <= p
  <2>1. Free(pa) # {}
    BY <1>1, <1>3 DEF Free
  <2> QED BY <1>1, <1>3, <2>1, FirstFreeLeast
<1>6. CASE FirstFree(pa) = p
  BY <1>6 DEF pa
<1>7. CASE FirstFree(pa) # p
  <2>1. FirstFree(pa) < p
    <3>1. FirstFree(pa) \in Nat /\ p \in Nat
      BY <1>1, <1>5, ConstantFacts
    <3> QED BY <1>5, <1>7, <3>1
  <2> QED BY <1>3, <1>4, <1>5, <1>7, <2>1 DEF Busy
<1> QED BY <1>6, <1>7

LEMMA HaltBaseKeeps ==
    ASSUME Quiet, IInv, NEW status \in Status, HaltBase(status), TypeOK'
    PROVE  IInv'
<1> DEFINE c == cur_process
           s == StackOf(c)
           u == Beneath(c)
<1>1. /\ Up /\ c \in Pid /\ c # NONE
      /\ active_array[sche_term] = c /\ home[c] = sche_term /\ Busy(c)
      /\ sche_term \in Terminal
      /\ parent_pid[c] = NONE
      /\ s \in Pid /\ u \in Seq(Frame) /\ Exe(c) \in Frame
      /\ kstack \in [Pid -> Seq(Frame)]
  BY StackType DEF HaltBase, HaltsWith, Up, IInv, TypeOK, Running, Exe, Frame
<1>2. ShellLookup = {TRUE}
  BY DEF ShellLookup, Quiet
<1>3. /\ StartProcess(sche_term, NONE, Released(c), s, u)
      /\ sche_ebp' = NewPcb(Released(c), sche_ebp)
      /\ lost' = FALSE /\ sche_term' = sche_term
  BY <1>2 DEF HaltBase
<1>4. FirstFree(Released(c)) = c
  BY <1>1, SlotOfBase
<1>5. /\ process_array' = [Released(c) EXCEPT ![c] = 1]
      /\ active_array' = [active_array EXCEPT ![sche_term] = c]
      /\ parent_pid' = [parent_pid EXCEPT ![c] = NONE]
      /\ home' = [home EXCEPT ![c] = sche_term]
      /\ cur_process' = c /\ page_dir' = c /\ esp0' = c
      /\ kstack' = [kstack EXCEPT ![s] = Append(u, Exe(c))]
      /\ exe_ebp' = [exe_ebp EXCEPT ![c] = [stack |-> s, depth |-> Len(u) + 1]]
      /\ pc' = [pc EXCEPT ![c] = "iret"]
      /\ sche_ebp' = [sche_ebp EXCEPT ![c] = NoFrame(c)]
  BY <1>3, <1>4 DEF StartProcess, ParentOf, NewPcb
<1>6. /\ process_array' = process_array /\ active_array' = active_array
      /\ parent_pid' = parent_pid /\ home' = home
  BY <1>1, <1>5 DEF IInv, TypeOK, Released, Busy
<1> HIDE DEF s, u
<1>7. /\ pc'[c] = "iret" /\ exe_ebp'[c] = [stack |-> s, depth |-> Len(u) + 1]
      /\ \A p \in Pid : p # c => /\ pc'[p] = pc[p]
                                 /\ exe_ebp'[p] = exe_ebp[p]
                                 /\ sche_ebp'[p] = sche_ebp[p]
  BY <1>1, <1>5 DEF IInv, TypeOK
<1>8. /\ Holds(kstack', [stack |-> s, depth |-> Len(u) + 1], Exe(c))
      /\ Len(kstack'[s]) = Len(u) + 1
  <2>1. kstack' = [kstack EXCEPT ![s] = Append(u, Exe(c))]
    BY <1>5
  <2> QED BY <1>1, <2>1, HoldsTop
<1>9. ASSUME NEW p \in Pid
      PROVE  /\ NeedsExe(p) => Holds(kstack', exe_ebp[p], Exe(p))
             /\ Preempted(p) => Holds(kstack', sche_ebp[p], Sche(p))
  <2>1. kstack' = [kstack EXCEPT ![StackOf(c)] = Append(Beneath(c), Exe(c))]
    BY <1>5 DEF s, u
  <2> QED BY <1>1, <2>1, PushKeeps
<1>10. /\ cur_process' = c /\ page_dir' = c /\ esp0' = c
       /\ lost' = FALSE /\ sche_term' = sche_term
  BY <1>3, <1>5
<1>11. NeverLost' /\ BeforeBoot' /\ Running' /\ Booting'
  BY <1>1, <1>6, <1>10
     DEF NeverLost, BeforeBoot, Running, Busy, Booting, BaseShellsUp, IInv
<1>12. FreeSlots' /\ UpTerminals' /\ BaseShells' /\ Waiting'
  BY <1>6 DEF IInv, Tree, FreeSlots, UpTerminals, BaseShells, Waiting, Busy
<1>13. Parents'
  <2>1. ASSUME NEW d \in Pid, process_array[d] = 1, parent_pid[d] # NONE
        PROVE  /\ process_array[parent_pid[d]] = 1
               /\ home[parent_pid[d]] = home[d]
               /\ active_array[home[d]] # parent_pid[d]
               /\ pc'[parent_pid[d]] = "run"
               /\ \A e \in Pid :
                    process_array[e] = 1 /\ parent_pid[e] = parent_pid[d] => e = d
    <3>1. /\ process_array[parent_pid[d]] = 1
          /\ home[parent_pid[d]] = home[d]
          /\ active_array[home[d]] # parent_pid[d]
          /\ pc[parent_pid[d]] = "run"
          /\ \A e \in Pid :
               process_array[e] = 1 /\ parent_pid[e] = parent_pid[d] => e = d
      BY <2>1 DEF IInv, Tree, Parents, Busy
    <3>2. parent_pid[d] # c /\ parent_pid[d] \in Pid
      BY <1>1, <2>1, <3>1 DEF IInv, TypeOK
    <3> QED BY <1>7, <3>1, <3>2
  <2> QED BY <1>6, <2>1 DEF Parents, Busy
<1>14. ExeFrames'
  <2>1. ASSUME NEW p \in Pid, process_array[p] = 1
        PROVE  /\ parent_pid[p] # NONE =>
                    exe_ebp'[p].stack = parent_pid[p] /\ exe_ebp'[p].depth = 1
               /\ parent_pid[p] = NONE /\ pc'[p] = "iret" /\ p # c =>
                    exe_ebp'[p].stack = p
               /\ parent_pid[p] # NONE \/ pc'[p] = "iret" =>
                    Holds(kstack', exe_ebp'[p], Exe(p))
    <3>1. CASE p = c
      BY <1>1, <1>7, <1>8, <3>1
    <3>2. CASE p # c
      <4>1. pc'[p] = pc[p] /\ exe_ebp'[p] = exe_ebp[p]
        BY <1>7, <3>2
      <4>2. NeedsExe(p) => Holds(kstack', exe_ebp[p], Exe(p))
        BY <1>9
      <4> QED BY <2>1, <3>2, <4>1, <4>2 DEF IInv, Stacks, ExeFrames, NeedsExe, Busy
    <3> QED BY <3>1, <3>2
  <2> QED BY <1>6, <1>10, <2>1 DEF ExeFrames, Busy
<1>15. ScheFrames'
  <2>1. ASSUME NEW p \in Pid, process_array[p] = 1, p # c, active_array[home[p]] = p
        PROVE  /\ Holds(kstack', sche_ebp'[p], Sche(p))
               /\ IF pc'[p] = "iret"
                  THEN /\ sche_ebp'[p].stack = exe_ebp'[p].stack
                       /\ sche_ebp'[p].depth = exe_ebp'[p].depth + 1
                  ELSE sche_ebp'[p].stack = p
    <3>1. Preempted(p)
      BY <2>1 DEF Preempted, Busy
    <3>2. pc'[p] = pc[p] /\ exe_ebp'[p] = exe_ebp[p] /\ sche_ebp'[p] = sche_ebp[p]
      BY <1>7, <2>1
    <3> QED BY <1>9, <3>1, <3>2 DEF IInv, Stacks, ScheFrames
  <2> QED BY <1>6, <1>10, <2>1 DEF ScheFrames, Preempted, Busy
<1>16. OnTop'
  <2>1. exe_ebp'[c].stack = s /\ exe_ebp'[c].depth = Len(u) + 1
    BY <1>7
  <2>2. Len(kstack'[s]) = Len(u) + 1
    BY <1>8
  <2> QED BY <1>10, <2>1, <2>2 DEF OnTop
<1> QED BY <1>11, <1>12, <1>13, <1>14, <1>15, <1>16 DEF IInv, Tree, Stacks

\* The base shell that the scheduler executes gets the number of its terminal as
\* pid, because no slot below is free.
LEMMA LaunchSlot ==
    ASSUME Quiet, IInv, PitLaunch
    PROVE  /\ ~BaseShellsUp
           /\ NextTerminal(sche_term) = sche_term + 1
           /\ \A u \in Terminal : active_array[u] # NONE <=> u <= sche_term
           /\ \A p \in Pid : Busy(p) <=> p <= sche_term
           /\ NextTerminal(sche_term) \in Pid /\ ~Busy(NextTerminal(sche_term))
           /\ FirstFree(process_array) = NextTerminal(sche_term)
           /\ StartProcess(NextTerminal(sche_term), NONE, process_array,
                           StackOf(cur_process), SavedStacks[StackOf(cur_process)])
           /\ sche_ebp' = NewPcb(process_array, SavedEbps)
           /\ lost' = FALSE
<1> DEFINE t == NextTerminal(sche_term)
           s == StackOf(cur_process)
           K == SavedStacks
<1>1. /\ Up /\ cur_process # NONE
      /\ sche_term \in Terminal /\ t \in Terminal /\ active_array[t] = NONE
  BY ConstantFacts DEF PitLaunch, TickTaken, IInv, TypeOK, Up
<1>2. /\ ~BaseShellsUp /\ t = sche_term + 1
      /\ \A u \in Terminal : active_array[u] # NONE <=> u <= sche_term
      /\ \A p \in Pid : Busy(p) <=> p <= sche_term
  BY <1>1, NextMissing DEF BaseShellsUp, IInv, Booting
<1> HIDE DEF t
<1>3. t \in Pid /\ t \in Nat /\ sche_term \in Nat /\ ~Busy(t)
  <2>1. t \in Pid /\ t \in Nat /\ sche_term \in Nat
    BY <1>1, ConstantFacts
  <2>2. ~(t <= sche_term)
    BY <1>2, <2>1
  <2> QED BY <1>2, <2>1, <2>2
<1>4. Free(process_array) # {} /\ FirstFree(process_array) = t
  <2> DEFINE f == FirstFree(process_array)
  <2>1. process_array[t] = 0
    BY <1>3 DEF Busy, IInv, TypeOK
  <2>2. Free(process_array) # {}
    BY <1>3, <2>1 DEF Free
  <2>3. f \in Pid /\ process_array[f] = 0 /\ f <= t
    BY <1>3, <2>1, <2>2, FirstFreeLeast
  <2> HIDE DEF f
  <2>4. f \in Nat /\ ~Busy(f)
    BY <2>3, ConstantFacts DEF Busy
  <2>5. ~(f <= sche_term)
    BY <1>2, <2>3, <2>4
  <2>6. f = t
    BY <1>2, <1>3, <2>3, <2>4, <2>5
  <2> QED BY <2>2, <2>6 DEF f
<1>5. ShellLookup = {TRUE}
  BY DEF ShellLookup, Quiet
<1>6. /\ StartProcess(t, NONE, process_array, s, K[s])
      /\ sche_ebp' = NewPcb(process_array, SavedEbps)
      /\ lost' = FALSE
  BY <1>4, <1>5 DEF PitLaunch, t
<1> QED BY <1>2, <1>3, <1>4, <1>6 DEF t

\* PitLaunch: the first terminal without a base shell gets the slot of its own
\* number, and the interrupted base shell keeps its frame below execute's.
LEMMA PitLaunchKeeps ==
    ASSUME Quiet, IInv, PitLaunch, TypeOK'
    PROVE  IInv'
<1> DEFINE c == cur_process
           t == NextTerminal(sche_term)
           s == StackOf(c)
           K == SavedStacks
<1>1. /\ TickTaken /\ Up /\ c \in Pid /\ c # NONE
      /\ active_array[sche_term] = c /\ home[c] = sche_term /\ Busy(c)
      /\ sche_term \in Terminal /\ t \in Terminal /\ active_array[t] = NONE
      /\ s \in Pid /\ sche_term' = t
      /\ K \in [Pid -> Seq(Frame)] /\ SavedEbps \in [Pid -> Address]
  BY StackType, ConstantFacts
     DEF PitLaunch, TickTaken, Up, IInv, TypeOK, Running
<1>2. /\ ~BaseShellsUp /\ t = sche_term + 1
      /\ \A u \in Terminal : active_array[u] # NONE <=> u <= sche_term
      /\ \A p \in Pid : Busy(p) <=> p <= sche_term
  BY LaunchSlot
<1>3. t \in Pid /\ t \in Nat /\ sche_term \in Nat /\ ~Busy(t)
  BY <1>1, LaunchSlot, ConstantFacts
<1>4. FirstFree(process_array) = t
  BY LaunchSlot
<1>6. /\ StartProcess(t, NONE, process_array, s, K[s])
      /\ sche_ebp' = NewPcb(process_array, SavedEbps)
      /\ lost' = FALSE
  BY LaunchSlot
<1> HIDE DEF t, K, s
<1>7. /\ process_array' = [process_array EXCEPT ![t] = 1]
      /\ active_array' = [active_array EXCEPT ![t] = t]
      /\ parent_pid' = [parent_pid EXCEPT ![t] = NONE]
      /\ home' = [home EXCEPT ![t] = t]
      /\ cur_process' = t /\ page_dir' = t /\ esp0' = t
      /\ kstack' = [kstack EXCEPT ![s] = Append(K[s], Exe(t))]
      /\ exe_ebp' = [exe_ebp EXCEPT ![t] = [stack |-> s, depth |-> Len(K[s]) + 1]]
      /\ pc' = [pc EXCEPT ![t] = "iret"]
      /\ sche_ebp' = [SavedEbps EXCEPT ![t] = NoFrame(t)]
  BY <1>4, <1>6 DEF StartProcess, ParentOf, NewPcb
<1>8. kstack' = [K EXCEPT ![s] = Append(K[s], Exe(t))]
  <2>1. K = [kstack EXCEPT ![s] = Append(Beneath(c), Sche(c))]
    BY DEF K, s, SavedStacks
  <2> QED BY <1>7, <2>1
<1>9. /\ K[s] \in Seq(Frame) /\ Exe(t) \in Frame
  BY <1>1, <1>3 DEF Exe, Frame
<1>10. /\ Holds(kstack', [stack |-> s, depth |-> Len(K[s]) + 1], Exe(t))
       /\ Len(kstack'[s]) = Len(K[s]) + 1
  <2>1. /\ Holds([K EXCEPT ![s] = Append(K[s], Exe(t))],
                 [stack |-> s, depth |-> Len(K[s]) + 1], Exe(t))
        /\ Len([K EXCEPT ![s] = Append(K[s], Exe(t))][s]) = Len(K[s]) + 1
    BY <1>1, <1>9, HoldsTop
  <2> QED BY <1>8, <2>1
<1>11. ASSUME NEW a \in Address, NEW g, Holds(K, a, g)
       PROVE  Holds(kstack', a, g)
  <2>1. Holds([K EXCEPT ![s] = Append(K[s], Exe(t))], a, g)
    BY <1>1, <1>9, <1>11, HoldsBelow
  <2> QED BY <1>8, <2>1
<1>12. ASSUME NEW p \in Pid
       PROVE  /\ NeedsExe(p) => Holds(K, exe_ebp[p], Exe(p))
              /\ Preempted(p) => Holds(K, sche_ebp[p], Sche(p))
  <2>1. K = [kstack EXCEPT ![StackOf(c)] = Append(Beneath(c), Sche(c))]
    BY DEF K, SavedStacks
  <2>2. Sche(c) \in Frame
    BY <1>1 DEF Sche, Frame
  <2> QED BY <1>1, <2>1, <2>2, PushKeeps
<1>13. /\ SavedEbps[c].stack = StackOf(c)
       /\ SavedEbps[c].depth = Len(Beneath(c)) + 1
       /\ \A p \in Pid : p # c => SavedEbps[p] = sche_ebp[p]
       /\ Holds(K, SavedEbps[c], Sche(c))
       /\ pc[c] = "iret" => Len(Beneath(c)) = exe_ebp[c].depth
  BY <1>1, SavedFrame DEF K
<1>14. /\ \A p \in Pid : process_array'[p] = IF p = t THEN 1 ELSE process_array[p]
       /\ \A u \in Terminal : active_array'[u] = IF u = t THEN t ELSE active_array[u]
       /\ \A p \in Pid : parent_pid'[p] = IF p = t THEN NONE ELSE parent_pid[p]
       /\ \A p \in Pid : home'[p] = IF p = t THEN t ELSE home[p]
       /\ \A p \in Pid : pc'[p] = IF p = t THEN "iret" ELSE pc[p]
       /\ exe_ebp'[t] = [stack |-> s, depth |-> Len(K[s]) + 1]
       /\ \A p \in Pid : p # t => exe_ebp'[p] = exe_ebp[p] /\ sche_ebp'[p] = SavedEbps[p]
  BY <1>1, <1>3, <1>7 DEF IInv, TypeOK
<1>15. /\ cur_process' = t /\ page_dir' = t /\ esp0' = t
       /\ lost' = FALSE /\ sche_term' = t /\ t # NONE
  BY <1>1, <1>3, <1>6, <1>7, ConstantFacts
<1>16. NeverLost' /\ BeforeBoot' /\ Running'
  BY <1>1, <1>3, <1>14, <1>15 DEF NeverLost, BeforeBoot, Running, Busy
<1>17. Booting'
  <2>1. \A u \in Terminal : active_array'[u] # NONE <=> u <= t
    BY <1>2, <1>3, <1>14, <1>15 DEF Terminal
  <2>2. \A p \in Pid : process_array'[p] = 1 <=> p <= t
    BY <1>2, <1>3, <1>14 DEF Busy, Pid
  <2> QED BY <1>15, <2>1, <2>2 DEF Booting, Busy
\* Every process is a base shell so far.
<1>18. ASSUME NEW p \in Pid, Busy(p)
       PROVE  /\ p # t /\ parent_pid[p] = NONE
              /\ p \in Terminal /\ home[p] = p
  <2>1. p <= sche_term /\ p \in Nat
    BY <1>2, <1>18, ConstantFacts
  <2>2. p \in Terminal
    BY <1>1, <2>1, ConstantsAssumption DEF Terminal
  <2>3. active_array[p] # NONE /\ parent_pid[p] = NONE
    BY <1>2, <2>1, <2>2 DEF IInv, Tree, UpTerminals
  <2>4. home[p] = p
    BY <1>18, <2>3 DEF IInv, Tree, BaseShells
  <2>5. p # t
    BY <1>3, <1>18
  <2> QED BY <2>2, <2>3, <2>4, <2>5
<1>19. ASSUME NEW p \in Pid, Busy(p)
       PROVE  active_array[p] = p
  <2>1. p \in Terminal /\ p <= sche_term
    BY <1>2, <1>18, <1>19
  <2>2. active_array[p] # NONE
    BY <1>2, <2>1
  <2>3. /\ active_array[p] \in Pid /\ Busy(active_array[p])
        /\ home[active_array[p]] = p
    BY <2>1, <2>2 DEF IInv, TypeOK, Tree, UpTerminals
  <2>4. home[active_array[p]] = active_array[p]
    BY <1>18, <2>3
  <2> QED BY <2>3, <2>4
<1>20. FreeSlots'
  <2>1. ASSUME NEW p \in Pid, process_array'[p] # 1
        PROVE  /\ parent_pid'[p] = NONE
               /\ \A u \in Terminal : active_array'[u] # p
    <3>1. ~Busy(p) /\ p # t
      BY <1>14, <2>1 DEF Busy
    <3>2. parent_pid[p] = NONE /\ \A u \in Terminal : active_array[u] # p
      BY <3>1 DEF IInv, Tree, FreeSlots
    <3> QED BY <1>14, <3>1, <3>2
  <2> QED BY <2>1 DEF FreeSlots, Busy
<1>21. UpTerminals'
  <2>1. ASSUME NEW u \in Terminal, active_array'[u] # NONE
        PROVE  /\ process_array'[u] = 1 /\ parent_pid'[u] = NONE
               /\ process_array'[active_array'[u]] = 1
               /\ home'[active_array'[u]] = u
    <3>1. CASE u = t
      BY <1>3, <1>14, <3>1
    <3>2. CASE u # t
      <4>1. active_array'[u] = active_array[u]
        BY <1>14, <3>2
      <4>2. /\ Busy(u) /\ parent_pid[u] = NONE
            /\ Busy(active_array[u]) /\ home[active_array[u]] = u
            /\ u \in Pid /\ active_array[u] \in Pid
        BY <2>1, <4>1, ConstantFacts DEF IInv, TypeOK, Tree, UpTerminals
      <4>3. active_array[u] # t
        BY <1>3, <4>2
      <4> QED BY <1>14, <3>2, <4>1, <4>2, <4>3 DEF Busy
    <3> QED BY <3>1, <3>2
  <2> QED BY <2>1 DEF UpTerminals, Busy
<1>22. ASSUME NEW p \in Pid, process_array'[p] = 1
       PROVE  /\ parent_pid'[p] = NONE /\ p \in Terminal
              /\ home'[p] = p /\ active_array'[p] = p
  <2>1. CASE p = t
    BY <1>1, <1>14, <2>1
  <2>2. CASE p # t
    <3>1. Busy(p)
      BY <1>14, <1>22, <2>2 DEF Busy
    <3>2. /\ parent_pid[p] = NONE /\ p \in Terminal
          /\ home[p] = p /\ active_array[p] = p
      BY <1>18, <1>19, <3>1
    <3> QED BY <1>14, <2>2, <3>2
  <2> QED BY <2>1, <2>2
<1>23. BaseShells' /\ Parents' /\ Waiting'
  BY <1>22 DEF BaseShells, Parents, Waiting, Busy
<1>24. ExeFrames'
  <2>1. ASSUME NEW p \in Pid, process_array'[p] = 1
        PROVE  /\ pc'[p] = "iret" /\ p # t => exe_ebp'[p].stack = p
               /\ pc'[p] = "iret" => Holds(kstack', exe_ebp'[p], Exe(p))
    <3>1. CASE p = t
      BY <1>10, <1>14, <3>1
    <3>2. CASE p # t
      <4>1. Busy(p) /\ pc'[p] = pc[p] /\ exe_ebp'[p] = exe_ebp[p]
        BY <1>14, <2>1, <3>2 DEF Busy
      <4>2. OnOwnStack(p) /\ parent_pid[p] = NONE
        BY <1>1, <1>18, <4>1, OnOwnStacks
      <4>3. NeedsExe(p) => Holds(kstack', exe_ebp[p], Exe(p))
        <5>1. exe_ebp[p] \in Address
          BY DEF IInv, TypeOK
        <5> QED BY <1>11, <1>12, <5>1
      <4> QED BY <4>1, <4>2, <4>3 DEF NeedsExe, OnOwnStack
    <3> QED BY <3>1, <3>2
  <2> QED BY <1>15, <1>22, <2>1 DEF ExeFrames, Busy
<1>25. ScheFrames'
  <2>1. ASSUME NEW p \in Pid, process_array'[p] = 1, p # t
        PROVE  /\ Holds(kstack', sche_ebp'[p], Sche(p))
               /\ IF pc'[p] = "iret"
                  THEN /\ sche_ebp'[p].stack = exe_ebp'[p].stack
                       /\ sche_ebp'[p].depth = exe_ebp'[p].depth + 1
                  ELSE sche_ebp'[p].stack = p
    <3>1. /\ Busy(p) /\ pc'[p] = pc[p] /\ exe_ebp'[p] = exe_ebp[p]
          /\ sche_ebp'[p] = SavedEbps[p] /\ SavedEbps[p] \in Address
      BY <1>1, <1>14, <2>1 DEF Busy
    <3>2. CASE p = c
      <4>1. Holds(kstack', SavedEbps[p], Sche(p))
        BY <1>11, <1>13, <3>1, <3>2
      <4> QED BY <1>13, <3>1, <3>2, <4>1 DEF StackOf
    <3>3. CASE p # c
      <4>1. Preempted(p)
        BY <1>18, <1>19, <3>1, <3>3 DEF Preempted
      <4>2. SavedEbps[p] = sche_ebp[p]
        BY <1>13, <3>3
      <4>3. Holds(kstack', sche_ebp[p], Sche(p))
        BY <1>11, <1>12, <3>1, <4>1, <4>2
      <4> QED BY <3>1, <4>1, <4>2, <4>3 DEF IInv, Stacks, ScheFrames
    <3> QED BY <3>2, <3>3
  <2> QED BY <1>15, <2>1 DEF ScheFrames, Preempted, Busy
<1>26. OnTop'
  <2>1. exe_ebp'[t].stack = s /\ exe_ebp'[t].depth = Len(K[s]) + 1
    BY <1>14
  <2>2. Len(kstack'[s]) = Len(K[s]) + 1
    BY <1>10
  <2> QED BY <1>15, <2>1, <2>2 DEF OnTop
<1> QED BY <1>16, <1>17, <1>20, <1>21, <1>23, <1>24, <1>25, <1>26
        DEF IInv, Tree, Stacks

\* HaltChild: the parent's frame is at the bottom of its own stack, which holds
\* nothing that anybody else needs, and the parent becomes what its child was.
LEMMA HaltChildKeeps ==
    ASSUME IInv, NEW status \in Status, HaltChild(status), TypeOK'
    PROVE  IInv'
<1> DEFINE p == cur_process
           r == parent_pid[p]
           a == exe_ebp[p]
<1>1. /\ Up /\ p \in Pid /\ p # NONE /\ r # NONE /\ r \in Pid
      /\ active_array[sche_term] = p /\ home[p] = sche_term /\ Busy(p)
      /\ sche_term \in Terminal
      /\ kstack \in [Pid -> Seq(Frame)] /\ exe_ebp \in [Pid -> Address]
      /\ sche_ebp \in [Pid -> Address]
  BY DEF HaltChild, HaltsWith, Up, IInv, TypeOK, Running
<1>2. /\ Busy(r) /\ home[r] = sche_term /\ r # p /\ pc[r] = "run"
      /\ \A d \in Pid : Busy(d) /\ parent_pid[d] = r => d = p
  BY <1>1 DEF IInv, Tree, Parents
<1>3. /\ a.stack = r /\ a.depth = 1 /\ a \in Address
      /\ Holds(kstack, a, Exe(p))
  BY <1>1 DEF IInv, Stacks, ExeFrames
<1>4. /\ process_array' = [process_array EXCEPT ![p] = 0]
      /\ active_array' = [active_array EXCEPT ![sche_term] = r]
      /\ parent_pid' = [parent_pid EXCEPT ![p] = NONE]
      /\ home' = [home EXCEPT ![p] = 0]
      /\ exe_ebp' = [exe_ebp EXCEPT ![p] = NoFrame(p)]
      /\ sche_ebp' = [sche_ebp EXCEPT ![p] = NoFrame(p)]
      /\ pc' = [pc EXCEPT ![p] = "run"]
  BY DEF HaltChild, Released, ActiveAfterHalt
<1>5. /\ kstack' = Discard(kstack, a)
      /\ cur_process' = r /\ page_dir' = r /\ esp0' = r
      /\ sche_term' = sche_term /\ lost' = ~Holds(kstack, a, Exe(p))
  BY DEF HaltChild, Esp0Of
<1> HIDE DEF a, r
<1>6. /\ \A x \in Pid : process_array'[x] = IF x = p THEN 0 ELSE process_array[x]
      /\ \A t \in Terminal :
           active_array'[t] = IF t = sche_term THEN r ELSE active_array[t]
      /\ \A x \in Pid : parent_pid'[x] = IF x = p THEN NONE ELSE parent_pid[x]
      /\ \A x \in Pid : home'[x] = IF x = p THEN 0 ELSE home[x]
      /\ \A x \in Pid : pc'[x] = IF x = p THEN "run" ELSE pc[x]
      /\ \A x \in Pid : x # p => exe_ebp'[x] = exe_ebp[x] /\ sche_ebp'[x] = sche_ebp[x]
  BY <1>1, <1>4 DEF IInv, TypeOK
\* The base shells are all up: a process with a parent is none.
<1>7. BaseShellsUp
  <2> SUFFICES ASSUME ~BaseShellsUp PROVE FALSE
    OBVIOUS
  <2>1. p <= sche_term /\ \A t \in Terminal : active_array[t] # NONE <=> t <= sche_term
    BY <1>1 DEF IInv, Booting
  <2>2. p \in Terminal
    BY <1>1, <2>1, ConstantsAssumption DEF Terminal, Pid
  <2>3. parent_pid[p] = NONE
    BY <2>1, <2>2 DEF IInv, Tree, UpTerminals
  <2> QED BY <1>1, <2>3 DEF r
<1>8. \A x \in Pid : Busy(x) /\ x # p => parent_pid[x] # p /\ parent_pid[x] # r
  BY <1>1, <1>2 DEF IInv, Tree, Parents
<1>9. \A t \in Terminal : active_array[t] = p => t = sche_term
  BY <1>1 DEF IInv, Tree, UpTerminals
<1>10. \A t \in Terminal : active_array[t] # r
  <2>1. \A t \in Terminal : active_array[t] = r => t = sche_term
    BY <1>1, <1>2 DEF IInv, Tree, UpTerminals
  <2> QED BY <1>1, <1>2, <2>1
<1>11. NeverLost' /\ BeforeBoot' /\ Running'
  <2>1. lost' = FALSE
    BY <1>3, <1>5
  <2> QED BY <1>1, <1>2, <1>5, <1>6, <2>1 DEF NeverLost, BeforeBoot, Running, Busy
<1>12. Booting'
  BY <1>1, <1>6, <1>7 DEF Booting, BaseShellsUp
<1>13. FreeSlots'
  <2>1. ASSUME NEW x \in Pid, process_array'[x] # 1
        PROVE  /\ parent_pid'[x] = NONE
               /\ \A t \in Terminal : active_array'[t] # x
    <3>1. CASE x = p
      BY <1>2, <1>6, <1>9, <3>1
    <3>2. CASE x # p
      <4>1. ~Busy(x) /\ x # r
        BY <1>2, <1>6, <2>1, <3>2 DEF Busy
      <4>2. parent_pid[x] = NONE /\ \A t \in Terminal : active_array[t] # x
        BY <4>1 DEF IInv, Tree, FreeSlots
      <4> QED BY <1>6, <3>2, <4>1, <4>2
    <3> QED BY <3>1, <3>2
  <2> QED BY <2>1 DEF FreeSlots, Busy
<1>14. UpTerminals'
  <2>1. ASSUME NEW t \in Terminal
        PROVE  /\ process_array'[t] = 1 /\ parent_pid'[t] = NONE
               /\ process_array'[active_array'[t]] = 1
               /\ home'[active_array'[t]] = t
    <3>1. /\ Busy(t) /\ parent_pid[t] = NONE /\ t \in Pid
          /\ Busy(active_array[t]) /\ home[active_array[t]] = t
          /\ active_array[t] \in Pid
      BY <1>7, ConstantFacts DEF BaseShellsUp, IInv, TypeOK, Tree, UpTerminals
    <3>2. t # p
      BY <1>1, <3>1 DEF r
    <3>3. process_array'[t] = 1 /\ parent_pid'[t] = NONE
      BY <1>6, <3>1, <3>2 DEF Busy
    <3>4. CASE t = sche_term
      BY <1>1, <1>2, <1>6, <3>3, <3>4 DEF Busy
    <3>5. CASE t # sche_term
      BY <1>6, <1>9, <3>1, <3>3, <3>5 DEF Busy
    <3> QED BY <3>4, <3>5
  <2> QED BY <2>1 DEF UpTerminals, Busy
<1>15. BaseShells'
  <2>1. ASSUME NEW x \in Pid, process_array'[x] = 1, parent_pid'[x] = NONE
        PROVE  x \in Terminal /\ home'[x] = x
    <3>1. x # p /\ Busy(x) /\ parent_pid[x] = NONE /\ home'[x] = home[x]
      BY <1>6, <2>1 DEF Busy
    <3> QED BY <3>1 DEF IInv, Tree, BaseShells
  <2> QED BY <2>1 DEF BaseShells, Busy
<1>16. Parents'
  <2>1. ASSUME NEW d \in Pid, process_array'[d] = 1, parent_pid'[d] # NONE
        PROVE  /\ process_array'[parent_pid'[d]] = 1
               /\ home'[parent_pid'[d]] = home'[d]
               /\ active_array'[home'[d]] # parent_pid'[d]
               /\ pc'[parent_pid'[d]] = "run"
               /\ \A e \in Pid :
                    process_array'[e] = 1 /\ parent_pid'[e] = parent_pid'[d] => e = d
    <3>1. /\ d # p /\ Busy(d) /\ parent_pid'[d] = parent_pid[d]
          /\ home'[d] = home[d] /\ parent_pid[d] # NONE
          /\ parent_pid[d] \in Pid /\ home[d] \in Terminal
      BY <1>6, <2>1 DEF Busy, IInv, TypeOK
    <3>2. /\ Busy(parent_pid[d])
          /\ home[parent_pid[d]] = home[d]
          /\ active_array[home[d]] # parent_pid[d]
          /\ pc[parent_pid[d]] = "run"
          /\ \A e \in Pid : Busy(e) /\ parent_pid[e] = parent_pid[d] => e = d
      BY <3>1 DEF IInv, Tree, Parents
    <3>3. parent_pid[d] # p /\ parent_pid[d] # r
      BY <1>8, <3>1
    <3>4. /\ process_array'[parent_pid[d]] = 1
          /\ home'[parent_pid[d]] = home[d]
          /\ pc'[parent_pid[d]] = "run"
          /\ active_array'[home[d]] # parent_pid[d]
      BY <1>6, <3>1, <3>2, <3>3 DEF Busy
    <3>5. \A e \in Pid :
            process_array'[e] = 1 /\ parent_pid'[e] = parent_pid[d] => e = d
      BY <1>6, <3>1, <3>2 DEF Busy
    <3> QED BY <3>1, <3>4, <3>5
  <2> QED BY <2>1 DEF Parents, Busy
<1>17. Waiting'
  <2>1. ASSUME NEW x \in Pid, process_array'[x] = 1
        PROVE  \/ active_array'[home'[x]] = x
               \/ \E d \in Pid : process_array'[d] = 1 /\ parent_pid'[d] = x
    <3>1. x # p /\ Busy(x) /\ home'[x] = home[x] /\ home[x] \in Terminal
      BY <1>6, <2>1 DEF Busy, IInv, TypeOK
    <3>2. CASE active_array[home[x]] = x
      <4>1. home[x] # sche_term
        BY <1>1, <3>1, <3>2
      <4>2. active_array'[home[x]] = active_array[home[x]]
        BY <1>6, <3>1, <4>1
      <4> QED BY <3>1, <3>2, <4>2
    <3>3. CASE active_array[home[x]] # x
      <4>1. PICK d \in Pid : Busy(d) /\ parent_pid[d] = x
        BY <3>1, <3>3 DEF IInv, Tree, Waiting
      <4>2. CASE d = p
        BY <1>2, <1>6, <3>1, <4>1, <4>2 DEF r
      <4>3. CASE d # p
        BY <1>6, <4>1, <4>3 DEF Busy
      <4> QED BY <4>2, <4>3
    <3> QED BY <3>2, <3>3
  <2> QED BY <2>1 DEF Waiting, Busy
\* What is needed of the other processes is not on the parent's stack.
<1>18. ASSUME NEW x \in Pid, x # p, NeedsExe(x)
       PROVE  Holds(kstack', exe_ebp[x], Exe(x)) /\ exe_ebp[x].stack # r
  <2>1. Busy(x) /\ Holds(kstack, exe_ebp[x], Exe(x)) /\ exe_ebp[x] \in Address
    BY <1>1, <1>18 DEF NeedsExe, IInv, Stacks, ExeFrames
  <2>2. exe_ebp[x].stack # r
    <3>1. CASE parent_pid[x] # NONE
      BY <1>8, <1>18, <2>1, <3>1 DEF IInv, Stacks, ExeFrames
    <3>2. CASE parent_pid[x] = NONE
      <4>1. pc[x] = "iret" /\ x # r
        BY <1>2, <1>18, <3>2 DEF NeedsExe
      <4>2. exe_ebp[x].stack = x
        BY <1>18, <2>1, <3>2, <4>1 DEF IInv, Stacks, ExeFrames
      <4> QED BY <4>1, <4>2
    <3> QED BY <3>1, <3>2
  <2> QED BY <1>1, <1>3, <1>5, <2>1, <2>2, HoldsDiscard
<1>19. ExeFrames'
  <2>1. ASSUME NEW x \in Pid, process_array'[x] = 1
        PROVE  /\ parent_pid'[x] # NONE =>
                    exe_ebp'[x].stack = parent_pid'[x] /\ exe_ebp'[x].depth = 1
               /\ parent_pid'[x] = NONE /\ pc'[x] = "iret" => exe_ebp'[x].stack = x
               /\ parent_pid'[x] # NONE \/ pc'[x] = "iret" =>
                    Holds(kstack', exe_ebp'[x], Exe(x))
    <3>1. /\ x # p /\ Busy(x) /\ parent_pid'[x] = parent_pid[x]
          /\ pc'[x] = pc[x] /\ exe_ebp'[x] = exe_ebp[x]
      BY <1>6, <2>1 DEF Busy
    <3>2. NeedsExe(x) => Holds(kstack', exe_ebp[x], Exe(x))
      BY <1>18, <3>1
    <3> QED BY <3>1, <3>2 DEF IInv, Stacks, ExeFrames, NeedsExe
  <2> QED BY <2>1 DEF ExeFrames, Busy
<1>20. ScheFrames'
  <2>1. ASSUME NEW x \in Pid, process_array'[x] = 1, x # r,
               active_array'[home'[x]] = x
        PROVE  /\ Holds(kstack', sche_ebp'[x], Sche(x))
               /\ IF pc'[x] = "iret"
                  THEN /\ sche_ebp'[x].stack = exe_ebp'[x].stack
                       /\ sche_ebp'[x].depth = exe_ebp'[x].depth + 1
                  ELSE sche_ebp'[x].stack = x
    <3>1. /\ x # p /\ Busy(x) /\ home'[x] = home[x] /\ home[x] \in Terminal
          /\ pc'[x] = pc[x] /\ exe_ebp'[x] = exe_ebp[x] /\ sche_ebp'[x] = sche_ebp[x]
      BY <1>6, <2>1 DEF Busy, IInv, TypeOK
    <3>2. Preempted(x)
      BY <1>6, <2>1, <3>1 DEF Preempted
    <3>3. /\ Holds(kstack, sche_ebp[x], Sche(x))
          /\ IF pc[x] = "iret"
             THEN /\ sche_ebp[x].stack = exe_ebp[x].stack
                  /\ sche_ebp[x].depth = exe_ebp[x].depth + 1
             ELSE sche_ebp[x].stack = x
      BY <3>2 DEF IInv, Stacks, ScheFrames
    <3>4. sche_ebp[x].stack # r
      <4>1. pc[x] = "iret" => exe_ebp[x].stack # r
        BY <1>18, <3>1 DEF NeedsExe
      <4> QED BY <2>1, <3>3, <4>1
    <3>5. Holds(kstack', sche_ebp[x], Sche(x))
      BY <1>1, <1>3, <1>5, <3>3, <3>4, HoldsDiscard
    <3> QED BY <3>1, <3>3, <3>5
  <2> QED BY <1>5, <2>1 DEF ScheFrames, Preempted, Busy
<1>21. OnTop'
  <2>1. cur_process' = r /\ pc'[r] = "run"
    BY <1>1, <1>2, <1>5, <1>6
  <2> QED BY <2>1 DEF OnTop
<1> QED BY <1>11, <1>12, <1>13, <1>14, <1>15, <1>16, <1>17, <1>19, <1>20, <1>21
        DEF IInv, Tree, Stacks

LEMMA StutterKeeps ==
    ASSUME IInv, UNCHANGED vars
    PROVE  IInv'
<1>1. /\ process_array' = process_array /\ parent_pid' = parent_pid
      /\ active_array' = active_array /\ home' = home
      /\ sche_term' = sche_term /\ cur_process' = cur_process
      /\ page_dir' = page_dir /\ esp0' = esp0 /\ kstack' = kstack
      /\ sche_ebp' = sche_ebp /\ exe_ebp' = exe_ebp /\ pc' = pc
      /\ exception_flag' = exception_flag /\ eax' = eax /\ lost' = lost
  BY DEF vars, tables, cpu, frames
<1>2. TypeOK' /\ NeverLost' /\ BeforeBoot' /\ Booting' /\ Running'
  BY <1>1 DEF IInv, TypeOK, NeverLost, BeforeBoot, Booting, Running, Up, Busy,
              BaseShellsUp
<1>3. Tree'
  BY <1>1 DEF IInv, Tree, FreeSlots, UpTerminals, BaseShells, Parents, Waiting, Busy
<1>4. Stacks'
  BY <1>1 DEF IInv, Stacks, ExeFrames, ScheFrames, OnTop, Preempted, Busy
<1> QED BY <1>2, <1>3, <1>4 DEF IInv

----------------------------------------------------------------------------
(* The theorems                                                            *)

LEMMA InitIInv ==
    ASSUME Init
    PROVE  IInv
<1>1. TypeOK
  BY InitType DEF TypeInv
<1>2. NeverLost /\ BeforeBoot /\ Booting /\ Running
  BY ConstantFacts DEF Init, NeverLost, BeforeBoot, Booting, Running, Up
<1>3. Tree
  BY ConstantFacts
     DEF Init, Tree, FreeSlots, UpTerminals, BaseShells, Parents, Waiting, Busy
<1>4. Stacks
  BY DEF Init, Stacks, ExeFrames, ScheFrames, OnTop, Preempted, Busy
<1> QED BY <1>1, <1>2, <1>3, <1>4 DEF IInv

\* Every step keeps the invariant.
LEMMA StepIInv ==
    ASSUME Quiet, IInv, [Next]_vars
    PROVE  IInv'
<1>1. TypeOK'
  <2>1. TypeInv
    BY DEF TypeInv, BootFree, IInv, BeforeBoot
  <2> QED BY <2>1, TypeStep DEF TypeInv
<1>2. CASE Boot
  BY <1>1, <1>2, BootKeeps
<1>3. CASE Execute
  BY <1>1, <1>3, ExecuteKeeps
<1>4. CASE ExecuteFails
  BY <1>1, <1>4, ExecuteFailsKeeps
<1>5. CASE Iret
  BY <1>1, <1>5, IretKeeps
<1>6. ASSUME NEW how \in {"intr", "trap", "run"}, Raise(how)
      PROVE  IInv'
  BY <1>1, <1>6, RaiseKeeps
<1>7. ASSUME NEW status \in Status, HaltChild(status) \/ HaltBase(status)
      PROVE  IInv'
  BY <1>1, <1>7, HaltChildKeeps, HaltBaseKeeps
<1>8. CASE Pit
  BY <1>1, <1>8, PitSwitchKeeps, PitLaunchKeeps DEF Pit
<1>9. CASE UNCHANGED vars
  BY <1>9, StutterKeeps
<1> QED BY <1>2, <1>3, <1>4, <1>5, <1>6, <1>7, <1>8, <1>9 DEF Next

LEMMA Inductive ==
    ASSUME Quiet
    PROVE  Spec => []IInv
<1>1. Init => IInv
  BY InitIInv
<1>2. IInv /\ [Next]_vars => IInv'
  BY StepIInv
<1> QED BY <1>1, <1>2, PTL DEF Spec

\* The kernel never goes on with a frame in released stack space.
THEOREM NeverLostHolds ==
    ASSUME Quiet
    PROVE  Spec => []NeverLost
<1>1. Spec => []IInv
  BY Inductive
<1>2. IInv => NeverLost
  BY DEF IInv
<1> QED BY <1>1, <1>2, PTL

\* The tables agree on who is running, in which address space and on which
\* kernel stack.
THEOREM RunningHolds ==
    ASSUME Quiet
    PROVE  Spec => []Running
<1>1. Spec => []IInv
  BY Inductive
<1>2. IInv => Running
  BY DEF IInv
<1> QED BY <1>1, <1>2, PTL

LEMMA LineageFollows ==
    ASSUME IInv
    PROVE  Lineage
<1>1. ASSUME NEW p \in Pid, NEW c \in Pid, Busy(c), parent_pid[c] = p
      PROVE  /\ Busy(p) /\ home[p] = home[c]
             /\ active_array[home[p]] # p
             /\ \A d \in Pid : Busy(d) /\ parent_pid[d] = p => d = c
  <2>1. parent_pid[c] # NONE
    BY <1>1, ConstantFacts
  <2> QED BY <1>1, <2>1 DEF IInv, Tree, Parents
<1>2. ASSUME NEW p \in Pid, ~Busy(p)
      PROVE  /\ parent_pid[p] = NONE
             /\ Children(p) = {}
             /\ \A t \in Terminal : active_array[t] # p
  <2>1. Children(p) = {}
    BY <1>1, <1>2 DEF Children
  <2> QED BY <1>2, <2>1 DEF IInv, Tree, FreeSlots
<1>3. ASSUME NEW p \in Pid, NEW t \in Terminal, active_array[t] = p
      PROVE  home[p] = t
  <2>1. active_array[t] # NONE
    BY <1>3, ConstantFacts
  <2> QED BY <1>3, <2>1 DEF IInv, Tree, UpTerminals
<1>4. ASSUME NEW p \in Pid, Busy(p), active_array[home[p]] = p
      PROVE  /\ Children(p) = {}
             /\ \A t \in Terminal : active_array[t] = p <=> t = home[p]
  BY <1>1, <1>3, <1>4 DEF Children
<1>5. ASSUME NEW p \in Pid, Busy(p), active_array[home[p]] # p
      PROVE  /\ \E c \in Pid : Children(p) = {c} /\ home[c] = home[p]
             /\ \A t \in Terminal : active_array[t] # p
  <2>1. PICK c \in Pid : Busy(c) /\ parent_pid[c] = p
    BY <1>5 DEF IInv, Tree, Waiting
  <2>2. Children(p) = {c} /\ home[c] = home[p]
    BY <1>1, <2>1 DEF Children
  <2>3. \A t \in Terminal : active_array[t] # p
    BY <1>3, <1>5
  <2> QED BY <2>2, <2>3
<1> QED BY <1>2, <1>4, <1>5 DEF Lineage

\* The processes of every terminal are one line, from its base shell to its
\* active process.
THEOREM LineageHolds ==
    ASSUME Quiet
    PROVE  Spec => []Lineage
<1>1. Spec => []IInv
  BY Inductive
<1>2. IInv => Lineage
  BY LineageFollows
<1> QED BY <1>1, <1>2, PTL

LEMMA ResumableFollows ==
    ASSUME IInv
    PROVE  Resumable
<1>1. ASSUME NEW t \in Terminal \ {sche_term}, active_array[t] # NONE
      PROVE  Holds(kstack, sche_ebp[active_array[t]], Sche(active_array[t]))
  <2> DEFINE q == active_array[t]
  <2>1. q \in Pid /\ Busy(q) /\ home[q] = t
    BY <1>1 DEF IInv, TypeOK, Tree, UpTerminals
  <2>2. q # cur_process
    <3>1. Up
      BY <1>1 DEF IInv, BeforeBoot, NeverLost, Up
    <3> QED BY <1>1, <2>1, <3>1 DEF IInv, Running
  <2>3. Preempted(q)
    BY <2>1, <2>2 DEF Preempted
  <2> QED BY <2>1, <2>3 DEF IInv, Stacks, ScheFrames
<1>2. ASSUME NEW c \in Pid, Busy(c), parent_pid[c] # NONE
      PROVE  exe_ebp[c].stack = parent_pid[c] /\ Holds(kstack, exe_ebp[c], Exe(c))
  BY <1>2 DEF IInv, Stacks, ExeFrames
<1> QED BY <1>1, <1>2 DEF Resumable

\* Whoever is not running can be continued.
THEOREM ResumableHolds ==
    ASSUME Quiet
    PROVE  Spec => []Resumable
<1>1. Spec => []IInv
  BY Inductive
<1>2. IInv => Resumable
  BY ResumableFollows
<1> QED BY <1>1, <1>2, PTL

----------------------------------------------------------------------------
(* What execute returns                                                    *)

\* The flag is set exactly while the running process is on its way from an
\* exception to halt, with interrupts off; and it is not a base shell.
FlagInv ==
    /\ \A p \in Pid : pc[p] # "trap"
    /\ \A p \in Pid : pc[p] = "intr" => p = cur_process /\ exception_flag = 1
    /\ exception_flag = 1 => /\ cur_process \in Pid
                             /\ pc[cur_process] = "intr"
                             /\ parent_pid[cur_process] # NONE

\* The flag is down and nobody is in an exception.
Calm == exception_flag = 0 /\ \A p \in Pid : pc[p] \in {"run", "iret"}

LEMMA CalmOutside ==
    ASSUME IInv, FlagInv, cur_process = NONE \/ pc[cur_process] # "intr"
    PROVE  Calm
<1>1. exception_flag \in {0, 1} /\ \A p \in Pid : pc[p] \in {"run", "iret", "intr", "trap"}
  BY DEF IInv, TypeOK
<1>2. NONE \notin Pid
  BY ConstantFacts
<1>3. exception_flag # 1
  BY <1>2 DEF FlagInv
<1> QED BY <1>1, <1>3 DEF FlagInv, Calm

LEMMA CalmFlag ==
    ASSUME Calm
    PROVE  FlagInv
BY DEF Calm, FlagInv

\* A new process does not start in an exception.
LEMMA StartIsCalm ==
    ASSUME IInv, Calm, exception_flag' = exception_flag,
           NEW t, NEW caller, NEW pa, NEW s, NEW under,
           StartProcess(t, caller, pa, s, under)
    PROVE  Calm'
<1>1. pc \in [Pid -> {"run", "iret", "intr", "trap"}]
  BY DEF IInv, TypeOK
<1>2. pc' = [pc EXCEPT ![FirstFree(pa)] = "iret"]
  BY DEF StartProcess
<1>3. \A p \in Pid : pc'[p] = "iret" \/ pc'[p] = pc[p]
  BY <1>1, <1>2
<1> QED BY <1>3 DEF Calm

LEMMA PlainQuiet ==
    ASSUME Env = {}
    PROVE  Quiet /\ ShellLookup = {TRUE}
BY DEF Quiet, ShellLookup

\* The shell that halt executes in place of a base shell is there.
LEMMA BaseRestarts ==
    ASSUME Env = {}, NEW status, HaltBase(status)
    PROVE  /\ exception_flag' = exception_flag
           /\ StartProcess(sche_term, NONE, Released(cur_process),
                           StackOf(cur_process), Beneath(cur_process))
<1>1. ShellLookup = {TRUE}
  BY PlainQuiet
<1>2. \A found \in ShellLookup : found = TRUE
  BY <1>1
<1>3. exception_flag' = exception_flag
  BY DEF HaltBase
<1> QED BY <1>2, <1>3 DEF HaltBase

LEMMA FlagStep ==
    ASSUME Env = {}, IInv, FlagInv, [Next]_vars
    PROVE  FlagInv'
<1>1. /\ pc \in [Pid -> {"run", "iret", "intr", "trap"}]
      /\ cur_process \in Pid \cup {NONE}
      /\ exception_flag \in {0, 1}
      /\ NONE \notin Pid
  BY ConstantFacts DEF IInv, TypeOK
<1>2. CASE Boot
  <2>1. Calm
    BY <1>2, CalmOutside DEF Boot
  <2>2. Calm'
    BY <1>2, <2>1, StartIsCalm DEF Boot
  <2> QED BY <2>2 DEF Calm, FlagInv
<1>3. CASE Execute
  <2>1. Calm
    BY <1>3, CalmOutside DEF Execute
  <2>2. Calm'
    BY <1>3, <2>1, StartIsCalm DEF Execute
  <2> QED BY <2>2 DEF Calm, FlagInv
<1>4. CASE ExecuteFails
  BY <1>4 DEF ExecuteFails, tables, cpu, FlagInv
<1>5. CASE Iret
  <2>1. Calm
    BY <1>5, CalmOutside DEF Iret
  <2>2. pc' = [pc EXCEPT ![cur_process] = "run"] /\ exception_flag' = exception_flag
    BY <1>5 DEF Iret
  <2>3. \A p \in Pid : pc'[p] = "run" \/ pc'[p] = pc[p]
    BY <1>1, <2>2
  <2> QED BY <2>1, <2>2, <2>3 DEF Calm, FlagInv
<1>6. ASSUME NEW how \in {"intr", "trap", "run"}, Raise(how) PROVE FlagInv'
  <2>1. /\ cur_process \in Pid
        /\ pc[cur_process] = "run"
        /\ how = "intr"
        /\ parent_pid[cur_process] # NONE
    BY <1>1, <1>6 DEF Raise, Up
  <2>2. Calm
    BY <2>1, CalmOutside
  <2>3. /\ exception_flag' = 1
        /\ pc' = [pc EXCEPT ![cur_process] = "intr"]
        /\ cur_process' = cur_process /\ parent_pid' = parent_pid
    BY <1>6, <2>1 DEF Raise, tables, cpu
  <2>4. pc'[cur_process] = "intr" /\ \A p \in Pid : p # cur_process => pc'[p] = pc[p]
    BY <1>1, <2>1, <2>3
  <2> QED BY <2>1, <2>2, <2>3, <2>4 DEF Calm, FlagInv
<1>7. ASSUME NEW status \in Status, HaltChild(status) PROVE FlagInv'
  <2>1. /\ exception_flag' = 0
        /\ pc' = [pc EXCEPT ![cur_process] = "run"]
    BY <1>7 DEF HaltChild, FlagReported
  <2>2. \A p \in Pid : pc'[p] \in {"run", "iret"}
    <3>1. \A p \in Pid : p # cur_process => pc[p] \in {"run", "iret"}
      BY <1>1 DEF FlagInv
    <3>2. \A p \in Pid : IF p = cur_process THEN pc'[p] = "run" ELSE pc'[p] = pc[p]
      BY <1>1, <2>1
    <3> QED BY <3>1, <3>2
  <2> QED BY <2>1, <2>2 DEF FlagInv
<1>8. ASSUME NEW status \in Status, HaltBase(status) PROVE FlagInv'
  <2>1. cur_process \in Pid /\ parent_pid[cur_process] = NONE
    BY <1>1, <1>8 DEF HaltBase, HaltsWith, Up
  <2>2. Calm
    <3>1. pc[cur_process] # "intr"
      BY <2>1 DEF FlagInv
    <3> QED BY <3>1, CalmOutside
  <2>3. /\ exception_flag' = exception_flag
        /\ StartProcess(sche_term, NONE, Released(cur_process), StackOf(cur_process),
                        Beneath(cur_process))
    BY <1>8, BaseRestarts
  <2>4. Calm'
    BY <2>2, <2>3, StartIsCalm
  <2> QED BY <2>4 DEF Calm, FlagInv
<1>9. CASE Pit
  <2>1. Calm
    BY <1>9, CalmOutside DEF Pit, PitSwitch, PitLaunch, TickTaken
  <2>2. CASE PitSwitch
    BY <2>1, <2>2 DEF PitSwitch, Calm, FlagInv
  <2>3. CASE PitLaunch
    <3>1. exception_flag' = exception_flag
      BY <2>3 DEF PitLaunch
    <3>2. CASE pc' = pc
      BY <2>1, <3>1, <3>2 DEF Calm, FlagInv
    <3>3. CASE pc' # pc
      <4>1. StartProcess(NextTerminal(sche_term), NONE, process_array,
                         StackOf(cur_process), SavedStacks[StackOf(cur_process)])
        BY <2>3, <3>3 DEF PitLaunch
      <4>2. Calm'
        BY <2>1, <3>1, <4>1, StartIsCalm
      <4> QED BY <4>2 DEF Calm, FlagInv
    <3> QED BY <3>2, <3>3
  <2> QED BY <1>9, <2>2, <2>3 DEF Pit
<1>10. CASE UNCHANGED vars
  BY <1>10 DEF vars, tables, cpu, FlagInv
<1> QED BY <1>2, <1>3, <1>4, <1>5, <1>6, <1>7, <1>8, <1>9, <1>10 DEF Next

\* A slot that is busy stays busy in every step but one: halt of its process, when
\* that one has a parent.
LEMMA StaysBusy ==
    ASSUME Env = {}, IInv, [Next]_vars, Up, process_array'[cur_process] = 0
    PROVE  \E status \in Status : HaltChild(status)
<1>1. /\ cur_process \in Pid /\ process_array[cur_process] = 1
      /\ process_array \in [Pid -> {0, 1}]
  BY DEF IInv, TypeOK, Up, Running, Busy
\* The start of a process, in a table that counts the current one as busy.
<1>2. ASSUME NEW t, NEW caller, NEW s, NEW under,
             StartProcess(t, caller, process_array, s, under)
      PROVE  FALSE
  <2>1. process_array' = [process_array EXCEPT ![FirstFree(process_array)] = 1]
    BY <1>2 DEF StartProcess
  <2>2. process_array'[cur_process] = 1
    BY <1>1, <2>1
  <2> QED BY <2>2
<1>3. CASE Boot
  BY <1>3 DEF Boot, Up
<1>4. CASE Execute
  BY <1>2, <1>4 DEF Execute
<1>5. process_array' # process_array
  BY <1>1
<1>6. ~ExecuteFails /\ ~Iret /\ ~PitSwitch /\ ~UNCHANGED vars
  BY <1>5 DEF ExecuteFails, Iret, PitSwitch, vars, tables
<1>7. \A how : ~Raise(how)
  BY <1>5 DEF Raise, tables
<1>8. CASE PitLaunch
  <2>1. StartProcess(NextTerminal(sche_term), NONE, process_array,
                     StackOf(cur_process), SavedStacks[StackOf(cur_process)])
    BY <1>5, <1>8 DEF PitLaunch, tables
  <2> QED BY <1>2, <2>1
<1>9. ASSUME NEW status \in Status, HaltBase(status) PROVE FALSE
  <2>1. parent_pid[cur_process] = NONE
    BY <1>9 DEF HaltBase
  <2>2. FirstFree(Released(cur_process)) = cur_process
    BY <2>1, SlotOfBase
  <2>3. process_array' = [Released(cur_process) EXCEPT
                            ![FirstFree(Released(cur_process))] = 1]
    BY <1>9, BaseRestarts DEF StartProcess
  <2>4. DOMAIN Released(cur_process) = Pid
    BY <1>1 DEF Released
  <2>5. process_array'[cur_process] = 1
    BY <1>1, <2>2, <2>3, <2>4
  <2> QED BY <2>5
<1> QED BY <1>3, <1>4, <1>6, <1>7, <1>8, <1>9 DEF Next, Pit

LEMMA ExitStep ==
    ASSUME Env = {}, IInv, FlagInv, [Next]_vars, Up, process_array'[cur_process] = 0
    PROVE  eax' = EXCEPTION_RET <=> pc[cur_process] \in {"intr", "trap"}
<1>1. PICK status \in Status : HaltChild(status)
  BY StaysBusy
<1>2. eax' = HaltRet(status)
  BY <1>1 DEF HaltChild
<1>3. status # EXCEPTION_RET
  BY ConstantsAssumption DEF EXCEPTION_RET
<1>4. cur_process \in Pid
  BY DEF IInv, TypeOK, Up
<1>5. exception_flag = 1 <=> pc[cur_process] \in {"intr", "trap"}
  BY <1>4 DEF FlagInv
<1> QED BY <1>2, <1>3, <1>5 DEF HaltRet

\* ExitStatus holds in the plain environment, in which exceptions are page faults
\* of programs that have a parent: the caller of execute is told 256 if and only
\* if the program died of an exception (system_call.c:130-134).
THEOREM ExitStatusHolds ==
    ASSUME Env = {}
    PROVE  Spec => ExitStatus
<1>1. Spec => []IInv
  BY PlainQuiet, Inductive
<1>2. Init => FlagInv
  BY DEF Init, FlagInv
<1>3. IInv /\ FlagInv /\ [Next]_vars => FlagInv'
  BY FlagStep
<1>4. IInv /\ FlagInv /\ [Next]_vars =>
        [Up /\ process_array'[cur_process] = 0 =>
           (eax' = EXCEPTION_RET <=> pc[cur_process] \in {"intr", "trap"})]_vars
  BY ExitStep
<1> QED BY <1>1, <1>2, <1>3, <1>4, PTL DEF Spec, ExitStatus

----------------------------------------------------------------------------
(* The line of a terminal                                                  *)

\* s is the line of processes of terminal t.
IsLine(s, t) ==
    /\ s \in Seq(Pid)
    /\ IF active_array[t] = NONE THEN Len(s) = 0
       ELSE /\ Len(s) > 0
            /\ s[1] = t /\ parent_pid[t] = NONE
            /\ s[Len(s)] = active_array[t]
    /\ \A i \in 2 .. Len(s) : parent_pid[s[i]] = s[i - 1]
    /\ \A i \in 1 .. Len(s) : Busy(s[i]) /\ home[s[i]] = t
    /\ \A i, j \in 1 .. Len(s) : s[i] = s[j] => i = j

\* Every process is in the line of its terminal.
AreLines(L) ==
    /\ L \in [Terminal -> Seq(Pid)]
    /\ \A t \in Terminal : IsLine(L[t], t)
    /\ \A p \in Pid : Busy(p) => \E i \in 1 .. Len(L[home[p]]) : L[home[p]][i] = p

HasLines == \E L : AreLines(L)

LEMMA InitLines ==
    ASSUME Init
    PROVE  HasLines
<1> DEFINE L == [t \in Terminal |-> << >>]
<1>1. L \in [Terminal -> Seq(Pid)] /\ \A t \in Terminal : L[t] = << >> /\ Len(L[t]) = 0
  OBVIOUS
<1> HIDE DEF L
<1>2. \A p \in Pid : ~Busy(p)
  BY DEF Init, Busy
<1>3. ASSUME NEW t \in Terminal PROVE IsLine(L[t], t)
  <2>1. active_array[t] = NONE
    BY DEF Init
  <2> QED BY <1>1, <2>1 DEF IsLine
<1> QED BY <1>1, <1>2, <1>3 DEF AreLines, HasLines

\* A step that leaves the tables alone leaves the lines alone.
LEMMA SameLines ==
    ASSUME NEW L, AreLines(L), UNCHANGED tables
    PROVE  AreLines(L)'
BY DEF AreLines, IsLine, tables, Busy

\* A new process n is the active one of its terminal, and the line grows by it.
LEMMA LongerLine ==
    ASSUME IInv, NEW L, AreLines(L),
           NEW t \in Terminal, NEW n \in Pid, ~Busy(n),
           process_array' = [process_array EXCEPT ![n] = 1],
           active_array' = [active_array EXCEPT ![t] = n],
           parent_pid' = [parent_pid EXCEPT ![n] = active_array[t]],
           home' = [home EXCEPT ![n] = t],
           active_array[t] = NONE => n = t
    PROVE  AreLines([L EXCEPT ![t] = Append(@, n)])'
<1> DEFINE s == L[t]
           z == Append(s, n)
           M == [L EXCEPT ![t] = z]
<1>1. /\ process_array \in [Pid -> {0, 1}] /\ parent_pid \in [Pid -> Pid \cup {NONE}]
      /\ active_array \in [Terminal -> Pid \cup {NONE}] /\ home \in [Pid -> Terminal]
      /\ NONE \notin Pid
  BY ConstantFacts DEF IInv, TypeOK
<1>2. /\ \A p \in Pid : Busy(p)' <=> p = n \/ Busy(p)
      /\ \A p \in Pid \ {n} : parent_pid'[p] = parent_pid[p] /\ home'[p] = home[p]
      /\ parent_pid'[n] = active_array[t] /\ home'[n] = t
      /\ active_array'[t] = n
      /\ \A u \in Terminal \ {t} : active_array'[u] = active_array[u]
  BY <1>1 DEF Busy
<1>3. L \in [Terminal -> Seq(Pid)] /\ s \in Seq(Pid) /\ IsLine(s, t)
  BY DEF AreLines
<1>4. /\ z \in Seq(Pid) /\ Len(z) = Len(s) + 1 /\ Len(s) \in Nat
      /\ z[Len(s) + 1] = n
      /\ \A i \in 1 .. Len(s) : z[i] = s[i]
  BY <1>3
<1>5. /\ M \in [Terminal -> Seq(Pid)] /\ M[t] = z
      /\ \A u \in Terminal \ {t} : M[u] = L[u]
  BY <1>3, <1>4
<1>6. \A u \in Terminal : \A i \in 1 .. Len(L[u]) : L[u][i] \in Pid \ {n}
  BY <1>3 DEF AreLines, IsLine
<1>7. ASSUME NEW u \in Terminal \ {t} PROVE IsLine(L[u], u)'
  <2>1. IsLine(L[u], u)
    BY DEF AreLines
  <2>2. active_array[u] # NONE => u # n /\ u \in Pid
    BY <2>1, ConstantFacts DEF IsLine
  <2> QED BY <1>2, <1>6, <2>1, <2>2 DEF IsLine
<1> HIDE DEF z, M, s
<1>8. IsLine(z, t)'
  <2>1. \A i \in 1 .. Len(s) : s[i] \in Pid \ {n}
    BY <1>6 DEF s
  <2>2. CASE active_array[t] = NONE
    <3>1. Len(s) = 0 /\ n = t
      BY <1>3, <2>2 DEF IsLine
    <3> QED BY <1>1, <1>2, <1>4, <2>2, <3>1 DEF IsLine
  <2>3. CASE active_array[t] # NONE
    <3>1. Len(s) > 0 /\ s[1] = t /\ parent_pid[t] = NONE /\ s[Len(s)] = active_array[t]
      BY <1>3, <2>3 DEF IsLine
    <3>2. z[1] = t /\ parent_pid'[t] = NONE /\ z[Len(z)] = active_array'[t]
      BY <1>2, <1>4, <2>1, <3>1
    <3>3. \A i \in 2 .. Len(z) : parent_pid'[z[i]] = z[i - 1]
      <4>1. ASSUME NEW i \in 2 .. Len(s) PROVE parent_pid'[z[i]] = z[i - 1]
        <5>1. i \in 1 .. Len(s) /\ i - 1 \in 1 .. Len(s)
          BY <1>4
        <5>2. parent_pid[s[i]] = s[i - 1]
          BY <1>3 DEF IsLine
        <5> QED BY <1>2, <1>4, <2>1, <5>1, <5>2
      <4>2. parent_pid'[z[Len(s) + 1]] = z[Len(s)]
        BY <1>2, <1>4, <3>1
      <4> QED BY <1>4, <4>1, <4>2
    <3>4. \A i \in 1 .. Len(z) : Busy(z[i])' /\ home'[z[i]] = t
      BY <1>2, <1>3, <1>4, <2>1 DEF IsLine
    <3>5. \A i, j \in 1 .. Len(z) : z[i] = z[j] => i = j
      <4>1. \A i, j \in 1 .. Len(s) : s[i] = s[j] => i = j
        BY <1>3 DEF IsLine
      <4>2. \A i \in 1 .. Len(z) : i \in 1 .. Len(s) \/ i = Len(s) + 1
        BY <1>4
      <4> QED BY <1>4, <2>1, <4>1, <4>2
    <3>6. active_array'[t] # NONE /\ Len(z) > 0
      BY <1>1, <1>2, <1>4
    <3> QED BY <1>4, <3>2, <3>3, <3>4, <3>5, <3>6 DEF IsLine
  <2> QED BY <2>2, <2>3
<1>9. ASSUME NEW p \in Pid, Busy(p)'
      PROVE  \E i \in 1 .. Len(M[home'[p]]) : M[home'[p]][i] = p
  <2>1. CASE p = n
    BY <1>2, <1>4, <1>5, <2>1
  <2>2. CASE p # n
    <3>1. Busy(p) /\ home'[p] = home[p] /\ home[p] \in Terminal
      BY <1>1, <1>2, <1>9, <2>2
    <3>2. PICK i \in 1 .. Len(L[home[p]]) : L[home[p]][i] = p
      BY <3>1 DEF AreLines
    <3>3. CASE home[p] = t
      <4>1. i \in 1 .. Len(s) /\ s[i] = p
        BY <3>2, <3>3 DEF s
      <4>2. i \in 1 .. Len(z) /\ z[i] = p
        BY <1>4, <4>1
      <4> QED BY <1>5, <3>1, <3>3, <4>2
    <3>4. CASE home[p] # t
      BY <1>5, <3>1, <3>2, <3>4
    <3> QED BY <3>3, <3>4
  <2> QED BY <2>1, <2>2
<1>10. \A u \in Terminal : IsLine(M[u], u)'
  BY <1>5, <1>7, <1>8
<1>11. M = [L EXCEPT ![t] = Append(@, n)]
  BY <1>3 DEF M, z, s
<1> QED BY <1>5, <1>9, <1>10, <1>11 DEF AreLines


\* The active process of t ends, its parent is active again, and the line is
\* shorter by one.
LEMMA ShorterLine ==
    ASSUME IInv, NEW L, AreLines(L),
           NEW t \in Terminal, NEW p \in Pid, active_array[t] = p, parent_pid[p] # NONE,
           process_array' = [process_array EXCEPT ![p] = 0],
           active_array' = [active_array EXCEPT ![t] = parent_pid[p]],
           parent_pid' = [parent_pid EXCEPT ![p] = NONE],
           home' = [home EXCEPT ![p] = 0]
    PROVE  /\ Len(L[t]) > 1
           /\ AreLines([L EXCEPT ![t] = SubSeq(@, 1, Len(@) - 1)])'
<1> DEFINE s == L[t]
           z == SubSeq(s, 1, Len(s) - 1)
           M == [L EXCEPT ![t] = z]
<1>1. /\ process_array \in [Pid -> {0, 1}] /\ parent_pid \in [Pid -> Pid \cup {NONE}]
      /\ active_array \in [Terminal -> Pid \cup {NONE}] /\ home \in [Pid -> Terminal]
      /\ NONE \notin Pid
  BY ConstantFacts DEF IInv, TypeOK
<1>2. /\ \A q \in Pid : Busy(q)' <=> q # p /\ Busy(q)
      /\ \A q \in Pid \ {p} : parent_pid'[q] = parent_pid[q] /\ home'[q] = home[q]
      /\ active_array'[t] = parent_pid[p]
      /\ \A u \in Terminal \ {t} : active_array'[u] = active_array[u]
  BY <1>1 DEF Busy
<1>3. L \in [Terminal -> Seq(Pid)] /\ s \in Seq(Pid) /\ IsLine(s, t)
  BY DEF AreLines
<1>4. /\ Len(s) \in Nat /\ Len(s) > 0 /\ s[1] = t /\ parent_pid[t] = NONE
      /\ s[Len(s)] = p
  BY <1>1, <1>3 DEF IsLine
<1>5. Len(s) > 1 /\ parent_pid[p] = s[Len(s) - 1]
  <2>1. Len(s) # 1
    BY <1>4
  <2>2. Len(s) \in 2 .. Len(s)
    BY <1>4, <2>1
  <2> QED BY <1>3, <1>4, <2>1, <2>2 DEF IsLine
<1>6. /\ z \in Seq(Pid) /\ Len(z) = Len(s) - 1
      /\ \A i \in 1 .. Len(z) : z[i] = s[i] /\ z[i] \in Pid
  BY <1>3, <1>5, ElementOfSeq, SubSeqProperties
<1>7. /\ M \in [Terminal -> Seq(Pid)] /\ M[t] = z
      /\ \A u \in Terminal \ {t} : M[u] = L[u]
  BY <1>3, <1>6
<1> HIDE DEF s, z, M
<1>8. \A i, j \in 1 .. Len(s) : s[i] = s[j] => i = j
  BY <1>3 DEF IsLine
<1>9. \A i \in 1 .. Len(z) : z[i] # p
  <2>1. \A i \in 1 .. Len(z) : i \in 1 .. Len(s) /\ i # Len(s)
    BY <1>4, <1>6
  <2> QED BY <1>4, <1>6, <1>8, <2>1
<1>10. ASSUME NEW u \in Terminal \ {t} PROVE IsLine(L[u], u)'
  <2>1. IsLine(L[u], u) /\ L[u] \in Seq(Pid)
    BY DEF AreLines
  <2>2. home[p] = t
    BY <1>3, <1>4 DEF IsLine
  <2>3. \A i \in 1 .. Len(L[u]) : L[u][i] \in Pid \ {p}
    BY <2>1, <2>2, ElementOfSeq DEF IsLine
  <2>4. active_array[u] # NONE => u \in Pid \ {p}
    BY <2>1, <2>3 DEF IsLine
  <2> QED BY <1>2, <2>1, <2>3, <2>4 DEF IsLine
<1>11. IsLine(z, t)'
  <2>1. t # p /\ t \in Pid /\ parent_pid'[t] = NONE
    BY <1>2, <1>4, ConstantFacts
  <2>2. Len(z) > 0 /\ z[1] = t /\ z[Len(z)] = active_array'[t]
    BY <1>2, <1>4, <1>5, <1>6
  <2>3. active_array'[t] # NONE
    BY <1>2
  <2>4. ASSUME NEW i \in 2 .. Len(z) PROVE parent_pid'[z[i]] = z[i - 1]
    <3>1. i \in 1 .. Len(z) /\ i - 1 \in 1 .. Len(z) /\ i \in 2 .. Len(s)
      BY <1>4, <1>6
    <3>2. parent_pid[s[i]] = s[i - 1]
      BY <1>3, <3>1 DEF IsLine
    <3> QED BY <1>2, <1>6, <1>9, <3>1, <3>2
  <2>5. ASSUME NEW i \in 1 .. Len(z) PROVE Busy(z[i])' /\ home'[z[i]] = t
    <3>1. i \in 1 .. Len(s)
      BY <1>4, <1>6
    <3>2. Busy(s[i]) /\ home[s[i]] = t
      BY <1>3, <3>1 DEF IsLine
    <3> QED BY <1>2, <1>6, <1>9, <3>2
  <2>6. \A i, j \in 1 .. Len(z) : z[i] = z[j] => i = j
    <3>1. \A i \in 1 .. Len(z) : i \in 1 .. Len(s)
      BY <1>4, <1>6
    <3> QED BY <1>6, <1>8, <3>1
  <2> QED BY <1>6, <2>1, <2>2, <2>3, <2>4, <2>5, <2>6 DEF IsLine
<1>12. ASSUME NEW q \in Pid, Busy(q)'
       PROVE  \E i \in 1 .. Len(M[home'[q]]) : M[home'[q]][i] = q
  <2>1. Busy(q) /\ q # p /\ home'[q] = home[q] /\ home[q] \in Terminal
    BY <1>1, <1>2, <1>12
  <2>2. PICK i \in 1 .. Len(L[home[q]]) : L[home[q]][i] = q
    BY <2>1 DEF AreLines
  <2>3. CASE home[q] = t
    <3>1. i \in 1 .. Len(s) /\ s[i] = q
      BY <2>2, <2>3 DEF s
    <3>2. i # Len(s)
      BY <1>4, <2>1, <3>1
    <3>3. i \in 1 .. Len(z) /\ z[i] = q
      BY <1>4, <1>6, <3>1, <3>2
    <3> QED BY <1>7, <2>1, <2>3, <3>3
  <2>4. CASE home[q] # t
    BY <1>7, <2>1, <2>2, <2>4
  <2> QED BY <2>3, <2>4
<1>13. \A u \in Terminal : IsLine(M[u], u)'
  BY <1>7, <1>10, <1>11
<1>14. M = [L EXCEPT ![t] = SubSeq(@, 1, Len(@) - 1)]
  BY <1>3 DEF M, z, s
<1>15. AreLines(M)'
  BY <1>7, <1>12, <1>13 DEF AreLines
<1> QED BY <1>5, <1>14, <1>15 DEF s

----------------------------------------------------------------------------
(* What each action does to the lines                                      *)

\* A slot that execute finds.
LEMMA FoundSlot ==
    ASSUME IInv, Free(process_array) # {}
    PROVE  FirstFree(process_array) \in Pid /\ ~Busy(FirstFree(process_array))
BY FirstFreeLeast DEF Busy

LEMMA BootLines ==
    ASSUME IInv, Boot, NEW L, AreLines(L)
    PROVE  /\ L[sche_term] = << >> /\ sche_term \in Terminal
           /\ \E n \in Pid : \E M :
                 ~Busy(n) /\ M = [L EXCEPT ![sche_term] = Append(@, n)] /\ AreLines(M)'
<1> DEFINE n == FirstFree(process_array)
<1>1. /\ sche_term = 0 /\ cur_process = NONE
      /\ \A p \in Pid : process_array[p] = 0
      /\ \A t \in Terminal : active_array[t] = NONE
  BY DEF Boot, IInv, BeforeBoot
<1>2. 0 \in Terminal /\ 0 \in Pid /\ Pid \subseteq Nat
  BY ConstantFacts
<1>3. n = 0
  <2>1. Free(process_array) # {}
    BY <1>1, <1>2 DEF Free
  <2>2. n \in Nat /\ n <= 0
    BY <1>1, <1>2, <2>1, FirstFreeLeast
  <2> QED BY <2>2
<1>4. /\ process_array' = [process_array EXCEPT ![0] = 1]
      /\ active_array' = [active_array EXCEPT ![0] = 0]
      /\ parent_pid' = [parent_pid EXCEPT ![0] = active_array[0]]
      /\ home' = [home EXCEPT ![0] = 0]
  BY <1>1, <1>2, <1>3 DEF Boot, StartProcess, ParentOf
<1>5. ~Busy(0)
  BY <1>1, <1>2 DEF Busy
<1>6. AreLines([L EXCEPT ![0] = Append(@, 0)])'
  BY <1>2, <1>4, <1>5, LongerLine
<1>7. Len(L[0]) = 0 /\ L[0] \in Seq(Pid)
  BY <1>1, <1>2 DEF AreLines, IsLine
<1>8. L[0] = << >>
  BY <1>7
<1> QED BY <1>1, <1>2, <1>5, <1>6, <1>8

LEMMA ExecuteLines ==
    ASSUME IInv, Execute, NEW L, AreLines(L)
    PROVE  \E n \in Pid : \E M :
              ~Busy(n) /\ M = [L EXCEPT ![sche_term] = Append(@, n)] /\ AreLines(M)'
<1> DEFINE n == FirstFree(process_array)
<1>1. n \in Pid /\ ~Busy(n)
  BY FoundSlot DEF Execute
<1>2. /\ sche_term \in Terminal /\ cur_process = active_array[sche_term]
      /\ cur_process # NONE
  BY DEF Execute, Up, IInv, TypeOK, Running
<1>3. /\ process_array' = [process_array EXCEPT ![n] = 1]
      /\ active_array' = [active_array EXCEPT ![sche_term] = n]
      /\ parent_pid' = [parent_pid EXCEPT ![n] = active_array[sche_term]]
      /\ home' = [home EXCEPT ![n] = sche_term]
  BY <1>2 DEF Execute, StartProcess, ParentOf
<1> HIDE DEF n
<1>4. PICK t \in Terminal : t = sche_term
  BY <1>2
<1>5. PICK k \in Pid : k = n
  BY <1>1
<1>6. AreLines([L EXCEPT ![t] = Append(@, k)])'
  BY <1>1, <1>2, <1>3, <1>4, <1>5, LongerLine
<1> QED BY <1>1, <1>4, <1>5, <1>6

LEMMA LaunchLines ==
    ASSUME Quiet, IInv, PitLaunch, NEW L, AreLines(L)
    PROVE  LET t == NextTerminal(sche_term) IN
           /\ t \in Terminal /\ L[t] = << >>
           /\ \E n \in Pid : \E M :
                 ~Busy(n) /\ M = [L EXCEPT ![t] = Append(@, n)] /\ AreLines(M)'
<1> DEFINE t == NextTerminal(sche_term)
<1>1. t \in Terminal /\ active_array[t] = NONE
  BY ConstantFacts DEF PitLaunch, IInv, TypeOK
<1>2. /\ t \in Pid /\ ~Busy(t) /\ FirstFree(process_array) = t
      /\ StartProcess(t, NONE, process_array, StackOf(cur_process),
                      SavedStacks[StackOf(cur_process)])
  BY LaunchSlot
<1> HIDE DEF t
<1>3. /\ process_array' = [process_array EXCEPT ![t] = 1]
      /\ active_array' = [active_array EXCEPT ![t] = t]
      /\ parent_pid' = [parent_pid EXCEPT ![t] = active_array[t]]
      /\ home' = [home EXCEPT ![t] = t]
  BY <1>1, <1>2 DEF StartProcess, ParentOf
<1>7. PICK k \in Terminal : k = t
  BY <1>1
<1>4. AreLines([L EXCEPT ![k] = Append(@, k)])'
  BY <1>1, <1>2, <1>3, <1>7, LongerLine
<1>5. Len(L[t]) = 0 /\ L[t] \in Seq(Pid)
  BY <1>1 DEF AreLines, IsLine
<1>6. L[t] = << >>
  BY <1>5
<1> QED BY <1>1, <1>2, <1>4, <1>6, <1>7 DEF t

LEMMA HaltChildLines ==
    ASSUME IInv, NEW status, HaltChild(status), NEW L, AreLines(L)
    PROVE  /\ Len(L[sche_term]) > 1
           /\ \E M : /\ M = [L EXCEPT ![sche_term] = SubSeq(@, 1, Len(@) - 1)]
                     /\ AreLines(M)'
<1>1. /\ sche_term \in Terminal /\ cur_process \in Pid
      /\ active_array[sche_term] = cur_process /\ parent_pid[cur_process] # NONE
  BY DEF HaltChild, HaltsWith, Up, IInv, TypeOK, Running
<1>2. /\ process_array' = [process_array EXCEPT ![cur_process] = 0]
      /\ active_array' = [active_array EXCEPT ![sche_term] = parent_pid[cur_process]]
      /\ parent_pid' = [parent_pid EXCEPT ![cur_process] = NONE]
      /\ home' = [home EXCEPT ![cur_process] = 0]
  BY DEF HaltChild, Released, ActiveAfterHalt
<1>3. PICK t \in Terminal, p \in Pid : t = sche_term /\ p = cur_process
  BY <1>1
<1>4. Len(L[t]) > 1 /\ AreLines([L EXCEPT ![t] = SubSeq(@, 1, Len(@) - 1)])'
  BY <1>1, <1>2, <1>3, ShorterLine
<1> QED BY <1>3, <1>4

\* A base shell that ends is replaced in its own slot: the tables do not change.
LEMMA HaltBaseTables ==
    ASSUME Quiet, IInv, NEW status, HaltBase(status)
    PROVE  UNCHANGED << tables, sche_term, eax >>
<1> DEFINE c == cur_process
<1>1. /\ Up /\ c \in Pid /\ Busy(c) /\ parent_pid[c] = NONE
      /\ active_array[sche_term] = c /\ home[c] = sche_term /\ sche_term \in Terminal
  BY DEF HaltBase, HaltsWith, Up, IInv, TypeOK, Running
<1>2. ShellLookup = {TRUE}
  BY DEF ShellLookup, Quiet
<1>3. /\ StartProcess(sche_term, NONE, Released(c), StackOf(c), Beneath(c))
      /\ UNCHANGED << sche_term, eax >>
  BY <1>2 DEF HaltBase
<1>4. FirstFree(Released(c)) = c
  BY <1>1, SlotOfBase
<1>5. /\ process_array' = [Released(c) EXCEPT ![c] = 1]
      /\ active_array' = [active_array EXCEPT ![sche_term] = c]
      /\ parent_pid' = [parent_pid EXCEPT ![c] = NONE]
      /\ home' = [home EXCEPT ![c] = sche_term]
  BY <1>3, <1>4 DEF StartProcess, ParentOf
<1>6. /\ process_array' = process_array /\ active_array' = active_array
      /\ parent_pid' = parent_pid /\ home' = home
  BY <1>1, <1>5 DEF IInv, TypeOK, Released, Busy
<1> QED BY <1>3, <1>6 DEF tables


\* Any other step leaves the tables alone.
LEMMA OtherLines ==
    ASSUME Quiet, IInv, [Next]_vars, ~Boot, ~Execute, ~PitLaunch,
           \A status \in Status : ~HaltChild(status)
    PROVE  UNCHANGED tables
<1>1. CASE ExecuteFails \/ Iret \/ PitSwitch \/ UNCHANGED vars
  BY <1>1 DEF ExecuteFails, Iret, PitSwitch, vars
<1>2. ASSUME NEW how, Raise(how) PROVE UNCHANGED tables
  BY <1>2 DEF Raise
<1>3. ASSUME NEW status, HaltBase(status) PROVE UNCHANGED tables
  BY <1>3, HaltBaseTables
<1> QED BY <1>1, <1>2, <1>3 DEF Next, Pit

LEMMA LinesStep ==
    ASSUME Quiet, IInv, HasLines, [Next]_vars
    PROVE  HasLines'
<1>1. PICK L : AreLines(L)
  BY DEF HasLines
<1>2. CASE Boot \/ Execute \/ PitLaunch
  BY <1>1, <1>2, BootLines, ExecuteLines, LaunchLines DEF HasLines
<1>3. ASSUME NEW status \in Status, HaltChild(status) PROVE HasLines'
  BY <1>1, <1>3, HaltChildLines DEF HasLines
<1>4. CASE UNCHANGED tables
  BY <1>1, <1>4, SameLines DEF HasLines
<1> QED BY <1>2, <1>3, <1>4, OtherLines

LEMMA AlwaysLines ==
    ASSUME Quiet
    PROVE  Spec => [](IInv /\ HasLines)
<1>1. Spec => []IInv
  BY Inductive
<1>2. Init => HasLines
  BY InitLines
<1>3. IInv /\ HasLines /\ [Next]_vars => HasLines'
  BY LinesStep
<1> QED BY <1>1, <1>2, <1>3, PTL DEF Spec

----------------------------------------------------------------------------
(* Climbing from a process to its base shell                               *)

\* A line has no more processes than there are slots.
LEMMA LineLength ==
    ASSUME NEW s \in Seq(Pid), \A i, j \in 1 .. Len(s) : s[i] = s[j] => i = j
    PROVE  Len(s) <= MAX_PROCESS
<1> DEFINE f == [i \in 1 .. Len(s) |-> s[i]]
<1>1. SUFFICES ASSUME Len(s) > MAX_PROCESS PROVE FALSE
  BY ConstantsAssumption
<1>2. f \in [1 .. Len(s) -> Pid]
  OBVIOUS
<1>3. /\ IsFiniteSet(1 .. Len(s)) /\ Cardinality(1 .. Len(s)) = Len(s)
      /\ IsFiniteSet(Pid) /\ Cardinality(Pid) = MAX_PROCESS
  <2>1. MAX_PROCESS \in Nat /\ 0 \in Int /\ MAX_PROCESS - 1 \in Int
    BY ConstantsAssumption
  <2>2. IsFiniteSet(Pid) /\ Cardinality(Pid) = MAX_PROCESS
    BY <2>1, FS_Interval DEF Pid
  <2>3. IsFiniteSet(1 .. Len(s)) /\ Cardinality(1 .. Len(s)) = Len(s)
    <3>1. Len(s) \in Int /\ Len(s) \in Nat /\ 1 \in Int
      OBVIOUS
    <3>2. Cardinality(1 .. Len(s)) = IF 1 > Len(s) THEN 0 ELSE Len(s) - 1 + 1
      BY <3>1, FS_Interval
    <3> QED BY <3>1, <3>2, FS_Interval
  <2> QED BY <2>2, <2>3
<1>4. \E i, j \in 1 .. Len(s) : i # j /\ f[i] = f[j]
  <2> HIDE DEF f
  <2>1. Cardinality(Pid) < Cardinality(1 .. Len(s))
    BY <1>1, <1>3, ConstantsAssumption
  <2> QED BY <1>2, <1>3, <2>1, FS_PigeonHole
<1> QED BY <1>4

\* The value of climb in get_owner_terminal satisfies its definition.
LEMMA ClimbExists ==
    ASSUME TypeOK, NEW p \in Pid
    PROVE  \E climb : /\ get_owner_terminal(p) = climb[MAX_PROCESS]
                      /\ climb[0] = p
                      /\ \A n \in 1 .. MAX_PROCESS :
                            climb[n] = IF climb[n - 1] < NUM_TERMINAL THEN climb[n - 1]
                                       ELSE parent_pid[climb[n - 1]]
<1> DEFINE V == Pid \cup {NONE}
           up == [q \in V |-> IF q < NUM_TERMINAL THEN q ELSE parent_pid[q]]
           body(g) == [n \in 0 .. MAX_PROCESS |->
                         IF n = 0 THEN p
                         ELSE IF g[n - 1] < NUM_TERMINAL THEN g[n - 1]
                         ELSE parent_pid[g[n - 1]]]
           climb == CHOOSE g : g = body(g)
<1>1. up \in [V -> V]
  BY ConstantsAssumption DEF TypeOK, NONE, Pid
<1>2. MAX_PROCESS \in Nat /\ p \in V
  BY ConstantsAssumption
<1>3. PICK f \in [0 .. MAX_PROCESS -> V] :
         f[0] = p /\ \A n \in 1 .. MAX_PROCESS : f[n] = up[f[n - 1]]
  <2> DEFINE step == [n \in 1 .. MAX_PROCESS |-> up]
  <2>1. step \in [1 .. MAX_PROCESS -> [V -> V]]
    BY <1>1
  <2> HIDE DEF step, V, up, body, climb
  <2>2. \E f \in [0 .. MAX_PROCESS -> V] : Follows(f, MAX_PROCESS, p, step)
    BY <1>2, <2>1, RecursionExists
  <2> QED BY <2>2 DEF step, Follows
<1>4. f = body(f)
  <2>1. ASSUME NEW n \in 0 .. MAX_PROCESS PROVE f[n] = body(f)[n]
    <3>1. CASE n = 0
      BY <1>3, <3>1
    <3>2. CASE n # 0
      <4>1. n \in 1 .. MAX_PROCESS /\ n - 1 \in 0 .. MAX_PROCESS
        BY <1>2, <3>2
      <4>2. f[n - 1] \in V /\ f[n] = up[f[n - 1]]
        BY <1>3, <4>1
      <4> QED BY <3>2, <4>2
    <3> QED BY <3>1, <3>2
  <2> QED BY <2>1
<1>5. climb = body(climb)
  BY <1>4
<1>6. get_owner_terminal(p) = climb[MAX_PROCESS]
  BY DEF get_owner_terminal
<1> HIDE DEF climb
<1>7. climb[0] = p
  BY <1>2, <1>5
<1>8. \A n \in 1 .. MAX_PROCESS :
         climb[n] = IF climb[n - 1] < NUM_TERMINAL THEN climb[n - 1]
                    ELSE parent_pid[climb[n - 1]]
  BY <1>2, <1>5
<1> QED BY <1>6, <1>7, <1>8

\* A pid that is the number of a terminal is the base shell of that terminal.
LEMMA LowPid ==
    ASSUME IInv, NEW p \in Terminal, Busy(p)
    PROVE  parent_pid[p] = NONE /\ home[p] = p
<1>1. p \in Pid /\ cur_process # NONE
  BY ConstantFacts DEF IInv, BeforeBoot, Busy
<1>2. active_array[p] # NONE
  BY <1>1 DEF IInv, Booting, BaseShellsUp
<1> QED BY <1>1, <1>2 DEF IInv, Tree, UpTerminals, BaseShells

LEMMA OwnerFollows ==
    ASSUME IInv, HasLines
    PROVE  OwnerTerminal
<1>1. SUFFICES ASSUME NEW p \in Pid, Busy(p) PROVE get_owner_terminal(p) = home[p]
  BY DEF OwnerTerminal
<1>2. PICK L : AreLines(L)
  BY DEF HasLines
<1> DEFINE t == home[p]
           s == L[t]
<1>3. t \in Terminal /\ TypeOK
  BY DEF IInv, TypeOK
<1>4. IsLine(s, t) /\ s \in Seq(Pid)
  BY <1>2, <1>3 DEF AreLines
<1>5. PICK k \in 1 .. Len(s) : s[k] = p
  BY <1>1, <1>2 DEF AreLines
<1> HIDE DEF s, t
<1>6. /\ s[1] = t
      /\ \A i \in 2 .. Len(s) : parent_pid[s[i]] = s[i - 1]
      /\ \A i \in 1 .. Len(s) : s[i] \in Pid /\ Busy(s[i]) /\ home[s[i]] = t
      /\ \A i, j \in 1 .. Len(s) : s[i] = s[j] => i = j
      /\ Len(s) \in Nat
  BY <1>4, <1>5 DEF IsLine
<1>7. Len(s) <= MAX_PROCESS /\ MAX_PROCESS \in Nat
  BY <1>4, <1>6, LineLength, ConstantsAssumption
<1>8. PICK climb : /\ get_owner_terminal(p) = climb[MAX_PROCESS]
                   /\ climb[0] = p
                   /\ \A n \in 1 .. MAX_PROCESS :
                         climb[n] = IF climb[n - 1] < NUM_TERMINAL THEN climb[n - 1]
                                    ELSE parent_pid[climb[n - 1]]
  BY <1>3, ClimbExists
<1> DEFINE pos(n) == IF n < k THEN k - n ELSE 1
           S == {n \in 0 .. MAX_PROCESS : climb[n] = s[pos(n)]}
<1>9. 0 \in S
  BY <1>5, <1>7, <1>8
<1>10. ASSUME NEW n \in 0 .. MAX_PROCESS - 1, n \in S PROVE n + 1 \in S
  <2> DEFINE j == pos(n)
  <2>1. j \in 1 .. Len(s) /\ climb[n] = s[j]
    BY <1>5, <1>6, <1>10
  <2>2. n + 1 \in 1 .. MAX_PROCESS /\ (n + 1) - 1 = n
    BY <1>7
  <2>3. climb[n + 1] = IF s[j] < NUM_TERMINAL THEN s[j] ELSE parent_pid[s[j]]
    BY <1>8, <2>1, <2>2
  <2> HIDE DEF j
  <2>4. CASE s[j] < NUM_TERMINAL
    <3>1. s[j] \in Terminal
      BY <1>6, <2>1, <2>4, ConstantsAssumption DEF Terminal, Pid
    <3>2. s[j] = t
      BY <1>6, <2>1, <3>1, LowPid
    <3>3. j = 1
      BY <1>6, <2>1, <3>2
    <3>4. pos(n + 1) = 1
      BY <3>3 DEF j
    <3> QED BY <2>2, <2>3, <2>4, <3>3, <3>4
  <2>5. CASE ~(s[j] < NUM_TERMINAL)
    <3>1. j # 1
      BY <1>3, <1>6, <2>5, ConstantsAssumption DEF Terminal
    <3>2. j \in 2 .. Len(s)
      BY <2>1, <3>1
    <3>3. pos(n + 1) = j - 1
      BY <3>1 DEF j
    <3> QED BY <1>6, <2>2, <2>3, <2>5, <3>2, <3>3
  <2> QED BY <2>4, <2>5
<1>11. MAX_PROCESS \in S
  <2> HIDE DEF S
  <2>1. \A n \in 0 .. MAX_PROCESS : n \in S
    BY <1>7, <1>9, <1>10, InductionUpTo
  <2> QED BY <1>7, <2>1
<1>12. pos(MAX_PROCESS) = 1
  BY <1>5, <1>7
<1> QED BY <1>6, <1>8, <1>11, <1>12 DEF t

\* get_owner_terminal names the terminal on which a process was executed: its
\* loop has climbed to the base shell when it stops, and no other process of the
\* line has the number of a terminal as pid.
THEOREM OwnerTerminalHolds ==
    ASSUME Quiet
    PROVE  Spec => []OwnerTerminal
<1>1. Spec => [](IInv /\ HasLines)
  BY AlwaysLines
<1>2. IInv /\ HasLines => OwnerTerminal
  BY OwnerFollows
<1> QED BY <1>1, <1>2, PTL

----------------------------------------------------------------------------
(* The stacks of jobs                                                      *)

\* The function up in the definition of Lines.
Ups(up) ==
    /\ Lines = [t \in Terminal |-> up[MAX_PROCESS][active_array[t]]]
    /\ \A p \in Pid \cup {NONE} : up[0][p] = << >>
    /\ \A n \in 1 .. MAX_PROCESS, p \in Pid \cup {NONE} :
          up[n][p] = IF p = NONE THEN << >> ELSE Append(up[n - 1][parent_pid[p]], p)

LEMMA UpExists ==
    ASSUME TypeOK
    PROVE  \E up : Ups(up)
<1> DEFINE P == Pid \cup {NONE}
           V == [P -> Seq(Pid)]
           body(g) == [n \in 0 .. MAX_PROCESS |->
                         [p \in P |-> IF n = 0 \/ p = NONE THEN << >>
                                     ELSE Append(g[n - 1][parent_pid[p]], p)]]
           up == CHOOSE g : g = body(g)
           nothing == [p \in P |-> << >>]
           more(h) == [p \in P |-> IF p = NONE THEN << >> ELSE Append(h[parent_pid[p]], p)]
           step == [n \in 1 .. MAX_PROCESS |-> [h \in V |-> more(h)]]
<1>1. MAX_PROCESS \in Nat /\ nothing \in V
  BY ConstantsAssumption
<1>2. \A h \in V : more(h) \in V
  <2> SUFFICES ASSUME NEW h \in V PROVE more(h) \in V
    OBVIOUS
  <2>1. ASSUME NEW p \in P, p # NONE PROVE Append(h[parent_pid[p]], p) \in Seq(Pid)
    <3>1. p \in Pid /\ parent_pid[p] \in P
      BY <2>1 DEF TypeOK
    <3>2. h[parent_pid[p]] \in Seq(Pid)
      BY <3>1
    <3> QED BY <3>1, <3>2, AppendProperties
  <2> QED BY <2>1
<1>3. step \in [1 .. MAX_PROCESS -> [V -> V]]
  <2> HIDE DEF more, V
  <2> QED BY <1>2
<1>4. PICK f \in [0 .. MAX_PROCESS -> V] : Follows(f, MAX_PROCESS, nothing, step)
  <2> HIDE DEF nothing, step, V
  <2> QED BY <1>1, <1>3, RecursionExists
<1>5. f[0] = nothing /\ \A n \in 1 .. MAX_PROCESS : f[n] = more(f[n - 1])
  <2>1. f[0] = nothing /\ \A n \in 1 .. MAX_PROCESS : f[n] = step[n][f[n - 1]]
    BY <1>4 DEF Follows
  <2> HIDE DEF nothing, more, V
  <2>2. ASSUME NEW n \in 1 .. MAX_PROCESS PROVE f[n] = more(f[n - 1])
    <3>1. n - 1 \in 0 .. MAX_PROCESS
      BY <1>1
    <3> QED BY <2>1, <3>1
  <2> QED BY <2>1, <2>2
<1>6. f = body(f)
  <2>1. ASSUME NEW n \in 0 .. MAX_PROCESS PROVE f[n] = body(f)[n]
    <3>1. CASE n = 0
      BY <1>5, <3>1
    <3>2. CASE n # 0
      <4>1. n \in 1 .. MAX_PROCESS
        BY <1>1, <3>2
      <4> QED BY <1>5, <3>2, <4>1
    <3> QED BY <3>1, <3>2
  <2>2. body(f) = [n \in 0 .. MAX_PROCESS |-> body(f)[n]]
    OBVIOUS
  <2> HIDE DEF body, V
  <2> QED BY <2>1, <2>2
<1>7. up = body(up)
  <2> HIDE DEF body
  <2> QED BY <1>6
<1>8. Lines = [t \in Terminal |-> up[MAX_PROCESS][active_array[t]]]
  BY DEF Lines
<1> HIDE DEF up
<1>9. \A n \in 0 .. MAX_PROCESS, p \in P :
         up[n][p] = IF n = 0 \/ p = NONE THEN << >>
                    ELSE Append(up[n - 1][parent_pid[p]], p)
  <2> DEFINE at(g, n) == [p \in P |-> IF n = 0 \/ p = NONE THEN << >>
                                     ELSE Append(g[n - 1][parent_pid[p]], p)]
  <2>1. up = [n \in 0 .. MAX_PROCESS |-> at(up, n)]
    BY <1>7
  <2>2. ASSUME NEW n \in 0 .. MAX_PROCESS PROVE up[n] = at(up, n)
    <3> HIDE DEF at, body
    <3> QED BY <2>1
  <2> HIDE DEF body
  <2> QED BY <2>2
<1>10. 0 \in 0 .. MAX_PROCESS /\ \A n \in 1 .. MAX_PROCESS : n \in 0 .. MAX_PROCESS /\ n # 0
  BY <1>1
<1>11. \A p \in P : up[0][p] = << >>
  BY <1>9, <1>10
<1>12. \A n \in 1 .. MAX_PROCESS, p \in P :
          up[n][p] = IF p = NONE THEN << >> ELSE Append(up[n - 1][parent_pid[p]], p)
  BY <1>9, <1>10
<1> QED BY <1>8, <1>11, <1>12 DEF Ups

\* The stack of jobs of a terminal is its line of processes.
LEMMA LinesAre ==
    ASSUME TypeOK, NEW L, AreLines(L)
    PROVE  Lines = L
<1>1. PICK up : Ups(up)
  BY UpExists
<1>2. ASSUME NEW t \in Terminal PROVE up[MAX_PROCESS][active_array[t]] = L[t]
  <2> DEFINE s == L[t]
  <2>1. s \in Seq(Pid) /\ IsLine(s, t)
    BY DEF AreLines
  <2>2. MAX_PROCESS \in Nat /\ \A n \in 0 .. MAX_PROCESS : up[n][NONE] = << >>
    <3>1. \A n \in 0 .. MAX_PROCESS : n = 0 \/ n \in 1 .. MAX_PROCESS
      OBVIOUS
    <3> QED BY <1>1, <3>1, ConstantsAssumption DEF Ups
  <2>3. CASE active_array[t] = NONE
    <3>1. s = << >>
      BY <2>1, <2>3 DEF IsLine
    <3>2. MAX_PROCESS \in 0 .. MAX_PROCESS
      BY <2>2
    <3> QED BY <2>2, <2>3, <3>1, <3>2
  <2>4. CASE active_array[t] # NONE
    <3> HIDE DEF s
    <3>1. /\ s[1] = t /\ parent_pid[t] = NONE /\ s[Len(s)] = active_array[t]
          /\ Len(s) \in Nat /\ Len(s) > 0
          /\ \A i \in 1 .. Len(s) : s[i] \in Pid
          /\ \A i \in 2 .. Len(s) : parent_pid[s[i]] = s[i - 1]
          /\ \A i, j \in 1 .. Len(s) : s[i] = s[j] => i = j
      BY <2>1, <2>4 DEF IsLine
    <3>2. Len(s) <= MAX_PROCESS
      BY <2>1, <3>1, LineLength
    <3> DEFINE Is(k) == \A n \in k .. MAX_PROCESS : up[n][s[k]] = SubSeq(s, 1, k)
               S == {k \in 0 .. Len(s) : k > 0 => Is(k)}
    <3>3. \A n \in 1 .. MAX_PROCESS : \A k \in 1 .. Len(s) :
             up[n][s[k]] = Append(up[n - 1][parent_pid[s[k]]], s[k])
      BY <1>1, <3>1, ConstantFacts DEF Ups
    <3>4. 0 \in S
      BY <3>1
    <3>5. ASSUME NEW k \in 0 .. Len(s) - 1, k \in S PROVE k + 1 \in S
      <4>1. k + 1 \in 1 .. Len(s) /\ 1 \in 1 .. Len(s) /\ k + 1 \in 0 .. Len(s)
        BY <3>1
      <4>2. ASSUME NEW n \in k + 1 .. MAX_PROCESS PROVE up[n][s[k + 1]] = SubSeq(s, 1, k + 1)
        <5>1. n \in 1 .. MAX_PROCESS /\ n - 1 \in 0 .. MAX_PROCESS /\ n - 1 \in k .. MAX_PROCESS
          BY <2>2
        <5>2. up[n][s[k + 1]] = Append(up[n - 1][parent_pid[s[k + 1]]], s[k + 1])
          BY <3>3, <4>1, <5>1
        <5>3. up[n - 1][parent_pid[s[k + 1]]] = SubSeq(s, 1, k)
          <6>1. CASE k = 0
            <7>1. up[n - 1][parent_pid[s[k + 1]]] = << >>
              BY <2>2, <3>1, <5>1, <6>1
            <7>2. SubSeq(s, 1, 0) = << >>
              BY SubSeqEmpty
            <7> QED BY <6>1, <7>1, <7>2
          <6>2. CASE k > 0
            <7>1. parent_pid[s[k + 1]] = s[k]
              <8>1. k + 1 \in 2 .. Len(s) /\ (k + 1) - 1 = k
                BY <4>1, <6>2
              <8> QED BY <3>1, <8>1
            <7>2. Is(k)
              BY <3>5, <6>2
            <7> QED BY <5>1, <7>1, <7>2
          <6> QED BY <6>1, <6>2
        <5>4. SubSeq(s, 1, k + 1) = SubSeq(s, 1, k) \o << s[k + 1] >>
          <6>1. k + 1 \in 1 .. Len(s) /\ (k + 1) - 1 = k
            BY <4>1
          <6>2. SubSeq(s, 1, k + 1) = SubSeq(s, 1, (k + 1) - 1) \o << s[k + 1] >>
            BY <2>1, <4>1, SubSeqRecursiveSecond
          <6> QED BY <6>1, <6>2
        <5>5. Append(SubSeq(s, 1, k), s[k + 1]) = SubSeq(s, 1, k) \o << s[k + 1] >>
          <6>1. \A i \in 1 .. k : s[i] \in Pid
            BY <3>1, <4>1
          <6>2. SubSeq(s, 1, k) \in Seq(Pid)
            BY <6>1, SubSeqProperties
          <6>3. s[k + 1] \in Pid
            BY <3>1, <4>1
          <6> HIDE DEF S
          <6> QED BY <6>2, <6>3, AppendIsConcat
        <5> QED BY <5>2, <5>3, <5>4, <5>5
      <4> QED BY <4>1, <4>2
    <3>6. Len(s) \in S
      <4> HIDE DEF S
      <4>1. \A k \in 0 .. Len(s) : k \in S
        BY <3>1, <3>4, <3>5, InductionUpTo
      <4> QED BY <3>1, <4>1
    <3>7. Is(Len(s)) /\ MAX_PROCESS \in Len(s) .. MAX_PROCESS
      BY <2>2, <3>1, <3>2, <3>6
    <3>8. up[MAX_PROCESS][s[Len(s)]] = s
      BY <2>1, <3>7, SubSeqFull
    <3> QED BY <3>1, <3>8 DEF s
  <2> QED BY <2>3, <2>4
<1>3. Lines = [t \in Terminal |-> up[MAX_PROCESS][active_array[t]]]
  BY <1>1 DEF Ups
<1>4. L = [t \in Terminal |-> L[t]]
  BY DEF AreLines
<1> QED BY <1>2, <1>3, <1>4

LEMMA LinesAreNext ==
    ASSUME NEW L
    PROVE  (TypeOK /\ AreLines(L) => Lines = L)'
<1>1. TypeOK /\ AreLines(L) => Lines = L
  BY LinesAre
<1> QED BY <1>1, PTL

\* A slot that is not taken is the name of no job.
LEMMA FreshSlot ==
    ASSUME TypeOK, NEW L, AreLines(L), NEW n \in Pid, ~Busy(n)
    PROVE  Jobs!Fresh(n)
<1>1. Lines = L
  BY LinesAre
<1>2. \A t \in Terminal : \A i \in 1 .. Len(L[t]) : L[t][i] # n
  BY DEF AreLines, IsLine
<1> QED BY <1>1, <1>2 DEF Jobs!Fresh, Jobs!Elements, Jobs!Terminal, Terminal

\* A terminal that is up has a job.
LEMMA HasJob ==
    ASSUME TypeOK, NEW L, AreLines(L), NEW t \in Terminal, active_array[t] # NONE
    PROVE  Lines[t] # << >>
<1>1. Len(L[t]) > 0
  BY DEF AreLines, IsLine
<1>2. Lines = L
  BY LinesAre
<1> QED BY <1>1, <1>2

LEMMA UpRuns ==
    ASSUME IInv, Up
    PROVE  sche_term \in Terminal /\ active_array[sche_term] # NONE
BY DEF IInv, TypeOK, Running, Up

LEMMA InitJobs ==
    ASSUME Init
    PROVE  Jobs!JobsInit
<1>1. TypeOK
  BY InitType DEF TypeInv
<1>2. PICK L : AreLines(L)
  BY InitLines DEF HasLines
<1>3. \A t \in Terminal : L[t] = << >>
  BY <1>2 DEF AreLines, IsLine, Init
<1>4. Lines = L /\ L = [t \in Terminal |-> L[t]]
  BY <1>1, <1>2, LinesAre DEF AreLines
<1>5. Lines = [t \in Terminal |-> << >>]
  BY <1>3, <1>4
<1>6. sche_term = 0 /\ eax \in Status \cup {EXCEPTION_RET}
  BY ConstantsAssumption DEF Init
<1> QED BY <1>5, <1>6 DEF Jobs!JobsInit, Jobs!Terminal, Terminal

LEMMA JobsStep ==
    ASSUME Quiet, IInv, IInv', HasLines, [Next]_vars
    PROVE  [Jobs!JobsNext]_<< Lines, sche_term, eax >>
<1>1. PICK L : AreLines(L)
  BY DEF HasLines
<1>2. TypeOK /\ Lines = L
  BY <1>1, LinesAre DEF IInv
<1>3. ASSUME NEW M, AreLines(M)' PROVE Lines' = M
  <2>1. TypeOK'
    BY DEF IInv
  <2> QED BY <1>3, <2>1, LinesAreNext
<1>4. ASSUME UNCHANGED tables PROVE Lines' = Lines
  <2>1. AreLines(L)'
    BY <1>1, <1>4, SameLines
  <2> QED BY <1>2, <1>3, <2>1
<1>5. CASE Boot
  <2>1. PICK n, M : /\ n \in Pid /\ ~Busy(n) /\ AreLines(M)'
                      /\ M = [L EXCEPT ![sche_term] = Append(@, n)]
    BY <1>1, <1>5, BootLines
  <2>2. L[sche_term] = << >>
    BY <1>1, <1>5, BootLines
  <2>3. Lines' = M /\ Jobs!Fresh(n)
    BY <1>1, <1>2, <1>3, <2>1, FreshSlot
  <2>4. Jobs!Push(sche_term)
    BY <1>2, <2>1, <2>3 DEF Jobs!Push
  <2>5. UNCHANGED << sche_term, eax >>
    BY <1>5 DEF Boot
  <2> QED BY <1>2, <2>2, <2>4, <2>5 DEF Jobs!OpenFirst, Jobs!JobsNext
<1>6. CASE Execute
  <2>1. PICK n, M : /\ n \in Pid /\ ~Busy(n) /\ AreLines(M)'
                      /\ M = [L EXCEPT ![sche_term] = Append(@, n)]
    BY <1>1, <1>6, ExecuteLines
  <2>2. Lines[sche_term] # << >>
    BY <1>1, <1>2, <1>6, HasJob, UpRuns DEF Execute
  <2>3. Lines' = M /\ Jobs!Fresh(n)
    BY <1>1, <1>2, <1>3, <2>1, FreshSlot
  <2>4. Jobs!Push(sche_term)
    BY <1>2, <2>1, <2>3 DEF Jobs!Push
  <2>5. UNCHANGED << sche_term, eax >>
    BY <1>6 DEF Execute
  <2> QED BY <2>2, <2>4, <2>5 DEF Jobs!Start, Jobs!JobsNext
<1>7. CASE PitLaunch
  <2> DEFINE t == NextTerminal(sche_term)
  <2>1. PICK n, M : /\ n \in Pid /\ ~Busy(n) /\ AreLines(M)'
                      /\ M = [L EXCEPT ![t] = Append(@, n)]
    BY <1>1, <1>7, LaunchLines
  <2>2. L[t] = << >>
    BY <1>1, <1>7, LaunchLines
  <2>3. Lines' = M /\ Jobs!Fresh(n)
    BY <1>1, <1>2, <1>3, <2>1, FreshSlot
  <2>4. Jobs!Push(t)
    BY <1>2, <2>1, <2>3 DEF Jobs!Push
  <2>5. sche_term' = t /\ eax' = eax
    BY <1>7 DEF PitLaunch
  <2>6. Lines[sche_term] # << >>
    BY <1>1, <1>2, <1>7, HasJob, UpRuns DEF PitLaunch, TickTaken
  <2>7. t = (sche_term + 1) % NUM_TERMINAL
    BY DEF NextTerminal
  <2> HIDE DEF t
  <2>8. Lines[sche_term'] = << >> /\ Jobs!Push(sche_term')
    BY <1>2, <2>2, <2>4, <2>5
  <2> QED BY <2>5, <2>6, <2>7, <2>8 DEF Jobs!Switch, Jobs!JobsNext
<1>8. CASE PitSwitch
  <2>1. UNCHANGED tables /\ eax' = eax /\ sche_term' = NextTerminal(sche_term)
        /\ active_array[NextTerminal(sche_term)] # NONE /\ Up
    BY <1>8 DEF PitSwitch, TickTaken
  <2>2. sche_term \in Terminal /\ Lines[sche_term] # << >>
    BY <1>1, <1>2, <2>1, HasJob, UpRuns
  <2>3. sche_term' \in Terminal /\ active_array[sche_term'] # NONE
    BY <2>1, <2>2, ConstantFacts
  <2>4. PICK t \in Terminal : t = sche_term'
    BY <2>3
  <2>5. Lines[t] # << >>
    BY <1>1, <1>2, <2>3, <2>4, HasJob
  <2>6. Lines' = Lines
    BY <1>4, <2>1
  <2>7. sche_term' = (sche_term + 1) % NUM_TERMINAL
    BY <2>1 DEF NextTerminal
  <2> QED BY <2>1, <2>2, <2>4, <2>5, <2>6, <2>7 DEF Jobs!Switch, Jobs!JobsNext
<1>9. ASSUME NEW status \in Status, HaltChild(status) PROVE Jobs!Finish
  <2>1. PICK M : /\ AreLines(M)'
                 /\ M = [L EXCEPT ![sche_term] = SubSeq(@, 1, Len(@) - 1)]
    BY <1>1, <1>9, HaltChildLines
  <2>2. Len(L[sche_term]) > 1
    BY <1>1, <1>9, HaltChildLines
  <2>3. Lines' = M
    BY <1>3, <2>1
  <2>4. sche_term' = sche_term /\ eax' \in Status \cup {EXCEPTION_RET}
    BY <1>9 DEF HaltChild, HaltRet
  <2> QED BY <1>2, <2>1, <2>2, <2>3, <2>4 DEF Jobs!Finish
<1>10. ASSUME NEW status \in Status, HaltBase(status)
       PROVE  UNCHANGED << Lines, sche_term, eax >>
  BY <1>4, <1>10, HaltBaseTables
<1>11. CASE ExecuteFails
  <2>1. UNCHANGED tables /\ sche_term' = sche_term /\ eax' = NONE /\ Up
    BY <1>11 DEF ExecuteFails, cpu, NONE
  <2>2. Lines[sche_term] # << >> /\ Lines' = Lines
    BY <1>1, <1>2, <1>4, <2>1, HasJob, UpRuns
  <2> QED BY <2>1, <2>2 DEF Jobs!Refuse, Jobs!JobsNext
<1>12. CASE Iret \/ (\E how \in {"intr", "trap", "run"} : Raise(how)) \/ UNCHANGED vars
  <2>1. UNCHANGED << tables, sche_term, eax >>
    BY <1>12 DEF Iret, Raise, vars, cpu
  <2> QED BY <1>4, <2>1
<1> QED BY <1>5, <1>6, <1>7, <1>8, <1>9, <1>10, <1>11, <1>12
        DEF Next, Pit, Jobs!JobsNext

\* Every terminal is a stack of jobs, and only the one whose turn it is changes
\* its own, at the top: execute starts a job, halt ends one and hands its status
\* to the job that waits, a tick passes the turn on, and nothing else is seen of
\* the tables (execute, halt and scheduler).
THEOREM JobsRefined ==
    ASSUME Quiet
    PROVE  Spec => ImplementsJobs
<1>1. Spec => [](IInv /\ HasLines)
  BY AlwaysLines
<1>2. Init => Jobs!JobsInit
  BY InitJobs
<1>3. IInv /\ HasLines /\ (IInv /\ HasLines)' /\ [Next]_vars
        => [Jobs!JobsNext]_<< Lines, sche_term, eax >>
  BY JobsStep
<1> QED BY <1>1, <1>2, <1>3, PTL DEF Spec, ImplementsJobs, Jobs!JobsSpec
=============================================================================
