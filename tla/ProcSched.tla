----------------------------- MODULE ProcSched -----------------------------
(***************************************************************************)
(* The process layer of the kernel: execute and halt (system_call.c), the  *)
(* round-robin scheduler driven by the PIT (scheduler.c, pit.c), and the   *)
(* part of exception handling that ends a process (idt.c, signal.c).       *)
(*                                                                         *)
(* A context switch in this kernel is a pair of saved frame pointers.  The *)
(* scheduler saves its own %ebp in the PCB (sche_ebp) and continues with   *)
(* the one it finds in the next PCB; halt continues with the %ebp that     *)
(* execute saved (exe_ebp).  A saved %ebp is an address in somebody's      *)
(* kernel stack, good only until that stack is used again.  So the model   *)
(* keeps, for every kernel stack, the sequence of saved frames that have   *)
(* not been released, outermost first, and the saved frame pointers are    *)
(* addresses (stack, depth) into them.                                     *)
(***************************************************************************)
EXTENDS Integers, Sequences, FiniteSets

CONSTANTS
    NUM_TERMINAL,   \* terminal.h: 3
    MAX_PROCESS,    \* system_call.h: 6
    Status,         \* the statuses programs pass to halt; a signal passes 0
    MaxDepth,       \* bound: saved frames on one stack when a shell restarts
    Env             \* which events of EnvEvents the environment produces

\* Events that are rare, or that the project's own programs never cause:
\*   EarlyCommand   a user runs a command before the last base shell is up
\*   LaunchPreempt  a tick is pending when the scheduler's execute does sti
\*   ShellRemoved   the file "shell" is removed or damaged at run time
\*   ShellFault     a base shell itself raises an exception
\*   TrapFault      an exception arrives through a trap gate (IF stays 1)
\*   HandledFault   a program has installed a handler for its own fault
EnvEvents == {"EarlyCommand", "LaunchPreempt", "ShellRemoved", "ShellFault",
              "TrapFault", "HandledFault"}

EXCEPTION_RET == 256
NONE == -1                          \* the -1 of cur_process and its tables

ASSUME ConstantsAssumption ==
    /\ NUM_TERMINAL \in Nat \ {0}
    /\ MAX_PROCESS \in Nat
    /\ NUM_TERMINAL <= MAX_PROCESS
    /\ Status \subseteq 0 .. 255
    /\ 0 \in Status
    /\ MaxDepth \in Nat
    /\ Env \subseteq EnvEvents

Terminal == 0 .. NUM_TERMINAL - 1
Pid == 0 .. MAX_PROCESS - 1

VARIABLES
    process_array,  \* process_array[p]: 1 when pid p is taken
    parent_pid,     \* parent_pid[p]: who executed p, NONE for a base shell
    active_array,   \* active_array[t]: the process terminal t runs
    sche_term,      \* the terminal whose time slice it is
    cur_process,    \* the process whose time slice it is
    page_dir,       \* the process whose 4MB page is mapped at 128MB
    esp0,           \* the process whose kernel stack tss.esp0 designates
    kstack,         \* kstack[p]: saved frames alive on the stack of p
    sche_ebp,       \* pcb.sche_ebp as an address [stack, depth]
    exe_ebp,        \* pcb.exe_ebp as an address [stack, depth]
    pc,             \* pc[p]: "run"  in its program or in the kernel for it
                    \*        "iret" in execute, after sti, before IRET
                    \*        "intr", "trap"  in exception_handler
    exception_flag,
    eax,            \* the value execute last returned to its caller
    home,           \* history: home[p] is the terminal p was executed on
    lost            \* the kernel went on with a frame in released stack space

tables == << process_array, parent_pid, active_array, home >>
cpu    == << sche_term, cur_process, page_dir, esp0 >>
frames == << kstack, sche_ebp, exe_ebp >>
vars   == << tables, cpu, frames, pc, exception_flag, eax, lost >>

----------------------------------------------------------------------------
(* Saved frames and kernel stacks                                          *)

Exe(p)  == [kind |-> "exe",  pid |-> p]     \* execute's frame that starts p
Sche(p) == [kind |-> "sche", pid |-> p]     \* scheduler's frame, p preempted

\* No frame: what the PCB that execute writes has in sche_ebp, which is not
\* initialised, and what the PCB of a free slot, which nobody reads, counts for.
NoFrame(p) == [stack |-> p, depth |-> 0]

Frame == [kind : {"exe", "sche"}, pid : Pid]
Address == [stack : Pid, depth : Nat]

\* Address a of the stacks K still holds frame f.
Holds(K, a, f) == a.depth \in 1 .. Len(K[a.stack]) /\ K[a.stack][a.depth] = f

\* The kernel stack process p is on, and the saved frames beneath it.  The end
\* of execute still runs on its caller's stack; all else runs on p's own, which
\* every entry from user mode uses from its top, over whatever was there.
StackOf(p) == IF pc[p] = "iret" THEN exe_ebp[p].stack ELSE p
Beneath(p) == IF pc[p] = "iret" THEN kstack[StackOf(p)] ELSE << >>

\* Going back to the frame at address a discards it and all that is above it.
Discard(K, a) ==
    [K EXCEPT ![a.stack] = IF a.depth <= Len(@) THEN SubSeq(@, 1, a.depth - 1)
                                                ELSE @]

Free(pa) == {p \in Pid : pa[p] = 0}

\* Defect: the search for a pid starts at the highest one.
LastFree(pa) == CHOOSE p \in Free(pa) : \A q \in Free(pa) : q <= p

\* execute takes the first free slot of process_array.
FirstFree(pa) == CHOOSE p \in Free(pa) : \A q \in Free(pa) : p <= q


\* Defect: the base shell of the terminal is recorded as the parent.
ShellAsParent(caller) == IF caller = NONE THEN NONE ELSE sche_term

\* execute records the running process as the parent of the new one.
ParentOf(caller) == caller

\* Defect: a terminal's turn never comes.
SkipLast(t) == (t + 1) % (NUM_TERMINAL - 1)

NextTerminal(t) == (t + 1) % NUM_TERMINAL

\* Defect: the status is sign-extended.
SignExtended(status) ==
    IF exception_flag = 1 THEN EXCEPTION_RET
    ELSE IF status > 127 THEN status - 256 ELSE status

\* What halt leaves in %eax for the caller of execute.
HaltRet(status) == IF exception_flag = 1 THEN EXCEPTION_RET ELSE status

\* Defect: the exception is reported to the caller, and then once more.
FlagKept == exception_flag

\* halt clears the flag when it returns to a parent.
FlagReported == 0

\* Defect: the frame is saved in the PCB of the terminal that comes next.
SavedForNext == active_array[NextTerminal(sche_term)]

\* The scheduler saves its frame in the PCB of the terminal it leaves.
SavedFor == active_array[sche_term]

\* Defect: the stack of the outgoing process stays in the TSS.
Esp0Kept(p) == esp0

\* tss.esp0 designates the stack of the process that is given control.
Esp0Of(p) == p

\* Defect: a program ends and its terminal falls back to the base shell.
ActiveBase(p) == sche_term

\* halt gives the terminal back to the parent of p.
ActiveAfterHalt(p) == parent_pid[p]

\* halt frees the slot of p.
Released(p) == [process_array EXCEPT ![p] = 0]

----------------------------------------------------------------------------
(* execute                                                                 *)

\* Whether the file "shell" is found and is an executable.
ShellLookup == IF "ShellRemoved" \in Env THEN BOOLEAN ELSE {TRUE}

\* The part of execute after the checks of the command, called on stack s above
\* the frames `under', for terminal t, with caller as cur_process and pa as the
\* process table; it ends at sti, before IRET.
StartProcess(t, caller, pa, s, under) ==
    LET p == FirstFree(pa) IN
    /\ process_array' = [pa EXCEPT ![p] = 1]
    /\ active_array' = [active_array EXCEPT ![t] = p]
    /\ parent_pid' = [parent_pid EXCEPT ![p] = ParentOf(caller)]
    /\ home' = [home EXCEPT ![p] = t]
    /\ cur_process' = p
    /\ page_dir' = p
    /\ esp0' = p
    /\ kstack' = [kstack EXCEPT ![s] = Append(under, Exe(p))]
    /\ exe_ebp' = [exe_ebp EXCEPT ![p] = [stack |-> s, depth |-> Len(under) + 1]]
    /\ pc' = [pc EXCEPT ![p] = "iret"]

\* The new PCB holds no scheduler frame.
NewPcb(pa, saved) ==
    LET p == FirstFree(pa) IN [saved EXCEPT ![p] = NoFrame(p)]

\* A process is running, and the kernel has not lost its way.
Up == ~lost /\ cur_process # NONE

BaseShellsUp == \A t \in Terminal : active_array[t] # NONE

\* kernel.c: entry() executes the first shell on the boot stack, the one that
\* pid 0 will use.
Boot ==
    /\ ~lost /\ cur_process = NONE
    /\ StartProcess(sche_term, NONE, process_array, 0, << >>)
    /\ sche_ebp' = NewPcb(process_array, sche_ebp)
    /\ UNCHANGED << sche_term, exception_flag, eax, lost >>

\* A program executes another one.
Execute ==
    /\ Up /\ pc[cur_process] = "run"
    /\ BaseShellsUp \/ "EarlyCommand" \in Env
    /\ Free(process_array) # {}
    /\ StartProcess(sche_term, cur_process, process_array, cur_process, << >>)
    /\ sche_ebp' = NewPcb(process_array, sche_ebp)
    /\ UNCHANGED << sche_term, exception_flag, eax, lost >>

\* execute returns -1: no command, no such file, not an executable, no slot.
ExecuteFails ==
    /\ Up /\ pc[cur_process] = "run"
    /\ eax' = -1
    /\ kstack' = [kstack EXCEPT ![cur_process] = << >>]
    /\ UNCHANGED << tables, cpu, sche_ebp, exe_ebp, pc, exception_flag, lost >>

\* The IRET that ends execute: the new program runs in user mode.
Iret ==
    /\ Up /\ pc[cur_process] = "iret"
    /\ pc' = [pc EXCEPT ![cur_process] = "run"]
    /\ UNCHANGED << tables, cpu, frames, exception_flag, eax, lost >>

----------------------------------------------------------------------------
(* exceptions and halt                                                     *)

\* The running program raises an exception.  exception_handler sets the flag and
\* the pending signal; then do_signal calls halt(0), or enters the program's own
\* handler.  A page fault arrives through an interrupt gate: no tick in between.
Raise(how) ==
    /\ Up /\ pc[cur_process] = "run"
    /\ how = "trap" => "TrapFault" \in Env
    /\ how = "run" => "HandledFault" \in Env
    /\ parent_pid[cur_process] = NONE => "ShellFault" \in Env
    /\ exception_flag' = 1
    /\ kstack' = [kstack EXCEPT ![cur_process] = << >>]
    /\ pc' = [pc EXCEPT ![cur_process] = how]
    /\ UNCHANGED << tables, cpu, sche_ebp, exe_ebp, eax, lost >>

\* Who may be halted, with which status: a running program calls halt or gets a
\* signal; one that is in execute or in an exception gets a signal.
HaltsWith(status) ==
    /\ Up
    /\ status \in Status
    /\ pc[cur_process] # "run" => status = 0

\* halt of a program that some other program executed.
HaltChild(status) ==
    LET p == cur_process
        a == exe_ebp[p] IN
    /\ HaltsWith(status)
    /\ parent_pid[p] # NONE
    /\ process_array' = Released(p)
    /\ cur_process' = parent_pid[p]
    /\ active_array' = [active_array EXCEPT ![sche_term] = ActiveAfterHalt(p)]
    /\ parent_pid' = [parent_pid EXCEPT ![p] = NONE]
    /\ page_dir' = parent_pid[p]
    /\ esp0' = Esp0Of(parent_pid[p])
    /\ eax' = HaltRet(status)
    /\ exception_flag' = IF exception_flag = 1 THEN FlagReported ELSE 0
    /\ lost' = ~Holds(kstack, a, Exe(p))
    /\ kstack' = Discard(kstack, a)
    /\ sche_ebp' = [sche_ebp EXCEPT ![p] = NoFrame(p)]
    /\ exe_ebp' = [exe_ebp EXCEPT ![p] = NoFrame(p)]
    /\ pc' = [pc EXCEPT ![p] = "run"]
    /\ home' = [home EXCEPT ![p] = 0]
    /\ UNCHANGED sche_term

\* halt of a base shell: its slot is freed and a shell is executed at once, on
\* the stack of the one that ends.  When that fails, halt goes on with -1 as the
\* current process and returns into a frame that is long gone.
HaltBase(status) ==
    LET p == cur_process
        s == StackOf(p) IN
    /\ HaltsWith(status)
    /\ parent_pid[p] = NONE
    /\ Len(Beneath(p)) < MaxDepth
    /\ \E found \in ShellLookup :
         IF found
         THEN /\ StartProcess(sche_term, NONE, Released(p), s, Beneath(p))
              /\ sche_ebp' = NewPcb(Released(p), sche_ebp)
              /\ lost' = FALSE
         ELSE /\ process_array' = Released(p)
              /\ cur_process' = NONE
              /\ lost' = TRUE
              /\ UNCHANGED << parent_pid, active_array, home, page_dir, esp0,
                              frames, pc >>
    /\ UNCHANGED << sche_term, exception_flag, eax >>

\* do_signal of the exception that was raised.
FaultHalt ==
    /\ Up /\ pc[cur_process] \in {"intr", "trap"}
    /\ HaltChild(0) \/ HaltBase(0)

----------------------------------------------------------------------------
(* the scheduler                                                           *)

\* The tick is taken: interrupts are on.  They are off from a page fault to the
\* halt it leads to; and the instruction sti shields is the first of the six that
\* end execute, so a tick that became pending during execute is taken there.
TickTaken ==
    LET p == cur_process IN
    /\ Up
    /\ pc[p] # "intr"
    /\ (pc[p] = "iret" /\ parent_pid[p] = NONE /\ exe_ebp[p].stack # p)
         => "LaunchPreempt" \in Env

\* The frame pointers and the stacks once scheduler() has saved its frame.
SavedEbps ==
    [sche_ebp EXCEPT ![SavedFor] =
        [stack |-> StackOf(cur_process), depth |-> Len(Beneath(cur_process)) + 1]]
SavedStacks ==
    [kstack EXCEPT ![StackOf(cur_process)] =
        Append(Beneath(cur_process), Sche(cur_process))]

\* scheduler() when the next terminal has a process: go on with its saved frame.
PitSwitch ==
    LET t == NextTerminal(sche_term)
        q == active_array[t] IN
    /\ TickTaken
    /\ q # NONE
    /\ sche_ebp' = SavedEbps
    /\ sche_term' = t
    /\ cur_process' = q
    /\ page_dir' = q
    /\ esp0' = Esp0Of(q)
    /\ lost' = ~Holds(SavedStacks, SavedEbps[q], Sche(q))
    /\ kstack' = Discard(SavedStacks, SavedEbps[q])
    /\ UNCHANGED << tables, exe_ebp, pc, exception_flag, eax >>

\* scheduler() when the next terminal has none yet: execute its base shell, on
\* the stack of the process that was interrupted.  When that fails there is no
\* frame to go on with.
PitLaunch ==
    LET t == NextTerminal(sche_term)
        s == StackOf(cur_process) IN
    /\ TickTaken
    /\ active_array[t] = NONE
    /\ sche_term' = t
    /\ \E found \in ShellLookup :
         IF found /\ Free(process_array) # {}
         THEN /\ StartProcess(t, NONE, process_array, s, SavedStacks[s])
              /\ sche_ebp' = NewPcb(process_array, SavedEbps)
              /\ lost' = FALSE
         ELSE /\ cur_process' = NONE
              /\ lost' = TRUE
              /\ kstack' = SavedStacks
              /\ sche_ebp' = SavedEbps
              /\ UNCHANGED << tables, page_dir, esp0, exe_ebp, pc >>
    /\ UNCHANGED << exception_flag, eax >>

Pit == PitSwitch \/ PitLaunch

----------------------------------------------------------------------------
Init ==
    /\ process_array = [p \in Pid |-> 0]
    /\ parent_pid = [p \in Pid |-> NONE]
    /\ active_array = [t \in Terminal |-> NONE]
    /\ home = [p \in Pid |-> 0]
    /\ sche_term = 0
    /\ cur_process = NONE
    /\ page_dir = NONE
    /\ esp0 = 0
    /\ kstack = [p \in Pid |-> << >>]
    /\ sche_ebp = [p \in Pid |-> NoFrame(p)]
    /\ exe_ebp = [p \in Pid |-> NoFrame(p)]
    /\ pc = [p \in Pid |-> "run"]
    /\ exception_flag = 0
    /\ eax = 0
    /\ lost = FALSE

Next ==
    \/ Boot
    \/ Execute
    \/ ExecuteFails
    \/ Iret
    \/ \E how \in {"intr", "trap", "run"} : Raise(how)
    \/ \E status \in Status : HaltChild(status) \/ HaltBase(status)
    \/ Pit

Spec == Init /\ [][Next]_vars

\* The PIT ticks for ever and the PIC keeps a tick until it is taken, so a tick
\* is taken if interrupts are on again and again (strong fairness).  execute and
\* do_signal run straight on to their IRET and to halt (weak fairness).
Fairness ==
    /\ WF_vars(Boot)
    /\ WF_vars(Iret)
    /\ WF_vars(FaultHalt)
    /\ SF_vars(Pit)

FairSpec == Spec /\ Fairness

----------------------------------------------------------------------------
(* get_owner_terminal (scheduler.c)                                        *)

\* The terminal the kernel takes p to be on: base shells have the pid of their
\* terminal, and the loop climbs parent_pid until it is at one.
get_owner_terminal(p) ==
    LET climb[n \in 0 .. MAX_PROCESS] ==
          IF n = 0 THEN p
          ELSE IF climb[n - 1] < NUM_TERMINAL THEN climb[n - 1]
          ELSE parent_pid[climb[n - 1]]
    IN  climb[MAX_PROCESS]

----------------------------------------------------------------------------
(* Properties                                                              *)

Busy(p) == process_array[p] = 1
Children(p) == {c \in Pid : Busy(c) /\ parent_pid[c] = p}

\* Every variable keeps to its type; %eax holds a value that the comment of
\* execute (system_call.c:150-154) names.
TypeOK ==
    /\ process_array \in [Pid -> {0, 1}]
    /\ parent_pid \in [Pid -> Pid \cup {NONE}]
    /\ active_array \in [Terminal -> Pid \cup {NONE}]
    /\ home \in [Pid -> Terminal]
    /\ sche_term \in Terminal
    /\ cur_process \in Pid \cup {NONE}
    /\ page_dir \in Pid \cup {NONE}
    /\ esp0 \in Pid
    /\ kstack \in [Pid -> Seq(Frame)]
    /\ sche_ebp \in [Pid -> Address]
    /\ exe_ebp \in [Pid -> Address]
    /\ pc \in [Pid -> {"run", "iret", "intr", "trap"}]
    /\ exception_flag \in {0, 1}
    /\ eax \in Status \cup {EXCEPTION_RET, NONE}
    /\ lost \in BOOLEAN

\* The kernel never goes on with a saved frame in stack space that has been
\* released for reuse since, nor with no process at all (the leave/ret that end
\* scheduler, scheduler.c:83-87, and halt, system_call.c:135-142).
NeverLost == ~lost

\* The tables that four places update by hand agree on who is running: the
\* process of the terminal whose slice it is, in its own address space, with its
\* own kernel stack for the next entry from user mode.
Running ==
    Up => /\ cur_process = active_array[sche_term]
          /\ Busy(cur_process)
          /\ home[cur_process] = sche_term
          /\ page_dir = cur_process
          /\ esp0 = cur_process

\* Processes form one line of execution per terminal: a free slot is nobody's
\* parent and on no terminal, and a taken one is either the active process of
\* its terminal, with no child, or waits for one child on the same terminal.
Lineage ==
    ~lost =>
      \A p \in Pid :
        /\ ~Busy(p) => /\ parent_pid[p] = NONE
                       /\ Children(p) = {}
                       /\ \A t \in Terminal : active_array[t] # p
        /\ Busy(p) => \/ /\ Children(p) = {}
                         /\ \A t \in Terminal : active_array[t] = p <=> t = home[p]
                      \/ /\ \E c \in Pid : Children(p) = {c} /\ home[c] = home[p]
                         /\ \A t \in Terminal : active_array[t] # p

\* Whoever is not running can be continued: the frame scheduler saved for the
\* active process of every other terminal is intact, and so is, on the parent's
\* stack, the frame halt of each child will return through.
Resumable ==
    ~lost =>
      /\ \A t \in Terminal \ {sche_term} :
           LET q == active_array[t] IN
           q # NONE => Holds(kstack, sche_ebp[q], Sche(q))
      /\ \A c \in Pid :
           Busy(c) /\ parent_pid[c] # NONE =>
             /\ exe_ebp[c].stack = parent_pid[c]
             /\ Holds(kstack, exe_ebp[c], Exe(c))

\* get_owner_terminal names the terminal a process was executed on.  It rests on
\* the base shell of terminal t having pid t, which no line of the code states.
OwnerTerminal ==
    ~lost => \A p \in Pid : Busy(p) => get_owner_terminal(p) = home[p]

\* The comment of execute (system_call.c:152-154): execute returns 256 when the
\* program died by an exception, and then only.
ExitStatus ==
    [][Up /\ process_array'[cur_process] = 0 =>
         (eax' = EXCEPTION_RET <=> pc[cur_process] \in {"intr", "trap"})]_vars

\* Every terminal gets a base shell, and from then on its active process gets
\* time slices for ever, whatever the processes of the other terminals do.
EveryTerminalRuns ==
    \A t \in Terminal :
        []<>(Up /\ sche_term = t /\ home[cur_process] = t)
=============================================================================
