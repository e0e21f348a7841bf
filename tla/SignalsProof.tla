---------------------------- MODULE SignalsProof ----------------------------
(***************************************************************************)
(* Theorems about Signals, for any number of terminals and process slots,  *)
(* whatever handlers programs install and however deep they nest.          *)
(***************************************************************************)
EXTENDS Signals, WellFoundedInduction, FiniteSetTheorems, TLAPS

-----------------------------------------------------------------------------
(* Least elements *)

LEMMA MinIsLeast ==
    ASSUME NEW S \in SUBSET Nat, S # {}
    PROVE  Min(S) \in S /\ \A q \in S : Min(S) <= q
<1> DEFINE R == OpToRel(<, Nat)
<1>1. IsWellFoundedOn(R, Nat)
  BY NatLessThanWellFounded
<1> HIDE DEF R
<1>2. PICK p \in S : \A q \in S : ~(<< q, p >> \in R)
  BY <1>1, WFMin
<1>3. \A q \in S : << q, p >> \in R <=> q < p
  BY DEF R, OpToRel
<1>4. ASSUME NEW q \in S PROVE p <= q
  <2>1. p \in Nat /\ q \in Nat /\ ~(q < p)
    BY <1>2, <1>3
  <2> QED BY <2>1
<1> QED BY <1>4 DEF Min

LEMMA Constants ==
    /\ Terminal \subseteq Nat /\ Pid \subseteq Nat /\ 0 \in Terminal
    /\ Terminal \subseteq Pid
    /\ Signal \subseteq Nat /\ {DIV_ZERO, SEGFAULT, INTERRUPT, ALARM} \subseteq Signal
    /\ Handled \subseteq Signal /\ MaxNested \in Nat
BY SignalsAssumption DEF Terminal, Pid, Signal, DIV_ZERO, SEGFAULT, INTERRUPT, ALARM, NUM_SIGNAL

\* Of a set of signals, an interrupt is delivered before an alarm.
LEMMA LeastSignal ==
    ASSUME NEW S \in SUBSET Signal, S # {}
    PROVE  /\ Min(S) \in S /\ Min(S) \in Signal
           /\ \A f \in {DIV_ZERO, SEGFAULT, INTERRUPT} :
                 S \subseteq {f, ALARM} => S \ {Min(S)} \subseteq {ALARM}
<1>1. S \subseteq Nat /\ Signal \subseteq Nat
  BY Constants
<1>2. Min(S) \in S /\ \A q \in S : Min(S) <= q
  BY <1>1, MinIsLeast
<1>3. ASSUME NEW f \in {DIV_ZERO, SEGFAULT, INTERRUPT}, S \subseteq {f, ALARM}
      PROVE  S \ {Min(S)} \subseteq {ALARM}
  <2>1. f < ALARM
    BY DEF DIV_ZERO, SEGFAULT, INTERRUPT, ALARM
  <2>2. CASE f \in S
    <3>1. Min(S) # ALARM
      BY <1>2, <2>1, <2>2 DEF DIV_ZERO, SEGFAULT, INTERRUPT, ALARM
    <3> QED BY <1>2, <1>3, <3>1
  <2>3. CASE f \notin S
    BY <1>3, <2>3
  <2> QED BY <2>2, <2>3
<1> QED BY <1>2, <1>3

-----------------------------------------------------------------------------
(* The processes of the terminals *)

JobsOK ==
    /\ jobs \in [Terminal -> Seq(Pid) \ {<< >>}]
    /\ \A t, u \in Terminal : \A k \in 1 .. Len(jobs[t]), l \in 1 .. Len(jobs[u]) :
          jobs[t][k] = jobs[u][l] => t = u /\ k = l

LEMMA TakenMembers ==
    ASSUME NEW p
    PROVE  p \in Taken <=> \E t \in Terminal : \E k \in 1 .. Len(jobs[t]) : jobs[t][k] = p
BY DEF Taken

LEMMA JobsLength ==
    ASSUME JobsOK, NEW t \in Terminal
    PROVE  /\ jobs[t] \in Seq(Pid) /\ Len(jobs[t]) \in Nat \ {0}
           /\ \A k \in 1 .. Len(jobs[t]) : jobs[t][k] \in Pid
<1>1. jobs[t] \in Seq(Pid) /\ jobs[t] # << >>
  BY DEF JobsOK
<1> QED BY <1>1

LEMMA ActiveTaken ==
    ASSUME JobsOK, NEW t \in Terminal
    PROVE  /\ active(t) \in Taken /\ active(t) \in Pid
           /\ \A u \in Terminal : active(u) = active(t) => u = t
<1>1. \A u \in Terminal : Len(jobs[u]) \in 1 .. Len(jobs[u]) /\ active(u) = jobs[u][Len(jobs[u])]
  BY JobsLength DEF active, Last
<1> QED BY <1>1, JobsLength, TakenMembers DEF JobsOK

LEMMA TakenPid ==
    ASSUME JobsOK
    PROVE  Taken \subseteq Pid
BY JobsLength, TakenMembers

\* A child ends: its parent becomes the active process.
LEMMA JobsShrink ==
    ASSUME JobsOK, NEW t \in Terminal, Len(jobs[t]) > 1,
           jobs' = [jobs EXCEPT ![t] = Front(@)]
    PROVE  /\ JobsOK' /\ Taken' = Taken \ {active(t)}
           /\ \A u \in Terminal \ {t} : active(u)' = active(u)
           /\ active(t)' \in Taken \ {active(u) : u \in Terminal}
<1>1. jobs[t] \in Seq(Pid) /\ Len(jobs[t]) \in Nat
  BY JobsLength
<1>2. DOMAIN jobs = Terminal /\ \A u \in Terminal : jobs[u] \in Seq(Pid) \ {<< >>}
  BY DEF JobsOK
<1>3. jobs'[t] = Front(jobs[t]) /\ \A u \in Terminal \ {t} : jobs'[u] = jobs[u]
  BY <1>2
<1>4. /\ Front(jobs[t]) \in Seq(Pid) /\ Len(Front(jobs[t])) = Len(jobs[t]) - 1
      /\ \A k \in 1 .. Len(jobs[t]) - 1 : Front(jobs[t])[k] = jobs[t][k]
  BY <1>1 DEF Front
<1>5. Front(jobs[t]) # << >>
  BY <1>4
<1>6. jobs' \in [Terminal -> Seq(Pid) \ {<< >>}]
  BY <1>2, <1>3, <1>4, <1>5
<1>7. \A u \in Terminal : /\ Len(jobs'[u]) \in Nat /\ Len(jobs[u]) \in Nat
                          /\ Len(jobs'[u]) <= Len(jobs[u])
                          /\ \A k \in 1 .. Len(jobs'[u]) : jobs'[u][k] = jobs[u][k]
  BY <1>1, <1>3, <1>4, JobsLength
<1>8. \A u, v \in Terminal : \A k \in 1 .. Len(jobs'[u]), l \in 1 .. Len(jobs'[v]) :
          jobs'[u][k] = jobs'[v][l] => u = v /\ k = l
  <2> SUFFICES ASSUME NEW u \in Terminal, NEW v \in Terminal,
                      NEW k \in 1 .. Len(jobs'[u]), NEW l \in 1 .. Len(jobs'[v]),
                      jobs'[u][k] = jobs'[v][l]
               PROVE  u = v /\ k = l
    OBVIOUS
  <2>1. k \in 1 .. Len(jobs[u]) /\ l \in 1 .. Len(jobs[v])
    BY <1>7
  <2>2. jobs[u][k] = jobs[v][l]
    BY <1>7
  <2> QED BY <2>1, <2>2 DEF JobsOK
<1>9. JobsOK'
  BY <1>6, <1>8 DEF JobsOK
<1>10. Taken' = Taken \ {active(t)}
  <2>1. ASSUME NEW p \in Taken'
        PROVE  p \in Taken /\ p # active(t)
    <3>1. PICK u \in Terminal : \E k \in 1 .. Len(jobs'[u]) : jobs'[u][k] = p
      BY <2>1 DEF Taken
    <3>2. PICK k \in 1 .. Len(jobs'[u]) : jobs'[u][k] = p
      BY <3>1
    <3>3. k \in 1 .. Len(jobs[u]) /\ jobs[u][k] = p
      BY <1>7, <3>2
    <3>4. Len(jobs[t]) \in 1 .. Len(jobs[t])
      BY <1>1, JobsLength
    <3>5. u = t => k # Len(jobs[t])
      BY <1>1, <1>3, <1>4
    <3>6. p # jobs[t][Len(jobs[t])]
      BY <3>3, <3>4, <3>5 DEF JobsOK
    <3> QED BY <3>3, <3>6, TakenMembers DEF active, Last
  <2>2. ASSUME NEW p \in Taken, p # active(t)
        PROVE  p \in Taken'
    <3>1. PICK u \in Terminal : \E k \in 1 .. Len(jobs[u]) : jobs[u][k] = p
      BY <2>2 DEF Taken
    <3>2. PICK k \in 1 .. Len(jobs[u]) : jobs[u][k] = p
      BY <3>1
    <3>3. u = t => k # Len(jobs[t])
      BY <2>2, <3>2 DEF active, Last
    <3>4. k \in 1 .. Len(jobs'[u])
      BY <1>1, <1>3, <1>4, <3>2, <3>3
    <3>5. jobs'[u][k] = p
      BY <1>7, <3>2, <3>4
    <3> QED BY <3>4, <3>5 DEF Taken
  <2> QED BY <2>1, <2>2
<1>11. \A u \in Terminal \ {t} : active(u)' = active(u)
  BY <1>3 DEF active, Last
<1>12. active(t)' = jobs[t][Len(jobs[t]) - 1]
  BY <1>1, <1>3, <1>4 DEF active, Last
<1>13. Len(jobs[t]) - 1 \in 1 .. Len(jobs[t]) /\ Len(jobs[t]) - 1 # Len(jobs[t])
  BY <1>1
<1>14. active(t)' \in Taken
  BY <1>12, <1>13, TakenMembers
<1>15. ASSUME NEW u \in Terminal PROVE active(t)' # active(u)
  <2>1. active(u) = jobs[u][Len(jobs[u])] /\ Len(jobs[u]) \in 1 .. Len(jobs[u])
    BY JobsLength DEF active, Last
  <2> QED BY <1>12, <1>13, <2>1 DEF JobsOK
<1> QED BY <1>9, <1>10, <1>11, <1>14, <1>15

LEMMA FreeSlot ==
    ASSUME Pid \ Taken # {}
    PROVE  FirstFree \in Pid \ Taken
<1>1. Pid \ Taken \subseteq Nat
  BY Constants
<1> QED BY <1>1, MinIsLeast DEF FirstFree

\* A program starts another one, which becomes the active process.
LEMMA JobsGrow ==
    ASSUME JobsOK, NEW t \in Terminal, NEW p \in Pid \ Taken,
           jobs' = [jobs EXCEPT ![t] = Append(@, p)]
    PROVE  /\ JobsOK' /\ Taken' = Taken \cup {p}
           /\ \A u \in Terminal \ {t} : active(u)' = active(u)
           /\ active(t)' = p
<1>1. jobs[t] \in Seq(Pid) /\ Len(jobs[t]) \in Nat
  BY JobsLength
<1>2. DOMAIN jobs = Terminal /\ \A u \in Terminal : jobs[u] \in Seq(Pid) \ {<< >>}
  BY DEF JobsOK
<1>3. jobs'[t] = Append(jobs[t], p) /\ \A u \in Terminal \ {t} : jobs'[u] = jobs[u]
  BY <1>2
<1>4. /\ Append(jobs[t], p) \in Seq(Pid) /\ Len(Append(jobs[t], p)) = Len(jobs[t]) + 1
      /\ \A k \in 1 .. Len(jobs[t]) : Append(jobs[t], p)[k] = jobs[t][k]
      /\ Append(jobs[t], p)[Len(jobs[t]) + 1] = p
  BY <1>1
<1>5. Append(jobs[t], p) # << >>
  <2>1. ASSUME NEW s, Len(s) = Len(jobs[t]) + 1 PROVE s # << >>
    BY <1>1, <2>1
  <2> QED BY <1>4, <2>1
<1>6. jobs' \in [Terminal -> Seq(Pid) \ {<< >>}]
  BY <1>2, <1>3, <1>4, <1>5
<1>7. \A u \in Terminal : Len(jobs[u]) \in Nat
  BY JobsLength
<1>8. ASSUME NEW u \in Terminal, NEW k \in 1 .. Len(jobs'[u])
      PROVE  \/ k \in 1 .. Len(jobs[u]) /\ jobs'[u][k] = jobs[u][k] /\ jobs'[u][k] \in Taken
             \/ u = t /\ k = Len(jobs[t]) + 1 /\ jobs'[u][k] = p
  <2>1. CASE k \in 1 .. Len(jobs[u])
    BY <1>3, <1>4, <2>1, TakenMembers
  <2>2. CASE k \notin 1 .. Len(jobs[u])
    BY <1>1, <1>3, <1>4, <1>7, <2>2
  <2> QED BY <2>1, <2>2
<1>9. \A u, v \in Terminal : \A k \in 1 .. Len(jobs'[u]), l \in 1 .. Len(jobs'[v]) :
          jobs'[u][k] = jobs'[v][l] => u = v /\ k = l
  <2> SUFFICES ASSUME NEW u \in Terminal, NEW v \in Terminal,
                      NEW k \in 1 .. Len(jobs'[u]), NEW l \in 1 .. Len(jobs'[v]),
                      jobs'[u][k] = jobs'[v][l]
               PROVE  u = v /\ k = l
    OBVIOUS
  <2>1. CASE jobs'[u][k] = p
    <3>1. u = t /\ k = Len(jobs[t]) + 1
      BY <1>8, <2>1
    <3>2. v = t /\ l = Len(jobs[t]) + 1
      BY <1>8, <2>1
    <3> QED BY <3>1, <3>2
  <2>2. CASE jobs'[u][k] # p
    <3>1. k \in 1 .. Len(jobs[u]) /\ jobs'[u][k] = jobs[u][k]
      BY <1>8, <2>2
    <3>2. l \in 1 .. Len(jobs[v]) /\ jobs'[v][l] = jobs[v][l]
      BY <1>8, <2>2
    <3> QED BY <3>1, <3>2 DEF JobsOK
  <2> QED BY <2>1, <2>2
<1>10. JobsOK'
  BY <1>6, <1>9 DEF JobsOK
<1>11. Taken' = Taken \cup {p}
  <2>1. \A q \in Taken' : q \in Taken \cup {p}
    BY <1>8 DEF Taken
  <2>2. p \in Taken'
    <3>1. Len(jobs[t]) + 1 \in 1 .. Len(jobs'[t]) /\ jobs'[t][Len(jobs[t]) + 1] = p
      BY <1>1, <1>3, <1>4
    <3> QED BY <3>1 DEF Taken
  <2>3. ASSUME NEW q \in Taken PROVE q \in Taken'
    <3>1. PICK u \in Terminal : \E k \in 1 .. Len(jobs[u]) : jobs[u][k] = q
      BY <2>3 DEF Taken
    <3>2. PICK k \in 1 .. Len(jobs[u]) : jobs[u][k] = q
      BY <3>1
    <3>3. k \in 1 .. Len(jobs'[u]) /\ jobs'[u][k] = q
      BY <1>1, <1>3, <1>4, <1>7, <3>2
    <3> QED BY <3>3 DEF Taken
  <2> QED BY <2>1, <2>2, <2>3
<1>12. \A u \in Terminal \ {t} : active(u)' = active(u)
  BY <1>3 DEF active, Last
<1>13. active(t)' = p
  BY <1>1, <1>3, <1>4 DEF active, Last
<1> QED BY <1>10, <1>11, <1>12, <1>13

-----------------------------------------------------------------------------
(* The invariant *)

\* An interrupt that is pending for a process with a handler has room on its stack.
Nests ==
    \A p \in Taken : INTERRUPT \in sig_pending[p] \cap sig_handler[p] => Len(frames[p]) < MaxNested

\* A fault is delivered by the do_signal behind it.
NoFaultLeft == \A p \in Taken : sig_pending[p] \subseteq {INTERRUPT, ALARM}

SigInv == TypeOK /\ NoFaultLeft /\ Prompt /\ Nests /\ Addressed

LEMMA TypeJobs == TypeOK => JobsOK
BY DEF TypeOK, JobsOK

\* What the variables other than jobs must satisfy when the processes are known.
RestOK ==
    /\ sche_term \in Terminal /\ cur_terminal \in Terminal
    /\ sig_pending \in [Pid -> SUBSET Signal]
    /\ sig_handler \in [Pid -> SUBSET Handled]
    /\ frames \in [Pid -> Seq(Handled)]
    /\ \A p \in Pid : Len(frames[p]) <= MaxNested
    /\ SIGINT_flag \in {0, 1}
    /\ death \in [signal : 0 .. NUM_SIGNAL, message : BOOLEAN]
    /\ owed \in [Pid -> SUBSET Signal]

LEMMA TypeParts == TypeOK <=> JobsOK /\ RestOK /\ in_call \subseteq Taken
BY DEF TypeOK, JobsOK, RestOK

LEMMA SigInit == Init => SigInv
<1> SUFFICES ASSUME Init PROVE SigInv
  OBVIOUS
<1>1. \A t \in Terminal : jobs[t] = <<t>> /\ jobs[t] \in Seq(Pid) /\ jobs[t] # << >>
  BY Constants DEF Init
<1>2. JobsOK
  BY <1>1 DEF Init, JobsOK
<1>3. RestOK
  <2>1. NUM_SIGNAL \in 0 .. NUM_SIGNAL
    BY DEF NUM_SIGNAL
  <2>2. << >> \in Seq(Handled) /\ Len(<< >>) = 0 /\ MaxNested \in Nat
    BY Constants
  <2> QED BY <2>1, <2>2, Constants DEF Init, RestOK
<1>4. \A p \in Taken : sig_pending[p] = {} /\ owed[p] = {}
  BY <1>2, TakenPid DEF Init
<1> QED BY <1>2, <1>3, <1>4, TypeParts DEF Init, SigInv, NoFaultLeft, Prompt, Nests, Addressed

\* What the interrupts give to do_signal: a signal for the active process of the
\* terminal, with an alarm at most, and for all others interrupts and alarms.
Given(t, pend, sent) ==
    /\ \E f \in {DIV_ZERO, SEGFAULT, INTERRUPT} : pend[active(t)] \subseteq {f, ALARM}
    /\ \A p \in Taken \ {active(t)} : pend[p] \subseteq {INTERRUPT, ALARM}
    /\ \A p \in Taken : INTERRUPT \in pend[p] => \E u \in Terminal : active(u) = p
    /\ \A p \in Taken : \A s \in pend[p] \cap sig_handler[p] :
          s # ALARM => Len(frames[p]) < MaxNested
    /\ \A p \in Taken : pend[p] = sent[p]

\* What halt leaves, for a process that ends by itself and for one that is killed:
\* t is its terminal, rest the signals that are pending without the delivered one.
LEMMA HaltStep ==
    ASSUME SigInv, NEW t \in Terminal, NEW rest \in [Pid -> SUBSET Signal], halt(t, rest),
           sche_term' = t, cur_terminal' \in Terminal, SIGINT_flag' \in {0, 1},
           death' \in [signal : 0 .. NUM_SIGNAL, message : BOOLEAN],
           owed' \in [Pid -> SUBSET Signal], owed'[active(t)] = {},
           \A p \in Taken \ {active(t)} : rest[p] = owed'[p],
           \A p \in Taken : /\ rest[p] \subseteq {INTERRUPT, ALARM}
                            /\ INTERRUPT \in rest[p] =>
                                 p # active(t) /\ \E u \in Terminal \ {t} : active(u) = p,
           \A p \in Taken : INTERRUPT \in rest[p] \cap sig_handler[p] =>
                                Len(frames[p]) < MaxNested
    PROVE  SigInv'
<1> DEFINE a == active(t)
<1>1. JobsOK /\ RestOK /\ in_call \subseteq Taken /\ Taken \subseteq Pid
  BY TypeParts, TakenPid DEF SigInv
<1>2. a \in Taken /\ a \in Pid /\ \A u \in Terminal : active(u) = a => u = t
  BY <1>1, ActiveTaken
<1>3. CASE HaltChild(t, rest)
  <2>1. /\ JobsOK' /\ Taken' = Taken \ {a}
        /\ \A u \in Terminal \ {t} : active(u)' = active(u)
    BY <1>1, <1>3, JobsShrink DEF HaltChild
  <2>2. sig_pending' = rest /\ in_call' = in_call \ {a} /\ UNCHANGED <<sig_handler, frames>>
    BY <1>3 DEF HaltChild
  <2>3. RestOK'
    BY <1>1, <2>2 DEF RestOK
  <2>4. TypeOK'
    BY <1>1, <2>1, <2>2, <2>3 DEF TypeOK, JobsOK, RestOK
  <2>5. NoFaultLeft' /\ Nests' /\ Addressed'
    BY <2>1, <2>2 DEF NoFaultLeft, Nests, Addressed
  <2>6. Prompt'
    BY <2>1, <2>2 DEF Prompt
  <2> QED BY <2>4, <2>5, <2>6 DEF SigInv
<1>4. CASE HaltBase(t, rest)
  <2>1. /\ sig_pending' = [rest EXCEPT ![a] = {}]
        /\ sig_handler' = [sig_handler EXCEPT ![a] = {}]
        /\ frames' = [frames EXCEPT ![a] = << >>]
        /\ in_call' = in_call \ {a} /\ UNCHANGED jobs
    BY <1>4 DEF HaltBase, NewPcb
  <2>2. JobsOK' /\ Taken' = Taken /\ \A u \in Terminal : active(u)' = active(u)
    BY <1>1, <2>1 DEF JobsOK, Taken, active
  <2>3. /\ sig_pending' \in [Pid -> SUBSET Signal] /\ sig_pending'[a] = {}
        /\ \A p \in Pid \ {a} : sig_pending'[p] = rest[p]
    BY <1>2, <2>1
  <2>4. /\ sig_handler' \in [Pid -> SUBSET Handled]
        /\ \A p \in Pid \ {a} : sig_handler'[p] = sig_handler[p]
    BY <1>1, <1>2, <2>1 DEF RestOK
  <2>5. /\ frames' \in [Pid -> Seq(Handled)] /\ frames'[a] = << >>
        /\ \A p \in Pid \ {a} : frames'[p] = frames[p]
    BY <1>1, <1>2, <2>1 DEF RestOK
  <2>6. \A p \in Pid : Len(frames'[p]) <= MaxNested
    <3>1. Len(<< >>) <= MaxNested
      BY Constants
    <3> QED BY <1>1, <2>5, <3>1 DEF RestOK
  <2>7. RestOK'
    BY <1>1, <2>3, <2>4, <2>5, <2>6 DEF RestOK
  <2>8. TypeOK'
    BY <1>1, <2>1, <2>2, <2>7 DEF TypeOK, JobsOK, RestOK
  <2>9. NoFaultLeft' /\ Nests'
    BY <1>1, <2>2, <2>3, <2>4, <2>5 DEF NoFaultLeft, Nests
  <2>10. Addressed'
    BY <1>1, <2>2, <2>3 DEF Addressed
  <2>11. Prompt'
    BY <1>1, <2>2, <2>3 DEF Prompt
  <2> QED BY <2>8, <2>9, <2>10, <2>11 DEF SigInv
<1> QED BY <1>3, <1>4 DEF halt

LEMMA DoSignalStep ==
    ASSUME SigInv, NEW t \in Terminal,
           NEW pend \in [Pid -> SUBSET Signal], NEW sent \in [Pid -> SUBSET Signal],
           NEW flag \in {0, 1}, do_signal(t, pend, sent, flag), Given(t, pend, sent),
           sche_term' = t, cur_terminal' \in Terminal
    PROVE  SigInv'
<1> DEFINE a == active(t)
           s == Min(pend[a])
           rest == [pend EXCEPT ![a] = @ \ {s}]
<1>1. JobsOK /\ RestOK /\ in_call \subseteq Taken /\ Taken \subseteq Pid
  BY TypeParts, TakenPid DEF SigInv
<1>2. a \in Taken /\ a \in Pid /\ \A u \in Terminal : active(u) = a => u = t
  BY <1>1, ActiveTaken
<1>3. CASE pend[a] = {}
  <2>1. /\ sig_pending' = pend /\ owed' = sent /\ SIGINT_flag' = flag
        /\ UNCHANGED <<jobs, sig_handler, frames, in_call, death>>
    BY <1>3 DEF do_signal
  <2>2. JobsOK' /\ Taken' = Taken /\ \A u \in Terminal : active(u)' = active(u)
    BY <1>1, <2>1 DEF JobsOK, Taken, active
  <2>3. RestOK'
    BY <1>1, <2>1 DEF RestOK
  <2>4. TypeOK'
    BY <1>1, <2>1, <2>2, <2>3 DEF TypeOK, JobsOK, RestOK
  <2>5. NoFaultLeft' /\ Nests' /\ Addressed'
    BY <1>3, <2>1, <2>2 DEF Given, NoFaultLeft, Nests, Addressed, INTERRUPT, ALARM
  <2>6. Prompt'
    BY <1>2, <1>3, <2>1, <2>2 DEF Given, Prompt
  <2> QED BY <2>4, <2>5, <2>6 DEF SigInv
<1>4. CASE pend[a] # {}
  <2>1. /\ s \in pend[a] /\ s \in Signal /\ pend[a] \ {s} \subseteq {ALARM}
    BY <1>2, <1>4, LeastSignal DEF Given
  <2>2. /\ rest \in [Pid -> SUBSET Signal] /\ rest[a] = pend[a] \ {s}
        /\ \A p \in Pid \ {a} : rest[p] = pend[p]
    BY <1>2
  <2>3. \A p \in Taken : /\ rest[p] \subseteq {INTERRUPT, ALARM}
                         /\ INTERRUPT \in rest[p] =>
                              p # a /\ \E u \in Terminal \ {t} : active(u) = p
    BY <1>1, <1>2, <2>1, <2>2 DEF Given, INTERRUPT, ALARM
  <2>4. \A p \in Taken : INTERRUPT \in rest[p] \cap sig_handler[p] => Len(frames[p]) < MaxNested
    BY <1>1, <1>2, <2>2, <2>3 DEF Given, INTERRUPT, ALARM
  <2>5. /\ owed' = [sent EXCEPT ![a] = IF Kills(a, s) THEN {} ELSE @ \ {s}]
        /\ \/ /\ Kills(a, s)
              /\ kill_the_task(t, rest, flag, s)
           \/ /\ ~Kills(a, s)
              /\ sig_pending' = rest /\ SIGINT_flag' = flag
              /\ UNCHANGED <<jobs, sig_handler, frames, in_call, death>>
           \/ /\ s \in sig_handler[a] /\ s # ALARM
              /\ sig_pending' = rest /\ SIGINT_flag' = flag
              /\ frames' = [frames EXCEPT ![a] = Append(@, s)]
              /\ UNCHANGED <<jobs, sig_handler, in_call, death>>
    BY <1>4 DEF do_signal, Kills, DIV_ZERO, SEGFAULT, INTERRUPT, ALARM, USER1
  <2>6. /\ owed' \in [Pid -> SUBSET Signal] /\ \A p \in Pid \ {a} : owed'[p] = sent[p]
        /\ owed'[a] = IF Kills(a, s) THEN {} ELSE sent[a] \ {s}
    BY <1>2, <2>5
  <2>7. \A p \in Taken : p # a \/ ~Kills(a, s) => rest[p] = owed'[p]
    BY <1>1, <1>2, <2>2, <2>6 DEF Given
  <2> HIDE DEF rest, s
  <2>8. CASE Kills(a, s) /\ kill_the_task(t, rest, flag, s)
    <3>1. /\ death' = [signal |-> s, message |-> flag = 1] /\ SIGINT_flag' = 0
          /\ halt(t, rest)
      BY <2>8 DEF kill_the_task
    <3>2. death' \in [signal : 0 .. NUM_SIGNAL, message : BOOLEAN]
      <4>1. s \in 0 .. NUM_SIGNAL
        BY <2>1 DEF Signal, NUM_SIGNAL
      <4> QED BY <3>1, <4>1
    <3> QED BY <1>1, <2>2, <2>3, <2>4, <2>6, <2>7, <2>8, <3>1, <3>2, HaltStep
  <2>9. ASSUME sig_pending' = rest, SIGINT_flag' = flag, ~Kills(a, s),
               UNCHANGED <<jobs, sig_handler, in_call, death>>,
               frames' \in [Pid -> Seq(Handled)],
               \A p \in Pid : Len(frames'[p]) <= MaxNested,
               \A p \in Pid \ {a} : frames'[p] = frames[p]
        PROVE  SigInv'
    <3>1. JobsOK' /\ Taken' = Taken /\ \A u \in Terminal : active(u)' = active(u)
      BY <1>1, <2>9 DEF JobsOK, Taken, active
    <3>2. RestOK'
      BY <1>1, <2>2, <2>6, <2>9 DEF RestOK
    <3>3. TypeOK'
      BY <1>1, <2>9, <3>1, <3>2 DEF TypeOK, JobsOK, RestOK
    <3>4. NoFaultLeft' /\ Nests' /\ Addressed'
      BY <1>1, <2>3, <2>4, <2>7, <2>9, <3>1 DEF NoFaultLeft, Nests, Addressed
    <3>5. Prompt'
      BY <2>3, <2>9, <3>1 DEF Prompt
    <3> QED BY <3>3, <3>4, <3>5 DEF SigInv
  <2>10. CASE ~Kills(a, s) /\ sig_pending' = rest /\ SIGINT_flag' = flag
              /\ UNCHANGED <<jobs, sig_handler, frames, in_call, death>>
    BY <1>1, <2>9, <2>10 DEF RestOK
  <2>11. CASE /\ s \in sig_handler[a] /\ s # ALARM
              /\ sig_pending' = rest /\ SIGINT_flag' = flag
              /\ frames' = [frames EXCEPT ![a] = Append(@, s)]
              /\ UNCHANGED <<jobs, sig_handler, in_call, death>>
    <3>1. ~Kills(a, s)
      BY <2>11 DEF Kills
    <3>2. s \in Handled /\ frames[a] \in Seq(Handled) /\ Len(frames[a]) < MaxNested
      BY <1>1, <1>2, <2>1, <2>11 DEF RestOK, Given
    <3>3. Append(frames[a], s) \in Seq(Handled) /\ Len(Append(frames[a], s)) <= MaxNested
      BY <3>2, Constants
    <3>4. /\ frames'[a] = Append(frames[a], s) /\ frames' \in [Pid -> Seq(Handled)]
          /\ \A p \in Pid \ {a} : frames'[p] = frames[p]
      BY <1>1, <1>2, <2>11, <3>3 DEF RestOK
    <3>5. \A p \in Pid : Len(frames'[p]) <= MaxNested
      BY <1>1, <3>3, <3>4 DEF RestOK
    <3> QED BY <2>9, <2>11, <3>1, <3>4, <3>5
  <2> QED BY <2>5, <2>8, <2>10, <2>11
<1> QED BY <1>3, <1>4

-----------------------------------------------------------------------------
(* The steps *)

LEMMA RoomLeft ==
    ASSUME RestOK, NEW p \in Pid, Room(p)
    PROVE  Len(frames[p]) < MaxNested
<1>1. IsFiniteSet(Signal)
  <2>1. Signal \in SUBSET Nat /\ 5 \in Nat /\ \A s \in Signal : s <= 5
    BY DEF Signal, NUM_SIGNAL
  <2> QED BY <2>1, FS_BoundedSetOfNaturals
<1>2. sig_pending[p] \cap sig_handler[p] \subseteq Signal
  BY DEF RestOK
<1>3. Cardinality(sig_pending[p] \cap sig_handler[p]) \in Nat
  BY <1>1, <1>2, FS_Subset, FS_CardinalityType
<1>4. Len(frames[p]) \in Nat /\ MaxNested \in Nat
  BY Constants DEF RestOK
<1> QED BY <1>3, <1>4 DEF Room

\* The signals that are pending without any new one can be given to do_signal.
LEMMA GivenPending ==
    ASSUME SigInv, NEW t \in Terminal
    PROVE  Given(t, sig_pending, owed)
<1>1. JobsOK /\ active(t) \in Taken /\ Taken \subseteq Pid
  BY TypeParts, ActiveTaken, TakenPid DEF SigInv
<1> QED BY <1>1 DEF Given, SigInv, NoFaultLeft, Prompt, Nests, Addressed, INTERRUPT, ALARM

\* The current process has no interrupt waiting for it.
LEMMA CurrentHasNone ==
    ASSUME SigInv
    PROVE  /\ cur_process \in Taken /\ cur_process \in Pid /\ sche_term \in Terminal
           /\ sig_pending[cur_process] \subseteq {ALARM}
<1>1. JobsOK /\ RestOK
  BY TypeParts DEF SigInv
<1>2. sche_term \in Terminal
  BY <1>1 DEF RestOK
<1>3. /\ cur_process \in Taken /\ cur_process \in Pid
      /\ \A u \in Terminal : active(u) = cur_process => u = sche_term
  BY <1>1, <1>2, ActiveTaken DEF cur_process
<1> QED BY <1>2, <1>3 DEF SigInv, NoFaultLeft, Prompt, INTERRUPT, ALARM

LEMMA WithTypes ==
    ASSUME NEW f \in [Pid -> SUBSET Signal], NEW p \in Pid, NEW s \in Signal
    PROVE  /\ With(f, p, s) \in [Pid -> SUBSET Signal]
           /\ With(f, p, s)[p] = f[p] \cup {s}
           /\ \A q \in Pid \ {p} : With(f, p, s)[q] = f[q]
BY DEF With

LEMMA CtrlCStep == ASSUME SigInv, CtrlC PROVE SigInv'
<1> DEFINE p == active(cur_terminal)
           pend == With(sig_pending, p, INTERRUPT)
           sent == With(owed, p, INTERRUPT)
<1>1. JobsOK /\ RestOK /\ Taken \subseteq Pid
  BY TypeParts, TakenPid DEF SigInv
<1>2. p \in Taken /\ p \in Pid /\ cur_terminal \in Terminal /\ sche_term \in Terminal
  BY <1>1, ActiveTaken DEF RestOK
<1>3. /\ pend \in [Pid -> SUBSET Signal] /\ sent \in [Pid -> SUBSET Signal]
      /\ pend[p] = sig_pending[p] \cup {INTERRUPT} /\ sent[p] = owed[p] \cup {INTERRUPT}
      /\ \A q \in Pid \ {p} : pend[q] = sig_pending[q] /\ sent[q] = owed[q]
  <2>1. INTERRUPT \in Signal /\ sig_pending \in [Pid -> SUBSET Signal]
    BY <1>1, Constants DEF RestOK
  <2>2. owed \in [Pid -> SUBSET Signal]
    BY <1>1 DEF RestOK
  <2> HIDE DEF p
  <2> QED BY <1>2, <2>1, <2>2, WithTypes
<1>4. do_signal(sche_term, pend, sent, 1) /\ UNCHANGED <<sche_term, cur_terminal>>
  BY DEF CtrlC, Target
<1>5. INTERRUPT \in sig_handler[p] => Len(frames[p]) < MaxNested
  BY <1>1, <1>2, RoomLeft DEF CtrlC, Enters
<1> HIDE DEF pend, sent
<1>6. \A q \in Taken : pend[q] \subseteq {INTERRUPT, ALARM} /\ pend[q] = sent[q]
  BY <1>1, <1>3 DEF SigInv, NoFaultLeft, Addressed
<1>7. \A q \in Taken : INTERRUPT \in pend[q] => \E u \in Terminal : active(u) = q
  BY <1>1, <1>2, <1>3 DEF SigInv, Prompt
<1>8. \A q \in Taken : \A s \in pend[q] \cap sig_handler[q] :
          s # ALARM => Len(frames[q]) < MaxNested
  <2> SUFFICES ASSUME NEW q \in Taken, INTERRUPT \in pend[q] \cap sig_handler[q]
               PROVE  Len(frames[q]) < MaxNested
    BY <1>6
  <2>1. CASE q = p
    BY <1>5, <2>1
  <2>2. CASE q # p
    BY <1>1, <1>3, <2>2 DEF SigInv, Nests
  <2> QED BY <2>1, <2>2
<1>9. active(sche_term) \in Taken
  BY <1>1, <1>2, ActiveTaken
<1>10. Given(sche_term, pend, sent)
  BY <1>6, <1>7, <1>8, <1>9 DEF Given
<1> QED BY <1>2, <1>3, <1>4, <1>10, DoSignalStep

LEMMA AlarmStep == ASSUME SigInv, Alarm PROVE SigInv'
<1> DEFINE pend == Alarmed(sig_pending)
           sent == Alarmed(owed)
<1>1. JobsOK /\ RestOK /\ Taken \subseteq Pid
  BY TypeParts, TakenPid DEF SigInv
<1>2. /\ pend \in [Pid -> SUBSET Signal] /\ sent \in [Pid -> SUBSET Signal]
      /\ \A q \in Pid : \/ pend[q] = sig_pending[q] /\ sent[q] = owed[q]
                        \/ pend[q] = sig_pending[q] \cup {ALARM} /\ sent[q] = owed[q] \cup {ALARM}
  BY <1>1, Constants DEF RestOK, Alarmed
<1>3. do_signal(sche_term, pend, sent, SIGINT_flag) /\ UNCHANGED <<sche_term, cur_terminal>>
  BY DEF Alarm
<1> HIDE DEF pend, sent
<1>4. \A q \in Taken : pend[q] \subseteq {INTERRUPT, ALARM} /\ pend[q] = sent[q]
  BY <1>1, <1>2 DEF SigInv, NoFaultLeft, Addressed
<1>5. \A q \in Taken : INTERRUPT \in pend[q] => INTERRUPT \in sig_pending[q]
  BY <1>1, <1>2 DEF INTERRUPT, ALARM
<1>6. sche_term \in Terminal /\ cur_terminal \in Terminal /\ SIGINT_flag \in {0, 1}
  BY <1>1 DEF RestOK
<1>7. active(sche_term) \in Taken
  BY <1>1, <1>6, ActiveTaken
<1>8. Given(sche_term, pend, sent)
  BY <1>4, <1>5, <1>7 DEF Given, SigInv, Prompt, Nests
<1> QED BY <1>2, <1>3, <1>6, <1>8, DoSignalStep

LEMMA RaiseStep == ASSUME SigInv, NEW s \in Signal, Raise(s) PROVE SigInv'
<1> DEFINE pend == With(sig_pending, cur_process, s)
           sent == With(owed, cur_process, s)
<1>1. JobsOK /\ RestOK /\ Taken \subseteq Pid
  BY TypeParts, TakenPid DEF SigInv
<1>2. /\ cur_process \in Taken /\ cur_process \in Pid /\ sche_term \in Terminal
      /\ sig_pending[cur_process] \subseteq {ALARM}
  BY CurrentHasNone
<1>3. /\ pend \in [Pid -> SUBSET Signal] /\ sent \in [Pid -> SUBSET Signal]
      /\ pend[cur_process] = sig_pending[cur_process] \cup {s}
      /\ sent[cur_process] = owed[cur_process] \cup {s}
      /\ \A q \in Pid \ {cur_process} : pend[q] = sig_pending[q] /\ sent[q] = owed[q]
  <2>1. sig_pending \in [Pid -> SUBSET Signal] /\ owed \in [Pid -> SUBSET Signal]
    BY <1>1 DEF RestOK
  <2> QED BY <1>2, <2>1, WithTypes
<1>4. s \in {DIV_ZERO, SEGFAULT} /\ s # INTERRUPT
  BY DEF Raise, DIV_ZERO, SEGFAULT, INTERRUPT
<1>5. do_signal(sche_term, pend, sent, SIGINT_flag) /\ UNCHANGED <<sche_term, cur_terminal>>
  BY <1>4 DEF Raise, Target
<1>6. s \in sig_handler[cur_process] => Len(frames[cur_process]) < MaxNested
  BY <1>1, <1>2, RoomLeft DEF Raise, Enters
<1> HIDE DEF pend, sent
<1>7. pend[cur_process] \subseteq {s, ALARM}
  BY <1>2, <1>3
<1>8. \A q \in Taken \ {cur_process} : pend[q] = sig_pending[q]
  BY <1>1, <1>3
<1>9. \A q \in Taken : INTERRUPT \in pend[q] => INTERRUPT \in sig_pending[q]
  BY <1>1, <1>3, <1>4
<1>10. \A q \in Taken : \A x \in pend[q] \cap sig_handler[q] :
          x # ALARM => Len(frames[q]) < MaxNested
  <2> SUFFICES ASSUME NEW q \in Taken, NEW x \in pend[q] \cap sig_handler[q], x # ALARM
               PROVE  Len(frames[q]) < MaxNested
    OBVIOUS
  <2>1. CASE q = cur_process
    BY <1>6, <1>7, <2>1
  <2>2. CASE q # cur_process
    BY <1>8, <2>2 DEF SigInv, NoFaultLeft, Nests
  <2> QED BY <2>1, <2>2
<1>11. \A q \in Taken : pend[q] = sent[q]
  BY <1>1, <1>3 DEF SigInv, Addressed
<1>12. \A q \in Taken \ {cur_process} : pend[q] \subseteq {INTERRUPT, ALARM}
  BY <1>8 DEF SigInv, NoFaultLeft
<1>13. \A q \in Taken : INTERRUPT \in pend[q] => \E u \in Terminal : active(u) = q
  BY <1>9 DEF SigInv, Prompt
<1>14. Given(sche_term, pend, sent)
  BY <1>4, <1>7, <1>10, <1>11, <1>12, <1>13 DEF Given, cur_process
<1>15. cur_terminal \in Terminal /\ SIGINT_flag \in {0, 1}
  BY <1>1 DEF RestOK
<1> QED BY <1>2, <1>3, <1>5, <1>14, <1>15, DoSignalStep

LEMMA ExecuteStep == ASSUME SigInv, execute PROVE SigInv'
<1> DEFINE n == FirstFree
<1>1. JobsOK /\ RestOK /\ Taken \subseteq Pid /\ in_call \subseteq Taken
  BY TypeParts, TakenPid DEF SigInv
<1>2. n \in Pid \ Taken
  BY FreeSlot DEF execute
<1>3. sche_term \in Terminal /\ sig_pending[active(sche_term)] \subseteq {ALARM}
  BY CurrentHasNone DEF cur_process
<1>4. /\ JobsOK' /\ Taken' = Taken \cup {n}
      /\ \A u \in Terminal \ {sche_term} : active(u)' = active(u)
  BY <1>1, <1>2, <1>3, JobsGrow DEF execute
<1>5. /\ sig_pending' = [sig_pending EXCEPT ![n] = {}]
      /\ sig_handler' = [sig_handler EXCEPT ![n] = {}]
      /\ frames' = [frames EXCEPT ![n] = << >>] /\ owed' = [owed EXCEPT ![n] = {}]
      /\ UNCHANGED <<sche_term, cur_terminal, in_call, SIGINT_flag, death>>
  BY DEF execute, NewPcb
<1> HIDE DEF n
<1>6. RestOK'
  <2>1. Len(<< >>) <= MaxNested /\ << >> \in Seq(Handled)
    BY Constants
  <2>2. \A p \in Pid : frames'[p] = << >> \/ frames'[p] = frames[p]
    BY <1>1, <1>5 DEF RestOK
  <2>3. \A p \in Pid : Len(frames'[p]) <= MaxNested
    BY <1>1, <2>1, <2>2 DEF RestOK
  <2> QED BY <1>1, <1>2, <1>5, <2>1, <2>3 DEF RestOK
<1>7. TypeOK'
  BY <1>1, <1>4, <1>5, <1>6 DEF TypeOK, JobsOK, RestOK
<1>8. /\ sig_pending'[n] = {} /\ owed'[n] = {}
      /\ \A p \in Taken : /\ sig_pending'[p] = sig_pending[p] /\ owed'[p] = owed[p]
                          /\ sig_handler'[p] = sig_handler[p] /\ frames'[p] = frames[p]
  BY <1>1, <1>2, <1>5 DEF RestOK
<1>9. NoFaultLeft' /\ Nests' /\ Addressed'
  BY <1>4, <1>8 DEF SigInv, NoFaultLeft, Nests, Addressed
<1>10. Prompt'
  BY <1>4, <1>5, <1>8 DEF SigInv, Prompt
<1> QED BY <1>7, <1>9, <1>10 DEF SigInv

LEMMA CallSteps ==
    ASSUME SigInv,
           \/ \E s \in Handled, own \in BOOLEAN : set_handler(s, own)
           \/ sigreturn \/ OtherCall
    PROVE  SigInv'
<1> DEFINE p == cur_process
<1>1. JobsOK /\ RestOK /\ in_call \subseteq Taken
  BY TypeParts DEF SigInv
<1>2. p \in Taken /\ p \in Pid /\ INTERRUPT \notin sig_pending[p]
  BY CurrentHasNone DEF INTERRUPT, ALARM
<1>3. UNCHANGED <<jobs, sche_term, cur_terminal, sig_pending, SIGINT_flag, death, owed>>
  BY DEF set_handler, sigreturn, OtherCall
<1> HIDE DEF p
<1>4. JobsOK' /\ Taken' = Taken /\ \A u \in Terminal : active(u)' = active(u)
  BY <1>1, <1>3 DEF JobsOK, Taken, active
<1>5. NoFaultLeft' /\ Addressed' /\ Prompt'
  BY <1>3, <1>4 DEF SigInv, NoFaultLeft, Addressed, Prompt
<1>6. ASSUME in_call' \subseteq Taken,
             sig_handler' \in [Pid -> SUBSET Handled], frames' \in [Pid -> Seq(Handled)],
             \A q \in Pid \ {p} : sig_handler'[q] = sig_handler[q] /\ frames'[q] = frames[q],
             Len(frames'[p]) <= MaxNested
      PROVE  SigInv'
  <2>1. RestOK'
    BY <1>1, <1>3, <1>6 DEF RestOK
  <2>2. TypeOK'
    BY <1>1, <1>4, <1>6, <2>1 DEF TypeOK, JobsOK, RestOK
  <2>3. Nests'
    BY <1>1, <1>2, <1>3, <1>4, <1>6, TakenPid DEF SigInv, Nests
  <2> QED BY <1>5, <2>2, <2>3 DEF SigInv
<1>7. ASSUME NEW s \in Handled, NEW own \in BOOLEAN, set_handler(s, own) PROVE SigInv'
  <2>1. sig_handler' = [sig_handler EXCEPT ![p] = IF own THEN @ \cup {s} ELSE @ \ {s}]
        /\ UNCHANGED <<frames, in_call>>
    BY <1>7 DEF set_handler, p
  <2>2. /\ sig_handler' \in [Pid -> SUBSET Handled]
        /\ \A q \in Pid \ {p} : sig_handler'[q] = sig_handler[q]
    BY <1>1, <1>2, <2>1 DEF RestOK
  <2> QED BY <1>1, <1>2, <1>6, <2>1, <2>2 DEF RestOK
<1>8. CASE sigreturn
  <2>1. frames[p] # << >> /\ frames' = [frames EXCEPT ![p] = Front(@)]
        /\ UNCHANGED <<sig_handler, in_call>>
    BY <1>8 DEF sigreturn, p
  <2>2. frames[p] \in Seq(Handled) /\ Len(frames[p]) <= MaxNested
    BY <1>1, <1>2 DEF RestOK
  <2>3. /\ Front(frames[p]) \in Seq(Handled)
        /\ Len(Front(frames[p])) <= MaxNested
    BY <2>1, <2>2, Constants DEF Front
  <2>4. /\ frames' \in [Pid -> Seq(Handled)] /\ frames'[p] = Front(frames[p])
        /\ \A q \in Pid \ {p} : frames'[q] = frames[q]
    BY <1>1, <1>2, <2>1, <2>3 DEF RestOK
  <2> QED BY <1>1, <1>6, <2>1, <2>3, <2>4 DEF RestOK
<1>9. CASE OtherCall
  <2>1. in_call' \subseteq Taken /\ UNCHANGED <<sig_handler, frames>>
    BY <1>1, <1>2, <1>9 DEF OtherCall, p
  <2> QED BY <1>1, <1>2, <1>6, <2>1 DEF RestOK
<1> QED BY <1>7, <1>8, <1>9

LEMMA OwnEndStep == ASSUME SigInv, Halt PROVE SigInv'
<1> DEFINE a == active(sche_term)
<1>1. JobsOK /\ RestOK /\ Taken \subseteq Pid
  BY TypeParts, TakenPid DEF SigInv
<1>2. a \in Taken /\ a \in Pid /\ sche_term \in Terminal /\ sig_pending[a] \subseteq {ALARM}
  BY CurrentHasNone DEF cur_process
<1>3. /\ halt(sche_term, sig_pending) /\ owed' = [owed EXCEPT ![a] = {}]
      /\ death' = [signal |-> NUM_SIGNAL, message |-> FALSE]
      /\ UNCHANGED <<sche_term, cur_terminal, SIGINT_flag>>
  BY DEF Halt, cur_process
<1>4. death' \in [signal : 0 .. NUM_SIGNAL, message : BOOLEAN]
  BY <1>3 DEF NUM_SIGNAL
<1>5. /\ owed' \in [Pid -> SUBSET Signal] /\ owed'[a] = {}
      /\ \A p \in Taken \ {a} : owed'[p] = sig_pending[p]
  BY <1>1, <1>2, <1>3 DEF RestOK, SigInv, Addressed
<1>6. \A p \in Taken : /\ sig_pending[p] \subseteq {INTERRUPT, ALARM}
                       /\ INTERRUPT \in sig_pending[p] =>
                            p # a /\ \E u \in Terminal \ {sche_term} : active(u) = p
  BY <1>2 DEF SigInv, NoFaultLeft, Prompt, INTERRUPT, ALARM
<1>7. \A p \in Taken : INTERRUPT \in sig_pending[p] \cap sig_handler[p] =>
                           Len(frames[p]) < MaxNested
  BY DEF SigInv, Nests
<1> QED BY <1>1, <1>2, <1>3, <1>4, <1>5, <1>6, <1>7, HaltStep DEF RestOK

LEMMA SigStep == SigInv /\ [Next]_vars => SigInv'
<1> SUFFICES ASSUME SigInv, [Next]_vars PROVE SigInv'
  OBVIOUS
<1>1. JobsOK /\ RestOK
  BY TypeParts DEF SigInv
<1>2. /\ sig_pending \in [Pid -> SUBSET Signal] /\ owed \in [Pid -> SUBSET Signal]
      /\ SIGINT_flag \in {0, 1} /\ sche_term \in Terminal /\ cur_terminal \in Terminal
  BY <1>1 DEF RestOK
<1>3. ASSUME NEW t \in Terminal, do_signal(t, sig_pending, owed, SIGINT_flag),
             sche_term' = t, cur_terminal' \in Terminal
      PROVE  SigInv'
  BY <1>2, <1>3, GivenPending, DoSignalStep
<1>4. CASE Pit
  <2>1. (sche_term + 1) % NUM_TERMINAL \in Terminal
    BY <1>2, SignalsAssumption DEF Terminal
  <2> QED BY <1>2, <1>3, <1>4, <2>1 DEF Pit
<1>5. CASE Interrupt
  BY <1>2, <1>3, <1>5 DEF Interrupt
<1>6. ASSUME NEW t \in Terminal, terminal_switch(t) PROVE SigInv'
  BY <1>2, <1>3, <1>6 DEF terminal_switch
<1>7. CASE UNCHANGED vars
  <2>1. JobsOK' /\ Taken' = Taken /\ \A u \in Terminal : active(u)' = active(u)
    BY <1>1, <1>7 DEF JobsOK, Taken, active, vars
  <2>2. TypeOK'
    BY <1>7, <2>1 DEF SigInv, TypeOK, vars
  <2> QED BY <1>7, <2>1, <2>2 DEF SigInv, NoFaultLeft, Prompt, Nests, Addressed, vars
<1> QED BY <1>4, <1>5, <1>6, <1>7, CtrlCStep, AlarmStep, RaiseStep, ExecuteStep, CallSteps,
           OwnEndStep DEF Next

LEMMA SigInvariant == Spec => []SigInv
BY SigInit, SigStep, PTL DEF Spec

\* Every variable keeps its type, and no process is on two terminals: whatever
\* halt and execute (system_call.c:91-252) do in the middle of interrupts, and
\* however many handlers (signal.c:61-82) are entered one over the other.
THEOREM SignalsTypeCorrect == Spec => []TypeOK
<1>1. SigInv => TypeOK
  BY DEF SigInv
<1> QED BY <1>1, SigInvariant, PTL

\* Addressed holds: send_signal (signal.c:24-34) reaches the process that it is
\* meant for, and execute (system_call.c:245-249) clears what one before it left.
THEOREM AddressedHolds == Spec => []Addressed
<1>1. SigInv => Addressed
  BY DEF SigInv
<1> QED BY <1>1, SigInvariant, PTL

\* Prompt holds: do_signal behind every handler (handler.S:25) delivers a Ctrl+C
\* before its process goes on, also behind another process's signals.
THEOREM PromptHolds == Spec => []Prompt
<1>1. SigInv => Prompt
  BY DEF SigInv
<1> QED BY <1>1, SigInvariant, PTL

-----------------------------------------------------------------------------
(* The message *)

\* At most one process has an interrupt pending, and the flag is set for it.
OneFlagged(pend, flag) ==
    \A p \in Taken : INTERRUPT \in pend[p] =>
        flag = 1 /\ \A q \in Taken : INTERRUPT \in pend[q] => q = p

MessageInv == SigInv /\ Reported /\ OneFlagged(sig_pending, SIGINT_flag)

\* Neither of the two events after which a message is wrong.
MessageQuiet == Env \cap {"FaultAfterSigint", "TwoSigints"} = {}

LEMMA HaltPending ==
    ASSUME JobsOK, Taken \subseteq Pid, NEW t \in Terminal,
           NEW rest \in [Pid -> SUBSET Signal], halt(t, rest)
    PROVE  /\ Taken' \subseteq Taken
           /\ \A p \in Taken' : sig_pending'[p] \subseteq rest[p]
<1>1. CASE HaltChild(t, rest)
  BY <1>1, JobsShrink DEF HaltChild
<1>2. CASE HaltBase(t, rest)
  <2>1. Taken' = Taken
    BY <1>2 DEF HaltBase, Taken
  <2>2. sig_pending' = [rest EXCEPT ![active(t)] = {}]
    BY <1>2 DEF HaltBase, NewPcb
  <2> QED BY <2>1, <2>2
<1> QED BY <1>1, <1>2 DEF halt

\* Interrupts that are pending after a step were pending before it.
LEMMA StillFlagged ==
    ASSUME NEW pend, NEW flag, OneFlagged(pend, flag),
           \A p \in Taken' : INTERRUPT \in sig_pending'[p] => p \in Taken /\ INTERRUPT \in pend[p],
           SIGINT_flag' = flag
    PROVE  OneFlagged(sig_pending, SIGINT_flag)'
BY DEF OneFlagged

LEMMA MessageSignal ==
    ASSUME MessageQuiet, MessageInv, NEW t \in Terminal,
           NEW pend \in [Pid -> SUBSET Signal], NEW sent, NEW flag \in {0, 1},
           do_signal(t, pend, sent, flag), OneFlagged(pend, flag)
    PROVE  Reported' /\ OneFlagged(sig_pending, SIGINT_flag)'
<1> DEFINE a == active(t)
           s == Min(pend[a])
           rest == [pend EXCEPT ![a] = @ \ {s}]
<1>1. JobsOK /\ Taken \subseteq Pid /\ Reported
  BY TypeParts, TakenPid DEF MessageInv, SigInv
<1>2. a \in Taken /\ a \in Pid
  BY <1>1, ActiveTaken
<1>3. CASE pend[a] = {}
  <2>1. sig_pending' = pend /\ SIGINT_flag' = flag /\ UNCHANGED <<jobs, death>>
    BY <1>3 DEF do_signal
  <2>2. Taken' = Taken
    BY <2>1 DEF Taken
  <2> QED BY <1>1, <2>1, <2>2, StillFlagged DEF Reported
<1>4. CASE pend[a] # {}
  <2>1. s \in pend[a]
    BY <1>2, <1>4, LeastSignal
  <2>2. /\ rest \in [Pid -> SUBSET Signal] /\ rest[a] = pend[a] \ {s}
        /\ \A p \in Pid : rest[p] \subseteq pend[p]
    BY <1>2
  <2>3. \/ Kills(a, s) /\ kill_the_task(t, rest, flag, s)
        \/ sig_pending' = rest /\ SIGINT_flag' = flag /\ UNCHANGED <<jobs, death>>
    BY <1>4 DEF do_signal
  <2> HIDE DEF rest, s
  <2>4. CASE Kills(a, s) /\ kill_the_task(t, rest, flag, s)
    <3>1. /\ death' = [signal |-> s, message |-> flag = 1] /\ SIGINT_flag' = 0
          /\ halt(t, rest) /\ ~(s # INTERRUPT /\ flag = 1)
      BY <2>4 DEF kill_the_task, MessageQuiet
    <3>2. s = INTERRUPT => flag = 1
      BY <1>2, <2>1 DEF OneFlagged
    <3>3. death'.signal = s /\ death'.message = (flag = 1)
      BY <3>1
    <3>4. Reported'
      BY <3>1, <3>2, <3>3 DEF Reported
    <3>5. \A p \in Taken : INTERRUPT \notin rest[p]
      <4>1. CASE s = INTERRUPT
        BY <1>1, <1>2, <2>1, <2>2, <4>1 DEF OneFlagged
      <4>2. CASE flag = 0
        BY <1>1, <2>2, <4>2 DEF OneFlagged
      <4> QED BY <3>1, <4>1, <4>2
    <3>6. \A p \in Taken' : INTERRUPT \notin sig_pending'[p]
      BY <1>1, <2>2, <3>1, <3>5, HaltPending
    <3>7. OneFlagged(sig_pending, SIGINT_flag)'
      BY <3>6 DEF OneFlagged
    <3> QED BY <3>4, <3>7
  <2>5. CASE sig_pending' = rest /\ SIGINT_flag' = flag /\ UNCHANGED <<jobs, death>>
    <3>1. Taken' = Taken
      BY <2>5 DEF Taken
    <3> QED BY <1>1, <2>2, <2>5, <3>1, StillFlagged DEF Reported
  <2> QED BY <2>3, <2>4, <2>5
<1> QED BY <1>3, <1>4

LEMMA MessageStep ==
    ASSUME MessageQuiet
    PROVE  MessageInv /\ [Next]_vars => MessageInv'
<1> SUFFICES ASSUME MessageInv, [Next]_vars
             PROVE  Reported' /\ OneFlagged(sig_pending, SIGINT_flag)'
  BY SigStep DEF MessageInv
<1>1. JobsOK /\ RestOK /\ Taken \subseteq Pid /\ Reported /\ OneFlagged(sig_pending, SIGINT_flag)
  BY TypeParts, TakenPid DEF MessageInv, SigInv
<1>2. /\ sig_pending \in [Pid -> SUBSET Signal] /\ SIGINT_flag \in {0, 1}
      /\ sche_term \in Terminal /\ cur_terminal \in Terminal
  BY <1>1 DEF RestOK
<1>3. CASE CtrlC
  <2> DEFINE p == active(cur_terminal)
             pend == With(sig_pending, p, INTERRUPT)
             sent == With(owed, p, INTERRUPT)
  <2>1. do_signal(sche_term, pend, sent, 1)
    BY <1>3 DEF CtrlC, Target
  <2>2. p \in Taken /\ p \in Pid
    BY <1>1, <1>2, ActiveTaken
  <2>3. \A q \in Taken \ {p} : INTERRUPT \notin sig_pending[q]
    BY <1>3 DEF CtrlC, MessageQuiet
  <2> HIDE DEF p
  <2>4. pend \in [Pid -> SUBSET Signal] /\ \A q \in Pid \ {p} : pend[q] = sig_pending[q]
    <3>1. INTERRUPT \in Signal
      BY Constants
    <3> QED BY <1>2, <2>2, <3>1, WithTypes DEF With
  <2>5. OneFlagged(pend, 1)
    BY <1>1, <2>3, <2>4 DEF OneFlagged
  <2> QED BY <1>2, <2>1, <2>4, <2>5, MessageSignal
<1>4. CASE Alarm
  <2>1. do_signal(sche_term, Alarmed(sig_pending), Alarmed(owed), SIGINT_flag)
    BY <1>4 DEF Alarm
  <2>2. /\ Alarmed(sig_pending) \in [Pid -> SUBSET Signal]
        /\ \A q \in Pid : Alarmed(sig_pending)[q] \subseteq sig_pending[q] \cup {ALARM}
    BY <1>2, Constants DEF Alarmed
  <2>3. OneFlagged(Alarmed(sig_pending), SIGINT_flag)
    BY <1>1, <2>2 DEF OneFlagged, INTERRUPT, ALARM
  <2> QED BY <1>2, <2>1, <2>2, <2>3, MessageSignal
<1>5. ASSUME NEW s \in Signal, Raise(s)
      PROVE  Reported' /\ OneFlagged(sig_pending, SIGINT_flag)'
  <2>1. s # INTERRUPT /\ Target(s) = cur_process
    BY <1>5 DEF Raise, Target, DIV_ZERO, SEGFAULT, INTERRUPT
  <2>2. do_signal(sche_term, With(sig_pending, cur_process, s), With(owed, cur_process, s),
                  SIGINT_flag)
    BY <1>5, <2>1 DEF Raise
  <2>3. cur_process \in Pid
    BY CurrentHasNone DEF MessageInv
  <2>4. /\ With(sig_pending, cur_process, s) \in [Pid -> SUBSET Signal]
        /\ \A q \in Pid : With(sig_pending, cur_process, s)[q] \subseteq sig_pending[q] \cup {s}
    BY <1>2, <2>3, WithTypes
  <2>5. OneFlagged(With(sig_pending, cur_process, s), SIGINT_flag)
    BY <1>1, <2>1, <2>4 DEF OneFlagged
  <2> QED BY <1>2, <2>2, <2>4, <2>5, MessageSignal
<1>6. CASE Pit
  <2>1. (sche_term + 1) % NUM_TERMINAL \in Terminal
    BY <1>2, SignalsAssumption DEF Terminal
  <2> QED BY <1>1, <1>2, <1>6, <2>1, MessageSignal DEF Pit
<1>7. CASE Interrupt \/ \E t \in Terminal : terminal_switch(t)
  BY <1>1, <1>2, <1>7, MessageSignal DEF Interrupt, terminal_switch
<1>8. CASE execute
  <2>1. FirstFree \in Pid \ Taken
    BY <1>8, FreeSlot DEF execute
  <2>2. Taken' = Taken \cup {FirstFree}
    BY <1>1, <1>2, <1>8, <2>1, JobsGrow DEF execute
  <2>3. sig_pending' = [sig_pending EXCEPT ![FirstFree] = {}] /\ UNCHANGED <<SIGINT_flag, death>>
    BY <1>8 DEF execute, NewPcb
  <2>4. \A p \in Taken' : INTERRUPT \in sig_pending'[p] => p \in Taken /\ INTERRUPT \in sig_pending[p]
    BY <1>1, <1>2, <2>1, <2>2, <2>3
  <2> QED BY <1>1, <2>3, <2>4, StillFlagged DEF Reported
<1>9. CASE Halt
  <2>1. /\ halt(sche_term, sig_pending) /\ UNCHANGED SIGINT_flag
        /\ death' = [signal |-> NUM_SIGNAL, message |-> FALSE]
    BY <1>9 DEF Halt
  <2>2. Reported'
    BY <2>1 DEF Reported, NUM_SIGNAL, INTERRUPT
  <2>3. \A p \in Taken' : p \in Taken /\ sig_pending'[p] \subseteq sig_pending[p]
    BY <1>1, <1>2, <2>1, HaltPending
  <2> QED BY <1>1, <2>1, <2>2, <2>3, StillFlagged
<1>10. ASSUME UNCHANGED <<jobs, sig_pending, SIGINT_flag, death>>
       PROVE  Reported' /\ OneFlagged(sig_pending, SIGINT_flag)'
  <2>1. Taken' = Taken
    BY <1>10 DEF Taken
  <2> QED BY <1>1, <1>10, <2>1, StillFlagged DEF Reported
<1>11. CASE \/ \E s \in Handled, own \in BOOLEAN : set_handler(s, own)
            \/ sigreturn \/ OtherCall \/ UNCHANGED vars
  BY <1>10, <1>11 DEF set_handler, sigreturn, OtherCall, vars
<1> QED BY <1>3, <1>4, <1>5, <1>6, <1>7, <1>8, <1>9, <1>11 DEF Next

\* Reported holds: SIGINT_flag, which is one for all processes (signal.c:7-16), says
\* how a program died, as long as no fault kills while it is set and no Ctrl+C
\* is pressed while another is pending.
THEOREM ReportedHolds ==
    ASSUME MessageQuiet
    PROVE  Spec => []Reported
<1>1. Init => MessageInv
  <2> SUFFICES ASSUME Init PROVE MessageInv
    OBVIOUS
  <2>1. SigInv
    BY SigInit
  <2>2. \A p \in Taken : sig_pending[p] = {}
    BY <2>1, TypeParts, TakenPid DEF Init, SigInv
  <2>3. Reported
    BY DEF Init, Reported, NUM_SIGNAL, INTERRUPT
  <2> QED BY <2>1, <2>2, <2>3 DEF MessageInv, OneFlagged
<1>2. MessageInv => Reported
  BY DEF MessageInv
<1> QED BY <1>1, <1>2, MessageStep, PTL DEF Spec
=============================================================================
