------------------------------ MODULE Signals ------------------------------
(***************************************************************************)
(* Signals (signal.c; set_handler and sigreturn in system_call.c): who     *)
(* sends them (Ctrl+C in keyboard.c, the alarm in rtc.c, exceptions in     *)
(* idt.c) and how do_signal, which ends every interrupt and exception      *)
(* (handler.S), delivers them to the process that the kernel goes back to. *)
(*                                                                         *)
(* The processes are kept as TerminalJobs keeps them: a stack of pids for  *)
(* each terminal, its active process last, here with pids that are used    *)
(* again (first free slot).  The base shells are up.  An interrupt handler *)
(* and the do_signal behind it are one step, as interrupts are off; the    *)
(* handlers that programs install run step by step.  sig_mask is left out: *)
(* do_signal and others set it, and nothing reads it.                      *)
(***************************************************************************)
EXTENDS Naturals, SequencesExt

CONSTANTS
    NUM_TERMINAL,
    MAX_PROCESS,
    Handled,        \* the signals that programs install handlers for
    MaxNested,      \* bound: handlers of a process, one interrupted by the other
    Env             \* which events of EnvEvents happen

\* Events after which the message about a death is not true:
\*   FaultAfterSigint  a fault kills a program while SIGINT_flag is set, for
\*                     another program or from a Ctrl+C that was handled
\*   TwoSigints        Ctrl+C is pressed while that of another process is pending
EnvEvents == {"FaultAfterSigint", "TwoSigints"}

\* signal.h
DIV_ZERO == 0
SEGFAULT == 1
INTERRUPT == 2
ALARM == 3
USER1 == 4
NUM_SIGNAL == 5
Signal == 0 .. NUM_SIGNAL - 1

Terminal == 0 .. NUM_TERMINAL - 1
Pid == 0 .. MAX_PROCESS - 1

ASSUME SignalsAssumption ==
    /\ NUM_TERMINAL \in Nat \ {0}
    /\ MAX_PROCESS \in Nat /\ NUM_TERMINAL <= MAX_PROCESS
    /\ Handled \subseteq Signal
    /\ MaxNested \in Nat
    /\ Env \subseteq EnvEvents

VARIABLES
    jobs,           \* the processes of each terminal, the active one last
    sche_term,      \* the terminal whose time slice it is
    cur_terminal,   \* the one on the display
    sig_pending,    \* [Pid -> signals]
    sig_handler,    \* [Pid -> signals for which its own handler is installed]
    frames,         \* the contexts on the user stack of a process, by their signal
    in_call,        \* processes that are in a system call other than execute
    SIGINT_flag,
    death,          \* of the last process that ended: the signal, or NUM_SIGNAL; the message
    owed            \* history: [Pid -> signals sent to this process and not delivered]

vars == <<jobs, sche_term, cur_terminal, sig_pending, sig_handler, frames, in_call,
          SIGINT_flag, death, owed>>

\* Mutant: a process that waits for its child counts as free.
TakenByActive == {Last(jobs[t]) : t \in Terminal}

Taken == UNION {{jobs[t][k] : k \in 1 .. Len(jobs[t])} : t \in Terminal}
FirstFree == Min(Pid \ Taken)
active(t) == Last(jobs[t])
cur_process == active(sche_term)

\* Mutant: the signals of the process before stay.
PcbKeepsPending(p, pending, handler, stack) ==
    /\ sig_pending' = pending
    /\ sig_handler' = [handler EXCEPT ![p] = {}]
    /\ frames' = [stack EXCEPT ![p] = << >>]

\* What execute writes in the PCB of p.
NewPcb(p, pending, handler, stack) ==
    /\ sig_pending' = [pending EXCEPT ![p] = {}]
    /\ sig_handler' = [handler EXCEPT ![p] = {}]
    /\ frames' = [stack EXCEPT ![p] = << >>]

Init ==
    /\ jobs = [t \in Terminal |-> <<t>>]
    /\ sche_term = 0 /\ cur_terminal = 0
    /\ sig_pending = [p \in Pid |-> {}]
    /\ sig_handler = [p \in Pid |-> {}]
    /\ frames = [p \in Pid |-> << >>]
    /\ in_call = {}
    /\ SIGINT_flag = 0
    /\ death = [signal |-> NUM_SIGNAL, message |-> FALSE]
    /\ owed = [p \in Pid |-> {}]

-----------------------------------------------------------------------------
(* do_signal *)

\* The process p of terminal t ends.  A base shell is followed by another one in
\* the slot it leaves, the first that is free.
HaltChild(t, pending) ==
    /\ Len(jobs[t]) > 1
    /\ jobs' = [jobs EXCEPT ![t] = Front(@)]
    /\ sig_pending' = pending
    /\ in_call' = in_call \ {active(t)}
    /\ UNCHANGED <<sig_handler, frames>>

HaltBase(t, pending) ==
    /\ Len(jobs[t]) = 1
    /\ NewPcb(active(t), pending, sig_handler, frames)
    /\ in_call' = in_call \ {active(t)}
    /\ UNCHANGED jobs

halt(t, pending) == HaltChild(t, pending) \/ HaltBase(t, pending)

\* kill_the_task: the message is printed if the flag is set, whoever set it.
kill_the_task(t, pending, flag, s) ==
    /\ death' = [signal |-> s, message |-> flag = 1]
    /\ SIGINT_flag' = 0
    /\ s # INTERRUPT /\ flag = 1 => "FaultAfterSigint" \in Env
    /\ halt(t, pending)

\* dft_sig_handler: three signals kill, two are ignored.
Kills(p, s) == s \notin sig_handler[p] /\ s \in {DIV_ZERO, SEGFAULT, INTERRUPT}

\* do_signal for the active process of terminal t, when `pending' and `flag' are
\* what the handler before it left: the pending signal with the least number,
\* and no other one.
do_signal(t, pending, sent, flag) ==
    LET p == active(t)
        s == Min(pending[p])
        rest == [pending EXCEPT ![p] = @ \ {s}]
    IN  IF pending[p] = {}
        THEN /\ sig_pending' = pending /\ owed' = sent
             /\ SIGINT_flag' = flag
             /\ UNCHANGED <<jobs, sig_handler, frames, in_call, death>>
        ELSE /\ owed' = [sent EXCEPT ![p] = IF Kills(p, s) THEN {} ELSE @ \ {s}]
             /\ \/ /\ Kills(p, s)
                   /\ kill_the_task(t, rest, flag, s)
                \/ /\ \/ s \notin sig_handler[p] /\ s \in {ALARM, USER1}    \* ignore
                      \/ s \in sig_handler[p] /\ s = ALARM    \* called in the kernel
                   /\ sig_pending' = rest /\ SIGINT_flag' = flag
                   /\ UNCHANGED <<jobs, sig_handler, frames, in_call, death>>
                \/ /\ s \in sig_handler[p] /\ s # ALARM
                   /\ sig_pending' = rest /\ SIGINT_flag' = flag
                   /\ frames' = [frames EXCEPT ![p] = Append(@, s)]
                   /\ UNCHANGED <<jobs, sig_handler, in_call, death>>

-----------------------------------------------------------------------------
(* Interrupts and exceptions *)

With(pending, p, s) == [pending EXCEPT ![p] = @ \cup {s}]

\* Mutant: Ctrl+C goes to the shell of the terminal.
ShellTarget(s) == IF s = INTERRUPT THEN jobs[cur_terminal][1] ELSE cur_process

\* send_signal: INTERRUPT goes to the program on the display, all other signals
\* to the current process.
Target(s) == IF s = INTERRUPT THEN active(cur_terminal) ELSE cur_process

Room(p) == Len(frames[p]) + Cardinality(sig_pending[p] \cap sig_handler[p]) < MaxNested

\* A handler is entered on the user stack that the interrupt saved: there is none
\* when the interrupt came in the middle of a system call.
Enters(p, s) == s \in sig_handler[p] => p \notin in_call /\ Room(p)      \* bound

CtrlC ==
    LET p == active(cur_terminal)
    IN  /\ Enters(p, INTERRUPT)
        /\ (\E q \in Taken \ {p} : INTERRUPT \in sig_pending[q]) => "TwoSigints" \in Env
        /\ do_signal(sche_term, With(sig_pending, Target(INTERRUPT), INTERRUPT),
                     With(owed, p, INTERRUPT), 1)
        /\ UNCHANGED <<sche_term, cur_terminal>>

\* The keyboard puts terminal t on the display.
terminal_switch(t) ==
    /\ cur_terminal' = t
    /\ do_signal(sche_term, sig_pending, owed, SIGINT_flag)
    /\ UNCHANGED sche_term

\* Mutant: the tick ends without do_signal.
PitAlone ==
    /\ sche_term' = (sche_term + 1) % NUM_TERMINAL
    /\ UNCHANGED <<jobs, cur_terminal, sig_pending, sig_handler, frames, in_call,
                   SIGINT_flag, death, owed>>

\* The scheduler goes on with the next terminal, whose process continues at the
\* do_signal of the tick that took it off.
Pit ==
    LET t == (sche_term + 1) % NUM_TERMINAL
    IN  /\ sche_term' = t
        /\ do_signal(t, sig_pending, owed, SIGINT_flag)
        /\ UNCHANGED cur_terminal

\* Every ALARM_PERIOD interrupts rtc_handler sends the alarm to the active
\* processes, one after the other as the current one.
Alarmed(sets) ==
    [p \in Pid |-> IF \E t \in Terminal : active(t) = p THEN sets[p] \cup {ALARM} ELSE sets[p]]

Alarm ==
    /\ do_signal(sche_term, Alarmed(sig_pending), Alarmed(owed), SIGINT_flag)
    /\ UNCHANGED <<sche_term, cur_terminal>>

\* Any other interrupt.
Interrupt ==
    /\ do_signal(sche_term, sig_pending, owed, SIGINT_flag)
    /\ UNCHANGED <<sche_term, cur_terminal>>

\* exception_handler, in one step, as it is for a page fault, which enters by an
\* interrupt gate.  The other exceptions enter by trap gates: what a tick within
\* their handler does to exception_flag is in ProcSched.
Raise(s) ==
    /\ s \in {DIV_ZERO, SEGFAULT} /\ cur_process \notin in_call
    /\ Enters(cur_process, s)
    /\ do_signal(sche_term, With(sig_pending, Target(s), s), With(owed, cur_process, s),
                 SIGINT_flag)
    /\ UNCHANGED <<sche_term, cur_terminal>>

-----------------------------------------------------------------------------
(* System calls of the current process *)

Calls == cur_process \notin in_call

\* Its own handler for a signal, or with a null pointer the default one.
set_handler(s, own) ==
    /\ Calls /\ Len(jobs[sche_term]) > 1            \* bound: not the base shells
    /\ sig_handler' = [sig_handler EXCEPT ![cur_process] = IF own THEN @ \cup {s} ELSE @ \ {s}]
    /\ UNCHANGED <<jobs, sche_term, cur_terminal, sig_pending, frames, in_call, SIGINT_flag,
                   death, owed>>

\* A handler returns to the code on the stack that calls sigreturn: the context
\* behind it is the next one.
sigreturn ==
    /\ Calls /\ frames[cur_process] # << >>
    /\ frames' = [frames EXCEPT ![cur_process] = Front(@)]
    /\ UNCHANGED <<jobs, sche_term, cur_terminal, sig_pending, sig_handler, in_call,
                   SIGINT_flag, death, owed>>

execute ==
    /\ Calls /\ Pid \ Taken # {}
    /\ jobs' = [jobs EXCEPT ![sche_term] = Append(@, FirstFree)]
    /\ NewPcb(FirstFree, sig_pending, sig_handler, frames)
    /\ owed' = [owed EXCEPT ![FirstFree] = {}]
    /\ UNCHANGED <<sche_term, cur_terminal, in_call, SIGINT_flag, death>>

\* Mutant: every halt resets the flag.
HaltResetsFlag ==
    /\ Calls
    /\ death' = [signal |-> NUM_SIGNAL, message |-> FALSE]
    /\ halt(sche_term, sig_pending)
    /\ owed' = [owed EXCEPT ![cur_process] = {}]
    /\ SIGINT_flag' = 0
    /\ UNCHANGED <<sche_term, cur_terminal>>

\* The program ends by itself.
Halt ==
    /\ Calls
    /\ death' = [signal |-> NUM_SIGNAL, message |-> FALSE]
    /\ halt(sche_term, sig_pending)
    /\ owed' = [owed EXCEPT ![cur_process] = {}]
    /\ UNCHANGED <<sche_term, cur_terminal, SIGINT_flag>>

\* A call that takes long, a read for example, begins or ends.
OtherCall ==
    /\ in_call' = IF Calls THEN in_call \cup {cur_process} ELSE in_call \ {cur_process}
    /\ UNCHANGED <<jobs, sche_term, cur_terminal, sig_pending, sig_handler, frames,
                   SIGINT_flag, death, owed>>

-----------------------------------------------------------------------------
Next ==
    \/ CtrlC \/ Pit \/ Alarm \/ Interrupt
    \/ \E t \in Terminal : terminal_switch(t)
    \/ \E s \in Signal : Raise(s)
    \/ \E s \in Handled, own \in BOOLEAN : set_handler(s, own)
    \/ sigreturn \/ execute \/ Halt \/ OtherCall

\* The PIT does not stop; a program need not do anything.
Spec == Init /\ [][Next]_vars /\ WF_vars(Pit)

-----------------------------------------------------------------------------
(* Properties *)

\* Every variable has its type; no process is on two terminals or twice on one.
TypeOK ==
    /\ jobs \in [Terminal -> Seq(Pid) \ {<< >>}]
    /\ \A t, u \in Terminal : \A k \in 1 .. Len(jobs[t]), l \in 1 .. Len(jobs[u]) :
          jobs[t][k] = jobs[u][l] => t = u /\ k = l
    /\ sche_term \in Terminal /\ cur_terminal \in Terminal
    /\ sig_pending \in [Pid -> SUBSET Signal]
    /\ sig_handler \in [Pid -> SUBSET Handled]
    /\ frames \in [Pid -> Seq(Handled)]
    /\ \A p \in Pid : Len(frames[p]) <= MaxNested
    /\ in_call \subseteq Taken
    /\ SIGINT_flag \in {0, 1}
    /\ death \in [signal : 0 .. NUM_SIGNAL, message : BOOLEAN]
    /\ owed \in [Pid -> SUBSET Signal]

\* What is pending for a process is what was sent to it and has not come yet, and
\* no more: a Ctrl+C for the program on the display, an alarm for the active
\* programs, a fault for the one that made it, and nothing that a process that
\* had the same slot before left there.
Addressed == \A p \in Taken : sig_pending[p] = owed[p]

\* A Ctrl+C that is pending is for the active process of a terminal that has not
\* got its slice: no process goes on, starts another one or waits for one
\* with a Ctrl+C that it has not seen.
Prompt ==
    \A p \in Taken : INTERRUPT \in sig_pending[p] =>
        \E t \in Terminal \ {sche_term} : active(t) = p

\* The message "Program received signal SIGINT" comes with every death by Ctrl+C
\* and with no other one.
Reported == death.message <=> death.signal = INTERRUPT

\* Every Ctrl+C is delivered.
Delivered == \A p \in Pid : INTERRUPT \in owed[p] ~> INTERRUPT \notin owed[p]
=============================================================================
