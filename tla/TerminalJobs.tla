---------------------------- MODULE TerminalJobs ----------------------------
(***************************************************************************)
(* What the process layer of the kernel promises to its users, with no     *)
(* process table, no page directory and no kernel stack: every terminal    *)
(* owns a stack of jobs.  The job at the bottom is the terminal's shell,   *)
(* the one at the top is the job that runs, and every other one waits in   *)
(* execute for the job above it.  One terminal at a time has its turn, in  *)
(* round robin, and only the terminal that has its turn can change its own *)
(* stack, and only at the top.                                             *)
(***************************************************************************)
EXTENDS Integers, Sequences

CONSTANTS
    NUM_TERMINAL,   \* number of terminals
    Job,            \* names of jobs
    Value,          \* values a job can end with
    Refused         \* the value that says that no job was started

VARIABLES
    jobs,           \* jobs[t]: the stack of terminal t, the running job last
    turn,           \* the terminal whose top job has the processor
    val             \* the value that was last returned to a waiting job

Terminal == 0 .. NUM_TERMINAL - 1

Elements(s) == {s[i] : i \in 1 .. Len(s)}

Fresh(j) == \A t \in Terminal : j \notin Elements(jobs[t])

JobsInit ==
    /\ jobs = [t \in Terminal |-> << >>]
    /\ turn = 0
    /\ val \in Value

\* A job that no terminal has yet is put on the stack of terminal t.
Push(t) ==
    \E j \in Job : jobs' = [jobs EXCEPT ![t] = Append(@, j)] /\ Fresh(j)

\* The first shell of the terminal that has its turn.
OpenFirst ==
    /\ UNCHANGED << turn, val >>
    /\ jobs[turn] = << >>
    /\ Push(turn)

\* The turn passes on; a terminal that has no shell yet gets one.
Switch ==
    /\ turn' = (turn + 1) % NUM_TERMINAL
    /\ val' = val
    /\ jobs[turn] # << >>
    /\ IF jobs[turn'] = << >> THEN Push(turn') ELSE jobs' = jobs

\* The running job starts another one and waits for it.
Start ==
    /\ UNCHANGED << turn, val >>
    /\ jobs[turn] # << >>
    /\ Push(turn)

\* The running job ends, and the job that waited for it is given a value.
Finish ==
    /\ turn' = turn
    /\ val' \in Value
    /\ Len(jobs[turn]) > 1
    /\ jobs' = [jobs EXCEPT ![turn] = SubSeq(@, 1, Len(@) - 1)]

\* A request to start a job is turned down: the caller is told.
Refuse ==
    /\ turn' = turn
    /\ val' = Refused
    /\ jobs[turn] # << >>
    /\ jobs' = jobs

JobsNext == OpenFirst \/ Switch \/ Start \/ Finish \/ Refuse

JobsSpec == JobsInit /\ [][JobsNext]_<< jobs, turn, val >>
=============================================================================
