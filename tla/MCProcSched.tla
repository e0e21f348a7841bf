---------------------------- MODULE MCProcSched ----------------------------
(***************************************************************************)
(* ProcSched for TLC, and the stacks of jobs that it implements: the jobs  *)
(* of a terminal are its active process and that one's ancestors.          *)
(***************************************************************************)
EXTENDS ProcSched

\* The line of processes that ends with the active process of each terminal.
Lines ==
    LET up[n \in 0 .. MAX_PROCESS] ==
          [p \in Pid \cup {NONE} |->
              IF n = 0 \/ p = NONE THEN << >> ELSE Append(up[n - 1][parent_pid[p]], p)]
    IN  [t \in Terminal |-> up[MAX_PROCESS][active_array[t]]]

Jobs == INSTANCE TerminalJobs WITH
            Job <- Pid,
            Value <- Status \cup {EXCEPTION_RET},
            Refused <- NONE,
            jobs <- Lines,
            turn <- sche_term,
            val <- eax

\* Each terminal is a stack of jobs that only its own running job changes, by
\* starting a job on top or by ending and handing its value to the one below
\* (execute and halt, with scheduler interleaved at every tick).
ImplementsJobs == Jobs!JobsSpec
=============================================================================
