\* Three terminals, as in the code, and five process slots of its six: two to share
\* beyond the base shells.
CONSTANTS
    NUM_TERMINAL = 3
    MAX_PROCESS = 5
    Status = {0, 200}
    MaxDepth = 1
    Env = {}
SPECIFICATION FairSpec
INVARIANTS
    TypeOK
    NeverLost
    Running
    Lineage
    Resumable
    OwnerTerminal
PROPERTIES
    ExitStatus
    EveryTerminalRuns
    ImplementsJobs
