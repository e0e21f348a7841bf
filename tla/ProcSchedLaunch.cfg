\* A tick may be pending when the scheduler's execute of a base shell does sti.
CONSTANTS
    NUM_TERMINAL = 3
    MAX_PROCESS = 4
    Status = {0, 200}
    MaxDepth = 1
    Env = {"LaunchPreempt"}
SPECIFICATION Spec
INVARIANT
    NeverLost
