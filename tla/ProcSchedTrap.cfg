\* Exceptions may arrive through trap gates, with interrupts on.
CONSTANTS
    NUM_TERMINAL = 3
    MAX_PROCESS = 5
    Status = {0, 200}
    MaxDepth = 1
    Env = {"TrapFault"}
SPECIFICATION Spec
PROPERTY
    ExitStatus
