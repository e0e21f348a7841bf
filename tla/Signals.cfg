CONSTANTS
    NUM_TERMINAL = 2
    MAX_PROCESS = 3
    Handled = {1, 2, 3}
    MaxNested = 2
    Env = {}
SPECIFICATION Spec
INVARIANTS
    TypeOK
    Addressed
    Prompt
    Reported
PROPERTIES
    Delivered
