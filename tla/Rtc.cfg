CONSTANTS
    NUM_TERMINAL = 2
    FREQ_MAX = 4
    COUNT_MOD = 4
    NUM_COLORS = 3
    Freq = {0, 3, 4, 8}
    Att = {2, 3}
    Env = {}
SPECIFICATION Spec
INVARIANTS
    TypeOK
    ColorShown
PROPERTIES
    OnTime
    NotEarly
    ReadEnds
