CONSTANTS
    NUM_ROWS = 2
    NUM_COLS = 3
    Glyph = {"a", "$"}
    Blank = "blank"
    BUFFER_SIZE = 3
    HISTORY_SIZE = 3
    Space = "space"
    Prompt = "$"
    Nbytes = {1, 2}
    ExeFiles <- MCExeFiles
    OtherFiles <- MCOtherFiles
    Junk <- MCJunk
    MAX_UNREAD = 1
    MAX_KILLS = 1
    Env = {}
SPECIFICATION Spec
INVARIANTS
    TypeOK
    Echoed
    ReturnsLine
PROPERTIES
    Recalls
    EnterReturns
