\* One row of two cells, so that every line is the last one and scrolls.
CONSTANTS
    NUM_ROWS = 1
    NUM_COLS = 2
    Glyph = {"a"}
    Blank = "blank"
    NUM_TERMINAL = 3
    PAGE = 2
    Env = {}
SPECIFICATION Spec
INVARIANTS
    TypeOK
    WindowsFollow
    CursorShown
PROPERTY
    ImplementsScreens
