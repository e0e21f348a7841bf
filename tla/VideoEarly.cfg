\* Backspace may be pressed where putc_intr returns early.
CONSTANTS
    NUM_ROWS = 1
    NUM_COLS = 2
    Glyph = {"a"}
    Blank = "blank"
    NUM_TERMINAL = 2
    PAGE = 3
    Env = {"LeaveEarly"}
SPECIFICATION Spec
INVARIANT
    WindowsFollow
