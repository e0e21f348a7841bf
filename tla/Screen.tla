------------------------------- MODULE Screen -------------------------------
(***************************************************************************)
(* What a character does to a text screen and its cursor (lib.c).  putc is *)
(* for the output of programs, putc_intr for the keyboard's echo; they do  *)
(* different things, because the echo inserts and deletes inside a line.   *)
(*                                                                         *)
(* A screen is the start of some memory M, a function on 0 .. n for an n   *)
(* that is at least Last: the rows of the screen come one after the other, *)
(* and what follows the last row is memory, too.  Colours are left out.    *)
(***************************************************************************)
EXTENDS Integers

CONSTANTS
    NUM_ROWS,       \* lib.h: 25
    NUM_COLS,       \* lib.h: 80
    Glyph,          \* the characters that show
    Blank           \* a space, or the NUL of a cell never written

ASSUME ScreenAssumption ==
    /\ NUM_ROWS \in Nat \ {0}
    /\ NUM_COLS \in Nat \ {0, 1}
    /\ Blank \notin Glyph
    /\ {"newline", "backspace"} \cap (Glyph \cup {Blank}) = {}

Last == NUM_ROWS * NUM_COLS - 1
Position == [x : 0 .. NUM_COLS - 1, y : 0 .. NUM_ROWS - 1]
Origin == [x |-> 0, y |-> 0]
Corner == [x |-> NUM_COLS - 1, y |-> NUM_ROWS - 1]
Bottom == [x |-> 0, y |-> NUM_ROWS - 1]

At(p) == NUM_COLS * p.y + p.x

\* The position after p and, unless p is the origin, the one before it.
Forward(p) == IF p.x = NUM_COLS - 1 THEN [x |-> 0, y |-> p.y + 1]
                                    ELSE [p EXCEPT !.x = @ + 1]
Back(p) == IF p.x = 0 THEN [x |-> NUM_COLS - 1, y |-> p.y - 1]
                      ELSE [p EXCEPT !.x = @ - 1]

\* Every row is replaced by the one below it, the bottom row by blanks.
scroll_screen(M) ==
    [i \in DOMAIN M |-> IF i + NUM_COLS <= Last THEN M[i + NUM_COLS]
                        ELSE IF i <= Last THEN Blank ELSE M[i]]

Cleared(M) == [i \in DOMAIN M |-> IF i <= Last THEN Blank ELSE M[i]]

\* Defect: a newline in the bottom row does not scroll.
NoScroll(M, p) == [mem |-> M, pos |-> [x |-> 0, y |-> p.y + 1]]

\* The newline.
Line(M, p) == IF p.y = NUM_ROWS - 1 THEN [mem |-> scroll_screen(M), pos |-> Bottom]
                                    ELSE [mem |-> M, pos |-> [x |-> 0, y |-> p.y + 1]]

\* There is a blank at or after cell i of M.
RunEnds(M, i) == \E n \in DOMAIN M : n >= i /\ M[n] = Blank

\* c goes to cell i, and the run of characters there moves right to make room,
\* up to the first blank and with no regard to the end of the screen.
scroll_right_char(M, i, c) ==
    LET inRun(k) == \A j \in i .. k - 1 : M[j] # Blank IN
    [k \in DOMAIN M |-> IF k = i THEN c
                        ELSE IF k > i /\ inRun(k) THEN M[k - 1] ELSE M[k]]

\* The run of characters that starts at cell i moves left by one, over cell i.
scroll_left_char(M, i) ==
    LET inRun(k) == \A j \in i .. k : M[j] # Blank IN
    [k \in DOMAIN M |-> IF k >= i /\ k <= Last /\ inRun(k)
                        THEN IF k = Last THEN Blank ELSE M[k + 1]
                        ELSE M[k]]

----------------------------------------------------------------------------
\* putc and putc_intr leave at once when there is nothing left of the cursor.
AtOrigin(p, c) == c = "backspace" /\ p = Origin

\* The memory and the position after putc(c) at position p.
putc(M, p, c) ==
    IF AtOrigin(p, c) THEN [mem |-> M, pos |-> p]
    ELSE IF c = "newline" THEN Line(M, p)
    ELSE IF c = "backspace"
         THEN [mem |-> [M EXCEPT ![At(Back(p))] = Blank], pos |-> Back(p)]
    ELSE LET W == [M EXCEPT ![At(p)] = c] IN
         IF p = Corner THEN [mem |-> scroll_screen(W), pos |-> Bottom]
                       ELSE [mem |-> W, pos |-> Forward(p)]

\* putc_intr also leaves at once when the run it moves left fills the screen up
\* to the last cell.
LeavesEarly(M, p, c) ==
    \/ AtOrigin(p, c)
    \/ c = "backspace" /\ \A k \in At(Back(p)) .. Last : M[k] # Blank

\* The memory and the position after putc_intr(c).  At the corner the character
\* is written, the screen scrolls, and the character is inserted again.
putc_intr(M, p, c) ==
    IF AtOrigin(p, c) THEN [mem |-> M, pos |-> p]
    ELSE IF c = "newline" THEN Line(M, p)
    ELSE IF c = "backspace"
         THEN [mem |-> scroll_left_char(M, At(Back(p))),
               pos |-> IF LeavesEarly(M, p, c) THEN p ELSE Back(p)]
    ELSE LET W == IF p = Corner THEN scroll_screen([M EXCEPT ![At(p)] = c]) ELSE M
             q == IF p = Corner THEN Bottom ELSE p
         IN  [mem |-> scroll_right_char(W, At(q), c), pos |-> Forward(q)]
=============================================================================
