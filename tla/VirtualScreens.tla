--------------------------- MODULE VirtualScreens ---------------------------
(***************************************************************************)
(* What the kernel promises about the screens of its terminals: every      *)
(* terminal has a screen and a cursor of its own.  The output of a program *)
(* goes to the screen of the program's terminal and nowhere else, the echo *)
(* of the keyboard to the screen that is being looked at, and looking at   *)
(* another terminal changes no screen.                                     *)
(***************************************************************************)
EXTENDS Screen

CONSTANT NUM_TERMINAL

VARIABLES
    scr,            \* scr[t]: the screen of terminal t, shown or not
    pos,            \* pos[t]: its cursor
    turn,           \* the terminal whose program runs
    front           \* the terminal the user looks at

Terminal == 0 .. NUM_TERMINAL - 1

Put(t, r) ==
    /\ scr' = [scr EXCEPT ![t] = r.mem]
    /\ pos' = [pos EXCEPT ![t] = r.pos]
    /\ UNCHANGED << turn, front >>

\* The running program prints a character, clears the screen of its terminal, or
\* stores a character into it.
Output(c) == Put(turn, putc(scr[turn], pos[turn], c))
ClearTurn == Put(turn, [mem |-> Cleared(scr[turn]), pos |-> Origin])
Store(i, c) == Put(turn, [mem |-> [scr[turn] EXCEPT ![i] = c], pos |-> pos[turn]])

\* The user types a character, or clears the screen.
Type(c) == Put(front, putc_intr(scr[front], pos[front], c))
ClearFront == Put(front, [mem |-> Cleared(scr[front]), pos |-> Origin])

Look(t)   == front' = t /\ UNCHANGED << scr, pos, turn >>
TurnTo(t) == turn' = t /\ UNCHANGED << scr, pos, front >>

ScreensInit ==
    /\ scr = [t \in Terminal |-> [i \in 0 .. Last |-> Blank]]
    /\ pos = [t \in Terminal |-> Origin]
    /\ turn = 0
    /\ front = 0

ScreensNext ==
    \/ \E c \in Glyph \cup {"newline", "backspace"} : Output(c) \/ Type(c)
    \/ \E i \in 0 .. Last, c \in Glyph \cup {Blank} : Store(i, c)
    \/ ClearTurn \/ ClearFront
    \/ \E t \in Terminal : Look(t) \/ TurnTo(t)

ScreensSpec == ScreensInit /\ [][ScreensNext]_<< scr, pos, turn, front >>
=============================================================================
