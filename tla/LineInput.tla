----------------------------- MODULE LineInput -----------------------------
(***************************************************************************)
(* The line discipline of a terminal: the keyboard handler (keyboard.c)    *)
(* edits the terminal's line buffer with fill_line_buffer and echoes with  *)
(* putc_intr, and a program that called terminal_read (terminal.c) waits   *)
(* for Enter, copies the line and clears the buffer.                       *)
(*                                                                         *)
(* The terminal is the one in the foreground, and the program that reads   *)
(* is on it.  The handler runs with interrupts off, so that a key is one   *)
(* step; terminal_read is interrupted by it anywhere.  The modifier keys   *)
(* choose what a key types and are left out, as are Alt+F1 .. F3 (Video).  *)
(* Ctrl+C ends the program at once: how it gets there is in Signals.       *)
(***************************************************************************)
EXTENDS Screen, Sequences

CONSTANTS
    BUFFER_SIZE,    \* terminal.h: 128
    HISTORY_SIZE,   \* terminal.h: 100
    Space,          \* the character of the space bar, which shows as Blank
    Prompt,         \* what the program prints before it reads
    Nbytes,         \* how many bytes a program asks for
    ExeFiles,       \* names of files that are programs, sequences of Glyph
    OtherFiles,     \* names of the other files
    Junk,           \* what may follow the name in the stack buffer of Tab
    MAX_UNREAD,     \* bound: keys pressed between two reads
    MAX_KILLS,      \* bound: programs killed
    Env             \* which events of EnvEvents happen

\* Events after which the line, the screen or the history is not what the user
\* made it:
\*   FrontErase      the left end of the line is passed: a backspace there, or a
\*                   history key or Tab with the cursor inside the line
\*   TypeAhead       a key between Enter and the return of terminal_read
\*   SpaceEdit       an edit to the left of a space, where the echo stops moving
\*   StaleTail       a line is put in a buffer with characters past its end left
\*                   by a deletion inside the line
\*   ShorterDraft    the draft is stored where the end of a longer one follows
\*   EmptyBrowse     Enter on an empty line while an old line is selected
\*   WrapEnter       Enter on a row of the screen above the one where the line ends
\*   ClearMidLine    Ctrl+L with a line begun
\*   UnreadHistory   a history key when no program reads
\*   KilledRead      Ctrl+C with a line begun, entered or selected in the history,
\*                   or keys between a Ctrl+C in a read and the next read
\*   StackControl    Tab finds a newline or a backspace in its stack buffer
EnvEvents == {"FrontErase", "TypeAhead", "SpaceEdit", "StaleTail", "ShorterDraft",
              "EmptyBrowse", "WrapEnter", "ClearMidLine", "UnreadHistory", "KilledRead",
              "StackControl"}

ASSUME LineInputAssumption ==
    /\ BUFFER_SIZE \in Nat \ {0, 1}
    /\ HISTORY_SIZE \in Nat \ {0}
    /\ Space \notin Glyph \cup {Blank, "newline", "backspace"}
    /\ Prompt \in Glyph
    /\ Nbytes \subseteq Nat
    /\ ExeFiles \cup OtherFiles \subseteq Seq(Glyph)
    /\ MAX_UNREAD \in Nat /\ MAX_KILLS \in Nat
    /\ << >> \in Junk
    /\ Junk \subseteq Seq(Glyph \cup {Space, "newline", "backspace"})
    /\ Env \subseteq EnvEvents

Seqs == INSTANCE SequencesExt

Typed == (Glyph \ {Prompt}) \cup {Space}
Nul == Blank
Cell == Glyph \cup {Space, Nul, "newline"}

VARIABLES
    tty,    \* the terminal_t, with its video memory
    prog,   \* the program and its terminal_read
    seen    \* what the user has seen and done, for the bounds and the properties

vars == << tty, prog, seen >>

\* line_buffer[-1] is the end of history_line_buf: cells left of 0 belong to it.
Index == -BUFFER_SIZE .. BUFFER_SIZE - 1
HistoryIndex == 0 .. HISTORY_SIZE - 1

Tty == [line_buffer : [Index -> Cell],
        count : Int, char_location : Int,
        read_open : {0, 1}, enter_flag : {0, 1},
        history_line_buf : [HistoryIndex -> [0 .. BUFFER_SIZE - 1 -> Cell]],
        buf_count : Nat, cur_buffer_id : Nat,
        pos : Position, mem : [0 .. Last -> Glyph \cup {Blank}]]

\* Defect: the flag is forgotten.
FlagKept == << "count", "char_location", "read_open" >>

\* terminal_read clears these in this order, then the line buffer.
Resets == << "count", "char_location", "enter_flag", "read_open" >>

pcs == {"run", "prompted", "wait", "copy", "reset", "clear", "return"}
Prog == [pc : pcs, nbytes : Nat, n : Int, i : Nat, buf : Seq(Cell)]

AtMost(m, n) == IF m < n THEN m ELSE n

\* The text of a buffer: n cells of it, or, to C's string functions, what comes
\* before the first NUL.
First(b, n) == [k \in 1 .. n |-> b[k - 1]]
strlen(b) == CHOOSE n \in 0 .. BUFFER_SIZE :
                 /\ \A k \in 0 .. n - 1 : b[k] # Nul
                 /\ n = BUFFER_SIZE \/ b[n] = Nul
Str(b) == First(b, strlen(b))

\* The first cells of b replaced by the string s.
memcpy(b, s) == [k \in DOMAIN b |-> IF k >= 0 /\ k < Len(s) THEN s[k + 1] ELSE b[k]]

\* The line as the user means it, and the cell of the screen where it starts.
Text == First(tty.line_buffer, tty.count)
Shown(c) == IF c = Space THEN Blank ELSE c

----------------------------------------------------------------------------
(* The line buffer and the echo                                            *)

\* The line buffer when the character at loc is deleted and those up to n move
\* left, and when c is inserted at loc and those up to n move right.
Deleted(b, loc, n) ==
    [k \in DOMAIN b |-> IF k >= loc /\ k < n THEN b[k + 1]
                        ELSE IF k = loc THEN Nul ELSE b[k]]
\* Defect: the loop that moves the characters stops one too early.
InsertedShort(b, loc, n, c) ==
    [k \in DOMAIN b |-> IF k = loc THEN c
                        ELSE IF k > loc + 1 /\ k <= n THEN b[k - 1] ELSE b[k]]
Inserted(b, loc, n, c) ==
    [k \in DOMAIN b |-> IF k = loc THEN c
                        ELSE IF k > loc /\ k <= n THEN b[k - 1] ELSE b[k]]

\* Defects: a full buffer is not noticed; Enter needs room like any character.
NeverFull(t, c) == ~(t.read_open = 1 /\ c = "backspace" /\ t.count = 0)
EnterNeedsRoom(t, c) ==
    \/ t.read_open = 0
    \/ c = "backspace" /\ t.count # 0
    \/ c # "backspace" /\ t.count < BUFFER_SIZE - 1

\* Whether fill_line_buffer has the character echoed.
Echoes(t, c) ==
    \/ t.read_open = 0 \/ c = "newline"
    \/ c = "backspace" /\ t.count # 0
    \/ c # "backspace" /\ t.count < BUFFER_SIZE - 1

fill_line_buffer(t, c) ==
    IF t.read_open = 0 \/ ~Echoes(t, c) THEN t
    ELSE CASE c = "newline" ->
                  [t EXCEPT !.line_buffer[t.count] = "newline", !.enter_flag = 1]
           [] c = "backspace" ->
                  [t EXCEPT !.count = @ - 1, !.char_location = @ - 1,
                            !.line_buffer = Deleted(@, t.char_location - 1, t.count - 1)]
           [] OTHER ->
                  [t EXCEPT !.count = @ + 1, !.char_location = @ + 1,
                            !.line_buffer = Inserted(@, t.char_location, t.count, c)]

Echo(t, c) == LET r == putc_intr(t.mem, t.pos, Shown(c))
              IN  [t EXCEPT !.mem = r.mem, !.pos = r.pos]

\* A character goes to the line buffer and, if that takes it, to the screen.
Put(t, c) == LET f == fill_line_buffer(t, c) IN IF Echoes(t, c) THEN Echo(f, c) ELSE f

\* The characters of a string one after the other.
PutAll(t, s) ==
    LET put[k \in 0 .. Len(s)] == IF k = 0 THEN t ELSE Put(put[k - 1], s[k])
    IN  put[Len(s)]
puts_intr(t, s) ==
    LET put[k \in 0 .. Len(s)] == IF k = 0 THEN t ELSE Echo(put[k - 1], s[k])
    IN  put[Len(s)]

\* count times a backspace, as the history keys and Tab do.
Erased(t) == PutAll(t, [k \in 1 .. t.count |-> "backspace"])

----------------------------------------------------------------------------
(* The keyboard                                                            *)

\* A program waits for the line; or no read has begun, and keys only echo.
Waiting == prog.pc = "wait" /\ tty.enter_flag = 0
Unread == prog.pc \in {"run", "prompted"} /\ prog.i < MAX_UNREAD
Attended ==
    \/ Waiting \/ "TypeAhead" \in Env
    \/ Unread /\ (tty.read_open = 0 \/ "KilledRead" \in Env)

\* No space in the line from character k on, which the echo would not move.
NoSpaceFrom(k) ==
    "SpaceEdit" \in Env \/ \A j \in k .. tty.count - 1 : j >= 0 => tty.line_buffer[j] # Space

AtEnd == tty.char_location = tty.count \/ "FrontErase" \in Env

\* The line leaves the last cell of the screen free: Video shows what the echo
\* does there.
Fits(t) == t.read_open = 1 /\ t.count > 0 => seen.start + t.count < Last

Key(t) ==
    /\ Attended
    /\ Fits(t)
    /\ tty' = t
    /\ prog' = IF Unread THEN [prog EXCEPT !.i = @ + 1] ELSE prog

Type(c) ==
    /\ NoSpaceFrom(tty.char_location)
    /\ Key(Put(tty, c))
    /\ UNCHANGED seen

Backspace ==
    /\ tty.count = 0 \/ tty.char_location > 0 \/ "FrontErase" \in Env
    /\ tty.char_location < tty.count => NoSpaceFrom(tty.char_location - 1)
    /\ Key(Put(tty, "backspace"))
    /\ UNCHANGED seen

\* The number of lines is bounded by the history, which has no room for more.
Enter ==
    /\ \/ "WrapEnter" \in Env
       \/ Waiting => (seen.start + tty.count - 1) \div NUM_COLS <= tty.pos.y
    /\ tty.count = 0 => tty.cur_buffer_id = tty.buf_count \/ "EmptyBrowse" \in Env
    /\ tty.count > 0 => tty.buf_count < HISTORY_SIZE - 1
    /\ Key(Put(tty, "newline"))
    /\ seen' = IF Waiting THEN [seen EXCEPT !.entered = {Text}, !.draft = {}] ELSE seen

CURSOR_LEFT ==
    /\ tty.char_location # 0
    /\ tty.pos # Origin
    /\ Key([tty EXCEPT !.pos = Back(@), !.char_location = @ - 1])
    /\ UNCHANGED seen

CURSOR_RIGHT ==
    /\ tty.char_location # tty.count
    /\ tty.pos # Corner
    /\ Key([tty EXCEPT !.pos = Forward(@), !.char_location = @ + 1])
    /\ UNCHANGED seen

\* The line is erased, line id of the history takes its place and is printed, up
\* to the first NUL of the line buffer.
Recalled(t, id) ==
    LET h == Str(t.history_line_buf[id])
        e == Erased(t)
        b == memcpy(e.line_buffer, h)
    IN  puts_intr([e EXCEPT !.cur_buffer_id = id, !.line_buffer = b, !.count = Len(h),
                            !.char_location = Len(h)], Str(b))

Recall(t, id) ==
    /\ AtEnd
    /\ tty.read_open = 1 \/ "UnreadHistory" \in Env
    /\ \/ "StaleTail" \in Env
       \/ LET r == Recalled(t, id) IN strlen(r.line_buffer) = r.count
    /\ Key(Recalled(t, id))

\* Defect: the line is stored as the draft wherever the user is in the history.
DraftEverywhere(t) ==
    [t EXCEPT !.history_line_buf[t.buf_count] = memcpy(@, First(t.line_buffer, t.count))]

\* The line that was being typed is kept after the last line of the history.
WithDraft(t) ==
    IF t.cur_buffer_id # t.buf_count THEN t
    ELSE [t EXCEPT !.history_line_buf[t.buf_count] =
                       memcpy(@, First(t.line_buffer, t.count))]

CURSOR_UP ==
    /\ tty.cur_buffer_id # 0
    /\ \/ "ShorterDraft" \in Env
       \/ tty.cur_buffer_id # tty.buf_count
       \/ strlen(WithDraft(tty).history_line_buf[tty.buf_count]) = tty.count
    /\ Recall(WithDraft(tty), tty.cur_buffer_id - 1)
    /\ seen' = IF tty.cur_buffer_id = tty.buf_count THEN [seen EXCEPT !.draft = {Text}]
                                                    ELSE seen

CURSOR_DOWN ==
    /\ tty.cur_buffer_id # tty.buf_count
    /\ Recall(tty, tty.cur_buffer_id + 1)
    /\ UNCHANGED seen

\* The name of the only file that begins with s, if it is a program.
find_similar_file(s) ==
    LET similar == {f \in ExeFiles \cup OtherFiles : Seqs!IsPrefix(s, f)} IN
    {f \in ExeFiles : similar = {f}}

\* The name replaces the line; with it comes what the stack buffer happens to hold
\* after the name, which has no NUL of its own.
Tab ==
    /\ tty.count # 0
    /\ AtEnd
    /\ \E f \in find_similar_file(Str(tty.line_buffer)), junk \in Junk :
           /\ junk \in Seq(Glyph \cup {Space}) \/ "StackControl" \in Env
           /\ Key(PutAll(Erased(tty), f \o junk))
    /\ UNCHANGED seen

\* Ctrl+L: clear_intr, which knows nothing of a line being typed.
ClearScreen ==
    /\ tty.count = 0 \/ "ClearMidLine" \in Env
    /\ Key([tty EXCEPT !.mem = Cleared(@), !.pos = Origin])
    /\ seen' = [seen EXCEPT !.start = 0, !.before = Cleared(@)]

Keyboard ==
    \/ \E c \in Typed : Type(c)
    \/ Backspace
    \/ Enter
    \/ CURSOR_LEFT
    \/ CURSOR_RIGHT
    \/ CURSOR_UP
    \/ CURSOR_DOWN
    \/ Tab
    \/ ClearScreen

----------------------------------------------------------------------------
(* The program: it prints, and reads a line.  prog.i counts the keys before *)
(* the read, then the characters that it copies, then the fields it clears. *)

Write ==
    /\ prog.pc = "run"
    /\ LET r == putc(tty.mem, tty.pos, Prompt) IN
       tty' = [tty EXCEPT !.mem = r.mem, !.pos = r.pos]
    /\ prog' = [prog EXCEPT !.pc = "prompted"]
    /\ UNCHANGED seen

terminal_read(nbytes) ==
    /\ prog.pc = "prompted"
    /\ tty' = [tty EXCEPT !.read_open = 1]
    /\ prog' = [prog EXCEPT !.pc = "wait", !.nbytes = nbytes, !.i = 0]
    /\ seen' = [seen EXCEPT !.start = At(tty.pos), !.before = tty.mem, !.draft = {}]

\* The loop on enter_flag ends, and the number of bytes to copy is computed.
Wake ==
    /\ prog.pc = "wait"
    /\ tty.enter_flag = 1
    /\ prog' = [prog EXCEPT !.pc = "copy",
                            !.n = AtMost(tty.count, prog.nbytes)]
    /\ UNCHANGED << tty, seen >>

\* One character goes to the program and to the history.
Copy ==
    /\ prog.pc = "copy"
    /\ prog.i < prog.n
    /\ LET c == tty.line_buffer[prog.i] IN
       /\ prog' = [prog EXCEPT !.buf = Append(@, c), !.i = @ + 1]
       /\ tty' = [tty EXCEPT !.history_line_buf[tty.buf_count][prog.i] = c]
    /\ UNCHANGED seen

\* The line in the history ends after n characters, if there are any.
Ended(h, n) == IF strlen(h) # 0 THEN [h EXCEPT ![n] = Nul] ELSE h

Record ==
    LET h == Ended(tty.history_line_buf[tty.buf_count], prog.n)
        b == IF strlen(h) # 0 THEN tty.buf_count + 1 ELSE tty.buf_count
    IN
    /\ prog.pc = "copy"
    /\ prog.i >= prog.n
    /\ prog' = [prog EXCEPT !.pc = "reset", !.i = 1]
    /\ tty' = [tty EXCEPT !.history_line_buf[tty.buf_count] = h, !.buf_count = b,
                          !.cur_buffer_id = IF strlen(h) # 0 THEN b ELSE @]
    /\ seen' = IF prog.n > 0 THEN [seen EXCEPT !.lines = Append(@, prog.buf)] ELSE seen

Reset ==
    /\ prog.pc = "reset"
    /\ tty' = [tty EXCEPT ![Resets[prog.i]] = 0]
    /\ prog' = IF prog.i = Len(Resets) THEN [prog EXCEPT !.pc = "clear"]
                                       ELSE [prog EXCEPT !.i = @ + 1]
    /\ UNCHANGED seen

ClearLine ==
    /\ prog.pc = "clear"
    /\ tty' = [tty EXCEPT !.line_buffer =
                   [k \in Index |-> IF k >= 0 THEN Nul ELSE @[k]]]
    /\ prog' = [prog EXCEPT !.pc = "return"]
    /\ UNCHANGED seen

Return ==
    /\ prog.pc = "return"
    /\ prog' = [prog EXCEPT !.pc = "run", !.nbytes = 0, !.n = 0, !.i = 0, !.buf = << >>]
    /\ seen' = [seen EXCEPT !.start = 0, !.before = Cleared(@), !.entered = {},
                            !.draft = {}]
    /\ UNCHANGED tty

\* Ctrl+C kills the program anywhere in terminal_read, and its parent prints and
\* reads next.  Nothing is reset: read_open stays, with the line and the flag.
Killed ==
    /\ prog.pc \notin {"run", "prompted"}
    /\ seen.kills < MAX_KILLS
    /\ \/ tty.count = 0 /\ tty.enter_flag = 0 /\ tty.cur_buffer_id = tty.buf_count
       \/ "KilledRead" \in Env
    /\ prog' = [prog EXCEPT !.pc = "run", !.nbytes = 0, !.n = 0, !.i = 0, !.buf = << >>]
    /\ seen' = [seen EXCEPT !.start = 0, !.before = Cleared(@), !.entered = {},
                            !.draft = {}, !.kills = @ + 1]
    /\ UNCHANGED tty

Read == Wake \/ Copy \/ Record \/ Reset \/ ClearLine \/ Return

----------------------------------------------------------------------------
NoText(I) == [k \in I |-> Nul]

Init ==
    /\ tty = [line_buffer |-> NoText(Index), count |-> 0, char_location |-> 0,
              read_open |-> 0, enter_flag |-> 0,
              history_line_buf |-> [h \in HistoryIndex |-> NoText(0 .. BUFFER_SIZE - 1)],
              buf_count |-> 0, cur_buffer_id |-> 0,
              pos |-> Origin, mem |-> NoText(0 .. Last)]
    /\ prog = [pc |-> "run", nbytes |-> 0, n |-> 0, i |-> 0, buf |-> << >>]
    /\ seen = [start |-> 0, before |-> NoText(0 .. Last), entered |-> {}, lines |-> << >>,
               draft |-> {}, kills |-> 0]

Next ==
    \/ Keyboard
    \/ Write
    \/ \E nbytes \in Nbytes : terminal_read(nbytes)
    \/ Read
    \/ Killed

\* The scheduler gives every terminal its slices, so that a read goes on.
Spec == Init /\ [][Next]_vars /\ WF_vars(Read)

----------------------------------------------------------------------------
(* Properties                                                              *)

\* Indices stay inside their arrays: the cursor is inside the line, the line and
\* its end inside the line buffer, and the history inside its own.
TypeOK ==
    /\ tty \in Tty
    /\ {tty.count, tty.char_location} \subseteq 0 .. BUFFER_SIZE - 1
    /\ Waiting => tty.char_location <= tty.count
    /\ tty.buf_count < HISTORY_SIZE
    /\ tty.cur_buffer_id <= tty.buf_count
    /\ prog \in Prog

\* What keyboard_handler has echoed while a program waits is the line that
\* terminal_read will return, in its place after what was on the screen before,
\* with nothing after it; and the cursor stands at the character that the next
\* key will edit.
Echoed ==
    Waiting =>
        /\ At(tty.pos) = seen.start + tty.char_location
        /\ \A k \in 0 .. Last :
               tty.mem[k] = IF k < seen.start THEN seen.before[k]
                            ELSE IF k < seen.start + tty.count
                                 THEN Shown(Text[k - seen.start + 1])
                                 ELSE Blank

\* terminal_read returns the line as it was when Enter was pressed, or as much of
\* it as the program asked for, and it returns only after Enter: nothing is left
\* over from an earlier line.
ReturnsLine ==
    prog.pc = "return" =>
        \E s \in seen.entered :
            prog.buf = SubSeq(s, 1, AtMost(Len(s), prog.nbytes))

\* A history key shows the line that was read, or the line that was being typed
\* when the user left it, however the lines were edited since.
Recalls ==
    [][ (Waiting /\ tty'.cur_buffer_id # tty.cur_buffer_id) =>
            Text' \in IF tty'.cur_buffer_id = tty.buf_count
                      THEN seen.draft ELSE {seen.lines[tty'.cur_buffer_id + 1]} ]_vars

\* Enter always ends the read, whatever the line and however full the buffer,
\* unless the program is killed.
EnterReturns == seen.entered # {} ~> seen.entered = {}
=============================================================================
