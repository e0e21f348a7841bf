--------------------------- MODULE LineInputProof ---------------------------
(***************************************************************************)
(* Proofs about LineInput, for every size of the screen, of the line       *)
(* buffer and of the history, and for every set of names.                  *)
(***************************************************************************)
EXTENDS LineInput, ScreenProof, Induction, SequenceTheorems

\* What a line is made of.
Letter == Glyph \cup {Space}

\* Indices of a terminal_t are in range, and its buffers hold text.
Ready(t) ==
    /\ t \in Tty
    /\ t.count \in 0 .. BUFFER_SIZE - 1 /\ t.char_location \in 0 .. BUFFER_SIZE - 1
    /\ t.buf_count < HISTORY_SIZE /\ t.cur_buffer_id <= t.buf_count
    /\ \A k \in 0 .. t.count - 1 : t.line_buffer[k] \in Letter
    /\ \A h \in HistoryIndex :
         /\ \A k \in 0 .. BUFFER_SIZE - 1 : t.history_line_buf[h][k] \in Letter \cup {Nul}
         /\ t.history_line_buf[h][BUFFER_SIZE - 1] = Nul

SeenOK ==
    seen \in [start : 0 .. Last, before : [0 .. Last -> ScreenCell],
              entered : SUBSET Seq(Letter), lines : Seq(Seq(Letter)),
              draft : SUBSET Seq(Letter), kills : Nat]

\* The program has a line that was entered, or as much of it as it asked for.
Returned ==
    \E s \in seen.entered : prog.buf = SubSeq(s, 1, AtMost(Len(s), prog.nbytes))

\* Where the program is in terminal_read, and what it has by then.
Phases ==
    /\ prog.pc \in {"run", "prompted"} => tty.enter_flag = 0 /\ prog.buf = << >>
    /\ prog.pc = "wait" => tty.read_open = 1 /\ prog.i = 0 /\ prog.buf = << >>
    /\ (prog.pc = "wait" /\ tty.enter_flag = 1) \/ prog.pc = "copy" =>
         /\ seen.entered = {Text}
         /\ tty.count > 0 => tty.buf_count < HISTORY_SIZE - 1
    /\ prog.pc = "copy" =>
         /\ tty.enter_flag = 1
         /\ prog.n = AtMost(tty.count, prog.nbytes)
         /\ prog.i <= prog.n
         /\ prog.buf = First(tty.line_buffer, prog.i)
    /\ prog.pc = "reset" =>
         /\ prog.i \in 1 .. 4
         /\ prog.i > 1 => tty.count = 0
         /\ prog.i > 2 => tty.char_location = 0
         /\ tty.enter_flag = IF prog.i > 3 THEN 0 ELSE 1
    /\ prog.pc \in {"clear", "return"} =>
         tty.count = 0 /\ tty.char_location = 0 /\ tty.enter_flag = 0
    /\ prog.pc \in {"reset", "clear", "return"} => Returned
    /\ ~(prog.pc = "reset" /\ prog.i = 2) => tty.char_location <= tty.count

LInv == Ready(tty) /\ prog \in Prog /\ SeenOK /\ Phases

----------------------------------------------------------------------------
(* Constants                                                               *)

LEMMA LineFacts ==
    /\ BUFFER_SIZE \in Nat /\ BUFFER_SIZE >= 2
    /\ HISTORY_SIZE \in Nat /\ HISTORY_SIZE >= 1
    /\ Nul \notin Letter /\ Typed \subseteq Letter
    /\ Letter \subseteq Cell /\ Nul \in Cell /\ "newline" \in Cell
    /\ \A c \in Letter : c # "newline" /\ c # "backspace" /\ Shown(c) \in ScreenCell
    /\ Shown("newline") = "newline" /\ Shown("backspace") = "backspace"
BY LineInputAssumption, ScreenAssumption DEF Letter, Nul, Typed, Cell, Shown, ScreenCell

----------------------------------------------------------------------------
(* Strings                                                                 *)

\* The length of a string is where its first NUL is, if it has one.
LEMMA Strlen ==
    ASSUME NEW b
    PROVE  /\ strlen(b) \in 0 .. BUFFER_SIZE
           /\ \A k \in 0 .. strlen(b) - 1 : b[k] # Nul
           /\ strlen(b) = BUFFER_SIZE \/ b[strlen(b)] = Nul
<1> DEFINE Stop(n) == n = BUFFER_SIZE \/ b[n] = Nul
           S == {n \in 0 .. BUFFER_SIZE : Stop(n)}
           Is(n) == (\A k \in 0 .. n - 1 : b[k] # Nul) /\ Stop(n)
<1>1. BUFFER_SIZE \in S /\ S \in SUBSET Nat
  BY LineFacts
<1>2. PICK n \in S : \A m \in S : n <= m
  <2> HIDE DEF S
  <2> QED BY <1>1, LeastElement
<1>3. n \in 0 .. BUFFER_SIZE /\ Is(n)
  <2>1. n \in 0 .. BUFFER_SIZE /\ Stop(n)
    OBVIOUS
  <2>2. ASSUME NEW k \in 0 .. n - 1, b[k] = Nul PROVE FALSE
    <3>1. k \in S /\ k < n
      BY <2>1, <2>2, LineFacts
    <3> QED BY <1>2, <2>1, <3>1, LineFacts
  <2> QED BY <2>1, <2>2
<1>4. strlen(b) = CHOOSE m \in 0 .. BUFFER_SIZE : Is(m)
  BY DEF strlen
<1>5. strlen(b) \in 0 .. BUFFER_SIZE /\ Is(strlen(b))
  <2> HIDE DEF Is, S
  <2> QED BY <1>3, <1>4
<1> QED BY <1>5

LEMMA StrlenIs ==
    ASSUME NEW b, NEW n \in 0 .. BUFFER_SIZE - 1, b[n] = Nul,
           \A k \in 0 .. n - 1 : b[k] # Nul
    PROVE  strlen(b) = n
<1>1. strlen(b) \in Nat /\ n \in Nat /\ n < BUFFER_SIZE /\ strlen(b) <= BUFFER_SIZE
  BY Strlen, LineFacts
<1>2. ~(strlen(b) < n)
  <2>1. strlen(b) < n => strlen(b) \in 0 .. n - 1 /\ strlen(b) # BUFFER_SIZE
    BY <1>1, LineFacts
  <2> QED BY <2>1, Strlen
<1>3. ~(n < strlen(b))
  <2>1. n < strlen(b) => n \in 0 .. strlen(b) - 1
    BY <1>1
  <2> QED BY <2>1, Strlen
<1> QED BY <1>1, <1>2, <1>3

\* Every index of a string that does not fill its buffer is one of the line.
LEMMA FirstOfLetters ==
    ASSUME NEW b, NEW n \in Nat, \A k \in 0 .. n - 1 : b[k] \in Letter
    PROVE  /\ First(b, n) \in Seq(Letter) /\ Len(First(b, n)) = n
           /\ \A k \in 1 .. n : First(b, n)[k] = b[k - 1]
<1>1. \A k \in 1 .. n : b[k - 1] \in Letter
  OBVIOUS
<1> QED BY <1>1 DEF First

LEMMA HistoryString ==
    ASSUME NEW b, \A k \in 0 .. BUFFER_SIZE - 1 : b[k] \in Letter \cup {Nul},
           b[BUFFER_SIZE - 1] = Nul
    PROVE  /\ strlen(b) \in 0 .. BUFFER_SIZE - 1
           /\ Str(b) \in Seq(Letter) /\ Len(Str(b)) = strlen(b)
           /\ \A k \in 1 .. strlen(b) : Str(b)[k] = b[k - 1]
<1>1. strlen(b) \in 0 .. BUFFER_SIZE /\ \A k \in 0 .. strlen(b) - 1 : b[k] # Nul
  BY Strlen
<1>2. strlen(b) # BUFFER_SIZE
  BY <1>1, LineFacts
<1>3. strlen(b) \in 0 .. BUFFER_SIZE - 1 /\ strlen(b) \in Nat
  BY <1>1, <1>2, LineFacts
<1>4. \A k \in 0 .. strlen(b) - 1 : b[k] \in Letter
  BY <1>1, <1>3, LineFacts
<1> QED BY <1>3, <1>4, FirstOfLetters DEF Str

----------------------------------------------------------------------------
(* A key and the line buffer                                               *)

\* u is t but for the screen.
SameLine(t, u) ==
    /\ u.line_buffer = t.line_buffer /\ u.count = t.count
    /\ u.char_location = t.char_location

SameRest(t, u) ==
    /\ u.read_open = t.read_open /\ u.enter_flag = t.enter_flag
    /\ u.history_line_buf = t.history_line_buf
    /\ u.buf_count = t.buf_count /\ u.cur_buffer_id = t.cur_buffer_id

\* A line in good order, with the cursor in it.
Edited(t) == Ready(t) /\ t.char_location <= t.count

LEMMA EchoKeeps ==
    ASSUME NEW t \in Tty, NEW c \in Letter \cup {"newline", "backspace"}
    PROVE  /\ Echo(t, c) \in Tty /\ SameLine(t, Echo(t, c)) /\ SameRest(t, Echo(t, c))
           /\ Echo(t, c).mem = putc_intr(t.mem, t.pos, Shown(c)).mem
           /\ Echo(t, c).pos = putc_intr(t.mem, t.pos, Shown(c)).pos
<1> DEFINE r == putc_intr(t.mem, t.pos, Shown(c))
<1>1. t.pos \in Position /\ t.mem \in [0 .. Last -> ScreenCell]
  BY DEF Tty, ScreenCell
<1>2. Shown(c) \in Printed
  BY LineFacts DEF Printed, ScreenCell
<1>3. Last \in Nat /\ Last <= Last
  BY ScreenFacts
<1>4. r.mem \in [0 .. Last -> ScreenCell] /\ r.pos \in Position
  BY <1>1, <1>2, <1>3, PutcIntrTypes
<1>5. Echo(t, c) = [t EXCEPT !.mem = r.mem, !.pos = r.pos]
  BY DEF Echo
<1> HIDE DEF r
<1>6. Echo(t, c) \in Tty /\ Echo(t, c).mem = r.mem /\ Echo(t, c).pos = r.pos
  BY <1>4, <1>5 DEF Tty, ScreenCell
<1> QED BY <1>5, <1>6 DEF r, SameLine, SameRest, Tty

LEMMA ReadySame ==
    ASSUME NEW t, NEW u \in Tty, Ready(t), SameLine(t, u), SameRest(t, u)
    PROVE  Ready(u)
BY DEF Ready, SameLine, SameRest

\* The screen of u is that of t after the echo of c.
Echoing(t, c, u) ==
    LET r == putc_intr(t.mem, t.pos, Shown(c)) IN u.mem = r.mem /\ u.pos = r.pos

\* When no program reads, a key is only echoed.
LEMMA PutUnread ==
    ASSUME NEW t \in Tty, t.read_open = 0, NEW c \in Letter \cup {"newline", "backspace"}
    PROVE  LET u == Put(t, c) IN
           u \in Tty /\ SameLine(t, u) /\ SameRest(t, u) /\ Echoing(t, c, u)
<1>1. Put(t, c) = Echo(t, c)
  BY DEF Put, Echoes, fill_line_buffer
<1> QED BY <1>1, EchoKeeps DEF Echoing

\* A character is put into the line.
LEMMA PutLetter ==
    ASSUME NEW t, Edited(t), t.read_open = 1, t.count < BUFFER_SIZE - 1, NEW c \in Letter
    PROVE  LET u == Put(t, c) IN
           /\ Edited(u) /\ SameRest(t, u) /\ Echoing(t, c, u)
           /\ u.count = t.count + 1 /\ u.char_location = t.char_location + 1
           /\ u.line_buffer = Inserted(t.line_buffer, t.char_location, t.count, c)
<1> DEFINE b == Inserted(t.line_buffer, t.char_location, t.count, c)
           f == [t EXCEPT !.count = @ + 1, !.char_location = @ + 1, !.line_buffer = b]
<1>1. t \in Tty /\ t.count \in 0 .. BUFFER_SIZE - 2 /\ t.char_location \in 0 .. t.count
  BY LineFacts DEF Edited, Ready
<1>2. c # "newline" /\ c # "backspace" /\ c \in Cell
  BY LineFacts
<1>3. Echoes(t, c)
  BY <1>2 DEF Echoes
<1>4. fill_line_buffer(t, c) = f
  BY <1>2, <1>3 DEF fill_line_buffer
<1>5. Put(t, c) = Echo(f, c)
  BY <1>3, <1>4 DEF Put
<1>6. t.line_buffer \in [Index -> Cell]
  BY <1>1 DEF Tty
<1>7. b \in [Index -> Cell]
  BY <1>1, <1>2, <1>6, LineFacts DEF Inserted, Index
<1>8. ASSUME NEW k \in 0 .. t.count PROVE b[k] \in Letter
  <2>1. k \in Index /\ k - 1 \in Index
    BY <1>1, LineFacts DEF Index
  <2>2. b[k] = IF k = t.char_location THEN c
               ELSE IF k > t.char_location /\ k <= t.count THEN t.line_buffer[k - 1]
               ELSE t.line_buffer[k]
    BY <1>6, <2>1 DEF Inserted
  <2>3. \A j \in 0 .. t.count - 1 : t.line_buffer[j] \in Letter
    BY DEF Edited, Ready
  <2> QED BY <1>1, <2>2, <2>3
<1> HIDE DEF b
<1>9. /\ f \in Tty /\ f.count = t.count + 1 /\ f.char_location = t.char_location + 1
      /\ f.line_buffer = b /\ f.mem = t.mem /\ f.pos = t.pos /\ SameRest(t, f)
  <2>1. t.count + 1 \in Int /\ t.char_location + 1 \in Int
    BY <1>1 DEF Tty
  <2>2. f \in Tty
    BY <1>1, <1>7, <2>1 DEF Tty
  <2> QED BY <1>1, <2>2 DEF Tty, SameRest
<1> HIDE DEF f
<1>10. Ready(f) /\ f.char_location <= f.count
  BY <1>1, <1>8, <1>9, LineFacts DEF Edited, Ready, SameRest
<1>11. /\ Echo(f, c) \in Tty /\ SameLine(f, Echo(f, c)) /\ SameRest(f, Echo(f, c))
       /\ Echoing(f, c, Echo(f, c))
  BY <1>9, EchoKeeps DEF Echoing
<1>12. Ready(Echo(f, c))
  BY <1>10, <1>11, ReadySame
<1> QED BY <1>5, <1>9, <1>10, <1>11, <1>12 DEF Edited, SameLine, SameRest, Echoing, b

LEMMA PutFull ==
    ASSUME NEW t, t.read_open = 1, ~(t.count < BUFFER_SIZE - 1), NEW c \in Letter
    PROVE  Put(t, c) = t
<1>1. ~Echoes(t, c)
  BY LineFacts DEF Echoes
<1> QED BY <1>1 DEF Put, fill_line_buffer

\* The character to the left of the cursor is deleted.
LEMMA PutBackspace ==
    ASSUME NEW t, Edited(t), t.read_open = 1, t.char_location > 0
    PROVE  LET u == Put(t, "backspace") IN
           /\ Edited(u) /\ SameRest(t, u) /\ Echoing(t, "backspace", u)
           /\ u.count = t.count - 1 /\ u.char_location = t.char_location - 1
           /\ u.line_buffer = Deleted(t.line_buffer, t.char_location - 1, t.count - 1)
<1> DEFINE c == "backspace"
           b == Deleted(t.line_buffer, t.char_location - 1, t.count - 1)
           f == [t EXCEPT !.count = @ - 1, !.char_location = @ - 1, !.line_buffer = b]
<1>1. /\ t \in Tty /\ t.count \in 1 .. BUFFER_SIZE - 1
      /\ t.char_location \in 1 .. t.count
  BY LineFacts DEF Edited, Ready
<1>3. Echoes(t, c)
  BY <1>1 DEF Echoes
<1>4. fill_line_buffer(t, c) = f
  BY <1>3 DEF fill_line_buffer
<1>5. Put(t, c) = Echo(f, c)
  BY <1>3, <1>4 DEF Put
<1>6. t.line_buffer \in [Index -> Cell]
  BY <1>1 DEF Tty
<1>7. b \in [Index -> Cell]
  BY <1>1, <1>6, LineFacts DEF Deleted, Index
<1>8. ASSUME NEW k \in 0 .. t.count - 2 PROVE b[k] \in Letter
  <2>1. k \in Index /\ k + 1 \in Index
    BY <1>1, LineFacts DEF Index
  <2>2. b[k] = IF k >= t.char_location - 1 /\ k < t.count - 1 THEN t.line_buffer[k + 1]
               ELSE IF k = t.char_location - 1 THEN Nul ELSE t.line_buffer[k]
    BY <1>6, <2>1 DEF Deleted
  <2>3. \A j \in 0 .. t.count - 1 : t.line_buffer[j] \in Letter
    BY DEF Edited, Ready
  <2> QED BY <1>1, <2>2, <2>3
<1> HIDE DEF b
<1>9. /\ f \in Tty /\ f.count = t.count - 1 /\ f.char_location = t.char_location - 1
      /\ f.line_buffer = b /\ f.mem = t.mem /\ f.pos = t.pos /\ SameRest(t, f)
  <2>1. t.count - 1 \in Int /\ t.char_location - 1 \in Int
    BY <1>1 DEF Tty
  <2>2. f \in Tty
    BY <1>1, <1>7, <2>1 DEF Tty
  <2> QED BY <1>1, <2>2 DEF Tty, SameRest
<1> HIDE DEF f
<1>10. Ready(f) /\ f.char_location <= f.count
  BY <1>1, <1>8, <1>9, LineFacts DEF Edited, Ready, SameRest
<1>11. /\ Echo(f, c) \in Tty /\ SameLine(f, Echo(f, c)) /\ SameRest(f, Echo(f, c))
       /\ Echoing(f, c, Echo(f, c))
  BY <1>9, EchoKeeps DEF Echoing
<1>12. Ready(Echo(f, c))
  BY <1>10, <1>11, ReadySame
<1> QED BY <1>5, <1>9, <1>10, <1>11, <1>12 DEF Edited, SameLine, SameRest, Echoing, b

LEMMA PutNothing ==
    ASSUME NEW t, t.read_open = 1, t.count = 0
    PROVE  Put(t, "backspace") = t
<1>1. ~Echoes(t, "backspace")
  BY DEF Echoes
<1> QED BY <1>1 DEF Put, fill_line_buffer

\* Enter closes the line.
LEMMA PutEnter ==
    ASSUME NEW t, Edited(t), t.read_open = 1
    PROVE  LET u == Put(t, "newline") IN
           /\ Edited(u) /\ Echoing(t, "newline", u)
           /\ u = [t EXCEPT !.line_buffer[t.count] = "newline", !.enter_flag = 1,
                            !.mem = u.mem, !.pos = u.pos]
<1> DEFINE c == "newline"
           f == [t EXCEPT !.line_buffer[t.count] = c, !.enter_flag = 1]
           r == putc_intr(t.mem, t.pos, Shown(c))
<1>1. t \in Tty /\ t.count \in 0 .. BUFFER_SIZE - 1 /\ t.line_buffer \in [Index -> Cell]
  BY DEF Edited, Ready, Tty
<1>2. Echoes(t, c) /\ fill_line_buffer(t, c) = f
  BY DEF Echoes, fill_line_buffer
<1>3. Put(t, c) = Echo(f, c)
  BY <1>2 DEF Put
<1>4. t.count \in Index /\ \A k \in 0 .. t.count - 1 : k \in Index /\ k # t.count
  BY <1>1, LineFacts DEF Index
<1>5. /\ f \in Tty /\ f.mem = t.mem /\ f.pos = t.pos
      /\ \A k \in 0 .. t.count - 1 : f.line_buffer[k] = t.line_buffer[k]
      /\ f.count = t.count /\ f.char_location = t.char_location
      /\ f.history_line_buf = t.history_line_buf
      /\ f.buf_count = t.buf_count /\ f.cur_buffer_id = t.cur_buffer_id
  BY <1>1, <1>4, LineFacts DEF Tty
<1>6. Edited(f)
  BY <1>1, <1>5 DEF Edited, Ready
<1>7. /\ Echo(f, c) \in Tty /\ SameLine(f, Echo(f, c)) /\ SameRest(f, Echo(f, c))
      /\ Echoing(f, c, Echo(f, c))
  BY <1>5, EchoKeeps DEF Echoing
<1>8. Edited(Echo(f, c))
  BY <1>6, <1>7, ReadySame DEF Edited, SameLine
<1>9. Echoing(t, c, Echo(f, c))
  BY <1>5, <1>7 DEF Echoing
<1>10. Echo(f, c) = [f EXCEPT !.mem = Echo(f, c).mem, !.pos = Echo(f, c).pos]
  BY <1>5 DEF Echo, Tty
<1> QED BY <1>3, <1>8, <1>9, <1>10

----------------------------------------------------------------------------
(* Strings of characters                                                   *)

\* The states that PutAll goes through.
LEMMA PutAllSteps ==
    ASSUME NEW t, NEW s, Len(s) \in Nat
    PROVE  \E f : /\ PutAll(t, s) = f[Len(s)] /\ f[0] = t
                  /\ \A k \in 1 .. Len(s) : f[k] = Put(f[k - 1], s[k])
<1> DEFINE n == Len(s)
           body(g, m) == [k \in 0 .. m |-> IF k = 0 THEN t ELSE Put(g[k - 1], s[k])]
           S == {m \in 0 .. n : \E g : g = body(g, m)}
<1>1. 0 \in S
  <2>1. [k \in 0 .. 0 |-> t] = body([k \in 0 .. 0 |-> t], 0)
    OBVIOUS
  <2>2. 0 \in 0 .. n
    OBVIOUS
  <2> HIDE DEF body
  <2> QED BY <2>1, <2>2
<1>2. ASSUME NEW m \in 0 .. n - 1, m \in S PROVE m + 1 \in S
  <2>1. PICK f : f = body(f, m)
    BY <1>2
  <2>2. \A k \in 0 .. m : f[k] = IF k = 0 THEN t ELSE Put(f[k - 1], s[k])
    BY <2>1
  <2> DEFINE g == [k \in 0 .. m + 1 |-> IF k = m + 1 THEN Put(f[m], s[m + 1]) ELSE f[k]]
  <2>3. /\ g = [k \in 0 .. m + 1 |-> g[k]]
        /\ g[m + 1] = Put(f[m], s[m + 1])
        /\ \A k \in 0 .. m : g[k] = f[k]
    OBVIOUS
  <2> HIDE DEF g
  <2>4. ASSUME NEW k \in 0 .. m + 1
        PROVE  g[k] = IF k = 0 THEN t ELSE Put(g[k - 1], s[k])
    <3>1. CASE k = m + 1
      <4>1. k # 0 /\ k - 1 = m /\ m \in 0 .. m
        BY <3>1
      <4>2. g[k - 1] = f[m] /\ s[k] = s[m + 1] /\ g[k] = g[m + 1]
        BY <2>3, <3>1, <4>1
      <4>3. g[k] = Put(g[k - 1], s[k])
        BY <2>3, <4>2
      <4> QED BY <4>1, <4>3
    <3>2. CASE k # m + 1
      <4>1. k \in 0 .. m /\ (k # 0 => k - 1 \in 0 .. m)
        BY <3>2
      <4>2. g[k] = f[k] /\ (k # 0 => g[k - 1] = f[k - 1])
        BY <2>3, <4>1
      <4> QED BY <2>2, <4>1, <4>2
    <3> QED BY <3>1, <3>2
  <2>5. g = body(g, m + 1)
    BY <2>3, <2>4
  <2>6. m + 1 \in 0 .. n
    OBVIOUS
  <2> HIDE DEF body
  <2> QED BY <2>5, <2>6
<1>3. n \in S
  <2> HIDE DEF S
  <2>1. \A m \in 0 .. n : m \in S
    BY <1>1, <1>2, InductionUpTo
  <2> QED BY <2>1
<1> DEFINE put == CHOOSE g : g = body(g, n)
<1>4. put = body(put, n)
  <2> HIDE DEF body
  <2> QED BY <1>3
<1>5. PutAll(t, s) = put[n]
  BY DEF PutAll
<1> HIDE DEF put
<1>6. \A k \in 0 .. n : put[k] = IF k = 0 THEN t ELSE Put(put[k - 1], s[k])
  BY <1>4
<1>7. put[0] = t
  BY <1>6
<1>8. \A k \in 1 .. n : put[k] = Put(put[k - 1], s[k])
  BY <1>6
<1> QED BY <1>5, <1>7, <1>8

\* The states that puts_intr goes through.
LEMMA EchoSteps ==
    ASSUME NEW t, NEW s, Len(s) \in Nat
    PROVE  \E f : /\ puts_intr(t, s) = f[Len(s)] /\ f[0] = t
                  /\ \A k \in 1 .. Len(s) : f[k] = Echo(f[k - 1], s[k])
<1> DEFINE n == Len(s)
           body(g, m) == [k \in 0 .. m |-> IF k = 0 THEN t ELSE Echo(g[k - 1], s[k])]
           S == {m \in 0 .. n : \E g : g = body(g, m)}
<1>1. 0 \in S
  <2>1. [k \in 0 .. 0 |-> t] = body([k \in 0 .. 0 |-> t], 0)
    OBVIOUS
  <2>2. 0 \in 0 .. n
    OBVIOUS
  <2> HIDE DEF body
  <2> QED BY <2>1, <2>2
<1>2. ASSUME NEW m \in 0 .. n - 1, m \in S PROVE m + 1 \in S
  <2>1. PICK f : f = body(f, m)
    BY <1>2
  <2>2. \A k \in 0 .. m : f[k] = IF k = 0 THEN t ELSE Echo(f[k - 1], s[k])
    BY <2>1
  <2> DEFINE g == [k \in 0 .. m + 1 |-> IF k = m + 1 THEN Echo(f[m], s[m + 1]) ELSE f[k]]
  <2>3. /\ g = [k \in 0 .. m + 1 |-> g[k]]
        /\ g[m + 1] = Echo(f[m], s[m + 1])
        /\ \A k \in 0 .. m : g[k] = f[k]
    OBVIOUS
  <2> HIDE DEF g
  <2>4. ASSUME NEW k \in 0 .. m + 1
        PROVE  g[k] = IF k = 0 THEN t ELSE Echo(g[k - 1], s[k])
    <3>1. CASE k = m + 1
      <4>1. k # 0 /\ k - 1 = m /\ m \in 0 .. m
        BY <3>1
      <4>2. g[k - 1] = f[m] /\ s[k] = s[m + 1] /\ g[k] = g[m + 1]
        BY <2>3, <3>1, <4>1
      <4>3. g[k] = Echo(g[k - 1], s[k])
        BY <2>3, <4>2
      <4> QED BY <4>1, <4>3
    <3>2. CASE k # m + 1
      <4>1. k \in 0 .. m /\ (k # 0 => k - 1 \in 0 .. m)
        BY <3>2
      <4>2. g[k] = f[k] /\ (k # 0 => g[k - 1] = f[k - 1])
        BY <2>3, <4>1
      <4> QED BY <2>2, <4>1, <4>2
    <3> QED BY <3>1, <3>2
  <2>5. g = body(g, m + 1)
    BY <2>3, <2>4
  <2>6. m + 1 \in 0 .. n
    OBVIOUS
  <2> HIDE DEF body
  <2> QED BY <2>5, <2>6
<1>3. n \in S
  <2> HIDE DEF S
  <2>1. \A m \in 0 .. n : m \in S
    BY <1>1, <1>2, InductionUpTo
  <2> QED BY <2>1
<1> DEFINE put == CHOOSE g : g = body(g, n)
<1>4. put = body(put, n)
  <2> HIDE DEF body
  <2> QED BY <1>3
<1>5. puts_intr(t, s) = put[n]
  BY DEF puts_intr
<1> HIDE DEF put
<1>6. \A k \in 0 .. n : put[k] = IF k = 0 THEN t ELSE Echo(put[k - 1], s[k])
  BY <1>4
<1>7. put[0] = t
  BY <1>6
<1>8. \A k \in 1 .. n : put[k] = Echo(put[k - 1], s[k])
  BY <1>6
<1> QED BY <1>5, <1>7, <1>8

LEMMA SameRestTrans ==
    ASSUME NEW t, NEW u, NEW v, SameRest(t, u), SameRest(u, v)
    PROVE  SameRest(t, v)
BY DEF SameRest

\* A character or a backspace, in a read or not, leaves the line in good order.
LEMMA PutKeeps ==
    ASSUME NEW t, Edited(t), NEW c \in Letter \cup {"backspace"},
           c = "backspace" /\ t.read_open = 1 => t.char_location > 0 \/ t.count = 0
    PROVE  Edited(Put(t, c)) /\ SameRest(t, Put(t, c))
<1>1. t \in Tty /\ t.read_open \in {0, 1} /\ t.count \in Nat
  BY LineFacts DEF Edited, Ready, Tty
<1>2. CASE t.read_open = 0
  <2>1. Put(t, c) \in Tty /\ SameLine(t, Put(t, c)) /\ SameRest(t, Put(t, c))
    BY <1>1, <1>2, PutUnread
  <2>2. Ready(Put(t, c))
    BY <2>1, ReadySame DEF Edited
  <2> QED BY <2>1, <2>2 DEF Edited, SameLine
<1>3. CASE t.read_open = 1 /\ c = "backspace"
  <2>1. CASE t.char_location > 0
    BY <1>3, <2>1, PutBackspace
  <2>2. CASE t.count = 0
    BY <1>3, <2>2, PutNothing DEF SameRest
  <2> QED BY <1>3, <2>1, <2>2
<1>4. CASE t.read_open = 1 /\ c # "backspace"
  <2>1. c \in Letter
    BY <1>4
  <2>2. CASE t.count < BUFFER_SIZE - 1
    BY <1>4, <2>1, <2>2, PutLetter
  <2>3. CASE ~(t.count < BUFFER_SIZE - 1)
    BY <1>4, <2>1, <2>3, PutFull DEF SameRest
  <2> QED BY <2>2, <2>3
<1> QED BY <1>1, <1>2, <1>3, <1>4

LEMMA TypedSteps ==
    ASSUME NEW t, Edited(t), NEW s \in Seq(Letter)
    PROVE  \E f : /\ PutAll(t, s) = f[Len(s)] /\ f[0] = t
                  /\ \A k \in 1 .. Len(s) : f[k] = Put(f[k - 1], s[k])
                  /\ \A k \in 0 .. Len(s) : Edited(f[k]) /\ SameRest(t, f[k])
<1>1. Len(s) \in Nat /\ \A k \in 1 .. Len(s) : s[k] \in Letter
  OBVIOUS
<1>2. PICK f : /\ PutAll(t, s) = f[Len(s)] /\ f[0] = t
               /\ \A k \in 1 .. Len(s) : f[k] = Put(f[k - 1], s[k])
  BY <1>1, PutAllSteps
<1> DEFINE S == {k \in 0 .. Len(s) : Edited(f[k]) /\ SameRest(t, f[k])}
<1>3. 0 \in S
  BY <1>1, <1>2 DEF SameRest
<1>4. ASSUME NEW k \in 0 .. Len(s) - 1, k \in S PROVE k + 1 \in S
  <2>1. k + 1 \in 1 .. Len(s) /\ (k + 1) - 1 = k /\ k + 1 \in 0 .. Len(s)
    BY <1>1
  <2>2. f[k + 1] = Put(f[k], s[k + 1]) /\ s[k + 1] \in Letter
    BY <1>1, <1>2, <2>1
  <2>3. s[k + 1] # "backspace"
    BY <2>2, LineFacts
  <2>4. Edited(f[k + 1]) /\ SameRest(f[k], f[k + 1])
    BY <1>4, <2>2, <2>3, PutKeeps
  <2>5. SameRest(t, f[k + 1])
    BY <1>4, <2>4, SameRestTrans
  <2> QED BY <2>1, <2>4, <2>5
<1>5. \A k \in 0 .. Len(s) : k \in S
  <2> HIDE DEF S
  <2> QED BY <1>1, <1>3, <1>4, InductionUpTo
<1> QED BY <1>2, <1>5

\* The states that Erased goes through, and that it leaves nothing of the line.
LEMMA ErasedSteps ==
    ASSUME NEW t, Edited(t), t.read_open = 1, t.char_location = t.count
    PROVE  \E f : /\ Erased(t) = f[t.count] /\ f[0] = t
                  /\ \A k \in 1 .. t.count : f[k] = Put(f[k - 1], "backspace")
                  /\ \A k \in 0 .. t.count :
                       /\ Edited(f[k]) /\ SameRest(t, f[k])
                       /\ f[k].count = t.count - k /\ f[k].char_location = t.count - k
<1> DEFINE n == t.count
           s == [k \in 1 .. n |-> "backspace"]
<1>1. n \in Nat
  BY LineFacts DEF Edited, Ready
<1>2. Len(s) = n /\ \A k \in 1 .. n : s[k] = "backspace"
  BY <1>1
<1>3. Erased(t) = PutAll(t, s)
  BY DEF Erased
<1> HIDE DEF s, n
<1>4. PICK f : /\ PutAll(t, s) = f[n] /\ f[0] = t
               /\ \A k \in 1 .. n : f[k] = Put(f[k - 1], s[k])
  BY <1>1, <1>2, PutAllSteps
<1>5. \A k \in 1 .. n : f[k] = Put(f[k - 1], "backspace")
  BY <1>2, <1>4
<1> DEFINE S == {k \in 0 .. n : /\ Edited(f[k]) /\ SameRest(t, f[k])
                                /\ f[k].count = n - k /\ f[k].char_location = n - k}
<1>6. 0 \in S
  BY <1>1, <1>4 DEF SameRest, n
<1>7. ASSUME NEW k \in 0 .. n - 1, k \in S PROVE k + 1 \in S
  <2>1. k + 1 \in 1 .. n /\ (k + 1) - 1 = k /\ k + 1 \in 0 .. n /\ n - k > 0
    BY <1>1
  <2>2. f[k + 1] = Put(f[k], "backspace")
    BY <1>5, <2>1
  <2>3. f[k].read_open = 1 /\ f[k].char_location > 0 /\ Edited(f[k])
    BY <1>7, <2>1 DEF SameRest
  <2>4. /\ Edited(f[k + 1]) /\ SameRest(f[k], f[k + 1])
        /\ f[k + 1].count = n - k - 1 /\ f[k + 1].char_location = n - k - 1
    BY <1>7, <2>2, <2>3, PutBackspace
  <2>5. SameRest(t, f[k + 1])
    BY <1>7, <2>4, SameRestTrans
  <2>6. n - k - 1 = n - (k + 1)
    BY <1>1
  <2> QED BY <2>1, <2>4, <2>5, <2>6
<1>8. \A k \in 0 .. n : k \in S
  <2> HIDE DEF S
  <2> QED BY <1>1, <1>6, <1>7, InductionUpTo
<1> QED BY <1>3, <1>4, <1>5, <1>8 DEF n

LEMMA ErasedUnread ==
    ASSUME NEW t \in Tty, t.read_open = 0, t.count \in Nat
    PROVE  Erased(t) \in Tty /\ SameLine(t, Erased(t)) /\ SameRest(t, Erased(t))
<1> DEFINE n == t.count
           s == [k \in 1 .. n |-> "backspace"]
<1>2. Len(s) = n /\ \A k \in 1 .. n : s[k] = "backspace"
  OBVIOUS
<1>3. Erased(t) = PutAll(t, s)
  BY DEF Erased
<1> HIDE DEF s
<1>4. PICK f : /\ PutAll(t, s) = f[n] /\ f[0] = t
               /\ \A k \in 1 .. n : f[k] = Put(f[k - 1], s[k])
  BY <1>2, PutAllSteps
<1> DEFINE S == {k \in 0 .. n : f[k] \in Tty /\ SameLine(t, f[k]) /\ SameRest(t, f[k])}
<1>6. 0 \in S
  BY <1>4 DEF SameRest, SameLine
<1>7. ASSUME NEW k \in 0 .. n - 1, k \in S PROVE k + 1 \in S
  <2>1. k + 1 \in 1 .. n /\ (k + 1) - 1 = k /\ k + 1 \in 0 .. n
    OBVIOUS
  <2>2. f[k + 1] = Put(f[k], "backspace")
    BY <1>2, <1>4, <2>1
  <2>3. f[k].read_open = 0
    BY <1>7 DEF SameRest
  <2>4. f[k + 1] \in Tty /\ SameLine(f[k], f[k + 1]) /\ SameRest(f[k], f[k + 1])
    BY <1>7, <2>2, <2>3, PutUnread
  <2> QED BY <1>7, <2>1, <2>4 DEF SameLine, SameRest
<1>8. \A k \in 0 .. n : k \in S
  <2> HIDE DEF S
  <2> QED BY <1>6, <1>7, InductionUpTo
<1> QED BY <1>3, <1>4, <1>8

\* puts_intr changes the screen only.
LEMMA PutsKeeps ==
    ASSUME NEW t \in Tty, NEW s \in Seq(Letter \cup {"newline"})
    PROVE  puts_intr(t, s) \in Tty /\ SameLine(t, puts_intr(t, s)) /\ SameRest(t, puts_intr(t, s))
<1> DEFINE n == Len(s)
<1>2. n \in Nat /\ \A k \in 1 .. n : s[k] \in Letter \cup {"newline"}
  OBVIOUS
<1>4. PICK f : /\ puts_intr(t, s) = f[n] /\ f[0] = t
               /\ \A k \in 1 .. n : f[k] = Echo(f[k - 1], s[k])
  BY <1>2, EchoSteps
<1> DEFINE S == {k \in 0 .. n : f[k] \in Tty /\ SameLine(t, f[k]) /\ SameRest(t, f[k])}
<1>6. 0 \in S
  BY <1>4 DEF SameRest, SameLine
<1>7. ASSUME NEW k \in 0 .. n - 1, k \in S PROVE k + 1 \in S
  <2>1. k + 1 \in 1 .. n /\ (k + 1) - 1 = k /\ k + 1 \in 0 .. n
    OBVIOUS
  <2>2. f[k + 1] = Echo(f[k], s[k + 1]) /\ s[k + 1] \in Letter \cup {"newline"}
    BY <1>2, <1>4, <2>1
  <2>4. f[k + 1] \in Tty /\ SameLine(f[k], f[k + 1]) /\ SameRest(f[k], f[k + 1])
    BY <1>7, <2>2, EchoKeeps
  <2> QED BY <1>7, <2>1, <2>4 DEF SameLine, SameRest
<1>8. \A k \in 0 .. n : k \in S
  <2> HIDE DEF S
  <2> QED BY <1>2, <1>6, <1>7, InductionUpTo
<1> QED BY <1>2, <1>4, <1>8

----------------------------------------------------------------------------
(* The history keys                                                        *)

\* What a buffer holds is a string of letters, and perhaps an Enter.
LEMMA CellString ==
    ASSUME NEW b \in [Index -> Cell]
    PROVE  Str(b) \in Seq(Letter \cup {"newline"}) /\ Len(Str(b)) = strlen(b)
<1>1. strlen(b) \in 0 .. BUFFER_SIZE /\ \A k \in 0 .. strlen(b) - 1 : b[k] # Nul
  BY Strlen
<1>2. \A k \in 1 .. strlen(b) : k - 1 \in Index /\ k - 1 \in 0 .. strlen(b) - 1
  BY <1>1, LineFacts DEF Index
<1>3. \A k \in 1 .. strlen(b) : b[k - 1] \in Letter \cup {"newline"}
  BY <1>1, <1>2 DEF Cell, Letter
<1> QED BY <1>1, <1>3, LineFacts DEF Str, First

LEMMA MemcpyType ==
    ASSUME NEW b \in [Index -> Cell], NEW s \in Seq(Letter)
    PROVE  /\ memcpy(b, s) \in [Index -> Cell]
           /\ Len(s) < BUFFER_SIZE => \A k \in 0 .. Len(s) - 1 : memcpy(b, s)[k] = s[k + 1]
<1>1. /\ Len(s) \in Nat /\ \A k \in 1 .. Len(s) : s[k] \in Letter
      /\ DOMAIN b = Index /\ \A k \in Index : b[k] \in Cell
  OBVIOUS
<1>2. \A k \in Index : k >= 0 /\ k < Len(s) => k + 1 \in 1 .. Len(s)
  BY <1>1, LineFacts DEF Index
<1>3. memcpy(b, s) = [k \in Index |-> IF k >= 0 /\ k < Len(s) THEN s[k + 1] ELSE b[k]]
  BY <1>1 DEF memcpy
<1>4. memcpy(b, s) \in [Index -> Cell]
  <2>1. ASSUME NEW k \in Index
        PROVE  (IF k >= 0 /\ k < Len(s) THEN s[k + 1] ELSE b[k]) \in Cell
    <3>1. CASE k >= 0 /\ k < Len(s)
      BY <1>1, <1>2, <3>1, LineFacts
    <3>2. CASE ~(k >= 0 /\ k < Len(s))
      BY <1>1, <3>2
    <3> QED BY <3>1, <3>2
  <2> QED BY <1>3, <2>1
<1>5. ASSUME Len(s) < BUFFER_SIZE, NEW k \in 0 .. Len(s) - 1 PROVE memcpy(b, s)[k] = s[k + 1]
  <2>1. k \in Index /\ k >= 0 /\ k < Len(s)
    BY <1>1, <1>5, LineFacts DEF Index
  <2> QED BY <1>3, <2>1
<1> QED BY <1>4, <1>5

\* t when line id of the history has taken the place of its line, before it is shown.
Loaded(t, id) ==
    LET h == Str(t.history_line_buf[id])
        e == Erased(t)
    IN  [e EXCEPT !.cur_buffer_id = id, !.line_buffer = memcpy(e.line_buffer, h),
                  !.count = Len(h), !.char_location = Len(h)]

LEMMA RecalledIs ==
    ASSUME NEW t \in Tty, Erased(t) \in Tty, NEW id, SameRest(t, Erased(t))
    PROVE  Recalled(t, id) = puts_intr(Loaded(t, id), Str(Loaded(t, id).line_buffer))
<1> DEFINE e == Erased(t)
           h == Str(t.history_line_buf[id])
           b == memcpy(e.line_buffer, h)
<1>1. Recalled(t, id) = puts_intr(Loaded(t, id), Str(b))
  BY DEF Recalled, Loaded
<1> HIDE DEF e, h
<1>2. e \in Tty
  BY DEF e
<1>3. Loaded(t, id).line_buffer = b
  BY <1>2 DEF Loaded, Tty, e, h
<1> QED BY <1>1, <1>3

LEMMA LoadedKeeps ==
    ASSUME NEW t, Edited(t), t.read_open = 1 => t.char_location = t.count,
           NEW id \in Nat, id <= t.buf_count
    PROVE  LET h == Str(t.history_line_buf[id])
               u == Loaded(t, id)
           IN  /\ Erased(t) \in Tty /\ SameRest(t, Erased(t))
               /\ Edited(u) /\ h \in Seq(Letter)
               /\ u.count = Len(h) /\ u.char_location = Len(h)
               /\ \A k \in 0 .. Len(h) - 1 : u.line_buffer[k] = h[k + 1]
               /\ First(u.line_buffer, u.count) = h
               /\ u.mem = Erased(t).mem /\ u.pos = Erased(t).pos
               /\ u.read_open = t.read_open /\ u.enter_flag = t.enter_flag
               /\ u.history_line_buf = t.history_line_buf
               /\ u.buf_count = t.buf_count /\ u.cur_buffer_id = id
<1> DEFINE h == Str(t.history_line_buf[id])
           e == Erased(t)
           b == memcpy(e.line_buffer, h)
           u == Loaded(t, id)
<1>1. t \in Tty /\ t.read_open \in {0, 1} /\ t.count \in Nat
  BY LineFacts DEF Edited, Ready, Tty
<1>2. e \in Tty /\ SameRest(t, e)
  <2>1. CASE t.read_open = 0
    BY <1>1, <2>1, ErasedUnread
  <2>2. CASE t.read_open = 1
    <3>1. PICK f : /\ Erased(t) = f[t.count]
                   /\ \A k \in 0 .. t.count : Edited(f[k]) /\ SameRest(t, f[k])
      BY <2>2, ErasedSteps
    <3>2. t.count \in 0 .. t.count
      BY <1>1
    <3> QED BY <3>1, <3>2 DEF Edited, Ready
  <2> QED BY <1>1, <2>1, <2>2
<1>3. id \in HistoryIndex
  BY <1>1, LineFacts DEF Edited, Ready, HistoryIndex, Tty
<1>4. /\ Len(h) \in 0 .. BUFFER_SIZE - 1 /\ h \in Seq(Letter)
      /\ \A k \in 1 .. Len(h) : h[k] \in Letter
  <2>1. /\ \A k \in 0 .. BUFFER_SIZE - 1 : t.history_line_buf[id][k] \in Letter \cup {Nul}
        /\ t.history_line_buf[id][BUFFER_SIZE - 1] = Nul
    BY <1>3 DEF Edited, Ready
  <2>2. Len(h) \in 0 .. BUFFER_SIZE - 1 /\ h \in Seq(Letter)
    BY <2>1, HistoryString
  <2> HIDE DEF h
  <2> QED BY <2>2
<1> HIDE DEF h, e
<1>5. e.line_buffer \in [Index -> Cell]
  BY <1>2 DEF Tty
<1>6. b \in [Index -> Cell] /\ \A k \in 0 .. Len(h) - 1 : b[k] = h[k + 1]
  BY <1>4, <1>5, MemcpyType, LineFacts
<1> HIDE DEF b
<1>7. u = [e EXCEPT !.cur_buffer_id = id, !.line_buffer = b, !.count = Len(h),
                    !.char_location = Len(h)]
  BY DEF Loaded, b, e, h
<1>8. Len(h) \in Int /\ id \in Nat /\ Len(h) \in Nat
  BY <1>4, LineFacts
<1> HIDE DEF u
<1>9. u \in Tty
  BY <1>2, <1>6, <1>7, <1>8 DEF Tty
<1>10. /\ u.count = Len(h) /\ u.char_location = Len(h) /\ u.line_buffer = b
       /\ u.mem = e.mem /\ u.pos = e.pos /\ u.cur_buffer_id = id
       /\ u.read_open = e.read_open /\ u.enter_flag = e.enter_flag
       /\ u.history_line_buf = e.history_line_buf /\ u.buf_count = e.buf_count
  BY <1>2, <1>7 DEF Tty
<1>11. /\ u.read_open = t.read_open /\ u.enter_flag = t.enter_flag
       /\ u.history_line_buf = t.history_line_buf /\ u.buf_count = t.buf_count
  BY <1>2, <1>10 DEF SameRest
<1>12. \A k \in 0 .. Len(h) - 1 : b[k] \in Letter
  <2>1. \A k \in 0 .. Len(h) - 1 : k + 1 \in 1 .. Len(h)
    BY <1>8
  <2> QED BY <1>4, <1>6, <2>1
<1>13. Edited(u)
  BY <1>4, <1>8, <1>9, <1>10, <1>11, <1>12 DEF Edited, Ready
<1>14. First(b, Len(h)) = h
  <2>1. \A k \in 1 .. Len(h) : k - 1 \in 0 .. Len(h) - 1 /\ b[k - 1] = h[k]
    BY <1>6, <1>8
  <2>2. h = [k \in 1 .. Len(h) |-> h[k]]
    BY <1>4
  <2> QED BY <2>1, <2>2 DEF First
<1> QED BY <1>2, <1>4, <1>6, <1>10, <1>11, <1>13, <1>14 DEF u, h, e

\* A line of the history takes the place of the line.
LEMMA RecalledKeeps ==
    ASSUME NEW t, Edited(t), t.read_open = 1 => t.char_location = t.count,
           NEW id \in Nat, id <= t.buf_count
    PROVE  LET h == Str(t.history_line_buf[id])
               u == Recalled(t, id)
           IN  /\ Edited(u) /\ h \in Seq(Letter) /\ u.count = Len(h)
               /\ First(u.line_buffer, u.count) = h
               /\ u.read_open = t.read_open /\ u.enter_flag = t.enter_flag
               /\ u.history_line_buf = t.history_line_buf
               /\ u.buf_count = t.buf_count /\ u.cur_buffer_id = id
<1> DEFINE m == Loaded(t, id)
           b == m.line_buffer
           u == Recalled(t, id)
<1>1. t \in Tty
  BY DEF Edited, Ready
<1>2. Edited(m) /\ Erased(t) \in Tty /\ SameRest(t, Erased(t))
  BY LoadedKeeps
<1>3. u = puts_intr(m, Str(b))
  BY <1>1, <1>2, RecalledIs
<1> HIDE DEF m, u
<1>4. m \in Tty /\ Ready(m) /\ b \in [Index -> Cell]
  BY <1>2 DEF Edited, Ready, Tty
<1>5. u \in Tty /\ SameLine(m, u) /\ SameRest(m, u)
  BY <1>3, <1>4, CellString, PutsKeeps
<1>6. Edited(u)
  BY <1>2, <1>4, <1>5, ReadySame DEF Edited, SameLine
<1>7. /\ u.count = m.count /\ u.line_buffer = m.line_buffer
      /\ u.read_open = m.read_open /\ u.enter_flag = m.enter_flag
      /\ u.history_line_buf = m.history_line_buf
      /\ u.buf_count = m.buf_count /\ u.cur_buffer_id = m.cur_buffer_id
  BY <1>5 DEF SameLine, SameRest
<1>8. LET h == Str(t.history_line_buf[id])
      IN  /\ h \in Seq(Letter) /\ m.count = Len(h)
          /\ First(m.line_buffer, m.count) = h
          /\ m.read_open = t.read_open /\ m.enter_flag = t.enter_flag
          /\ m.history_line_buf = t.history_line_buf
          /\ m.buf_count = t.buf_count /\ m.cur_buffer_id = id
  BY LoadedKeeps DEF m
<1> QED BY <1>6, <1>7, <1>8 DEF u

\* The draft is stored in the history.
LEMMA DraftKeeps ==
    ASSUME NEW t, Edited(t)
    PROVE  LET u == WithDraft(t) IN
           /\ Edited(u) /\ SameLine(t, u)
           /\ u.read_open = t.read_open /\ u.enter_flag = t.enter_flag
           /\ u.buf_count = t.buf_count /\ u.cur_buffer_id = t.cur_buffer_id
           /\ u.mem = t.mem /\ u.pos = t.pos
           /\ \A h \in HistoryIndex :
                h # t.buf_count => u.history_line_buf[h] = t.history_line_buf[h]
           /\ t.cur_buffer_id = t.buf_count =>
                \A k \in 0 .. t.count - 1 :
                   u.history_line_buf[t.buf_count][k] = t.line_buffer[k]
<1> DEFINE u == WithDraft(t)
           H == t.history_line_buf
           s == First(t.line_buffer, t.count)
           d == memcpy(H[t.buf_count], s)
<1>1. /\ t \in Tty /\ t.count \in 0 .. BUFFER_SIZE - 1 /\ t.count \in Nat
      /\ t.buf_count \in HistoryIndex
      /\ H \in [HistoryIndex -> [0 .. BUFFER_SIZE - 1 -> Cell]]
  BY LineFacts DEF Edited, Ready, Tty, HistoryIndex
<1>2. CASE t.cur_buffer_id # t.buf_count
  BY <1>2 DEF WithDraft, SameLine
<1>3. CASE t.cur_buffer_id = t.buf_count
  <2>1. u = [t EXCEPT !.history_line_buf[t.buf_count] = d]
    BY <1>3 DEF WithDraft
  <2>2. /\ s \in Seq(Letter) /\ Len(s) = t.count
        /\ \A k \in 1 .. t.count : s[k] = t.line_buffer[k - 1] /\ s[k] \in Letter
    <3>1. \A k \in 0 .. t.count - 1 : t.line_buffer[k] \in Letter
      BY DEF Edited, Ready
    <3>2. /\ s \in Seq(Letter) /\ Len(s) = t.count
          /\ \A k \in 1 .. t.count : s[k] = t.line_buffer[k - 1]
      BY <1>1, <3>1, FirstOfLetters
    <3> HIDE DEF s
    <3> QED BY <3>2
  <2> HIDE DEF s
  <2>3. DOMAIN H[t.buf_count] = 0 .. BUFFER_SIZE - 1
    BY <1>1
  <2>4. d = [k \in 0 .. BUFFER_SIZE - 1 |-> IF k >= 0 /\ k < t.count THEN s[k + 1]
                                           ELSE H[t.buf_count][k]]
    BY <2>2, <2>3 DEF memcpy
  <2>5. \A k \in 0 .. BUFFER_SIZE - 1 :
           /\ H[t.buf_count][k] \in Letter \cup {Nul} /\ H[t.buf_count][BUFFER_SIZE - 1] = Nul
    BY <1>1 DEF Edited, Ready
  <2>6. ASSUME NEW k \in 0 .. BUFFER_SIZE - 1
        PROVE  d[k] \in Letter \cup {Nul} /\ (k < t.count => d[k] = t.line_buffer[k])
    <3>1. CASE k < t.count
      <4>1. k + 1 \in 1 .. t.count /\ (k + 1) - 1 = k
        BY <1>1, <3>1
      <4> QED BY <2>2, <2>4, <3>1, <4>1
    <3>2. CASE ~(k < t.count)
      BY <2>4, <2>5, <3>2
    <3> QED BY <3>1, <3>2
  <2>7. d[BUFFER_SIZE - 1] = Nul
    <3>1. BUFFER_SIZE - 1 \in 0 .. BUFFER_SIZE - 1 /\ ~(BUFFER_SIZE - 1 < t.count)
      BY <1>1, LineFacts
    <3> QED BY <2>4, <2>5, <3>1
  <2>8. d \in [0 .. BUFFER_SIZE - 1 -> Cell]
    BY <2>4, <2>6, LineFacts
  <2> HIDE DEF d, H
  <2>9. u \in Tty /\ u.history_line_buf = [H EXCEPT ![t.buf_count] = d]
    BY <1>1, <2>1, <2>8 DEF Tty, H
  <2> DEFINE G == u.history_line_buf
  <2>10. /\ G[t.buf_count] = d
         /\ \A h \in HistoryIndex : h # t.buf_count => G[h] = H[h]
    BY <1>1, <2>9
  <2>11. /\ u.line_buffer = t.line_buffer /\ u.count = t.count
         /\ u.char_location = t.char_location
         /\ u.read_open = t.read_open /\ u.enter_flag = t.enter_flag
         /\ u.buf_count = t.buf_count /\ u.cur_buffer_id = t.cur_buffer_id
         /\ u.mem = t.mem /\ u.pos = t.pos
    BY <1>1, <2>1 DEF Tty
  <2> HIDE DEF G, u
  <2>12. ASSUME NEW h \in HistoryIndex
         PROVE  /\ \A k \in 0 .. BUFFER_SIZE - 1 : G[h][k] \in Letter \cup {Nul}
                /\ G[h][BUFFER_SIZE - 1] = Nul
    <3>1. CASE h = t.buf_count
      BY <2>6, <2>7, <2>10, <3>1
    <3>2. CASE h # t.buf_count
      BY <2>10, <3>2 DEF Edited, Ready, H
    <3> QED BY <3>1, <3>2
  <2>13. Edited(u)
    BY <2>9, <2>11, <2>12 DEF Edited, Ready, G
  <2>14. \A k \in 0 .. t.count - 1 : k \in 0 .. BUFFER_SIZE - 1 /\ k < t.count
    BY <1>1, LineFacts
  <2> QED BY <2>6, <2>10, <2>11, <2>13, <2>14 DEF SameLine, G, H, u
<1> QED BY <1>2, <1>3

----------------------------------------------------------------------------
(* TypeOK and ReturnsLine: the invariant                                   *)

\* No key falls on a line of an earlier read, or between Enter and the return of
\* the read, none passes the left end of the line, and Tab adds only characters
\* that show.
Orderly == Env \cap {"FrontErase", "TypeAhead", "KilledRead", "StackControl"} = {}

\* Under LInv a key finds a program that waits, or none that reads.
LEMMA KeyFinds ==
    ASSUME LInv, Orderly, Attended
    PROVE  /\ Edited(tty) /\ tty.enter_flag = 0 /\ prog.buf = << >>
           /\ \/ Waiting /\ tty.read_open = 1
              \/ Unread /\ ~Waiting /\ tty.read_open = 0
BY DEF LInv, Orderly, Attended, Waiting, Unread, Phases, Edited

\* Whatever a key does to the line, if it is in good order afterwards and Enter was
\* not pressed the invariant is kept.
LEMMA KeyKeeps ==
    ASSUME LInv, Orderly, NEW t, Key(t), Edited(t),
           t.read_open = tty.read_open, t.enter_flag = tty.enter_flag, SeenOK'
    PROVE  LInv'
<1>1. /\ Edited(tty) /\ tty.enter_flag = 0 /\ prog.buf = << >>
      /\ \/ Waiting /\ tty.read_open = 1
         \/ Unread /\ ~Waiting /\ tty.read_open = 0
  BY KeyFinds DEF Key
<1>2. tty' = t /\ prog \in Prog
  BY DEF Key, LInv
<1>3. prog' \in Prog /\ prog'.pc = prog.pc /\ prog'.buf = prog.buf
      /\ (prog.pc = "wait" => prog'.i = prog.i)
  BY <1>2 DEF Key, Unread, Prog
<1>4. Ready(tty)' /\ tty'.enter_flag = 0 /\ tty'.char_location <= tty'.count
      /\ tty'.read_open = tty.read_open
  BY <1>1, <1>2 DEF Edited, Ready
<1>5. prog.pc \in {"run", "prompted", "wait"}
      /\ (prog.pc = "wait" => tty.read_open = 1 /\ prog.i = 0)
  BY <1>1 DEF Waiting, Unread, LInv, Phases
<1>6. Phases'
  BY <1>1, <1>3, <1>4, <1>5 DEF Phases
<1> QED BY <1>3, <1>4, <1>6 DEF LInv

LEMMA TypeKeeps ==
    ASSUME LInv, Orderly, NEW c \in Typed, Type(c)
    PROVE  LInv'
<1>1. PICK t : t = Put(tty, c)
  OBVIOUS
<1>2. Key(t) /\ seen' = seen
  BY <1>1 DEF Type
<1>3. Edited(tty)
  BY <1>2, KeyFinds DEF Key
<1>4. c \in Letter \cup {"backspace"} /\ c # "backspace"
  BY LineFacts
<1>5. Edited(t) /\ SameRest(tty, t)
  BY <1>1, <1>3, <1>4, PutKeeps
<1>6. SeenOK'
  BY <1>2 DEF LInv, SeenOK
<1> QED BY <1>2, <1>5, <1>6, KeyKeeps DEF SameRest

LEMMA BackspaceKeeps ==
    ASSUME LInv, Orderly, Backspace
    PROVE  LInv'
<1>1. PICK t : t = Put(tty, "backspace")
  OBVIOUS
<1>2. Key(t) /\ seen' = seen /\ (tty.count = 0 \/ tty.char_location > 0)
  BY <1>1 DEF Backspace, Orderly
<1>3. Edited(tty)
  BY <1>2, KeyFinds DEF Key
<1>5. Edited(t) /\ SameRest(tty, t)
  BY <1>1, <1>2, <1>3, PutKeeps
<1>6. SeenOK'
  BY <1>2 DEF LInv, SeenOK
<1> QED BY <1>2, <1>5, <1>6, KeyKeeps DEF SameRest

\* Enter records the line in entered, and terminal_read finds it in the buffer.
LEMMA EnterKeeps ==
    ASSUME LInv, Orderly, Enter
    PROVE  LInv'
<1>1. PICK t : t = Put(tty, "newline")
  OBVIOUS
<1>2. /\ Key(t) /\ (tty.count > 0 => tty.buf_count < HISTORY_SIZE - 1)
      /\ seen' = IF Waiting THEN [seen EXCEPT !.entered = {Text}, !.draft = {}] ELSE seen
  BY <1>1 DEF Enter
<1>3. /\ Edited(tty) /\ tty.enter_flag = 0 /\ prog.buf = << >>
      /\ \/ Waiting /\ tty.read_open = 1
         \/ Unread /\ ~Waiting /\ tty.read_open = 0
  BY <1>2, KeyFinds DEF Key
<1>4. CASE Unread /\ ~Waiting /\ tty.read_open = 0
  <2>1. tty \in Tty
    BY <1>3 DEF Edited, Ready
  <2>2. t \in Tty /\ SameLine(tty, t) /\ SameRest(tty, t)
    BY <1>1, <1>4, <2>1, PutUnread
  <2>3. Edited(t)
    BY <1>3, <2>2, ReadySame DEF Edited, SameLine
  <2>4. SeenOK'
    BY <1>2, <1>4 DEF LInv, SeenOK
  <2> QED BY <1>2, <2>2, <2>3, <2>4, KeyKeeps DEF SameRest
<1>5. CASE Waiting /\ tty.read_open = 1
  <2>1. /\ Edited(t)
        /\ t = [tty EXCEPT !.line_buffer[tty.count] = "newline", !.enter_flag = 1,
                           !.mem = t.mem, !.pos = t.pos]
    BY <1>1, <1>3, <1>5, PutEnter
  <2>2. /\ tty \in Tty /\ tty.count \in Nat /\ tty.count < BUFFER_SIZE
        /\ \A k \in 0 .. tty.count - 1 : tty.line_buffer[k] \in Letter
    BY <1>3, LineFacts DEF Edited, Ready
  <2>3. /\ t.line_buffer = [tty.line_buffer EXCEPT ![tty.count] = "newline"]
        /\ t.count = tty.count /\ t.enter_flag = 1 /\ t.buf_count = tty.buf_count
        /\ t.read_open = 1
    BY <1>5, <2>1, <2>2 DEF Tty
  <2>4. tty' = t /\ prog' = prog /\ prog.pc = "wait"
    BY <1>2, <1>5 DEF Key, Waiting, Unread
  <2>5. First(t.line_buffer, t.count) = First(tty.line_buffer, tty.count)
    <3>1. tty.line_buffer \in [Index -> Cell]
      BY <2>2 DEF Tty
    <3>2. \A k \in 1 .. tty.count : k - 1 \in Index /\ k - 1 # tty.count
      BY <2>2, LineFacts DEF Index
    <3>3. \A k \in 1 .. tty.count : t.line_buffer[k - 1] = tty.line_buffer[k - 1]
      BY <2>3, <3>1, <3>2
    <3> QED BY <2>3, <3>3 DEF First
  <2>6. Text' = Text
    BY <2>4, <2>5 DEF Text
  <2>7. Text \in Seq(Letter)
    BY <2>2, FirstOfLetters DEF Text
  <2>8. seen' = [seen EXCEPT !.entered = {Text}, !.draft = {}]
    BY <1>2, <1>5
  <2> HIDE DEF Text
  <2>9. SeenOK' /\ seen'.entered = {Text'}
    BY <2>6, <2>7, <2>8 DEF LInv, SeenOK
  <2>10. Ready(tty)' /\ tty'.char_location <= tty'.count
    BY <2>1, <2>4 DEF Edited, Ready
  <2>11. prog'.i = 0 /\ prog'.buf = << >> /\ prog' \in Prog
    BY <2>4 DEF LInv, Phases
  <2>12. Phases'
    BY <1>2, <2>3, <2>4, <2>9, <2>10, <2>11 DEF Phases
  <2> QED BY <2>9, <2>10, <2>11, <2>12 DEF LInv
<1> QED BY <1>3, <1>4, <1>5

LEMMA CursorKeeps ==
    ASSUME LInv, Orderly, CURSOR_LEFT \/ CURSOR_RIGHT
    PROVE  LInv'
<1>1. seen' = seen /\ SeenOK'
  BY DEF CURSOR_LEFT, CURSOR_RIGHT, LInv, SeenOK
<1>2. Attended
  BY DEF CURSOR_LEFT, CURSOR_RIGHT, Key
<1>3. Edited(tty)
  BY <1>2, KeyFinds
<1>4. /\ tty \in Tty /\ tty.pos \in Position /\ tty.count \in 0 .. BUFFER_SIZE - 1
      /\ tty.char_location \in 0 .. tty.count /\ tty.count \in Nat
  BY <1>3, LineFacts DEF Edited, Ready, Tty
<1>5. CASE CURSOR_LEFT
  <2>1. PICK t : t = [tty EXCEPT !.pos = Back(@), !.char_location = @ - 1]
    OBVIOUS
  <2>2. Key(t) /\ tty.char_location # 0 /\ tty.pos # Origin
    BY <1>5, <2>1 DEF CURSOR_LEFT
  <2>3. /\ Back(tty.pos) \in Position /\ tty.char_location - 1 \in 0 .. tty.count
        /\ tty.char_location - 1 \in Int /\ tty.char_location - 1 \in 0 .. BUFFER_SIZE - 1
    BY <1>4, <2>2, PositionFacts, LineFacts
  <2>4. t \in Tty
    BY <1>4, <2>1, <2>3 DEF Tty
  <2>5. t.count = tty.count /\ t.char_location = tty.char_location - 1
        /\ t.line_buffer = tty.line_buffer /\ SameRest(tty, t)
    BY <1>4, <2>1 DEF Tty, SameRest
  <2>6. Edited(t)
    BY <1>3, <1>4, <2>3, <2>4, <2>5 DEF Edited, Ready, SameRest
  <2> QED BY <1>1, <2>2, <2>5, <2>6, KeyKeeps DEF SameRest
<1>6. CASE CURSOR_RIGHT
  <2>1. PICK t : t = [tty EXCEPT !.pos = Forward(@), !.char_location = @ + 1]
    OBVIOUS
  <2>2. Key(t) /\ tty.char_location # tty.count /\ tty.pos # Corner
    BY <1>6, <2>1 DEF CURSOR_RIGHT
  <2>3. /\ Forward(tty.pos) \in Position /\ tty.char_location + 1 \in 0 .. tty.count
        /\ tty.char_location + 1 \in Int /\ tty.char_location + 1 \in 0 .. BUFFER_SIZE - 1
    BY <1>4, <2>2, PositionFacts, LineFacts
  <2>4. t \in Tty
    BY <1>4, <2>1, <2>3 DEF Tty
  <2>5. t.count = tty.count /\ t.char_location = tty.char_location + 1
        /\ t.line_buffer = tty.line_buffer /\ SameRest(tty, t)
    BY <1>4, <2>1 DEF Tty, SameRest
  <2>6. Edited(t)
    BY <1>3, <1>4, <2>3, <2>4, <2>5 DEF Edited, Ready, SameRest
  <2> QED BY <1>1, <2>2, <2>5, <2>6, KeyKeeps DEF SameRest
<1> QED BY <1>5, <1>6

\* The text of a line in good order is a string of letters.
LEMMA TextOf ==
    ASSUME NEW t, Ready(t)
    PROVE  /\ First(t.line_buffer, t.count) \in Seq(Letter)
           /\ Len(First(t.line_buffer, t.count)) = t.count
           /\ \A k \in 1 .. t.count : First(t.line_buffer, t.count)[k] = t.line_buffer[k - 1]
<1>1. t.count \in Nat /\ \A k \in 0 .. t.count - 1 : t.line_buffer[k] \in Letter
  BY LineFacts DEF Ready
<1> QED BY <1>1, FirstOfLetters

LEMMA HistoryKeeps ==
    ASSUME LInv, Orderly, CURSOR_UP \/ CURSOR_DOWN
    PROVE  LInv'
<1>1. Attended /\ AtEnd
  BY DEF CURSOR_UP, CURSOR_DOWN, Recall, Key
<1>2. Edited(tty) /\ tty.char_location = tty.count
  BY <1>1, KeyFinds DEF AtEnd, Orderly
<1>3. /\ tty.cur_buffer_id \in Nat /\ tty.buf_count \in Nat
      /\ tty.cur_buffer_id <= tty.buf_count
  BY <1>2 DEF Edited, Ready, Tty
<1>4. CASE CURSOR_UP
  <2>1. PICK d : d = WithDraft(tty)
    OBVIOUS
  <2>2. PICK id : id = tty.cur_buffer_id - 1
    OBVIOUS
  <2>3. PICK t : t = Recalled(d, id)
    OBVIOUS
  <2>4. /\ Key(t) /\ tty.cur_buffer_id # 0
        /\ seen' = IF tty.cur_buffer_id = tty.buf_count THEN [seen EXCEPT !.draft = {Text}]
                                                        ELSE seen
    BY <1>4, <2>1, <2>2, <2>3 DEF CURSOR_UP, Recall
  <2>5. /\ Edited(d) /\ d.char_location = d.count /\ d.buf_count = tty.buf_count
        /\ d.read_open = tty.read_open /\ d.enter_flag = tty.enter_flag
    BY <1>2, <2>1, DraftKeeps DEF SameLine
  <2>6. id \in Nat /\ id <= d.buf_count
    BY <1>3, <2>2, <2>4, <2>5
  <2>7. Edited(t) /\ t.read_open = tty.read_open /\ t.enter_flag = tty.enter_flag
    BY <2>3, <2>5, <2>6, RecalledKeeps
  <2>8. Text \in Seq(Letter)
    BY <1>2, TextOf DEF Edited, Text
  <2>9. SeenOK'
    BY <2>4, <2>8 DEF LInv, SeenOK
  <2> QED BY <2>4, <2>7, <2>9, KeyKeeps
<1>5. CASE CURSOR_DOWN
  <2>2. PICK id : id = tty.cur_buffer_id + 1
    OBVIOUS
  <2>3. PICK t : t = Recalled(tty, id)
    OBVIOUS
  <2>4. Key(t) /\ tty.cur_buffer_id # tty.buf_count /\ seen' = seen
    BY <1>5, <2>2, <2>3 DEF CURSOR_DOWN, Recall
  <2>6. id \in Nat /\ id <= tty.buf_count
    BY <1>3, <2>2, <2>4
  <2>7. Edited(t) /\ t.read_open = tty.read_open /\ t.enter_flag = tty.enter_flag
    BY <1>2, <2>3, <2>6, RecalledKeeps
  <2>9. SeenOK'
    BY <2>4 DEF LInv, SeenOK
  <2> QED BY <2>4, <2>7, <2>9, KeyKeeps
<1> QED BY <1>4, <1>5

\* The line that Tab leaves is in good order.
LEMMA CompletedKeeps ==
    ASSUME NEW t, Edited(t), t.char_location = t.count, NEW s \in Seq(Letter)
    PROVE  /\ Edited(PutAll(Erased(t), s)) /\ SameRest(t, PutAll(Erased(t), s))
<1> DEFINE e == Erased(t)
           u == PutAll(e, s)
<1>1. t \in Tty /\ t.read_open \in {0, 1} /\ t.count \in Nat
  BY LineFacts DEF Edited, Ready, Tty
<1>2. Edited(e) /\ SameRest(t, e)
  <2>1. CASE t.read_open = 0
    <3>1. e \in Tty /\ SameLine(t, e) /\ SameRest(t, e)
      BY <1>1, <2>1, ErasedUnread
    <3> QED BY <3>1, ReadySame DEF Edited, SameLine
  <2>2. CASE t.read_open = 1
    <3>1. PICK f : /\ Erased(t) = f[t.count]
                   /\ \A k \in 0 .. t.count : Edited(f[k]) /\ SameRest(t, f[k])
      BY <2>2, ErasedSteps
    <3>2. t.count \in 0 .. t.count
      BY <1>1
    <3> QED BY <3>1, <3>2
  <2> QED BY <1>1, <2>1, <2>2
<1> HIDE DEF e
<1>3. PICK f : /\ PutAll(e, s) = f[Len(s)]
               /\ \A k \in 0 .. Len(s) : Edited(f[k]) /\ SameRest(e, f[k])
  BY <1>2, TypedSteps
<1>4. Len(s) \in 0 .. Len(s)
  OBVIOUS
<1>5. Edited(u) /\ SameRest(e, u)
  BY <1>3, <1>4
<1> QED BY <1>2, <1>5, SameRestTrans DEF e

LEMMA TabKeeps ==
    ASSUME LInv, Orderly, Tab
    PROVE  LInv'
<1>1. PICK f \in find_similar_file(Str(tty.line_buffer)), junk \in Junk :
         /\ junk \in Seq(Glyph \cup {Space}) \/ "StackControl" \in Env
         /\ Key(PutAll(Erased(tty), f \o junk))
  BY DEF Tab
<1>2. PICK t : t = PutAll(Erased(tty), f \o junk)
  OBVIOUS
<1>3. Edited(tty) /\ tty.char_location = tty.count
  BY <1>1, KeyFinds DEF Key, Tab, AtEnd, Orderly
<1>4. f \in Seq(Letter) /\ junk \in Seq(Letter)
  <2>1. f \in ExeFiles
    BY DEF find_similar_file
  <2>2. f \in Seq(Glyph) /\ junk \in Seq(Glyph \cup {Space})
    BY <1>1, <2>1, LineInputAssumption DEF Orderly
  <2> QED BY <2>2 DEF Letter
<1>5. f \o junk \in Seq(Letter)
  BY <1>4
<1>6. Edited(t) /\ SameRest(tty, t)
  BY <1>2, <1>3, <1>5, CompletedKeeps
<1>7. SeenOK'
  BY DEF Tab, LInv, SeenOK
<1> QED BY <1>1, <1>2, <1>6, <1>7, KeyKeeps DEF SameRest

LEMMA ClearKeeps ==
    ASSUME LInv, Orderly, ClearScreen
    PROVE  LInv'
<1>1. PICK t : t = [tty EXCEPT !.mem = Cleared(@), !.pos = Origin]
  OBVIOUS
<1>2. Key(t) /\ seen' = [seen EXCEPT !.start = 0, !.before = Cleared(@)]
  BY <1>1 DEF ClearScreen
<1>3. Edited(tty)
  BY <1>2, KeyFinds DEF Key
<1>4. /\ tty \in Tty /\ tty.mem \in [0 .. Last -> ScreenCell]
      /\ seen.before \in [0 .. Last -> ScreenCell]
  BY <1>3 DEF Edited, Ready, Tty, ScreenCell, LInv, SeenOK
<1>5. /\ Last \in Nat /\ Last <= Last /\ Origin \in Position /\ 0 \in 0 .. Last
      /\ \A M \in [0 .. Last -> ScreenCell] : Cleared(M) \in [0 .. Last -> ScreenCell]
  BY ScreenFacts, PositionFacts, ScrollTypes
<1>6. t \in Tty /\ SameLine(tty, t) /\ SameRest(tty, t)
  BY <1>1, <1>4, <1>5 DEF Tty, ScreenCell, SameLine, SameRest
<1>7. Edited(t)
  BY <1>3, <1>6, ReadySame DEF Edited, SameLine
<1>8. SeenOK'
  BY <1>2, <1>4, <1>5 DEF LInv, SeenOK
<1> QED BY <1>2, <1>6, <1>7, <1>8, KeyKeeps DEF SameRest

\* The program prints, and begins to read.
LEMMA WriteKeeps ==
    ASSUME LInv, Write
    PROVE  LInv'
<1>1. PICK r : r = putc(tty.mem, tty.pos, Prompt)
  OBVIOUS
<1>2. /\ tty' = [tty EXCEPT !.mem = r.mem, !.pos = r.pos] /\ seen' = seen
      /\ prog.pc = "run" /\ prog' = [prog EXCEPT !.pc = "prompted"]
  BY <1>1 DEF Write
<1>3. tty \in Tty /\ tty.mem \in [0 .. Last -> ScreenCell] /\ tty.pos \in Position
  BY DEF LInv, Ready, Tty, ScreenCell
<1>4. Last \in Nat /\ Last <= Last /\ Prompt \in Printed
  BY ScreenFacts, LineInputAssumption DEF Printed
<1>5. r.mem \in [0 .. Last -> ScreenCell] /\ r.pos \in Position
  BY <1>1, <1>3, <1>4, PutcTypes
<1>6. PICK t : t = [tty EXCEPT !.mem = r.mem, !.pos = r.pos]
  OBVIOUS
<1>7. t \in Tty /\ SameLine(tty, t) /\ SameRest(tty, t)
  BY <1>3, <1>5, <1>6 DEF Tty, ScreenCell, SameLine, SameRest
<1>8. Ready(t)
  BY <1>7, ReadySame DEF LInv
<1>9. /\ tty' = t /\ t.enter_flag = tty.enter_flag /\ t.char_location = tty.char_location
      /\ t.count = tty.count
  BY <1>2, <1>6, <1>7 DEF SameLine, SameRest
<1>10. Ready(tty)' /\ SeenOK'
  BY <1>2, <1>8, <1>9 DEF LInv, SeenOK, Ready
<1>11. prog' \in Prog /\ prog'.pc = "prompted" /\ prog'.buf = prog.buf
  BY <1>2 DEF LInv, Prog, pcs
<1>12. tty.enter_flag = 0 /\ prog.buf = << >> /\ tty.char_location <= tty.count
  BY <1>2 DEF LInv, Phases
<1>13. Phases'
  BY <1>9, <1>11, <1>12 DEF Phases
<1> QED BY <1>10, <1>11, <1>13 DEF LInv

LEMMA ReadBegins ==
    ASSUME LInv, NEW nbytes \in Nbytes, terminal_read(nbytes)
    PROVE  LInv'
<1>1. /\ tty' = [tty EXCEPT !.read_open = 1] /\ prog.pc = "prompted"
      /\ prog' = [prog EXCEPT !.pc = "wait", !.nbytes = nbytes, !.i = 0]
      /\ seen' = [seen EXCEPT !.start = At(tty.pos), !.before = tty.mem, !.draft = {}]
  BY DEF terminal_read
<1>2. tty \in Tty /\ tty.mem \in [0 .. Last -> ScreenCell] /\ tty.pos \in Position
  BY DEF LInv, Ready, Tty, ScreenCell
<1>3. tty' \in Tty /\ SameLine(tty, tty') /\ tty'.read_open = 1
      /\ tty'.enter_flag = tty.enter_flag
      /\ tty'.history_line_buf = tty.history_line_buf
      /\ tty'.buf_count = tty.buf_count /\ tty'.cur_buffer_id = tty.cur_buffer_id
  BY <1>1, <1>2 DEF Tty, SameLine
<1>4. Ready(tty)'
  BY <1>3 DEF LInv, Ready, SameLine
<1>5. At(tty.pos) \in 0 .. Last
  BY <1>2, AtFacts
<1>6. SeenOK'
  BY <1>1, <1>2, <1>5 DEF LInv, SeenOK
<1>7. nbytes \in Nat
  BY LineInputAssumption
<1>8. prog' \in Prog /\ prog'.pc = "wait" /\ prog'.i = 0 /\ prog'.buf = prog.buf
  BY <1>1, <1>7 DEF LInv, Prog, pcs
<1>9. tty.enter_flag = 0 /\ prog.buf = << >> /\ tty.char_location <= tty.count
  BY <1>1 DEF LInv, Phases
<1>10. Phases'
  BY <1>3, <1>8, <1>9 DEF Phases, SameLine
<1> QED BY <1>4, <1>6, <1>8, <1>10 DEF LInv

LEMMA WakeKeeps ==
    ASSUME LInv, Wake
    PROVE  LInv'
<1>1. /\ prog.pc = "wait" /\ tty.enter_flag = 1 /\ tty' = tty /\ seen' = seen
      /\ prog' = [prog EXCEPT !.pc = "copy", !.n = AtMost(tty.count, prog.nbytes)]
  BY DEF Wake
<1>2. /\ tty.count \in Nat /\ prog.nbytes \in Nat /\ prog.i = 0 /\ prog.buf = << >>
      /\ seen.entered = {Text} /\ tty.char_location <= tty.count
      /\ (tty.count > 0 => tty.buf_count < HISTORY_SIZE - 1)
  BY <1>1, LineFacts DEF LInv, Phases, Ready, Prog
<1>3. AtMost(tty.count, prog.nbytes) \in Nat
  BY <1>2 DEF AtMost
<1>4. /\ prog' \in Prog /\ prog'.pc = "copy" /\ prog'.i = 0 /\ prog'.buf = << >>
      /\ prog'.n = AtMost(tty.count, prog.nbytes) /\ prog'.nbytes = prog.nbytes
  <2>1. PICK m \in Nat : m = AtMost(tty.count, prog.nbytes)
    BY <1>3
  <2>2. prog \in Prog /\ prog' = [prog EXCEPT !.pc = "copy", !.n = m] /\ m \in Int
    BY <1>1, <2>1 DEF LInv
  <2> QED BY <1>2, <2>1, <2>2 DEF Prog, pcs
<1>5. First(tty.line_buffer, 0) = << >>
  BY DEF First
<1>6. Text' = Text
  BY <1>1 DEF Text
<1>7. Phases'
  BY <1>1, <1>2, <1>3, <1>4, <1>5, <1>6 DEF Phases
<1>8. Ready(tty)' /\ SeenOK'
  BY <1>1 DEF LInv, Ready, SeenOK
<1> QED BY <1>4, <1>7, <1>8 DEF LInv

\* What a terminal that copies knows.
LEMMA Copying ==
    ASSUME LInv, prog.pc = "copy"
    PROVE  /\ tty \in Tty /\ tty.count \in 0 .. BUFFER_SIZE - 1 /\ tty.count \in Nat
           /\ prog.nbytes \in Nat /\ prog.i \in Nat
           /\ prog.n = AtMost(tty.count, prog.nbytes)
           /\ prog.n \in 0 .. tty.count /\ prog.n \in 0 .. BUFFER_SIZE - 1
           /\ prog.i \in 0 .. prog.n
           /\ prog.buf = First(tty.line_buffer, prog.i)
           /\ prog.buf \in Seq(Letter) /\ Len(prog.buf) = prog.i
           /\ tty.buf_count \in HistoryIndex /\ tty.enter_flag = 1
           /\ tty.char_location <= tty.count
           /\ seen.entered = {Text}
           /\ tty.count > 0 => tty.buf_count < HISTORY_SIZE - 1
<1>1. /\ tty \in Tty /\ tty.count \in 0 .. BUFFER_SIZE - 1 /\ tty.count \in Nat
      /\ prog.nbytes \in Nat /\ prog.i \in Nat /\ tty.buf_count \in HistoryIndex
      /\ \A k \in 0 .. tty.count - 1 : tty.line_buffer[k] \in Letter
  BY LineFacts DEF LInv, Ready, Prog, Tty, HistoryIndex
<1>2. /\ prog.n = AtMost(tty.count, prog.nbytes) /\ prog.i <= prog.n
      /\ prog.buf = First(tty.line_buffer, prog.i) /\ tty.enter_flag = 1
      /\ tty.char_location <= tty.count /\ seen.entered = {Text}
      /\ (tty.count > 0 => tty.buf_count < HISTORY_SIZE - 1)
  BY DEF LInv, Phases
<1>3. /\ prog.n \in 0 .. tty.count /\ prog.i \in 0 .. prog.n
      /\ prog.n \in 0 .. BUFFER_SIZE - 1
  BY <1>1, <1>2, LineFacts DEF AtMost
<1>4. \A k \in 0 .. prog.i - 1 : tty.line_buffer[k] \in Letter
  BY <1>1, <1>3
<1>5. prog.buf \in Seq(Letter) /\ Len(prog.buf) = prog.i
  BY <1>1, <1>2, <1>4, FirstOfLetters
<1> QED BY <1>1, <1>2, <1>3, <1>5

\* One more of the first cells of a buffer.
LEMMA FirstMore ==
    ASSUME NEW b, NEW n \in Nat, \A k \in 0 .. n : b[k] \in Letter
    PROVE  Append(First(b, n), b[n]) = First(b, n + 1)
<1>1. /\ First(b, n) \in Seq(Letter) /\ Len(First(b, n)) = n
      /\ \A k \in 1 .. n : First(b, n)[k] = b[k - 1]
  BY FirstOfLetters
<1>2. /\ First(b, n + 1) \in Seq(Letter) /\ Len(First(b, n + 1)) = n + 1
      /\ \A k \in 1 .. n + 1 : First(b, n + 1)[k] = b[k - 1]
  BY FirstOfLetters
<1> DEFINE s == Append(First(b, n), b[n])
<1>3. b[n] \in Letter /\ (n + 1) - 1 = n
  OBVIOUS
<1>4. /\ s \in Seq(Letter) /\ Len(s) = n + 1 /\ s[n + 1] = b[n]
      /\ \A k \in 1 .. n : s[k] = First(b, n)[k]
  BY <1>1, <1>3, AppendProperties
<1> HIDE DEF s
<1>5. \A k \in 1 .. n + 1 : s[k] = b[k - 1]
  <2>1. ASSUME NEW k \in 1 .. n + 1 PROVE s[k] = b[k - 1]
    <3>1. CASE k = n + 1
      BY <1>3, <1>4, <3>1
    <3>2. CASE k # n + 1
      <4>1. k \in 1 .. n
        BY <3>2
      <4> QED BY <1>1, <1>4, <4>1
    <3> QED BY <3>1, <3>2
  <2> QED BY <2>1
<1>6. s = First(b, n + 1)
  BY <1>2, <1>4, <1>5
<1> QED BY <1>6 DEF s

LEMMA CopyKeeps ==
    ASSUME LInv, Copy
    PROVE  LInv'
<1>1. PICK c : c = tty.line_buffer[prog.i]
  OBVIOUS
<1>2. PICK i : i = prog.i
  OBVIOUS
<1>3. PICK b : b = tty.buf_count
  OBVIOUS
<1>4. PICK H : H = tty.history_line_buf
  OBVIOUS
<1>5. /\ prog.pc = "copy" /\ i < prog.n /\ seen' = seen
      /\ prog' = [prog EXCEPT !.buf = Append(@, c), !.i = @ + 1]
      /\ tty' = [tty EXCEPT !.history_line_buf[b][i] = c]
  BY <1>1, <1>2, <1>3 DEF Copy
<1>6. /\ tty \in Tty /\ tty.count \in 0 .. BUFFER_SIZE - 1 /\ tty.count \in Nat
      /\ prog.nbytes \in Nat /\ i \in Nat /\ prog.n = AtMost(tty.count, prog.nbytes)
      /\ prog.n \in 0 .. tty.count /\ i \in 0 .. prog.n
      /\ prog.buf = First(tty.line_buffer, i) /\ prog.buf \in Seq(Letter)
      /\ b \in HistoryIndex /\ tty.enter_flag = 1 /\ tty.char_location <= tty.count
      /\ seen.entered = {Text} /\ (tty.count > 0 => tty.buf_count < HISTORY_SIZE - 1)
  BY <1>2, <1>3, <1>5, Copying
<1>7. /\ H \in [HistoryIndex -> [0 .. BUFFER_SIZE - 1 -> Cell]]
      /\ \A h \in HistoryIndex :
           /\ \A k \in 0 .. BUFFER_SIZE - 1 : H[h][k] \in Letter \cup {Nul}
           /\ H[h][BUFFER_SIZE - 1] = Nul
      /\ \A k \in 0 .. tty.count - 1 : tty.line_buffer[k] \in Letter
  BY <1>4, <1>6 DEF LInv, Ready, Tty
<1>8. i \in 0 .. BUFFER_SIZE - 2 /\ c \in Letter /\ c \in Cell
  <2>1. i \in 0 .. tty.count - 1 /\ i \in 0 .. BUFFER_SIZE - 2
    BY <1>5, <1>6, LineFacts
  <2> QED BY <1>1, <1>2, <1>7, <2>1, LineFacts
<1>9. PICK d : d = [H[b] EXCEPT ![i] = c]
  OBVIOUS
<1>10. /\ d \in [0 .. BUFFER_SIZE - 1 -> Cell]
       /\ \A k \in 0 .. BUFFER_SIZE - 1 : d[k] = IF k = i THEN c ELSE H[b][k]
  BY <1>6, <1>7, <1>8, <1>9
<1>11. /\ \A k \in 0 .. BUFFER_SIZE - 1 : d[k] \in Letter \cup {Nul}
       /\ d[BUFFER_SIZE - 1] = Nul
  <2>1. ASSUME NEW k \in 0 .. BUFFER_SIZE - 1 PROVE d[k] \in Letter \cup {Nul}
    BY <1>6, <1>7, <1>8, <1>10
  <2>2. BUFFER_SIZE - 1 # i /\ BUFFER_SIZE - 1 \in 0 .. BUFFER_SIZE - 1
    BY <1>8, LineFacts
  <2>3. H[b][BUFFER_SIZE - 1] = Nul
    BY <1>6, <1>7
  <2> QED BY <1>10, <2>1, <2>2, <2>3
<1>12. tty' = [tty EXCEPT !.history_line_buf = [H EXCEPT ![b] = d]]
  BY <1>4, <1>5, <1>6, <1>9 DEF Tty
<1>13. /\ [H EXCEPT ![b] = d] \in [HistoryIndex -> [0 .. BUFFER_SIZE - 1 -> Cell]]
       /\ \A h \in HistoryIndex : [H EXCEPT ![b] = d][h] = IF h = b THEN d ELSE H[h]
  BY <1>6, <1>7, <1>10
<1>14. PICK G : G = [H EXCEPT ![b] = d]
  OBVIOUS
<1>15. \A h \in HistoryIndex :
         /\ \A k \in 0 .. BUFFER_SIZE - 1 : G[h][k] \in Letter \cup {Nul}
         /\ G[h][BUFFER_SIZE - 1] = Nul
  BY <1>7, <1>11, <1>13, <1>14
<1>16. /\ tty' \in Tty /\ SameLine(tty, tty') /\ tty'.history_line_buf = G
       /\ tty'.read_open = tty.read_open /\ tty'.enter_flag = tty.enter_flag
       /\ tty'.buf_count = tty.buf_count /\ tty'.cur_buffer_id = tty.cur_buffer_id
  BY <1>6, <1>12, <1>13, <1>14 DEF Tty, SameLine
<1>17. Ready(tty)'
  BY <1>15, <1>16 DEF LInv, Ready, SameLine
<1>18. Append(prog.buf, c) = First(tty.line_buffer, i + 1) /\ Append(prog.buf, c) \in Seq(Cell)
  <2>1. \A k \in 0 .. i : tty.line_buffer[k] \in Letter
    BY <1>5, <1>6, <1>7
  <2>2. Append(prog.buf, c) = First(tty.line_buffer, i + 1)
    BY <1>1, <1>2, <1>6, <2>1, FirstMore
  <2>3. Append(prog.buf, c) \in Seq(Letter)
    BY <1>6, <1>8, AppendProperties
  <2>4. \A s \in Seq(Letter) : s \in Seq(Cell)
    BY LineFacts
  <2> QED BY <2>2, <2>3, <2>4
<1>19. /\ prog' \in Prog /\ prog'.pc = "copy" /\ prog'.n = prog.n /\ prog'.i = i + 1
       /\ prog'.nbytes = prog.nbytes /\ prog'.buf = First(tty.line_buffer, i + 1)
  <2>1. PICK s \in Seq(Cell) : s = Append(prog.buf, c)
    BY <1>18
  <2>2. prog \in Prog /\ prog' = [prog EXCEPT !.buf = s, !.i = i + 1] /\ i + 1 \in Nat
    BY <1>2, <1>5, <1>6, <2>1 DEF LInv, Prog
  <2> QED BY <1>5, <1>18, <2>1, <2>2 DEF Prog
<1>20. Text' = Text
  BY <1>16 DEF Text, SameLine
<1>21. i + 1 <= prog.n
  BY <1>5, <1>6
<1>22. Phases'
  BY <1>5, <1>6, <1>16, <1>19, <1>20, <1>21 DEF Phases, SameLine
<1>23. SeenOK'
  BY <1>5 DEF LInv, SeenOK
<1> QED BY <1>17, <1>19, <1>22, <1>23 DEF LInv

\* The line in the history ends in the buffer, and is empty if nothing was copied.
LEMMA EndedKeeps ==
    ASSUME NEW h \in [0 .. BUFFER_SIZE - 1 -> Cell], NEW n \in 0 .. BUFFER_SIZE - 1,
           \A k \in 0 .. BUFFER_SIZE - 1 : h[k] \in Letter \cup {Nul},
           h[BUFFER_SIZE - 1] = Nul
    PROVE  LET e == Ended(h, n) IN
           /\ e \in [0 .. BUFFER_SIZE - 1 -> Cell]
           /\ \A k \in 0 .. BUFFER_SIZE - 1 : e[k] \in Letter \cup {Nul}
           /\ e[BUFFER_SIZE - 1] = Nul
           /\ strlen(e) # 0 => n > 0
           /\ \A k \in 0 .. BUFFER_SIZE - 1 : k # n => e[k] = h[k]
<1> DEFINE e == Ended(h, n)
<1>1. BUFFER_SIZE \in Nat /\ BUFFER_SIZE >= 2 /\ 0 \in 0 .. BUFFER_SIZE - 1 /\ Nul \in Cell
  BY LineFacts
<1>2. CASE strlen(h) = 0
  <2>1. e = h
    BY <1>2 DEF Ended
  <2> QED BY <1>2, <2>1
<1>3. CASE strlen(h) # 0
  <2>1. e = [h EXCEPT ![n] = Nul]
    BY <1>3 DEF Ended
  <2>2. \A k \in 0 .. BUFFER_SIZE - 1 : e[k] = IF k = n THEN Nul ELSE h[k]
    BY <2>1
  <2>3. e \in [0 .. BUFFER_SIZE - 1 -> Cell]
    BY <1>1, <2>1
  <2> HIDE DEF e
  <2>4. e[BUFFER_SIZE - 1] = Nul
    BY <1>1, <2>2
  <2>5. n = 0 => strlen(e) = 0
    <3>1. n = 0 => e[0] = Nul
      BY <1>1, <2>2
    <3> QED BY <1>1, <3>1, StrlenIs
  <2>6. \A k \in 0 .. BUFFER_SIZE - 1 : e[k] \in Letter \cup {Nul}
    BY <2>2
  <2>7. strlen(e) # 0 => n > 0
    BY <2>5
  <2>8. \A k \in 0 .. BUFFER_SIZE - 1 : k # n => e[k] = h[k]
    BY <2>2
  <2> QED BY <2>3, <2>4, <2>6, <2>7, <2>8 DEF e
<1> QED BY <1>2, <1>3

LEMMA RecordKeeps ==
    ASSUME LInv, Record
    PROVE  LInv'
<1>1. PICK b : b = tty.buf_count
  OBVIOUS
<1>2. PICK H : H = tty.history_line_buf
  OBVIOUS
<1>3. PICK h : h = Ended(H[b], prog.n)
  OBVIOUS
<1>4. PICK m : m = IF strlen(h) # 0 THEN b + 1 ELSE b
  OBVIOUS
<1>5. PICK q : q = IF strlen(h) # 0 THEN m ELSE tty.cur_buffer_id
  OBVIOUS
<1>6. /\ prog.pc = "copy" /\ prog.i >= prog.n
      /\ prog' = [prog EXCEPT !.pc = "reset", !.i = 1]
      /\ tty' = [tty EXCEPT !.history_line_buf[b] = h, !.buf_count = m, !.cur_buffer_id = q]
      /\ seen' = IF prog.n > 0 THEN [seen EXCEPT !.lines = Append(@, prog.buf)] ELSE seen
  BY <1>1, <1>2, <1>3, <1>4, <1>5, Zenon DEF Record
<1>7. /\ tty \in Tty /\ tty.count \in 0 .. BUFFER_SIZE - 1 /\ tty.count \in Nat
      /\ prog.nbytes \in Nat /\ prog.n = AtMost(tty.count, prog.nbytes)
      /\ prog.n \in 0 .. tty.count /\ prog.n \in 0 .. BUFFER_SIZE - 1
      /\ prog.i \in 0 .. prog.n
      /\ prog.buf = First(tty.line_buffer, prog.i) /\ prog.buf \in Seq(Letter)
      /\ Len(prog.buf) = prog.i
      /\ b \in HistoryIndex /\ tty.enter_flag = 1 /\ tty.char_location <= tty.count
      /\ seen.entered = {Text} /\ (tty.count > 0 => b < HISTORY_SIZE - 1)
  BY <1>1, <1>6, Copying
<1>8. /\ H \in [HistoryIndex -> [0 .. BUFFER_SIZE - 1 -> Cell]]
      /\ \A x \in HistoryIndex :
           /\ \A k \in 0 .. BUFFER_SIZE - 1 : H[x][k] \in Letter \cup {Nul}
           /\ H[x][BUFFER_SIZE - 1] = Nul
      /\ \A k \in 0 .. tty.count - 1 : tty.line_buffer[k] \in Letter
      /\ tty.cur_buffer_id \in Nat /\ tty.cur_buffer_id <= b
  BY <1>1, <1>2, <1>7 DEF LInv, Ready, Tty
<1>9. PICK n : n = prog.n
  OBVIOUS
<1>10. /\ h \in [0 .. BUFFER_SIZE - 1 -> Cell] /\ h[BUFFER_SIZE - 1] = Nul
       /\ \A k \in 0 .. BUFFER_SIZE - 1 : h[k] \in Letter \cup {Nul}
       /\ strlen(h) # 0 => n > 0
  <2>1. H[b] \in [0 .. BUFFER_SIZE - 1 -> Cell] /\ n \in 0 .. BUFFER_SIZE - 1
    BY <1>7, <1>8, <1>9
  <2>2. /\ \A k \in 0 .. BUFFER_SIZE - 1 : H[b][k] \in Letter \cup {Nul}
        /\ H[b][BUFFER_SIZE - 1] = Nul
    BY <1>7, <1>8
  <2> QED BY <1>3, <1>9, <2>1, <2>2, EndedKeeps
<1>11. m \in Nat /\ m < HISTORY_SIZE /\ q \in Nat /\ q <= m
  BY <1>4, <1>5, <1>7, <1>8, <1>9, <1>10, LineFacts DEF HistoryIndex
<1>12. /\ [H EXCEPT ![b] = h] \in [HistoryIndex -> [0 .. BUFFER_SIZE - 1 -> Cell]]
       /\ \A x \in HistoryIndex : [H EXCEPT ![b] = h][x] = IF x = b THEN h ELSE H[x]
  BY <1>7, <1>8, <1>10
<1>13. PICK G : G = [H EXCEPT ![b] = h]
  OBVIOUS
<1>14. \A x \in HistoryIndex :
         /\ \A k \in 0 .. BUFFER_SIZE - 1 : G[x][k] \in Letter \cup {Nul}
         /\ G[x][BUFFER_SIZE - 1] = Nul
  BY <1>8, <1>10, <1>12, <1>13
<1>15. tty' = [tty EXCEPT !.history_line_buf = G, !.buf_count = m, !.cur_buffer_id = q]
  BY <1>2, <1>6, <1>7, <1>13 DEF Tty
<1>16. /\ tty' \in Tty /\ SameLine(tty, tty') /\ tty'.history_line_buf = G
       /\ tty'.read_open = tty.read_open /\ tty'.enter_flag = tty.enter_flag
       /\ tty'.buf_count = m /\ tty'.cur_buffer_id = q
  BY <1>7, <1>11, <1>12, <1>13, <1>15 DEF Tty, SameLine
<1>17. Ready(tty)'
  BY <1>11, <1>14, <1>16 DEF LInv, Ready, SameLine
<1>18. /\ prog' \in Prog /\ prog'.pc = "reset" /\ prog'.i = 1 /\ prog'.buf = prog.buf
       /\ prog'.nbytes = prog.nbytes
  BY <1>6 DEF LInv, Prog, pcs
<1>19. SeenOK' /\ seen'.entered = seen.entered
  <2>1. Append(seen.lines, prog.buf) \in Seq(Seq(Letter))
    BY <1>7, AppendProperties DEF LInv, SeenOK
  <2> QED BY <1>6, <2>1 DEF LInv, SeenOK
<1>20. prog.buf = SubSeq(Text, 1, AtMost(Len(Text), prog.nbytes))
  <2>1. /\ Text \in Seq(Letter) /\ Len(Text) = tty.count
        /\ \A k \in 1 .. tty.count : Text[k] = tty.line_buffer[k - 1]
    BY TextOf DEF LInv, Text
  <2>2. prog.i = n /\ n \in 0 .. tty.count /\ n = AtMost(Len(Text), prog.nbytes)
    BY <1>6, <1>7, <1>9, <2>1
  <2>3. /\ Len(prog.buf) = n
        /\ \A k \in 1 .. n : prog.buf[k] = tty.line_buffer[k - 1]
    BY <1>7, <2>2 DEF First
  <2> HIDE DEF Text
  <2>4. SubSeq(Text, 1, n) \in Seq(Letter) /\ Len(SubSeq(Text, 1, n)) = n
        /\ \A k \in 1 .. n : SubSeq(Text, 1, n)[k] = Text[k]
    BY <1>7, <2>1, <2>2, SubSeqProperties
  <2>5. \A k \in 1 .. n : SubSeq(Text, 1, n)[k] = prog.buf[k]
    BY <1>7, <2>1, <2>2, <2>3, <2>4
  <2>6. prog.buf = SubSeq(Text, 1, n)
    BY <1>7, <2>2, <2>3, <2>4, <2>5
  <2> QED BY <2>2, <2>6
<1>21. Returned'
  BY <1>7, <1>18, <1>19, <1>20 DEF Returned
<1>22. Phases'
  BY <1>7, <1>16, <1>18, <1>21 DEF Phases, SameLine
<1> QED BY <1>17, <1>18, <1>19, <1>22 DEF LInv

LEMMA ResetKeeps ==
    ASSUME LInv, Reset
    PROVE  LInv'
<1>1. PICK i : i = prog.i
  OBVIOUS
<1>2. /\ prog.pc = "reset" /\ seen' = seen
      /\ tty' = [tty EXCEPT ![Resets[i]] = 0]
      /\ prog' = IF i = 4 THEN [prog EXCEPT !.pc = "clear"] ELSE [prog EXCEPT !.i = @ + 1]
  BY <1>1 DEF Reset, Resets
<1>3. /\ i \in 1 .. 4 /\ (i > 1 => tty.count = 0) /\ (i > 2 => tty.char_location = 0)
      /\ tty.enter_flag = IF i > 3 THEN 0 ELSE 1
      /\ Returned
      /\ i # 2 => tty.char_location <= tty.count
  BY <1>1, <1>2 DEF LInv, Phases
<1>4. /\ prog' \in Prog /\ prog'.buf = prog.buf /\ prog'.nbytes = prog.nbytes
      /\ i = 4 => prog'.pc = "clear"
      /\ i # 4 => prog'.pc = "reset" /\ prog'.i = i + 1
  <2>1. prog \in Prog /\ prog.i + 1 \in Nat /\ prog.i = i
    BY <1>1, <1>3 DEF LInv, Prog
  <2>2. CASE i = 4
    BY <1>2, <2>1, <2>2 DEF Prog, pcs
  <2>3. CASE i # 4
    BY <1>2, <2>1, <2>3 DEF Prog
  <2> QED BY <2>2, <2>3
<1>5. SeenOK'
  BY <1>2 DEF LInv, SeenOK
<1>6. Returned'
  BY <1>2, <1>3, <1>4 DEF Returned
<1>7. /\ tty \in Tty /\ tty.char_location \in 0 .. BUFFER_SIZE - 1 /\ 0 \in 0 .. BUFFER_SIZE - 1
      /\ BUFFER_SIZE \in Nat
  BY LineFacts DEF LInv, Ready
<1>8. CASE i = 1
  <2>1. tty' = [tty EXCEPT !.count = 0]
    BY <1>2, <1>8 DEF Resets
  <2>2. /\ tty' \in Tty /\ tty'.count = 0 /\ tty'.char_location = tty.char_location
        /\ tty'.line_buffer = tty.line_buffer /\ SameRest(tty, tty')
    BY <1>7, <2>1 DEF Tty, SameRest
  <2>3. Ready(tty)'
    BY <1>7, <2>2 DEF LInv, Ready, SameRest
  <2>4. Phases'
    BY <1>3, <1>4, <1>6, <1>8, <2>2 DEF Phases, SameRest
  <2> QED BY <1>4, <1>5, <2>3, <2>4 DEF LInv
<1>9. CASE i = 2
  <2>1. tty' = [tty EXCEPT !.char_location = 0]
    BY <1>2, <1>9 DEF Resets
  <2>2. /\ tty' \in Tty /\ tty'.count = tty.count /\ tty'.char_location = 0
        /\ tty'.line_buffer = tty.line_buffer /\ SameRest(tty, tty')
    <3>1. tty' \in Tty
      BY <1>7, <2>1 DEF Tty
    <3>2. /\ tty'.count = tty.count /\ tty'.char_location = 0
          /\ tty'.line_buffer = tty.line_buffer
      BY <1>7, <2>1 DEF Tty
    <3>3. SameRest(tty, tty')
      BY <1>7, <2>1 DEF Tty, SameRest
    <3> QED BY <3>1, <3>2, <3>3
  <2>3. Ready(tty)'
    BY <1>7, <2>2 DEF LInv, Ready, SameRest
  <2>4. Phases'
    BY <1>3, <1>4, <1>6, <1>9, <2>2 DEF Phases, SameRest
  <2> QED BY <1>4, <1>5, <2>3, <2>4 DEF LInv
<1>10. CASE i = 3 \/ i = 4
  <2>2. /\ tty' \in Tty /\ SameLine(tty, tty')
        /\ tty'.history_line_buf = tty.history_line_buf
        /\ tty'.buf_count = tty.buf_count /\ tty'.cur_buffer_id = tty.cur_buffer_id
        /\ tty'.enter_flag = 0
    <3>1. CASE i = 3
      <4>1. tty' = [tty EXCEPT !.enter_flag = 0]
        BY <1>2, <3>1 DEF Resets
      <4> QED BY <1>7, <4>1 DEF Tty, SameLine
    <3>2. CASE i = 4
      <4>1. tty' = [tty EXCEPT !.read_open = 0]
        BY <1>2, <3>2 DEF Resets
      <4> QED BY <1>3, <1>7, <3>2, <4>1 DEF Tty, SameLine
    <3> QED BY <1>10, <3>1, <3>2
  <2>3. Ready(tty)'
    BY <2>2 DEF LInv, Ready, SameLine
  <2>4. Phases'
    BY <1>3, <1>4, <1>6, <1>10, <2>2 DEF Phases, SameLine
  <2> QED BY <1>4, <1>5, <2>3, <2>4 DEF LInv
<1> QED BY <1>3, <1>8, <1>9, <1>10

LEMMA ClearLineKeeps ==
    ASSUME LInv, ClearLine
    PROVE  LInv'
<1>1. PICK b : b = [k \in Index |-> IF k >= 0 THEN Nul ELSE tty.line_buffer[k]]
  OBVIOUS
<1>2. tty \in Tty /\ tty.line_buffer \in [Index -> Cell]
  BY DEF LInv, Ready, Tty
<1>3. /\ prog.pc = "clear" /\ prog' = [prog EXCEPT !.pc = "return"] /\ seen' = seen
      /\ tty' = [tty EXCEPT !.line_buffer = b]
  BY <1>1, <1>2 DEF ClearLine, Tty
<1>4. b \in [Index -> Cell]
  BY <1>1, <1>2, LineFacts
<1>5. /\ tty' \in Tty /\ tty'.count = tty.count /\ tty'.char_location = tty.char_location
      /\ SameRest(tty, tty')
  BY <1>2, <1>3, <1>4 DEF Tty, SameRest
<1>6. /\ tty.count = 0 /\ tty.char_location = 0 /\ tty.enter_flag = 0
      /\ Returned
  BY <1>3 DEF LInv, Phases
<1>7. Ready(tty)'
  BY <1>5, <1>6, LineFacts DEF LInv, Ready, SameRest
<1>8. /\ prog' \in Prog /\ prog'.pc = "return" /\ prog'.buf = prog.buf
      /\ prog'.nbytes = prog.nbytes
  BY <1>3 DEF LInv, Prog, pcs
<1>9. Phases' /\ SeenOK'
  <2>1. SeenOK'
    BY <1>3 DEF LInv, SeenOK
  <2>2. Returned'
    BY <1>3, <1>6, <1>8 DEF Returned
  <2> QED BY <1>5, <1>6, <1>8, <2>1, <2>2 DEF Phases, SameRest
<1> QED BY <1>7, <1>8, <1>9 DEF LInv

\* The read ends, by its return or by a Ctrl+C that finds nothing to forget.
LEMMA ReadEnds ==
    ASSUME LInv, Orderly, Return \/ Killed
    PROVE  LInv'
<1>1. /\ tty' = tty
      /\ prog' = [prog EXCEPT !.pc = "run", !.nbytes = 0, !.n = 0, !.i = 0, !.buf = << >>]
      /\ \/ seen' = [seen EXCEPT !.start = 0, !.before = Cleared(@), !.entered = {},
                                 !.draft = {}]
         \/ seen' = [seen EXCEPT !.start = 0, !.before = Cleared(@), !.entered = {},
                                 !.draft = {}, !.kills = @ + 1]
  BY DEF Return, Killed
<1>2. Ready(tty)'
  BY <1>1 DEF LInv, Ready
<1>3. prog' \in Prog /\ prog'.pc = "run" /\ prog'.buf = << >>
  <2>1. prog \in Prog
    BY DEF LInv
  <2>2. PICK s \in Seq(Cell) : s = << >>
    <3>1. << >> \in Seq(Cell)
      BY EmptySeq
    <3> QED BY <3>1
  <2>3. prog' = [prog EXCEPT !.pc = "run", !.nbytes = 0, !.n = 0, !.i = 0, !.buf = s]
    BY <1>1, <2>2
  <2>4. prog' = [pc |-> "run", nbytes |-> 0, n |-> 0, i |-> 0, buf |-> s]
    BY <2>1, <2>3 DEF Prog
  <2>5. "run" \in pcs /\ 0 \in Nat /\ 0 \in Int
    BY DEF pcs
  <2>6. prog' \in Prog
    BY <2>4, <2>5 DEF Prog
  <2> QED BY <2>2, <2>4, <2>6
<1>4. SeenOK'
  <2>1. PICK M : M = Cleared(seen.before)
    OBVIOUS
  <2>2. M \in [0 .. Last -> ScreenCell] /\ 0 \in 0 .. Last
    BY <2>1, ScreenFacts, ScrollTypes DEF LInv, SeenOK
  <2>3. seen.kills + 1 \in Nat
    BY DEF LInv, SeenOK
  <2> QED BY <1>1, <2>1, <2>2, <2>3 DEF LInv, SeenOK
<1>5. tty.enter_flag = 0 /\ tty.char_location <= tty.count
  <2>1. CASE Return
    BY <2>1 DEF Return, LInv, Phases
  <2>2. CASE Killed
    <3>1. tty.enter_flag = 0 /\ tty.count = 0
      BY <2>2 DEF Killed, Orderly
    <3> QED BY <3>1 DEF LInv, Phases
  <2> QED BY <2>1, <2>2
<1>6. Phases'
  BY <1>1, <1>3, <1>5 DEF Phases
<1> QED BY <1>2, <1>3, <1>4, <1>6 DEF LInv

LEMMA LineInit == Init => LInv
<1> SUFFICES ASSUME Init PROVE LInv
  OBVIOUS
<1>1. /\ tty = [line_buffer |-> NoText(Index), count |-> 0, char_location |-> 0,
                read_open |-> 0, enter_flag |-> 0,
                history_line_buf |-> [h \in HistoryIndex |-> NoText(0 .. BUFFER_SIZE - 1)],
                buf_count |-> 0, cur_buffer_id |-> 0,
                pos |-> Origin, mem |-> NoText(0 .. Last)]
      /\ prog = [pc |-> "run", nbytes |-> 0, n |-> 0, i |-> 0, buf |-> << >>]
      /\ seen = [start |-> 0, before |-> NoText(0 .. Last), entered |-> {},
                 lines |-> << >>, draft |-> {}, kills |-> 0]
  BY DEF Init
<1>2. /\ NoText(Index) \in [Index -> Cell]
      /\ NoText(0 .. BUFFER_SIZE - 1) \in [0 .. BUFFER_SIZE - 1 -> Cell]
      /\ \A k \in 0 .. BUFFER_SIZE - 1 : NoText(0 .. BUFFER_SIZE - 1)[k] = Nul
      /\ NoText(0 .. Last) \in [0 .. Last -> Glyph \cup {Blank}]
  BY LineFacts DEF NoText, Nul
<1>3. [h \in HistoryIndex |-> NoText(0 .. BUFFER_SIZE - 1)]
        \in [HistoryIndex -> [0 .. BUFFER_SIZE - 1 -> Cell]]
  BY <1>2
<1>4. tty \in Tty
  BY <1>1, <1>2, <1>3, PositionFacts DEF Tty
<1>5. Ready(tty)
  BY <1>1, <1>2, <1>4, LineFacts DEF Ready
<1>6. prog \in Prog
  BY <1>1 DEF Prog, pcs
<1>7. SeenOK
  BY <1>1, <1>2, ScreenFacts DEF SeenOK, ScreenCell
<1>8. Phases
  BY <1>1 DEF Phases
<1> QED BY <1>5, <1>6, <1>7, <1>8 DEF LInv

LEMMA LineStep == LInv /\ Orderly /\ [Next]_vars => LInv'
<1> SUFFICES ASSUME LInv, Orderly, [Next]_vars PROVE LInv'
  OBVIOUS
<1>1. ASSUME NEW c \in Typed, Type(c) PROVE LInv'
  BY <1>1, TypeKeeps
<1>2. CASE Backspace
  BY <1>2, BackspaceKeeps
<1>3. CASE Enter
  BY <1>3, EnterKeeps
<1>4. CASE CURSOR_LEFT \/ CURSOR_RIGHT
  BY <1>4, CursorKeeps
<1>5. CASE CURSOR_UP \/ CURSOR_DOWN
  BY <1>5, HistoryKeeps
<1>6. CASE Tab
  BY <1>6, TabKeeps
<1>7. CASE ClearScreen
  BY <1>7, ClearKeeps
<1>8. CASE Write
  BY <1>8, WriteKeeps
<1>9. ASSUME NEW nbytes \in Nbytes, terminal_read(nbytes) PROVE LInv'
  BY <1>9, ReadBegins
<1>10. CASE Wake
  BY <1>10, WakeKeeps
<1>11. CASE Copy
  BY <1>11, CopyKeeps
<1>12. CASE Record
  BY <1>12, RecordKeeps
<1>13. CASE Reset
  BY <1>13, ResetKeeps
<1>14. CASE ClearLine
  BY <1>14, ClearLineKeeps
<1>15. CASE Return \/ Killed
  BY <1>15, ReadEnds
<1>16. CASE UNCHANGED vars
  BY <1>16 DEF vars, LInv, Ready, SeenOK, Phases, Text, Returned
<1> QED BY <1>1, <1>2, <1>3, <1>4, <1>5, <1>6, <1>7, <1>8, <1>9, <1>10, <1>11, <1>12,
           <1>13, <1>14, <1>15, <1>16 DEF Next, Keyboard, Read

LEMMA LineInvariant == ASSUME Orderly PROVE Spec => []LInv
<1>1. Init => LInv
  BY LineInit
<1>2. LInv /\ [Next]_vars => LInv'
  BY LineStep
<1> QED BY <1>1, <1>2, PTL DEF Spec

\* The line, its end and the cursor stay inside the line buffer and the history
\* inside its own, whatever is typed, recalled or completed, for every length of
\* the buffers and every size of the screen, as long as no key comes where Orderly
\* says that none does (fill_line_buffer, terminal_read, the history keys, Tab).
THEOREM LineInputTypeCorrect ==
    ASSUME Orderly
    PROVE  Spec => []TypeOK
<1>1. LInv => TypeOK
  <2> SUFFICES ASSUME LInv PROVE TypeOK
    OBVIOUS
  <2>1. Waiting => tty.char_location <= tty.count
    BY DEF LInv, Phases, Waiting
  <2> QED BY <2>1 DEF LInv, Ready, TypeOK
<1> QED BY <1>1, LineInvariant, PTL

\* A read that no key overtakes returns the line as it was when Enter was pressed, or
\* the part of it that was asked for, and it returns only after an Enter of its own:
\* however the line was typed, edited, recalled from the history or completed while
\* the program waited, whatever keys came before the read and whatever reads before it
\* were killed while their line was empty (the loop and the resets of terminal_read,
\* terminal.c:64-95).  A key between Enter and the return is TypeAhead, which Orderly
\* excludes: the handler then edits the buffer under the copy.
THEOREM ReturnsLineHolds ==
    ASSUME Orderly
    PROVE  Spec => []ReturnsLine
<1>1. LInv => ReturnsLine
  BY DEF LInv, Phases, Returned, ReturnsLine
<1> QED BY <1>1, LineInvariant, PTL

----------------------------------------------------------------------------
(* Echoed                                                                  *)

\* The screen M with the cursor at p shows from cell start on the first n cells of
\* b, with the cursor at the l-th, after what was there before, and nothing else.
Shows(M, p, b, n, l, start, before) ==
    /\ At(p) = start + l
    /\ \A k \in 0 .. Last :
           M[k] = IF k < start THEN before[k]
                  ELSE IF k < start + n THEN Shown(b[k - start]) ELSE Blank

Displays(t, start, before) ==
    Shows(t.mem, t.pos, t.line_buffer, t.count, t.char_location, start, before)

\* The line leaves the last cell free.
Fit(start, n) == n > 0 => start + n < Last

LEMMA ShowsInsert ==
    ASSUME NEW M \in [0 .. Last -> ScreenCell], NEW p \in Position, NEW c \in ScreenCell,
           NEW b, NEW d, NEW n \in Nat, NEW l \in 0 .. n, NEW start \in 0 .. Last, NEW before,
           Shows(M, p, b, n, l, start, before), start + n < Last,
           \A j \in l .. n - 1 : Shown(b[j]) # Blank,
           \A j \in 0 .. n : Shown(d[j]) = IF j = l THEN c
                                          ELSE IF j > l THEN Shown(b[j - 1]) ELSE Shown(b[j])
    PROVE  LET r == putc_intr(M, p, c) IN Shows(r.mem, r.pos, d, n + 1, l + 1, start, before)
<1> DEFINE r == putc_intr(M, p, c)
           a == At(p)
           e == start + n
<1>1. Last \in Nat /\ start \in Nat /\ l \in Nat /\ l <= n
  BY ScreenFacts
<1>2. a = start + l /\ a <= e /\ e \in 0 .. Last /\ e \in Int /\ e < Last
  BY <1>1 DEF Shows
<1>3. \A k \in 0 .. Last :
         M[k] = IF k < start THEN before[k]
                ELSE IF k < start + n THEN Shown(b[k - start]) ELSE Blank
  BY DEF Shows
<1>4. M[e] = Blank
  BY <1>1, <1>2, <1>3
<1>5. ASSUME NEW j \in a .. e - 1 PROVE M[j] # Blank
  <2>1. j \in 0 .. Last /\ ~(j < start) /\ j < start + n /\ j - start \in l .. n - 1
    BY <1>1, <1>2
  <2> QED BY <1>3, <2>1
<1>6. /\ At(r.pos) = a + 1
      /\ \A k \in 0 .. Last :
           r.mem[k] = IF k = a THEN c ELSE IF k > a /\ k <= e THEN M[k - 1] ELSE M[k]
  <2>1. PICK x \in 0 .. Last : x = e
    BY <1>2
  <2>2. At(p) <= x /\ x < Last /\ M[x] = Blank /\ \A j \in At(p) .. x - 1 : M[j] # Blank
    BY <1>2, <1>4, <1>5, <2>1
  <2>3. At(r.pos) = At(p) + 1 /\ MovedRight(M, r.mem, At(p), x, c)
    <3> HIDE DEF e
    <3> QED BY <2>2, RunInsert
  <2> QED BY <2>1, <2>3 DEF MovedRight
<1> HIDE DEF r, a, e
<1>7. ASSUME NEW k \in 0 .. Last
      PROVE  r.mem[k] = IF k < start THEN before[k]
                        ELSE IF k < start + (n + 1) THEN Shown(d[k - start]) ELSE Blank
  <2>1. k \in Int
    BY <1>1
  <2>2. CASE k < a
    <3>1. r.mem[k] = M[k] /\ k < start + n
      BY <1>1, <1>2, <1>6, <2>1, <2>2 DEF e
    <3>2. CASE k < start
      BY <1>3, <3>1, <3>2
    <3>3. CASE ~(k < start)
      <4>1. k - start \in 0 .. n /\ k - start # l /\ ~(k - start > l)
        BY <1>1, <1>2, <2>1, <2>2, <3>3
      <4> QED BY <1>1, <1>3, <2>1, <3>1, <3>3, <4>1
    <3> QED BY <3>2, <3>3
  <2>3. CASE k = a
    <3>1. k - start = l /\ l \in 0 .. n /\ ~(k < start) /\ k < start + (n + 1)
      BY <1>1, <1>2, <2>1, <2>3
    <3> QED BY <1>6, <2>3, <3>1
  <2>4. CASE k > a /\ k <= e
    <3>1. /\ k - 1 \in 0 .. Last /\ ~(k - 1 < start) /\ k - 1 < start + n
          /\ ~(k < start) /\ k < start + (n + 1)
          /\ k - start \in 0 .. n /\ k - start # l /\ k - start > l
          /\ (k - start) - 1 = (k - 1) - start
      BY <1>1, <1>2, <2>1, <2>4 DEF e
    <3>2. r.mem[k] = M[k - 1] /\ M[k - 1] = Shown(b[(k - 1) - start])
      BY <1>1, <1>2, <1>3, <1>6, <2>1, <2>4, <3>1
    <3>3. Shown(d[k - start]) = Shown(b[(k - start) - 1])
      BY <3>1
    <3> QED BY <3>1, <3>2, <3>3
  <2>5. CASE k > e
    <3>1. ~(k < start) /\ ~(k < start + n) /\ ~(k < start + (n + 1)) /\ k # a /\ ~(k <= e)
      BY <1>1, <1>2, <2>1, <2>5 DEF e
    <3> QED BY <1>3, <1>6, <3>1
  <2> QED BY <1>1, <1>2, <2>1, <2>2, <2>3, <2>4, <2>5
<1>8. At(r.pos) = start + (l + 1)
  BY <1>1, <1>2, <1>6
<1> QED BY <1>7, <1>8 DEF Shows, r

LEMMA ShowsDelete ==
    ASSUME NEW M \in [0 .. Last -> ScreenCell], NEW p \in Position,
           NEW b, NEW d, NEW n \in Nat \ {0}, NEW l \in 1 .. n, NEW start \in 0 .. Last,
           NEW before, Shows(M, p, b, n, l, start, before), start + n < Last,
           l < n => \A j \in l - 1 .. n - 1 : Shown(b[j]) # Blank,
           \A j \in 0 .. n - 2 : d[j] = IF j >= l - 1 THEN b[j + 1] ELSE b[j]
    PROVE  LET r == putc_intr(M, p, "backspace")
           IN  Shows(r.mem, r.pos, d, n - 1, l - 1, start, before)
<1> DEFINE r == putc_intr(M, p, "backspace")
           a == At(p) - 1
<1>1. Last \in Nat /\ start \in Nat /\ l \in Nat /\ l <= n /\ n \in Nat /\ n >= 1 /\ l >= 1
  BY ScreenFacts
<1>2. At(p) = start + l /\ a = start + l - 1 /\ a \in 0 .. Last
  BY <1>1 DEF Shows
<1>3. \A k \in 0 .. Last :
         M[k] = IF k < start THEN before[k]
                ELSE IF k < start + n THEN Shown(b[k - start]) ELSE Blank
  BY DEF Shows
<1>4. start + n \in 0 .. Last /\ M[start + n] = Blank
  BY <1>1, <1>3
<1>5. p # Origin
  <2>1. At(p) # 0
    BY <1>1, <1>2
  <2> QED BY <2>1, AtFacts
<1>6. PICK e \in a .. start + n :
         /\ M[e] = Blank /\ \A j \in a .. e - 1 : M[j] # Blank
         /\ e = start + n \/ (e = a /\ l = n)
  <2>1. CASE l < n
    <3>1. ASSUME NEW j \in a .. (start + n) - 1 PROVE M[j] # Blank
      <4>1. j \in 0 .. Last /\ ~(j < start) /\ j < start + n /\ j - start \in l - 1 .. n - 1
        BY <1>1, <1>2
      <4> QED BY <1>3, <2>1, <4>1
    <3>2. start + n \in a .. start + n
      BY <1>1, <1>2
    <3> QED BY <1>4, <3>1, <3>2
  <2>2. CASE l = n /\ M[a] = Blank
    <3>1. a \in a .. start + n /\ \A j \in a .. a - 1 : FALSE
      BY <1>1, <1>2, <2>2
    <3> QED BY <2>2, <3>1
  <2>3. CASE l = n /\ M[a] # Blank
    <3>1. start + n \in a .. start + n /\ \A j \in a .. (start + n) - 1 : j = a
      BY <1>1, <1>2, <2>3
    <3> QED BY <1>4, <2>3, <3>1
  <2> QED BY <1>1, <2>1, <2>2, <2>3
<1>7. /\ At(r.pos) = a
      /\ \A k \in 0 .. Last : r.mem[k] = IF k >= a /\ k < e THEN M[k + 1] ELSE M[k]
  <2>1. e \in 0 .. Last /\ At(p) - 1 <= e
    BY <1>1, <1>2, <1>4
  <2>2. M[e] = Blank /\ \A j \in At(p) - 1 .. e - 1 : M[j] # Blank
    BY <1>6
  <2> HIDE DEF r
  <2> QED BY <1>5, <2>1, <2>2, RunDelete DEF r
<1> HIDE DEF r, a
<1>8. ASSUME NEW k \in 0 .. Last
      PROVE  r.mem[k] = IF k < start THEN before[k]
                        ELSE IF k < start + (n - 1) THEN Shown(d[k - start]) ELSE Blank
  <2>1. k \in Int /\ e \in Int
    BY <1>1, <1>2
  <2>2. CASE k < a
    <3>1. r.mem[k] = M[k] /\ k < start + n /\ k < start + (n - 1)
      BY <1>1, <1>2, <1>7, <2>1, <2>2
    <3>2. CASE k < start
      BY <1>3, <3>1, <3>2
    <3>3. CASE ~(k < start)
      <4>1. k - start \in 0 .. n - 2 /\ ~(k - start >= l - 1)
        BY <1>1, <1>2, <2>1, <2>2, <3>3
      <4> QED BY <1>1, <1>3, <2>1, <3>1, <3>3, <4>1
    <3> QED BY <3>2, <3>3
  <2>3. CASE k >= a /\ k < start + (n - 1)
    <3>1. l < n /\ e = start + n /\ k < e
      BY <1>1, <1>2, <1>6, <2>1, <2>3
    <3>2. /\ k + 1 \in 0 .. Last /\ ~(k + 1 < start) /\ k + 1 < start + n /\ ~(k < start)
          /\ k - start \in 0 .. n - 2 /\ k - start >= l - 1
          /\ (k - start) + 1 = (k + 1) - start
      BY <1>1, <1>2, <2>1, <2>3
    <3>3. r.mem[k] = M[k + 1] /\ M[k + 1] = Shown(b[(k + 1) - start])
      BY <1>3, <1>7, <2>3, <3>1, <3>2
    <3>4. d[k - start] = b[(k - start) + 1]
      BY <3>2
    <3> QED BY <2>3, <3>2, <3>3, <3>4
  <2>4. CASE ~(k < start + (n - 1))
    <3>1. ~(k < start) /\ k >= a
      BY <1>1, <1>2, <2>1, <2>4
    <3>2. CASE k < e
      <4>1. k + 1 \in 0 .. Last /\ ~(k + 1 < start) /\ ~(k + 1 < start + n)
        BY <1>1, <1>2, <1>4, <2>1, <2>4, <3>2
      <4> QED BY <1>3, <1>7, <2>4, <3>1, <3>2, <4>1
    <3>3. CASE ~(k < e)
      <4>1. k = e \/ ~(k < start + n)
        BY <1>1, <1>2, <1>6, <2>1, <2>4, <3>3
      <4>2. r.mem[k] = M[k]
        BY <1>7, <3>3
      <4> QED BY <1>3, <1>6, <2>4, <3>1, <4>1, <4>2
    <3> QED BY <3>2, <3>3
  <2> QED BY <1>1, <1>2, <2>1, <2>2, <2>3, <2>4
<1>9. At(r.pos) = start + (l - 1)
  BY <1>1, <1>2, <1>7
<1> QED BY <1>8, <1>9 DEF Shows, r

LEMMA ShownFacts ==
    /\ \A c \in Letter : Shown(c) \in ScreenCell
    /\ \A c \in Letter : c # Space => Shown(c) # Blank
BY LineFacts, ScreenFacts DEF Letter, Shown, ScreenCell

\* A character that the line takes is shown where it goes.
LEMMA ShowsPut ==
    ASSUME NEW t, Edited(t), t.read_open = 1, t.count < BUFFER_SIZE - 1, NEW c \in Letter,
           NEW start \in 0 .. Last, NEW before, Displays(t, start, before),
           Fit(start, t.count + 1),
           \A j \in t.char_location .. t.count - 1 : t.line_buffer[j] # Space
    PROVE  Displays(Put(t, c), start, before)
<1> DEFINE u == Put(t, c)
           n == t.count
           l == t.char_location
<1>1. /\ SameRest(t, u) /\ Echoing(t, c, u) /\ u.count = n + 1 /\ u.char_location = l + 1
      /\ u.line_buffer = Inserted(t.line_buffer, l, n, c)
  BY PutLetter
<1>2. /\ t \in Tty /\ t.mem \in [0 .. Last -> ScreenCell] /\ t.pos \in Position
      /\ t.line_buffer \in [Index -> Cell] /\ n \in Nat /\ l \in 0 .. n
      /\ n < BUFFER_SIZE /\ l \in Nat
  BY LineFacts DEF Edited, Ready, Tty, ScreenCell
<1>3. /\ \A j \in 0 .. n - 1 : t.line_buffer[j] \in Letter
      /\ \A j \in l .. n - 1 : j \in 0 .. n - 1 /\ t.line_buffer[j] # Space
  BY <1>2 DEF Edited, Ready
<1>4. \A j \in l .. n - 1 : Shown(t.line_buffer[j]) # Blank
  BY <1>3, ShownFacts
<1>5. start + n < Last
  BY <1>2, ScreenFacts DEF Fit
<1>6. ASSUME NEW j \in 0 .. n
      PROVE  u.line_buffer[j] = IF j = l THEN c
                                ELSE IF j > l THEN t.line_buffer[j - 1] ELSE t.line_buffer[j]
  <2>1. j \in Index
    BY <1>2, LineFacts DEF Index
  <2>2. u.line_buffer[j] = IF j = l THEN c
                           ELSE IF j > l /\ j <= n THEN t.line_buffer[j - 1]
                           ELSE t.line_buffer[j]
    BY <1>1, <1>2, <2>1 DEF Inserted
  <2> QED BY <1>2, <2>2
<1>7. \A j \in 0 .. n : Shown(u.line_buffer[j]) =
         IF j = l THEN Shown(c)
         ELSE IF j > l THEN Shown(t.line_buffer[j - 1]) ELSE Shown(t.line_buffer[j])
  BY <1>6
<1>8. Shown(c) \in ScreenCell
  BY ShownFacts
<1>9. Shows(t.mem, t.pos, t.line_buffer, n, l, start, before)
  BY DEF Displays
<1> HIDE DEF n, l, u
<1>10. LET r == putc_intr(t.mem, t.pos, Shown(c))
       IN  Shows(r.mem, r.pos, u.line_buffer, n + 1, l + 1, start, before)
  BY <1>2, <1>4, <1>5, <1>7, <1>8, <1>9, ShowsInsert
<1> QED BY <1>1, <1>10 DEF Echoing, Displays, u, n, l

LEMMA ShowsErase ==
    ASSUME NEW t, Edited(t), t.read_open = 1, t.char_location > 0,
           NEW start \in 0 .. Last, NEW before, Displays(t, start, before),
           Fit(start, t.count),
           t.char_location < t.count =>
             \A j \in t.char_location - 1 .. t.count - 1 : t.line_buffer[j] # Space
    PROVE  Displays(Put(t, "backspace"), start, before)
<1> DEFINE u == Put(t, "backspace")
           n == t.count
           l == t.char_location
<1>1. /\ SameRest(t, u) /\ Echoing(t, "backspace", u)
      /\ u.count = n - 1 /\ u.char_location = l - 1
      /\ u.line_buffer = Deleted(t.line_buffer, l - 1, n - 1)
  BY PutBackspace
<1>2. /\ t \in Tty /\ t.mem \in [0 .. Last -> ScreenCell] /\ t.pos \in Position
      /\ t.line_buffer \in [Index -> Cell] /\ n \in Nat \ {0} /\ l \in 1 .. n
      /\ n < BUFFER_SIZE /\ l \in Nat
  BY LineFacts DEF Edited, Ready, Tty, ScreenCell
<1>3. l < n => \A j \in l - 1 .. n - 1 : Shown(t.line_buffer[j]) # Blank
  <2>1. \A j \in 0 .. n - 1 : t.line_buffer[j] \in Letter
    BY DEF Edited, Ready
  <2>2. \A j \in l - 1 .. n - 1 : j \in 0 .. n - 1
    BY <1>2
  <2> QED BY <2>1, <2>2, ShownFacts
<1>5. start + n < Last
  BY <1>2 DEF Fit
<1>6. ASSUME NEW j \in 0 .. n - 2
      PROVE  u.line_buffer[j] = IF j >= l - 1 THEN t.line_buffer[j + 1] ELSE t.line_buffer[j]
  <2>1. j \in Index
    BY <1>2, LineFacts DEF Index
  <2>2. u.line_buffer[j] = IF j >= l - 1 /\ j < n - 1 THEN t.line_buffer[j + 1]
                           ELSE IF j = l - 1 THEN Nul ELSE t.line_buffer[j]
    BY <1>1, <1>2, <2>1 DEF Deleted
  <2> QED BY <1>2, <2>2
<1>9. Shows(t.mem, t.pos, t.line_buffer, n, l, start, before)
  BY DEF Displays
<1>11. Shown("backspace") = "backspace"
  BY LineFacts
<1> HIDE DEF n, l, u
<1>10. LET r == putc_intr(t.mem, t.pos, "backspace")
       IN  Shows(r.mem, r.pos, u.line_buffer, n - 1, l - 1, start, before)
  BY <1>2, <1>3, <1>5, <1>6, <1>9, ShowsDelete
<1> QED BY <1>1, <1>10, <1>11 DEF Echoing, Displays, u, n, l

\* The whole line is erased.
LEMMA ShowsErased ==
    ASSUME NEW t, Edited(t), t.read_open = 1, t.char_location = t.count,
           NEW start \in 0 .. Last, NEW before, Displays(t, start, before),
           Fit(start, t.count)
    PROVE  LET e == Erased(t) IN
           /\ Edited(e) /\ SameRest(t, e) /\ e.count = 0 /\ e.char_location = 0
           /\ Displays(e, start, before)
<1> DEFINE n == t.count
<1>1. n \in Nat /\ start \in Nat /\ Last \in Nat
  BY LineFacts, ScreenFacts DEF Edited, Ready
<1>2. PICK f : /\ Erased(t) = f[n] /\ f[0] = t
               /\ \A k \in 1 .. n : f[k] = Put(f[k - 1], "backspace")
               /\ \A k \in 0 .. n :
                    /\ Edited(f[k]) /\ SameRest(t, f[k])
                    /\ f[k].count = n - k /\ f[k].char_location = n - k
  BY ErasedSteps
<1> DEFINE S == {k \in 0 .. n : Displays(f[k], start, before)}
<1>3. 0 \in S
  BY <1>1, <1>2
<1>4. ASSUME NEW k \in 0 .. n - 1, k \in S PROVE k + 1 \in S
  <2>1. k + 1 \in 1 .. n /\ (k + 1) - 1 = k /\ k + 1 \in 0 .. n /\ n - k > 0 /\ k \in 0 .. n
    BY <1>1
  <2>2. f[k + 1] = Put(f[k], "backspace")
    BY <1>2, <2>1
  <2>3. /\ Edited(f[k]) /\ f[k].read_open = 1 /\ f[k].char_location > 0
        /\ f[k].char_location = f[k].count /\ f[k].count = n - k
    BY <1>2, <2>1 DEF SameRest
  <2>4. Fit(start, f[k].count)
    <3>1. start + n < Last
      BY <1>1, <2>1 DEF Fit
    <3> QED BY <1>1, <2>3, <3>1 DEF Fit
  <2>5. ~(f[k].char_location < f[k].count)
    BY <1>1, <2>3
  <2>6. Displays(f[k + 1], start, before)
    BY <1>4, <2>2, <2>3, <2>4, <2>5, ShowsErase
  <2> QED BY <2>1, <2>6
<1>5. \A k \in 0 .. n : k \in S
  <2> HIDE DEF S, n
  <2> QED BY <1>1, <1>3, <1>4, InductionUpTo
<1>6. n \in 0 .. n /\ n - n = 0
  BY <1>1
<1> QED BY <1>2, <1>5, <1>6

\* A string is typed at the end of the line.
LEMMA ShowsTyped ==
    ASSUME NEW t, Edited(t), t.read_open = 1, t.char_location = t.count,
           NEW start \in 0 .. Last, NEW before, Displays(t, start, before),
           NEW s \in Seq(Letter), Fit(start, PutAll(t, s).count)
    PROVE  Displays(PutAll(t, s), start, before)
<1> DEFINE n == Len(s)
<1>1. n \in Nat /\ start \in Nat /\ Last \in Nat /\ BUFFER_SIZE \in Nat
      /\ \A k \in 1 .. n : s[k] \in Letter
  BY LineFacts, ScreenFacts
<1>2. PICK f : /\ PutAll(t, s) = f[n] /\ f[0] = t
               /\ \A k \in 1 .. n : f[k] = Put(f[k - 1], s[k])
               /\ \A k \in 0 .. n : Edited(f[k]) /\ SameRest(t, f[k])
  BY TypedSteps
<1> DEFINE S == {k \in 0 .. n : /\ f[k].char_location = f[k].count
                                /\ Fit(start, f[k].count) => Displays(f[k], start, before)}
<1>3. 0 \in S
  BY <1>1, <1>2
<1>4. ASSUME NEW k \in 0 .. n - 1, k \in S PROVE k + 1 \in S
  <2>1. k + 1 \in 1 .. n /\ (k + 1) - 1 = k /\ k + 1 \in 0 .. n /\ k \in 0 .. n
    BY <1>1
  <2>2. PICK c \in Letter : c = s[k + 1]
    BY <1>1, <2>1
  <2>3. PICK v : v = f[k]
    OBVIOUS
  <2>4. f[k + 1] = Put(v, c)
    BY <1>2, <2>1, <2>2, <2>3
  <2>5. /\ Edited(v) /\ v.read_open = 1 /\ v.char_location = v.count /\ v.count \in Nat
        /\ Fit(start, v.count) => Displays(v, start, before)
    <3>1. Edited(v) /\ v.read_open = 1
      BY <1>2, <2>1, <2>3 DEF SameRest
    <3>2. v.count \in Nat
      BY <3>1, LineFacts DEF Edited, Ready
    <3> QED BY <1>4, <2>3, <3>1, <3>2
  <2>6. CASE ~(v.count < BUFFER_SIZE - 1)
    <3>1. f[k + 1] = v
      BY <2>4, <2>5, <2>6, PutFull
    <3> QED BY <2>1, <2>5, <3>1
  <2>7. CASE v.count < BUFFER_SIZE - 1
    <3> DEFINE u == Put(v, c)
    <3>1. u.count = v.count + 1 /\ u.char_location = v.char_location + 1
      BY <2>5, <2>7, PutLetter
    <3>2. ASSUME Fit(start, u.count) PROVE Displays(u, start, before)
      <4>1. Fit(start, v.count + 1) /\ Fit(start, v.count)
        BY <1>1, <2>5, <3>1, <3>2 DEF Fit
      <4>2. \A j \in v.char_location .. v.count - 1 : FALSE
        BY <2>5
      <4> QED BY <2>5, <2>7, <4>1, <4>2, ShowsPut
    <3> QED BY <2>1, <2>4, <2>5, <3>1, <3>2
  <2> QED BY <2>6, <2>7
<1>5. \A k \in 0 .. n : k \in S
  <2> HIDE DEF S, n
  <2> QED BY <1>1, <1>3, <1>4, InductionUpTo
<1>6. n \in 0 .. n
  BY <1>1
<1> QED BY <1>2, <1>5, <1>6

\* A line that is in the buffer already, up to its first NUL, is printed.
LEMMA ShowsPuts ==
    ASSUME NEW t, Edited(t), t.char_location = t.count, strlen(t.line_buffer) = t.count,
           NEW start \in 0 .. Last, NEW before,
           Shows(t.mem, t.pos, t.line_buffer, 0, 0, start, before),
           Fit(start, t.count)
    PROVE  Displays(puts_intr(t, Str(t.line_buffer)), start, before)
<1> DEFINE b == t.line_buffer
           n == t.count
           s == Str(b)
<1>1. /\ n \in Nat /\ start \in Nat /\ Last \in Nat /\ t \in Tty
      /\ \A k \in 0 .. n - 1 : b[k] \in Letter
  BY LineFacts, ScreenFacts DEF Edited, Ready
<1>2. s \in Seq(Letter) /\ Len(s) = n /\ \A k \in 1 .. n : s[k] = b[k - 1] /\ s[k] \in Letter
  <2>1. s = First(b, n)
    BY DEF Str
  <2>2. s \in Seq(Letter) /\ Len(s) = n /\ \A k \in 1 .. n : s[k] = b[k - 1]
    BY <1>1, <2>1, FirstOfLetters
  <2> HIDE DEF s
  <2> QED BY <2>2
<1> HIDE DEF s, n, b
<1>3. PICK f : /\ puts_intr(t, s) = f[n] /\ f[0] = t
               /\ \A k \in 1 .. n : f[k] = Echo(f[k - 1], s[k])
  <2>1. Len(s) = n /\ Len(s) \in Nat
    BY <1>1, <1>2
  <2>2. PICK w : w = s
    OBVIOUS
  <2>3. PICK f : /\ puts_intr(t, w) = f[Len(w)] /\ f[0] = t
                 /\ \A k \in 1 .. Len(w) : f[k] = Echo(f[k - 1], w[k])
    BY <2>1, <2>2, EchoSteps
  <2> QED BY <2>1, <2>2, <2>3
<1> DEFINE S == {k \in 0 .. n : /\ f[k] \in Tty /\ SameLine(t, f[k])
                                /\ Shows(f[k].mem, f[k].pos, b, k, k, start, before)}
<1>4. 0 \in S
  BY <1>1, <1>3 DEF SameLine, b
<1>5. ASSUME NEW k \in 0 .. n - 1, k \in S PROVE k + 1 \in S
  <2>1. /\ k + 1 \in 1 .. n /\ (k + 1) - 1 = k /\ k + 1 \in 0 .. n /\ k \in 0 .. k
        /\ k \in Nat /\ k \in 0 .. n - 1 /\ k < n /\ n > 0
    BY <1>1
  <2>2. PICK v : v = f[k]
    OBVIOUS
  <2>3. v \in Tty /\ SameLine(t, v) /\ Shows(v.mem, v.pos, b, k, k, start, before)
    BY <1>5, <2>2
  <2>4. PICK c \in Letter : c = b[k] /\ c = s[k + 1]
    BY <1>1, <1>2, <2>1
  <2>5. f[k + 1] = Echo(v, c)
    BY <1>3, <2>1, <2>2, <2>4
  <2>6. /\ Echo(v, c) \in Tty /\ SameLine(v, Echo(v, c))
        /\ Echo(v, c).mem = putc_intr(v.mem, v.pos, Shown(c)).mem
        /\ Echo(v, c).pos = putc_intr(v.mem, v.pos, Shown(c)).pos
    BY <2>3, EchoKeeps
  <2>7. v.mem \in [0 .. Last -> ScreenCell] /\ v.pos \in Position /\ Shown(c) \in ScreenCell
    BY <2>3, ShownFacts DEF Tty, ScreenCell
  <2>8. start + k < Last
    BY <1>1, <2>1 DEF Fit, n
  <2>9. \A j \in k .. k - 1 : FALSE
    BY <2>1
  <2>10. \A j \in 0 .. k : Shown(b[j]) = IF j = k THEN Shown(c)
                                        ELSE IF j > k THEN Shown(b[j - 1]) ELSE Shown(b[j])
    <3>1. \A j \in 0 .. k : ~(j > k)
      BY <2>1
    <3>2. \A j \in 0 .. k : j = k => Shown(b[j]) = Shown(c)
      BY <2>4, Zenon
    <3> QED BY <3>1, <3>2
  <2>11. LET r == putc_intr(v.mem, v.pos, Shown(c))
         IN  Shows(r.mem, r.pos, b, k + 1, k + 1, start, before)
    BY <2>1, <2>3, <2>7, <2>8, <2>9, <2>10, ShowsInsert
  <2>12. SameLine(t, f[k + 1]) /\ f[k + 1] \in Tty
    BY <2>3, <2>5, <2>6 DEF SameLine
  <2> QED BY <2>1, <2>5, <2>6, <2>11, <2>12
<1>6. \A k \in 0 .. n : k \in S
  <2> HIDE DEF S
  <2> QED BY <1>1, <1>4, <1>5, InductionUpTo
<1>7. n \in 0 .. n
  BY <1>1
<1>8. SameLine(t, f[n]) /\ Shows(f[n].mem, f[n].pos, b, n, n, start, before)
  BY <1>6, <1>7
<1>9. Displays(f[n], start, before)
  BY <1>8 DEF Displays, SameLine, n, b
<1> QED BY <1>3, <1>9 DEF s, b

\* The line and the screen belong together: no key but those of Orderly, and none
\* that makes the echo lose the line.
Tidy == Env \subseteq {"ShorterDraft", "EmptyBrowse"}

Clean == Blanks(tty.mem, tty.pos)

\* While a program waits, its line is on the screen; at other times the screen is
\* empty from the cursor on, and no line has begun.
EInv ==
    /\ Waiting => Displays(tty, seen.start, seen.before) /\ Fit(seen.start, tty.count)
    /\ ~Waiting => Clean
    /\ prog.pc \in {"run", "prompted"} => tty.count = 0

LEMMA TidyFacts ==
    ASSUME Tidy
    PROVE  /\ Orderly
           /\ "FrontErase" \notin Env /\ "TypeAhead" \notin Env /\ "SpaceEdit" \notin Env
           /\ "StaleTail" \notin Env /\ "WrapEnter" \notin Env /\ "ClearMidLine" \notin Env
           /\ "UnreadHistory" \notin Env /\ "KilledRead" \notin Env
BY DEF Tidy, Orderly

LEMMA ScreenOf ==
    ASSUME LInv
    PROVE  /\ tty \in Tty /\ tty.mem \in [0 .. Last -> ScreenCell] /\ tty.pos \in Position
           /\ seen.start \in 0 .. Last /\ seen.before \in [0 .. Last -> ScreenCell]
           /\ tty.count \in Nat /\ Last \in Nat
BY LineFacts, ScreenFacts DEF LInv, Ready, Tty, SeenOK, ScreenCell

\* EInv says what Echoed says.
LEMMA DisplaysIsEchoed ==
    ASSUME LInv, Waiting => Displays(tty, seen.start, seen.before)
    PROVE  Echoed
<1> SUFFICES ASSUME Waiting PROVE
      /\ At(tty.pos) = seen.start + tty.char_location
      /\ \A k \in 0 .. Last :
             tty.mem[k] = IF k < seen.start THEN seen.before[k]
                          ELSE IF k < seen.start + tty.count
                               THEN Shown(Text[k - seen.start + 1])
                               ELSE Blank
  BY DEF Echoed
<1>1. seen.start \in 0 .. Last /\ tty.count \in Nat /\ Last \in Nat
  BY ScreenOf
<1>2. /\ At(tty.pos) = seen.start + tty.char_location
      /\ \A k \in 0 .. Last :
             tty.mem[k] = IF k < seen.start THEN seen.before[k]
                          ELSE IF k < seen.start + tty.count
                               THEN Shown(tty.line_buffer[k - seen.start])
                               ELSE Blank
  BY DEF Displays, Shows
<1>3. ASSUME NEW k \in 0 .. Last, ~(k < seen.start), k < seen.start + tty.count
      PROVE  Text[k - seen.start + 1] = tty.line_buffer[k - seen.start]
  <2>1. k - seen.start + 1 \in 1 .. tty.count /\ (k - seen.start + 1) - 1 = k - seen.start
    BY <1>1, <1>3
  <2>2. Text[k - seen.start + 1] = tty.line_buffer[(k - seen.start + 1) - 1]
    BY <2>1 DEF Text, First
  <2> QED BY <2>1, <2>2
<1> QED BY <1>2, <1>3

\* A key while a program waits: it is enough that the line is still on the screen.
LEMMA WaitingKey ==
    ASSUME LInv, Waiting, NEW t, Key(t), t.enter_flag = 0, t.read_open = 1,
           seen'.start = seen.start, seen'.before = seen.before,
           Fit(seen.start, t.count) => Displays(t, seen.start, seen.before),
           t.count \in Nat
    PROVE  EInv'
<1>1. tty' = t /\ prog' = prog /\ prog.pc = "wait"
  BY DEF Key, Waiting, Unread
<1>2. Fit(seen.start, t.count)
  BY DEF Key, Fits, Fit
<1>3. Waiting'
  BY <1>1 DEF Waiting
<1> QED BY <1>1, <1>2, <1>3 DEF EInv

\* A key that no program waits for is only echoed.
LEMMA UnreadKey ==
    ASSUME LInv, EInv, Unread, ~Waiting, tty.read_open = 0, NEW c \in Letter \cup {"newline", "backspace"},
           NEW t, Key(t), t = Put(tty, c)
    PROVE  EInv'
<1>1. tty \in Tty /\ tty.mem \in [0 .. Last -> ScreenCell] /\ tty.pos \in Position
  BY ScreenOf
<1>2. SameLine(tty, t) /\ SameRest(tty, t) /\ Echoing(tty, c, t)
  BY <1>1, PutUnread
<1>3. tty.count = 0 /\ Clean
  BY DEF EInv, Unread
<1>4. Shown(c) \in Printed
  BY LineFacts DEF Printed, ScreenCell
<1>5. Blanks(t.mem, t.pos)
  <2>1. LET r == putc_intr(tty.mem, tty.pos, Shown(c)) IN Blanks(r.mem, r.pos)
    BY <1>1, <1>3, <1>4, EchoBlanks DEF Clean
  <2> QED BY <1>2, <2>1 DEF Echoing
<1>6. tty' = t /\ prog'.pc = prog.pc
  BY DEF Key, LInv, Prog
<1>7. prog.pc \in {"run", "prompted"}
  BY DEF Unread
<1>8. ~Waiting' /\ tty'.count = 0
  BY <1>2, <1>3, <1>6, <1>7 DEF Waiting, SameLine
<1> QED BY <1>5, <1>6, <1>8 DEF EInv, Clean

\* Where a key finds the program, under both invariants.
LEMMA KeyPlace ==
    ASSUME LInv, EInv, Tidy, Attended
    PROVE  /\ Edited(tty) /\ tty.enter_flag = 0
           /\ \/ /\ Waiting /\ tty.read_open = 1
                 /\ Displays(tty, seen.start, seen.before) /\ Fit(seen.start, tty.count)
              \/ Unread /\ ~Waiting /\ tty.read_open = 0 /\ tty.count = 0 /\ tty.char_location = 0
<1>1. /\ Edited(tty) /\ tty.enter_flag = 0
      /\ \/ Waiting /\ tty.read_open = 1
         \/ Unread /\ ~Waiting /\ tty.read_open = 0
  BY TidyFacts, KeyFinds
<1>2. Unread => tty.count = 0
  BY DEF EInv, Unread
<1>3. tty.count = 0 => tty.char_location = 0
  BY <1>1, LineFacts DEF Edited, Ready
<1> QED BY <1>1, <1>2, <1>3 DEF EInv

LEMMA TypeShows ==
    ASSUME LInv, EInv, Tidy, NEW c \in Typed, Type(c)
    PROVE  EInv'
<1>1. PICK t : t = Put(tty, c)
  OBVIOUS
<1>2. /\ Key(t) /\ seen' = seen /\ Attended
      /\ \A j \in tty.char_location .. tty.count - 1 : j >= 0 => tty.line_buffer[j] # Space
  BY <1>1, TidyFacts DEF Type, Key, NoSpaceFrom
<1>3. c \in Letter /\ c # "backspace"
  BY LineFacts
<1>4. CASE Unread /\ ~Waiting /\ tty.read_open = 0
  BY <1>1, <1>2, <1>3, <1>4, UnreadKey
<1>5. CASE /\ Waiting /\ tty.read_open = 1
           /\ Displays(tty, seen.start, seen.before) /\ Fit(seen.start, tty.count)
  <2>1. Edited(tty) /\ tty.enter_flag = 0 /\ tty.count \in Nat /\ tty.char_location \in Nat
    BY <1>2, KeyPlace, LineFacts DEF Edited, Ready
  <2>2. Edited(t) /\ SameRest(tty, t)
    BY <1>1, <1>3, <2>1, PutKeeps
  <2>3. t.count \in Nat
    BY <2>2, LineFacts DEF Edited, Ready
  <2>4. Fit(seen.start, t.count) => Displays(t, seen.start, seen.before)
    <3>1. CASE ~(tty.count < BUFFER_SIZE - 1)
      BY <1>1, <1>3, <1>5, <3>1, PutFull
    <3>2. CASE tty.count < BUFFER_SIZE - 1
      <4>1. t.count = tty.count + 1
        BY <1>1, <1>3, <1>5, <2>1, <3>2, PutLetter
      <4>2. \A j \in tty.char_location .. tty.count - 1 : tty.line_buffer[j] # Space
        BY <1>2, <2>1
      <4>3. seen.start \in 0 .. Last
        BY ScreenOf
      <4> QED BY <1>1, <1>3, <1>5, <2>1, <3>2, <4>1, <4>2, <4>3, ShowsPut
    <3> QED BY <3>1, <3>2
  <2> QED BY <1>2, <1>5, <2>1, <2>2, <2>3, <2>4, WaitingKey DEF SameRest
<1> QED BY <1>2, <1>4, <1>5, KeyPlace

LEMMA BackspaceShows ==
    ASSUME LInv, EInv, Tidy, Backspace
    PROVE  EInv'
<1>1. PICK t : t = Put(tty, "backspace")
  OBVIOUS
<1>2. /\ Key(t) /\ seen' = seen /\ Attended
      /\ tty.count = 0 \/ tty.char_location > 0
      /\ tty.char_location < tty.count =>
           \A j \in tty.char_location - 1 .. tty.count - 1 : j >= 0 => tty.line_buffer[j] # Space
  BY <1>1, TidyFacts DEF Backspace, Key, NoSpaceFrom
<1>4. CASE Unread /\ ~Waiting /\ tty.read_open = 0
  BY <1>1, <1>2, <1>4, UnreadKey
<1>5. CASE /\ Waiting /\ tty.read_open = 1
           /\ Displays(tty, seen.start, seen.before) /\ Fit(seen.start, tty.count)
  <2>1. Edited(tty) /\ tty.enter_flag = 0 /\ tty.count \in Nat /\ tty.char_location \in Nat
    BY <1>2, KeyPlace, LineFacts DEF Edited, Ready
  <2>2. Edited(t) /\ SameRest(tty, t)
    BY <1>1, <1>2, <2>1, PutKeeps
  <2>3. t.count \in Nat
    BY <2>2, LineFacts DEF Edited, Ready
  <2>4. Displays(t, seen.start, seen.before)
    <3>1. CASE tty.count = 0
      BY <1>1, <1>5, <3>1, PutNothing
    <3>2. CASE tty.char_location > 0
      <4>2. tty.char_location < tty.count =>
              \A j \in tty.char_location - 1 .. tty.count - 1 : tty.line_buffer[j] # Space
        BY <1>2, <2>1, <3>2
      <4>3. seen.start \in 0 .. Last
        BY ScreenOf
      <4> QED BY <1>1, <1>5, <2>1, <3>2, <4>2, <4>3, ShowsErase
    <3> QED BY <1>2, <3>1, <3>2
  <2> QED BY <1>2, <1>5, <2>1, <2>2, <2>3, <2>4, WaitingKey DEF SameRest
<1> QED BY <1>2, <1>4, <1>5, KeyPlace

LEMMA CursorShows ==
    ASSUME LInv, EInv, Tidy, CURSOR_LEFT \/ CURSOR_RIGHT
    PROVE  EInv'
<1>1. Attended /\ seen' = seen
  BY DEF CURSOR_LEFT, CURSOR_RIGHT, Key
<1>2. /\ Edited(tty) /\ tty.enter_flag = 0
      /\ Waiting /\ tty.read_open = 1
      /\ Displays(tty, seen.start, seen.before)
  BY <1>1, KeyPlace DEF CURSOR_LEFT, CURSOR_RIGHT
<1>3. /\ tty \in Tty /\ tty.pos \in Position /\ seen.start \in 0 .. Last /\ Last \in Nat
      /\ tty.count \in Nat /\ tty.char_location \in Nat
  BY <1>2, ScreenOf, LineFacts DEF Edited, Ready
<1>4. /\ At(tty.pos) = seen.start + tty.char_location
      /\ \A k \in 0 .. Last :
             tty.mem[k] = IF k < seen.start THEN seen.before[k]
                          ELSE IF k < seen.start + tty.count
                               THEN Shown(tty.line_buffer[k - seen.start]) ELSE Blank
  BY <1>2 DEF Displays, Shows
<1>5. CASE CURSOR_LEFT
  <2>1. PICK t : t = [tty EXCEPT !.pos = Back(@), !.char_location = @ - 1]
    OBVIOUS
  <2>2. Key(t) /\ tty.pos # Origin
    BY <1>5, <2>1 DEF CURSOR_LEFT
  <2>3. At(Back(tty.pos)) = At(tty.pos) - 1
    BY <1>3, <2>2, AtFacts
  <2>4. /\ t.pos = Back(tty.pos) /\ t.char_location = tty.char_location - 1
        /\ t.mem = tty.mem /\ t.line_buffer = tty.line_buffer /\ t.count = tty.count
        /\ SameRest(tty, t)
    BY <1>3, <2>1 DEF Tty, SameRest
  <2>5. At(t.pos) = seen.start + t.char_location
    BY <1>3, <1>4, <2>3, <2>4
  <2>6. Displays(t, seen.start, seen.before)
    BY <1>4, <2>4, <2>5 DEF Displays, Shows
  <2> QED BY <1>1, <1>2, <1>3, <2>2, <2>4, <2>6, WaitingKey DEF SameRest
<1>6. CASE CURSOR_RIGHT
  <2>1. PICK t : t = [tty EXCEPT !.pos = Forward(@), !.char_location = @ + 1]
    OBVIOUS
  <2>2. Key(t) /\ tty.pos # Corner
    BY <1>6, <2>1 DEF CURSOR_RIGHT
  <2>3. At(Forward(tty.pos)) = At(tty.pos) + 1
    BY <1>3, <2>2, AtFacts
  <2>4. /\ t.pos = Forward(tty.pos) /\ t.char_location = tty.char_location + 1
        /\ t.mem = tty.mem /\ t.line_buffer = tty.line_buffer /\ t.count = tty.count
        /\ SameRest(tty, t)
    BY <1>3, <2>1 DEF Tty, SameRest
  <2>5. At(t.pos) = seen.start + t.char_location
    BY <1>3, <1>4, <2>3, <2>4
  <2>6. Displays(t, seen.start, seen.before)
    BY <1>4, <2>4, <2>5 DEF Displays, Shows
  <2> QED BY <1>1, <1>2, <1>3, <2>2, <2>4, <2>6, WaitingKey DEF SameRest
<1> QED BY <1>5, <1>6

LEMMA ShowsRecalled ==
    ASSUME NEW t, Edited(t), t.read_open = 1, t.char_location = t.count,
           NEW id \in Nat, id <= t.buf_count,
           NEW start \in 0 .. Last, NEW before, Displays(t, start, before),
           Fit(start, t.count),
           strlen(Recalled(t, id).line_buffer) = Recalled(t, id).count,
           Fit(start, Recalled(t, id).count)
    PROVE  Displays(Recalled(t, id), start, before)
<1> DEFINE e == Erased(t)
           m == Loaded(t, id)
           b == m.line_buffer
           u == Recalled(t, id)
<1>1. e.count = 0 /\ e.char_location = 0 /\ Displays(e, start, before)
  BY ShowsErased
<1>2. t \in Tty /\ e \in Tty /\ SameRest(t, e)
  BY LoadedKeeps DEF Edited, Ready
<1>3. Edited(m) /\ m.char_location = m.count /\ m.mem = e.mem /\ m.pos = e.pos
  BY LoadedKeeps
<1>4. u = puts_intr(m, Str(b))
  BY <1>2, RecalledIs
<1> HIDE DEF e, m, u
<1>5. m \in Tty /\ b \in [Index -> Cell]
  BY <1>3 DEF Edited, Ready, Tty
<1>6. SameLine(m, u)
  BY <1>4, <1>5, CellString, PutsKeeps
<1>7. strlen(b) = m.count /\ Fit(start, m.count)
  BY <1>6 DEF SameLine, u
<1>8. Shows(m.mem, m.pos, b, 0, 0, start, before)
  <2>1. start \in Nat /\ Last \in Nat
    BY ScreenFacts
  <2>2. Shows(e.mem, e.pos, e.line_buffer, 0, 0, start, before)
    BY <1>1 DEF Displays
  <2> QED BY <1>3, <2>1, <2>2 DEF Shows
<1>9. Displays(puts_intr(m, Str(b)), start, before)
  BY <1>3, <1>7, <1>8, ShowsPuts
<1> QED BY <1>4, <1>9 DEF u

LEMMA HistoryShows ==
    ASSUME LInv, EInv, Tidy, CURSOR_UP \/ CURSOR_DOWN
    PROVE  EInv'
<1>1. Attended /\ AtEnd /\ (tty.read_open = 1 \/ "UnreadHistory" \in Env)
  BY DraftKeeps, KeyFinds, TidyFacts DEF CURSOR_UP, CURSOR_DOWN, Recall, Key, WithDraft
<1>2. /\ Edited(tty) /\ tty.enter_flag = 0 /\ Waiting /\ tty.read_open = 1
      /\ Displays(tty, seen.start, seen.before) /\ Fit(seen.start, tty.count)
      /\ tty.char_location = tty.count
  BY <1>1, KeyPlace, TidyFacts DEF AtEnd
<1>3. /\ tty.cur_buffer_id \in Nat /\ tty.buf_count \in Nat
      /\ tty.cur_buffer_id <= tty.buf_count /\ seen.start \in 0 .. Last
  BY <1>2, ScreenOf DEF Edited, Ready, Tty
<1>4. ASSUME NEW d, Edited(d), SameLine(tty, d), d.mem = tty.mem, d.pos = tty.pos,
             d.read_open = 1, d.enter_flag = 0, NEW id \in Nat, id <= d.buf_count,
             Key(Recalled(d, id)), strlen(Recalled(d, id).line_buffer) = Recalled(d, id).count,
             seen'.start = seen.start, seen'.before = seen.before
      PROVE  EInv'
  <2>1. PICK u : u = Recalled(d, id)
    OBVIOUS
  <2>2. /\ d.char_location = d.count /\ Displays(d, seen.start, seen.before)
        /\ Fit(seen.start, d.count)
    BY <1>2, <1>4 DEF SameLine, Displays
  <2>3. Edited(u) /\ u.read_open = 1 /\ u.enter_flag = 0
    BY <1>4, <2>1, <2>2, RecalledKeeps
  <2>4. u.count \in Nat
    BY <2>3, LineFacts DEF Edited, Ready
  <2>5. Fit(seen.start, u.count) => Displays(u, seen.start, seen.before)
    BY <1>3, <1>4, <2>1, <2>2, ShowsRecalled
  <2>6. Key(u)
    BY <1>4, <2>1
  <2> QED BY <1>2, <1>4, <2>3, <2>4, <2>5, <2>6, WaitingKey
<1>5. CASE CURSOR_UP
  <2>1. PICK d : d = WithDraft(tty)
    OBVIOUS
  <2>2. PICK id : id = tty.cur_buffer_id - 1
    OBVIOUS
  <2>4. /\ Recall(d, id) /\ tty.cur_buffer_id # 0
        /\ seen' = IF tty.cur_buffer_id = tty.buf_count THEN [seen EXCEPT !.draft = {Text}]
                                                        ELSE seen
    BY <1>5, <2>1, <2>2 DEF CURSOR_UP
  <2>5. /\ Edited(d) /\ SameLine(tty, d) /\ d.mem = tty.mem /\ d.pos = tty.pos
        /\ d.buf_count = tty.buf_count
        /\ d.read_open = tty.read_open /\ d.enter_flag = tty.enter_flag
    BY <1>2, <2>1, DraftKeeps
  <2>6. id \in Nat /\ id <= d.buf_count
    BY <1>3, <2>2, <2>4, <2>5
  <2>7. Key(Recalled(d, id)) /\ strlen(Recalled(d, id).line_buffer) = Recalled(d, id).count
    BY <2>4, TidyFacts DEF Recall
  <2>8. seen'.start = seen.start /\ seen'.before = seen.before
    BY <2>4 DEF LInv, SeenOK
  <2> QED BY <1>2, <1>4, <2>5, <2>6, <2>7, <2>8
<1>6. CASE CURSOR_DOWN
  <2>2. PICK id : id = tty.cur_buffer_id + 1
    OBVIOUS
  <2>3. PICK d : d = tty
    OBVIOUS
  <2>4. Recall(d, id) /\ tty.cur_buffer_id # tty.buf_count /\ seen' = seen
    BY <1>6, <2>2, <2>3 DEF CURSOR_DOWN
  <2>5. /\ Edited(d) /\ SameLine(tty, d) /\ d.mem = tty.mem /\ d.pos = tty.pos
        /\ d.read_open = 1 /\ d.enter_flag = 0
    BY <1>2, <2>3 DEF SameLine
  <2>6. id \in Nat /\ id <= d.buf_count
    BY <1>3, <2>2, <2>3, <2>4
  <2>7. Key(Recalled(d, id)) /\ strlen(Recalled(d, id).line_buffer) = Recalled(d, id).count
    BY <2>4, TidyFacts DEF Recall
  <2> QED BY <1>4, <2>4, <2>5, <2>6, <2>7
<1> QED BY <1>5, <1>6

LEMMA TabShows ==
    ASSUME LInv, EInv, Tidy, Tab
    PROVE  EInv'
<1>1. PICK f \in find_similar_file(Str(tty.line_buffer)), junk \in Junk :
         /\ junk \in Seq(Glyph \cup {Space}) \/ "StackControl" \in Env
         /\ Key(PutAll(Erased(tty), f \o junk))
  BY DEF Tab
<1>2. PICK e : e = Erased(tty)
  OBVIOUS
<1>3. f \o junk \in Seq(Letter)
  <2>1. f \in ExeFiles
    BY DEF find_similar_file
  <2>2. f \in Seq(Glyph) /\ junk \in Seq(Glyph \cup {Space})
    BY <1>1, <2>1, LineInputAssumption, TidyFacts DEF Orderly
  <2>3. f \in Seq(Letter) /\ junk \in Seq(Letter)
    BY <2>2 DEF Letter
  <2> QED BY <2>3
<1>4. PICK s \in Seq(Letter) : s = f \o junk
  BY <1>3
<1>5. PICK t : t = PutAll(e, s)
  OBVIOUS
<1>6. Attended /\ AtEnd /\ tty.count # 0 /\ seen' = seen
  BY <1>1 DEF Tab, Key
<1>7. /\ Edited(tty) /\ tty.enter_flag = 0 /\ Waiting /\ tty.read_open = 1
      /\ Displays(tty, seen.start, seen.before) /\ Fit(seen.start, tty.count)
      /\ tty.char_location = tty.count /\ seen.start \in 0 .. Last
  BY <1>6, KeyPlace, TidyFacts, ScreenOf DEF AtEnd
<1>8. /\ Edited(e) /\ SameRest(tty, e) /\ e.count = 0 /\ e.char_location = 0
      /\ Displays(e, seen.start, seen.before)
  BY <1>2, <1>7, ShowsErased
<1>9. Edited(t) /\ SameRest(tty, t)
  BY <1>2, <1>5, <1>7, CompletedKeeps
<1>10. t.count \in Nat
  BY <1>9, LineFacts DEF Edited, Ready
<1>11. Fit(seen.start, t.count) => Displays(t, seen.start, seen.before)
  BY <1>5, <1>7, <1>8, ShowsTyped DEF SameRest
<1>12. Key(t)
  BY <1>1, <1>2, <1>4, <1>5
<1> QED BY <1>6, <1>7, <1>9, <1>10, <1>11, <1>12, WaitingKey DEF SameRest

LEMMA ClearShows ==
    ASSUME LInv, EInv, Tidy, ClearScreen
    PROVE  EInv'
<1>1. PICK t : t = [tty EXCEPT !.mem = Cleared(@), !.pos = Origin]
  OBVIOUS
<1>2. /\ Key(t) /\ seen' = [seen EXCEPT !.start = 0, !.before = Cleared(@)]
      /\ tty.count = 0 /\ Attended
  BY <1>1, TidyFacts DEF ClearScreen, Key
<1>3. /\ tty \in Tty /\ tty.mem \in [0 .. Last -> ScreenCell] /\ seen'.start = 0
      /\ tty.char_location = 0 /\ At(Origin) = 0 /\ Last \in Nat
  <2>1. tty.char_location = 0
    BY <1>2, KeyPlace, LineFacts DEF Edited, Ready
  <2>2. At(Origin) = 0
    BY PositionFacts, AtFacts
  <2>3. tty \in Tty /\ tty.mem \in [0 .. Last -> ScreenCell] /\ Last \in Nat
    BY ScreenOf
  <2>4. seen'.start = 0
    BY <1>2 DEF LInv, SeenOK
  <2> QED BY <2>1, <2>2, <2>3, <2>4
<1>4. /\ t.mem = Cleared(tty.mem) /\ t.pos = Origin /\ t.count = 0 /\ t.char_location = 0
      /\ t.enter_flag = tty.enter_flag
  BY <1>1, <1>2, <1>3 DEF Tty
<1>5. \A k \in 0 .. Last : t.mem[k] = Blank
  BY <1>3, <1>4 DEF Cleared
<1>6. tty' = t /\ (Waiting => prog' = prog)
  BY <1>2 DEF Key, Waiting, Unread
<1>7. CASE Waiting
  <2>1. tty'.count = 0 /\ prog'.pc = "wait"
    BY <1>4, <1>6, <1>7 DEF Waiting
  <2>2. ASSUME NEW B PROVE Displays(t, 0, B)
    BY <1>3, <1>4, <1>5 DEF Displays, Shows
  <2>3. Fit(0, t.count)
    BY <1>4 DEF Fit
  <2>4. Displays(tty', seen'.start, seen'.before) /\ Fit(seen'.start, tty'.count)
    BY <1>3, <1>6, <2>2, <2>3
  <2>5. Waiting'
    BY <1>4, <1>6, <1>7 DEF Waiting
  <2> QED BY <2>1, <2>4, <2>5 DEF EInv
<1>8. CASE ~Waiting
  <2>1. Blanks(t.mem, t.pos)
    BY <1>5 DEF Blanks
  <2>2. Unread /\ prog'.pc = prog.pc
    BY <1>2, <1>8, KeyPlace DEF Key, LInv, Prog
  <2>3. ~Waiting' /\ tty'.count = 0
    BY <1>4, <1>6, <2>2 DEF Waiting, Unread
  <2> QED BY <1>6, <2>1, <2>3 DEF EInv, Clean
<1> QED BY <1>7, <1>8

\* A row that a number of cells do not fill.
LEMMA RowEnd ==
    ASSUME NEW x \in Nat, NEW y \in Nat, x \div NUM_COLS <= y
    PROVE  x < NUM_COLS * (y + 1)
<1>1. NUM_COLS \in Nat /\ NUM_COLS > 0
  BY ScreenFacts
<1> QED BY <1>1

\* Enter leaves the line on the rows above the cursor.
LEMMA EnterShows ==
    ASSUME LInv, EInv, Tidy, Enter
    PROVE  EInv'
<1>1. PICK t : t = Put(tty, "newline")
  OBVIOUS
<1>2. Key(t) /\ Attended /\ (Waiting => (seen.start + tty.count - 1) \div NUM_COLS <= tty.pos.y)
  BY <1>1, TidyFacts DEF Enter, Key
<1>4. CASE Unread /\ ~Waiting /\ tty.read_open = 0
  BY <1>1, <1>2, <1>4, UnreadKey
<1>5. CASE /\ Waiting /\ tty.read_open = 1
           /\ Displays(tty, seen.start, seen.before) /\ Fit(seen.start, tty.count)
  <2>1. /\ Edited(tty) /\ tty.count \in Nat /\ tty.char_location \in Nat
        /\ tty \in Tty /\ tty.mem \in [0 .. Last -> ScreenCell] /\ tty.pos \in Position
        /\ seen.start \in 0 .. Last /\ Last \in Nat /\ seen.start \in Nat
        /\ tty.char_location <= tty.count
    BY <1>2, KeyPlace, ScreenOf, LineFacts DEF Edited, Ready
  <2>2. /\ Echoing(tty, "newline", t)
        /\ t = [tty EXCEPT !.line_buffer[tty.count] = "newline", !.enter_flag = 1,
                           !.mem = t.mem, !.pos = t.pos]
    BY <1>1, <1>5, <2>1, PutEnter
  <2>3. t.enter_flag = 1
    BY <2>1, <2>2 DEF Tty
  <2>4. tty' = t /\ prog' = prog /\ prog.pc = "wait"
    BY <1>2, <1>5 DEF Key, Waiting, Unread
  <2>5. ~Waiting'
    BY <2>3, <2>4 DEF Waiting
  <2>6. t.mem = Line(tty.mem, tty.pos).mem /\ t.pos = Line(tty.mem, tty.pos).pos
    <3>1. Shown("newline") = "newline" /\ ~AtOrigin(tty.pos, "newline")
      BY LineFacts DEF AtOrigin
    <3> QED BY <2>2, <3>1 DEF Echoing, putc_intr
  <2>7. /\ At(tty.pos) = seen.start + tty.char_location
        /\ \A k \in 0 .. Last :
             ~(k < seen.start) /\ ~(k < seen.start + tty.count) => tty.mem[k] = Blank
    BY <1>5 DEF Displays, Shows
  <2>10. Blanks(t.mem, t.pos)
    <3>1. CASE tty.pos.y = NUM_ROWS - 1
      BY <2>1, <2>6, <3>1, ScrollBlanks DEF Line
    <3>2. CASE tty.pos.y # NUM_ROWS - 1
      <4> DEFINE q == [x |-> 0, y |-> tty.pos.y + 1]
      <4>1. Line(tty.mem, tty.pos) = [mem |-> tty.mem, pos |-> q]
        BY <3>2 DEF Line
      <4>2. /\ At(q) >= At(tty.pos) /\ At(q) = NUM_COLS * (tty.pos.y + 1) + 0
            /\ tty.pos.y \in Nat /\ NUM_COLS \in Nat /\ At(q) \in Int
        <5>1. At(q) >= At(tty.pos)
          BY <2>1, <3>2, AtFacts
        <5>2. At(q) = NUM_COLS * (tty.pos.y + 1) + 0
          BY DEF At
        <5>3. tty.pos.y \in Nat /\ NUM_COLS \in Nat
          BY <2>1, ScreenFacts DEF Position
        <5>4. NUM_COLS * (tty.pos.y + 1) \in Int
          BY <5>3, Rows
        <5> QED BY <5>1, <5>2, <5>3, <5>4
      <4> HIDE DEF q
      <4>3. seen.start + tty.count <= At(q)
        <5>1. CASE tty.count = 0
          BY <2>1, <2>7, <4>2, <5>1
        <5>2. CASE tty.count > 0
          <6>1. PICK x \in Nat : x = seen.start + tty.count - 1
            BY <2>1, <5>2
          <6>2. x < NUM_COLS * (tty.pos.y + 1)
            BY <1>2, <1>5, <4>2, <6>1, RowEnd
          <6>3. NUM_COLS * (tty.pos.y + 1) \in Int
            BY <4>2, Rows
          <6> QED BY <2>1, <4>2, <6>1, <6>2, <6>3
        <5> QED BY <2>1, <5>1, <5>2
      <4>4. \A k \in 0 .. Last : k >= At(q) => ~(k < seen.start) /\ ~(k < seen.start + tty.count)
        BY <2>1, <4>2, <4>3
      <4>5. Blanks(tty.mem, q)
        BY <2>7, <4>4 DEF Blanks
      <4> QED BY <2>6, <4>1, <4>5
    <3> QED BY <3>1, <3>2
  <2> QED BY <2>4, <2>5, <2>10 DEF EInv, Clean
<1> QED BY <1>2, <1>4, <1>5, KeyPlace

LEMMA WriteShows ==
    ASSUME LInv, EInv, Write
    PROVE  EInv'
<1>1. PICK r : r = putc(tty.mem, tty.pos, Prompt)
  OBVIOUS
<1>2. /\ tty' = [tty EXCEPT !.mem = r.mem, !.pos = r.pos] /\ seen' = seen
      /\ prog.pc = "run" /\ prog' = [prog EXCEPT !.pc = "prompted"]
  BY <1>1 DEF Write
<1>3. tty \in Tty /\ tty.mem \in [0 .. Last -> ScreenCell] /\ tty.pos \in Position
  BY ScreenOf
<1>4. tty.count = 0 /\ Clean
  BY <1>2 DEF EInv, Waiting
<1>5. Blanks(r.mem, r.pos)
  <2>1. Prompt \in ScreenCell
    BY LineInputAssumption DEF ScreenCell
  <2> QED BY <1>1, <1>3, <1>4, <2>1, PutcBlanks DEF Clean
<1>6. tty'.mem = r.mem /\ tty'.pos = r.pos /\ tty'.count = 0
  BY <1>2, <1>3, <1>4 DEF Tty
<1>7. prog'.pc = "prompted"
  BY <1>2 DEF LInv, Prog
<1>8. Clean'
  BY <1>5, <1>6 DEF Clean
<1> QED BY <1>6, <1>7, <1>8 DEF EInv, Waiting

\* The read begins on an empty screen, with an empty line.
LEMMA ReadShows ==
    ASSUME LInv, EInv, NEW nbytes \in Nbytes, terminal_read(nbytes)
    PROVE  EInv'
<1>1. /\ tty' = [tty EXCEPT !.read_open = 1] /\ prog.pc = "prompted"
      /\ prog' = [prog EXCEPT !.pc = "wait", !.nbytes = nbytes, !.i = 0]
      /\ seen' = [seen EXCEPT !.start = At(tty.pos), !.before = tty.mem, !.draft = {}]
  BY DEF terminal_read
<1>2. tty \in Tty /\ tty.mem \in [0 .. Last -> ScreenCell] /\ tty.pos \in Position
      /\ Last \in Nat /\ At(tty.pos) \in 0 .. Last
  BY ScreenOf, AtFacts
<1>3. tty.count = 0 /\ Clean /\ tty.char_location = 0 /\ tty.enter_flag = 0
  <2>1. tty.count = 0 /\ Clean /\ tty.char_location <= tty.count /\ tty.enter_flag = 0
    BY <1>1 DEF EInv, Waiting, LInv, Phases
  <2>2. tty.char_location \in Nat
    BY LineFacts DEF LInv, Ready
  <2> QED BY <2>1, <2>2
<1>4. /\ tty'.mem = tty.mem /\ tty'.pos = tty.pos /\ tty'.count = 0
      /\ tty'.char_location = 0 /\ tty'.enter_flag = 0
  BY <1>1, <1>2, <1>3 DEF Tty
<1>5. seen'.start = At(tty.pos) /\ seen'.before = tty.mem /\ prog'.pc = "wait"
  BY <1>1 DEF LInv, SeenOK, Prog
<1>6. Displays(tty', seen'.start, seen'.before)
  <2>1. \A k \in 0 .. Last : ~(k < At(tty.pos)) => tty.mem[k] = Blank
    BY <1>2, <1>3 DEF Clean, Blanks
  <2> QED BY <1>2, <1>4, <1>5, <2>1 DEF Displays, Shows
<1>7. Fit(seen'.start, tty'.count)
  BY <1>4 DEF Fit
<1> QED BY <1>4, <1>5, <1>6, <1>7 DEF EInv, Waiting

\* The steps of the read after Enter leave the screen alone.
LEMMA ReadingShows ==
    ASSUME LInv, EInv, Read
    PROVE  EInv'
<1>1. ~Waiting /\ Clean
  <2>1. ~Waiting
    BY DEF Read, Wake, Copy, Record, Reset, ClearLine, Return, Waiting
  <2> QED BY <2>1 DEF EInv
<1>2. tty \in Tty /\ prog \in Prog
  BY DEF LInv, Ready
<1>3. tty'.mem = tty.mem /\ tty'.pos = tty.pos
  <2>1. CASE Wake \/ Return
    BY <2>1 DEF Wake, Return
  <2>2. CASE Copy
    BY <1>2, <2>2 DEF Copy, Tty
  <2>3. CASE Record
    <3>1. PICK h, m, q : tty' = [tty EXCEPT !.history_line_buf[tty.buf_count] = h,
                                            !.buf_count = m, !.cur_buffer_id = q]
      BY <2>3, Zenon DEF Record
    <3> QED BY <1>2, <3>1 DEF Tty
  <2>4. CASE Reset
    <3>1. prog.i \in 1 .. 4 /\ tty' = [tty EXCEPT ![Resets[prog.i]] = 0]
      BY <2>4 DEF Reset, LInv, Phases
    <3>2. Resets[prog.i] # "mem" /\ Resets[prog.i] # "pos"
      BY <3>1 DEF Resets
    <3> QED BY <1>2, <3>1, <3>2 DEF Tty
  <2>5. CASE ClearLine
    BY <1>2, <2>5 DEF ClearLine, Tty
  <2> QED BY <2>1, <2>2, <2>3, <2>4, <2>5 DEF Read
<1>4. /\ ~(prog'.pc = "wait" /\ tty'.enter_flag = 0)
      /\ prog'.pc \in {"run", "prompted"} => tty'.count = 0
  <2>1. CASE Return
    <3>1. tty.count = 0 /\ tty' = tty /\ prog'.pc = "run"
      BY <1>2, <2>1 DEF Return, LInv, Phases, Prog
    <3> QED BY <3>1
  <2>2. CASE Wake
    BY <1>2, <2>2 DEF Wake, Prog
  <2>3. CASE Copy \/ Record
    BY <1>2, <2>3 DEF Copy, Record, Prog
  <2>4. CASE Reset
    BY <1>2, <2>4 DEF Reset, Prog
  <2>5. CASE ClearLine
    BY <1>2, <2>5 DEF ClearLine, Prog
  <2> QED BY <2>1, <2>2, <2>3, <2>4, <2>5 DEF Read
<1>5. Clean' /\ ~Waiting'
  BY <1>1, <1>3, <1>4 DEF Clean, Waiting
<1> QED BY <1>4, <1>5 DEF EInv

LEMMA KilledShows ==
    ASSUME LInv, EInv, Tidy, Killed
    PROVE  EInv'
<1>1. /\ tty' = tty /\ prog'.pc = "run" /\ tty.count = 0 /\ tty.enter_flag = 0
  BY TidyFacts DEF Killed, LInv, Prog
<1>2. Clean
  <2>1. CASE Waiting
    <3>1. /\ tty.char_location = 0 /\ Last \in Nat /\ seen.start \in 0 .. Last
      BY <1>1, <2>1, ScreenOf, LineFacts DEF LInv, Ready, Phases, Waiting
    <3>2. /\ At(tty.pos) = seen.start
          /\ \A k \in 0 .. Last : ~(k < seen.start) => tty.mem[k] = Blank
      BY <1>1, <2>1, <3>1 DEF EInv, Displays, Shows
    <3> QED BY <3>1, <3>2 DEF Clean, Blanks
  <2>2. CASE ~Waiting
    BY <2>2 DEF EInv
  <2> QED BY <2>1, <2>2
<1> QED BY <1>1, <1>2 DEF EInv, Waiting, Clean

LEMMA EchoInvariant == ASSUME Tidy PROVE Spec => [](LInv /\ EInv)
<1> USE TidyFacts
<1>1. Init => EInv
  <2> SUFFICES ASSUME Init PROVE EInv
    OBVIOUS
  <2>1. prog.pc = "run" /\ tty.count = 0 /\ tty.mem = NoText(0 .. Last)
    BY DEF Init
  <2>2. Clean
    BY <2>1 DEF Clean, Blanks, NoText, Nul
  <2> QED BY <2>1, <2>2 DEF EInv, Waiting
<1>2. LInv /\ EInv /\ [Next]_vars => EInv'
  <2> SUFFICES ASSUME LInv, EInv, [Next]_vars PROVE EInv'
    OBVIOUS
  <2>1. ASSUME NEW c \in Typed, Type(c) PROVE EInv'
    BY <2>1, TypeShows
  <2>2. CASE Backspace
    BY <2>2, BackspaceShows
  <2>3. CASE Enter
    BY <2>3, EnterShows
  <2>4. CASE CURSOR_LEFT \/ CURSOR_RIGHT
    BY <2>4, CursorShows
  <2>5. CASE CURSOR_UP \/ CURSOR_DOWN
    BY <2>5, HistoryShows
  <2>6. CASE Tab
    BY <2>6, TabShows
  <2>7. CASE ClearScreen
    BY <2>7, ClearShows
  <2>8. CASE Write
    BY <2>8, WriteShows
  <2>9. ASSUME NEW nbytes \in Nbytes, terminal_read(nbytes) PROVE EInv'
    BY <2>9, ReadShows
  <2>10. CASE Read
    BY <2>10, ReadingShows
  <2>11. CASE Killed
    BY <2>11, KilledShows
  <2>12. CASE UNCHANGED vars
    BY <2>12 DEF vars, EInv, Waiting, Clean
  <2> QED BY <2>1, <2>2, <2>3, <2>4, <2>5, <2>6, <2>7, <2>8, <2>9, <2>10, <2>11, <2>12
          DEF Next, Keyboard
<1>3. Spec => []LInv
  BY LineInvariant
<1> QED BY <1>1, <1>2, <1>3, PTL DEF Spec

\* While a program waits, the screen shows the line of the buffer in its place, with
\* nothing after it and what was there before, and the cursor stands at the character
\* that the next key edits (putc_intr, scroll_left_char and scroll_right_char against
\* fill_line_buffer), on screens and for buffers of every size.  The run takes none of
\* the events of Env; Tidy also allows a draft that ends in an older one and Enter on
\* an empty line while an old one is selected, which do not disturb the screen.
THEOREM EchoedHolds ==
    ASSUME Tidy
    PROVE  Spec => []Echoed
<1>1. LInv /\ EInv => Echoed
  BY DisplaysIsEchoed DEF EInv
<1> QED BY <1>1, EchoInvariant, PTL

----------------------------------------------------------------------------
(* Recalls                                                                 *)

\* Whatever the keys do to the screen, nobody makes the history lose a line: the keys
\* are those of Orderly, no draft ends in an older one, no old line is selected when
\* an empty one is entered, and no program asks for nothing, which would end the read
\* with an old line still selected.
Remembering ==
    /\ Env \subseteq {"SpaceEdit", "StaleTail", "WrapEnter", "ClearMidLine"}
    /\ 0 \notin Nbytes

\* The history holds the lines that were read.
Holds ==
    /\ Len(seen.lines) = tty.buf_count
    /\ \A id \in 0 .. tty.buf_count - 1 : Str(tty.history_line_buf[id]) = seen.lines[id + 1]

\* Where the user is in the history: at its end, unless a program waits.
Place ==
    /\ prog.pc \in {"run", "prompted"} => tty.count = 0 /\ tty.cur_buffer_id = tty.buf_count
    /\ Waiting /\ tty.cur_buffer_id # tty.buf_count =>
         seen.draft = {Str(tty.history_line_buf[tty.buf_count])}
    /\ prog.pc \in {"wait", "copy"} => prog.nbytes # 0
    /\ prog.pc = "copy" =>
         \A k \in 0 .. prog.i - 1 :
             tty.history_line_buf[tty.buf_count][k] = tty.line_buffer[k]
    /\ prog.pc \in {"wait", "copy"} /\ tty.enter_flag = 1 /\ tty.count = 0 =>
         tty.cur_buffer_id = tty.buf_count
    /\ prog.pc \in {"reset", "clear", "return"} => tty.cur_buffer_id = tty.buf_count

HInv == Holds /\ Place

LEMMA RememberingFacts ==
    ASSUME Remembering
    PROVE  /\ Orderly
           /\ "EmptyBrowse" \notin Env /\ "ShorterDraft" \notin Env
           /\ "UnreadHistory" \notin Env /\ "KilledRead" \notin Env /\ "FrontErase" \notin Env
BY DEF Remembering, Orderly

\* Keys that leave the history alone.
LEMMA KeyRemembers ==
    ASSUME LInv, HInv, Remembering, NEW t, Key(t), SameRest(tty, t),
           ~Waiting => t.count = 0, seen'.lines = seen.lines, seen'.draft = seen.draft
    PROVE  HInv'
<1>1. tty.enter_flag = 0 /\ (Waiting \/ (Unread /\ ~Waiting))
  <2>1. Attended
    BY DEF Key
  <2> QED BY <2>1, RememberingFacts, KeyFinds
<1>2. tty' = t /\ prog'.pc = prog.pc /\ prog'.nbytes = prog.nbytes
  BY DEF Key, LInv, Prog
<1>3. /\ tty'.history_line_buf = tty.history_line_buf /\ tty'.buf_count = tty.buf_count
      /\ tty'.cur_buffer_id = tty.cur_buffer_id /\ tty'.enter_flag = 0
  BY <1>1, <1>2 DEF SameRest
<1>4. Holds'
  BY <1>3 DEF HInv, Holds
<1>5. Place'
  BY <1>1, <1>2, <1>3 DEF HInv, Place, Waiting, Unread
<1> QED BY <1>4, <1>5 DEF HInv

LEMMA EditRemembers ==
    ASSUME LInv, HInv, Remembering,
           (\E c \in Typed : Type(c)) \/ Backspace \/ CURSOR_LEFT \/ CURSOR_RIGHT \/ Tab
           \/ ClearScreen
    PROVE  HInv'
<1>1. Attended /\ seen'.lines = seen.lines /\ seen'.draft = seen.draft
  BY DEF Type, Backspace, CURSOR_LEFT, CURSOR_RIGHT, Tab, ClearScreen, Key, LInv, SeenOK
<1>2. /\ Edited(tty)
      /\ \/ Waiting /\ tty.read_open = 1
         \/ Unread /\ ~Waiting /\ tty.read_open = 0
  BY <1>1, RememberingFacts, KeyFinds
<1>3. tty \in Tty /\ tty.count \in Nat /\ tty.char_location \in 0 .. tty.count
  BY <1>2, LineFacts DEF Edited, Ready
<1>4. ~Waiting => tty.count = 0
  BY <1>2 DEF HInv, Place, Unread
<1>5. ASSUME NEW c \in Letter \cup {"backspace"}, NEW t, t = Put(tty, c), Key(t),
             c = "backspace" => tty.count = 0 \/ tty.char_location > 0
      PROVE  HInv'
  <2>1. SameRest(tty, t)
    BY <1>2, <1>5, PutKeeps
  <2>2. ~Waiting => t.count = 0
    BY <1>2, <1>3, <1>4, <1>5, PutUnread DEF SameLine
  <2> QED BY <1>1, <1>5, <2>1, <2>2, KeyRemembers
<1>6. CASE \E c \in Typed : Type(c)
  <2>1. PICK c \in Typed : Type(c)
    BY <1>6
  <2>2. c \in Letter /\ c # "backspace" /\ Key(Put(tty, c))
    BY <2>1, LineFacts DEF Type
  <2> QED BY <1>5, <2>2
<1>7. CASE Backspace
  <2>1. Key(Put(tty, "backspace")) /\ (tty.count = 0 \/ tty.char_location > 0)
    BY <1>7, RememberingFacts DEF Backspace
  <2> QED BY <1>5, <2>1
<1>8. CASE CURSOR_LEFT
  <2>1. PICK t : t = [tty EXCEPT !.pos = Back(@), !.char_location = @ - 1]
    OBVIOUS
  <2>2. Key(t)
    BY <1>8, <2>1 DEF CURSOR_LEFT
  <2>3. SameRest(tty, t) /\ t.count = tty.count
    BY <1>3, <2>1 DEF Tty, SameRest
  <2> QED BY <1>1, <1>4, <2>2, <2>3, KeyRemembers
<1>9. CASE CURSOR_RIGHT
  <2>1. PICK t : t = [tty EXCEPT !.pos = Forward(@), !.char_location = @ + 1]
    OBVIOUS
  <2>2. Key(t)
    BY <1>9, <2>1 DEF CURSOR_RIGHT
  <2>3. SameRest(tty, t) /\ t.count = tty.count
    BY <1>3, <2>1 DEF Tty, SameRest
  <2> QED BY <1>1, <1>4, <2>2, <2>3, KeyRemembers
<1>10. CASE Tab
  <2>1. PICK f \in find_similar_file(Str(tty.line_buffer)), junk \in Junk :
           /\ junk \in Seq(Glyph \cup {Space}) \/ "StackControl" \in Env
           /\ Key(PutAll(Erased(tty), f \o junk))
    BY <1>10 DEF Tab
  <2>2. f \o junk \in Seq(Letter)
    <3>1. f \in ExeFiles
      BY DEF find_similar_file
    <3>2. f \in Seq(Glyph) /\ junk \in Seq(Glyph \cup {Space})
      BY <2>1, <3>1, LineInputAssumption, RememberingFacts DEF Orderly
    <3>3. f \in Seq(Letter) /\ junk \in Seq(Letter)
      BY <3>2 DEF Letter
    <3> QED BY <3>3
  <2>3. PICK s \in Seq(Letter) : s = f \o junk
    BY <2>2
  <2>4. PICK t : t = PutAll(Erased(tty), s)
    OBVIOUS
  <2>5. Key(t) /\ tty.count # 0 /\ tty.char_location = tty.count
    BY <1>10, <2>1, <2>3, <2>4, RememberingFacts DEF Tab, AtEnd
  <2>6. SameRest(tty, t)
    BY <1>2, <2>4, <2>5, CompletedKeeps
  <2> QED BY <1>1, <1>4, <2>5, <2>6, KeyRemembers
<1>11. CASE ClearScreen
  <2>1. PICK t : t = [tty EXCEPT !.mem = Cleared(@), !.pos = Origin]
    OBVIOUS
  <2>2. Key(t)
    BY <1>11, <2>1 DEF ClearScreen
  <2>3. SameRest(tty, t) /\ t.count = tty.count
    BY <1>3, <2>1 DEF Tty, SameRest
  <2> QED BY <1>1, <1>4, <2>2, <2>3, KeyRemembers
<1> QED BY <1>6, <1>7, <1>8, <1>9, <1>10, <1>11

LEMMA EnterRemembers ==
    ASSUME LInv, HInv, Remembering, Enter
    PROVE  HInv'
<1>1. PICK t : t = Put(tty, "newline")
  OBVIOUS
<1>2. /\ Key(t) /\ Attended
      /\ tty.count = 0 => tty.cur_buffer_id = tty.buf_count
      /\ seen' = IF Waiting THEN [seen EXCEPT !.entered = {Text}, !.draft = {}] ELSE seen
  BY <1>1, RememberingFacts DEF Enter, Key
<1>3. /\ Edited(tty)
      /\ \/ Waiting /\ tty.read_open = 1
         \/ Unread /\ ~Waiting /\ tty.read_open = 0
  BY <1>2, RememberingFacts, KeyFinds
<1>4. CASE Unread /\ ~Waiting /\ tty.read_open = 0
  <2>1. SameLine(tty, t) /\ SameRest(tty, t)
    BY <1>1, <1>3, <1>4, PutUnread DEF Edited, Ready
  <2>2. t.count = 0
    BY <1>4, <2>1 DEF SameLine, HInv, Place, Unread
  <2> QED BY <1>2, <1>4, <2>1, <2>2, KeyRemembers
<1>5. CASE Waiting /\ tty.read_open = 1
  <2>1. t = [tty EXCEPT !.line_buffer[tty.count] = "newline", !.enter_flag = 1,
                        !.mem = t.mem, !.pos = t.pos]
    BY <1>1, <1>3, <1>5, PutEnter
  <2>2. /\ t.count = tty.count /\ t.enter_flag = 1 /\ t.buf_count = tty.buf_count
        /\ t.history_line_buf = tty.history_line_buf
        /\ t.cur_buffer_id = tty.cur_buffer_id
    BY <1>3, <2>1 DEF Edited, Ready, Tty
  <2>3. tty' = t /\ prog' = prog /\ prog.pc = "wait"
    BY <1>2, <1>5 DEF Key, Waiting, Unread
  <2>4. seen'.lines = seen.lines
    BY <1>2 DEF LInv, SeenOK
  <2>5. Holds'
    BY <2>2, <2>3, <2>4 DEF HInv, Holds
  <2>6. Place'
    BY <1>2, <2>2, <2>3 DEF HInv, Place, Waiting
  <2> QED BY <2>5, <2>6 DEF HInv
<1> QED BY <1>3, <1>4, <1>5

\* The draft is in the history while an older line is selected.
LEMMA DraftString ==
    ASSUME NEW t, Edited(t), t.cur_buffer_id = t.buf_count,
           strlen(WithDraft(t).history_line_buf[t.buf_count]) = t.count
    PROVE  Str(WithDraft(t).history_line_buf[t.buf_count]) = First(t.line_buffer, t.count)
<1> DEFINE d == WithDraft(t).history_line_buf[t.buf_count]
<1>1. \A k \in 0 .. t.count - 1 : d[k] = t.line_buffer[k]
  BY DraftKeeps
<1> HIDE DEF d
<1>2. t.count \in Nat
  BY LineFacts DEF Edited, Ready
<1>3. \A k \in 1 .. t.count : d[k - 1] = t.line_buffer[k - 1]
  BY <1>1, <1>2
<1>4. First(d, t.count) = First(t.line_buffer, t.count)
  BY <1>3 DEF First
<1> QED BY <1>4 DEF Str, d

\* What a history key does, by where it goes.
LEMMA HistoryKey ==
    ASSUME LInv, HInv, Remembering, CURSOR_UP \/ CURSOR_DOWN
    PROVE  /\ HInv'
           /\ Text' \in IF tty'.cur_buffer_id = tty.buf_count
                        THEN seen.draft ELSE {seen.lines[tty'.cur_buffer_id + 1]}
<1>1. Attended /\ AtEnd /\ (tty.read_open = 1 \/ "UnreadHistory" \in Env)
  BY DEF CURSOR_UP, CURSOR_DOWN, Recall, Key
<1>2. /\ Edited(tty) /\ tty.enter_flag = 0 /\ Waiting /\ tty.read_open = 1
      /\ tty.char_location = tty.count
  BY <1>1, RememberingFacts, KeyFinds DEF AtEnd
<1>3. /\ tty.cur_buffer_id \in Nat /\ tty.buf_count \in Nat
      /\ tty.cur_buffer_id <= tty.buf_count
      /\ \A id \in Nat : id <= tty.buf_count => id \in HistoryIndex
  BY <1>2, LineFacts DEF Edited, Ready, Tty, HistoryIndex
<1>4. /\ Len(seen.lines) = tty.buf_count
      /\ \A id \in 0 .. tty.buf_count - 1 : Str(tty.history_line_buf[id]) = seen.lines[id + 1]
      /\ tty.cur_buffer_id # tty.buf_count =>
           seen.draft = {Str(tty.history_line_buf[tty.buf_count])}
      /\ prog.nbytes # 0 /\ prog.pc = "wait"
  BY <1>2 DEF HInv, Holds, Place, Waiting
<1>5. CASE CURSOR_UP
  <2>1. PICK d : d = WithDraft(tty)
    OBVIOUS
  <2>2. PICK id : id = tty.cur_buffer_id - 1
    OBVIOUS
  <2>3. PICK t : t = Recalled(d, id)
    OBVIOUS
  <2>4. /\ Key(t) /\ tty.cur_buffer_id # 0
        /\ tty.cur_buffer_id = tty.buf_count => strlen(d.history_line_buf[tty.buf_count]) = tty.count
        /\ seen' = IF tty.cur_buffer_id = tty.buf_count THEN [seen EXCEPT !.draft = {Text}]
                                                        ELSE seen
    BY <1>5, <2>1, <2>2, <2>3, RememberingFacts DEF CURSOR_UP, Recall
  <2>5. /\ Edited(d) /\ d.char_location = d.count /\ d.buf_count = tty.buf_count
        /\ d.read_open = tty.read_open /\ d.enter_flag = tty.enter_flag
        /\ \A h \in HistoryIndex :
             h # tty.buf_count => d.history_line_buf[h] = tty.history_line_buf[h]
    BY <1>2, <2>1, DraftKeeps DEF SameLine
  <2>6. id \in Nat /\ id <= d.buf_count /\ id \in 0 .. tty.buf_count - 1
        /\ id # tty.buf_count /\ id \in HistoryIndex
    BY <1>3, <2>2, <2>4, <2>5
  <2>7. /\ First(t.line_buffer, t.count) = Str(d.history_line_buf[id])
        /\ t.enter_flag = 0 /\ t.history_line_buf = d.history_line_buf
        /\ t.buf_count = tty.buf_count /\ t.cur_buffer_id = id
    BY <1>2, <2>3, <2>5, <2>6, RecalledKeeps
  <2>8. tty' = t /\ prog' = prog
    BY <1>2, <2>4 DEF Key, Unread, Waiting
  <2>9. Text' = seen.lines[id + 1]
    BY <1>4, <2>5, <2>6, <2>7, <2>8 DEF Text
  <2>10. seen'.lines = seen.lines
    BY <2>4 DEF LInv, SeenOK
  <2>11. Holds'
    <3>1. \A h \in 0 .. tty.buf_count - 1 : h \in HistoryIndex /\ h # tty.buf_count
      BY <1>3
    <3> QED BY <1>4, <2>5, <2>7, <2>8, <2>10, <3>1 DEF Holds
  <2>12. seen'.draft = {Str(d.history_line_buf[tty.buf_count])}
    <3>1. CASE tty.cur_buffer_id = tty.buf_count
      <4>1. Str(d.history_line_buf[tty.buf_count]) = Text
        BY <1>2, <2>1, <2>4, <3>1, DraftString DEF Text
      <4>2. seen'.draft = {Text}
        BY <2>4, <3>1 DEF LInv, SeenOK
      <4> QED BY <4>1, <4>2
    <3>2. CASE tty.cur_buffer_id # tty.buf_count
      <4>1. d = tty /\ seen' = seen
        BY <2>1, <2>4, <3>2 DEF WithDraft
      <4> QED BY <1>4, <3>2, <4>1
    <3> QED BY <3>1, <3>2
  <2>13. Place'
    BY <1>4, <2>7, <2>8, <2>12 DEF Place, Waiting
  <2>14. tty'.cur_buffer_id = id
    BY <2>7, <2>8
  <2> QED BY <2>6, <2>9, <2>11, <2>13, <2>14 DEF HInv
<1>6. CASE CURSOR_DOWN
  <2>2. PICK id : id = tty.cur_buffer_id + 1
    OBVIOUS
  <2>3. PICK t : t = Recalled(tty, id)
    OBVIOUS
  <2>4. Key(t) /\ tty.cur_buffer_id # tty.buf_count /\ seen' = seen
    BY <1>6, <2>2, <2>3 DEF CURSOR_DOWN, Recall
  <2>6. id \in Nat /\ id <= tty.buf_count
    BY <1>3, <2>2, <2>4
  <2>7. /\ First(t.line_buffer, t.count) = Str(tty.history_line_buf[id])
        /\ t.enter_flag = 0 /\ t.history_line_buf = tty.history_line_buf
        /\ t.buf_count = tty.buf_count /\ t.cur_buffer_id = id
    BY <1>2, <2>3, <2>6, RecalledKeeps
  <2>8. tty' = t /\ prog' = prog
    BY <1>2, <2>4 DEF Key, Unread, Waiting
  <2>9. Text' = Str(tty.history_line_buf[id]) /\ tty'.cur_buffer_id = id
    BY <2>7, <2>8 DEF Text
  <2>10. id = tty.buf_count => Text' \in seen.draft
    BY <1>4, <2>4, <2>9
  <2>11. id # tty.buf_count => id \in 0 .. tty.buf_count - 1
    BY <1>3, <2>6
  <2>12. Text' \in IF tty'.cur_buffer_id = tty.buf_count
                   THEN seen.draft ELSE {seen.lines[tty'.cur_buffer_id + 1]}
    BY <1>4, <2>9, <2>10, <2>11
  <2>13. Holds'
    BY <1>4, <2>4, <2>7, <2>8 DEF Holds
  <2>14. Place'
    BY <1>4, <2>4, <2>7, <2>8 DEF Place, Waiting
  <2> QED BY <2>12, <2>13, <2>14 DEF HInv
<1> QED BY <1>5, <1>6

\* Where the program is matters to the history only in a read.
LEMMA WriteRemembers ==
    ASSUME LInv, HInv, Write
    PROVE  HInv'
<1>1. PICK r : r = putc(tty.mem, tty.pos, Prompt)
  OBVIOUS
<1>2. /\ tty' = [tty EXCEPT !.mem = r.mem, !.pos = r.pos] /\ seen' = seen
      /\ prog.pc = "run" /\ prog'.pc = "prompted"
  BY <1>1 DEF Write, LInv, Prog
<1>3. /\ tty'.history_line_buf = tty.history_line_buf /\ tty'.buf_count = tty.buf_count
      /\ tty'.cur_buffer_id = tty.cur_buffer_id /\ tty'.count = tty.count
  BY <1>2 DEF LInv, Ready, Tty
<1>4. Holds'
  BY <1>2, <1>3 DEF HInv, Holds
<1>5. Place'
  BY <1>2, <1>3 DEF HInv, Place, Waiting
<1> QED BY <1>4, <1>5 DEF HInv

LEMMA ReadRemembers ==
    ASSUME LInv, HInv, Remembering, NEW nbytes \in Nbytes, terminal_read(nbytes)
    PROVE  HInv'
<1>1. /\ prog.pc = "prompted" /\ tty' = [tty EXCEPT !.read_open = 1]
      /\ prog'.pc = "wait" /\ prog'.nbytes = nbytes
      /\ seen'.lines = seen.lines
  BY DEF terminal_read, LInv, Prog, SeenOK
<1>2. /\ tty'.history_line_buf = tty.history_line_buf /\ tty'.buf_count = tty.buf_count
      /\ tty'.cur_buffer_id = tty.cur_buffer_id /\ tty'.count = tty.count
      /\ tty'.enter_flag = tty.enter_flag
  BY <1>1 DEF LInv, Ready, Tty
<1>3. nbytes # 0
  BY DEF Remembering
<1>4. tty.enter_flag = 0 /\ tty.cur_buffer_id = tty.buf_count
  BY <1>1 DEF LInv, Phases, HInv, Place
<1>5. Holds'
  BY <1>1, <1>2 DEF HInv, Holds
<1>6. Place'
  BY <1>1, <1>2, <1>3, <1>4 DEF Place, Waiting
<1> QED BY <1>5, <1>6 DEF HInv

LEMMA WakeRemembers ==
    ASSUME LInv, HInv, Wake
    PROVE  HInv'
<1>1. /\ prog.pc = "wait" /\ tty.enter_flag = 1 /\ tty' = tty /\ seen' = seen
      /\ prog'.pc = "copy" /\ prog'.nbytes = prog.nbytes /\ prog'.i = prog.i
  BY DEF Wake, LInv, Prog
<1>2. prog.i = 0
  BY <1>1 DEF LInv, Phases
<1>3. Holds'
  BY <1>1 DEF HInv, Holds
<1>4. Place'
  BY <1>1, <1>2 DEF HInv, Place, Waiting
<1> QED BY <1>3, <1>4 DEF HInv

LEMMA CopyRemembers ==
    ASSUME LInv, HInv, Copy
    PROVE  HInv'
<1>1. PICK c : c = tty.line_buffer[prog.i]
  OBVIOUS
<1>2. PICK i : i = prog.i
  OBVIOUS
<1>3. PICK b : b = tty.buf_count
  OBVIOUS
<1>4. PICK H : H = tty.history_line_buf
  OBVIOUS
<1>5. /\ prog.pc = "copy" /\ i < prog.n /\ seen' = seen
      /\ tty' = [tty EXCEPT !.history_line_buf[b][i] = c]
      /\ prog'.pc = "copy" /\ prog'.i = i + 1 /\ prog'.nbytes = prog.nbytes
  BY <1>1, <1>2, <1>3 DEF Copy, LInv, Prog
<1>6. /\ tty \in Tty /\ i \in Nat /\ prog.n \in 0 .. BUFFER_SIZE - 1
      /\ b \in HistoryIndex /\ H \in [HistoryIndex -> [0 .. BUFFER_SIZE - 1 -> Cell]]
  BY <1>2, <1>3, <1>4, <1>5, Copying DEF Tty
<1>7. i \in 0 .. BUFFER_SIZE - 1
  BY <1>5, <1>6, LineFacts
<1>8. PICK d : d = [H[b] EXCEPT ![i] = c]
  OBVIOUS
<1>9. \A k \in 0 .. BUFFER_SIZE - 1 : d[k] = IF k = i THEN c ELSE H[b][k]
  BY <1>6, <1>7, <1>8
<1>10. PICK G : G = [H EXCEPT ![b] = d]
  OBVIOUS
<1>11. tty' = [tty EXCEPT !.history_line_buf = G]
  BY <1>4, <1>5, <1>6, <1>8, <1>10 DEF Tty
<1>12. \A h \in HistoryIndex : G[h] = IF h = b THEN d ELSE H[h]
  BY <1>6, <1>10
<1>13. /\ tty'.history_line_buf = G /\ tty'.buf_count = b
       /\ tty'.cur_buffer_id = tty.cur_buffer_id /\ tty'.count = tty.count
       /\ tty'.line_buffer = tty.line_buffer /\ tty'.enter_flag = tty.enter_flag
  BY <1>3, <1>6, <1>11 DEF Tty
<1>14. Holds'
  <2>1. \A id \in 0 .. b - 1 : id \in HistoryIndex /\ id # b
    BY <1>6, LineFacts DEF HistoryIndex
  <2>2. \A id \in 0 .. b - 1 : G[id] = H[id]
    BY <1>12, <2>1
  <2> QED BY <1>3, <1>4, <1>5, <1>13, <2>2 DEF HInv, Holds
<1>15. \A k \in 0 .. (i + 1) - 1 : G[b][k] = tty.line_buffer[k]
  <2>1. G[b] = d
    BY <1>6, <1>12
  <2>2. \A k \in 0 .. i - 1 : H[b][k] = tty.line_buffer[k]
    BY <1>2, <1>3, <1>4, <1>5 DEF HInv, Place
  <2>3. ASSUME NEW k \in 0 .. (i + 1) - 1 PROVE d[k] = tty.line_buffer[k]
    <3>1. CASE k = i
      BY <1>1, <1>2, <1>7, <1>9, <3>1
    <3>2. CASE k # i
      <4>1. k \in 0 .. i - 1 /\ k \in 0 .. BUFFER_SIZE - 1
        BY <1>6, <1>7, <3>2, LineFacts
      <4> QED BY <1>9, <2>2, <3>2, <4>1
    <3> QED BY <3>1, <3>2
  <2> QED BY <2>1, <2>3
<1>16. Place'
  BY <1>3, <1>5, <1>13, <1>15 DEF HInv, Place, Waiting
<1> QED BY <1>14, <1>16 DEF HInv

\* Record ends the line in the history; a line that was read is in it whole.
LEMMA RecordRemembers ==
    ASSUME LInv, HInv, Record
    PROVE  HInv'
<1>1. PICK b : b = tty.buf_count
  OBVIOUS
<1>2. PICK H : H = tty.history_line_buf
  OBVIOUS
<1>3. PICK n : n = prog.n
  OBVIOUS
<1>4. PICK h : h = Ended(H[b], n)
  OBVIOUS
<1>5. PICK m : m = IF strlen(h) # 0 THEN b + 1 ELSE b
  OBVIOUS
<1>6. PICK q : q = IF strlen(h) # 0 THEN m ELSE tty.cur_buffer_id
  OBVIOUS
<1>7. /\ prog.pc = "copy" /\ prog.i >= n
      /\ tty' = [tty EXCEPT !.history_line_buf[b] = h, !.buf_count = m, !.cur_buffer_id = q]
      /\ seen' = IF n > 0 THEN [seen EXCEPT !.lines = Append(@, prog.buf)] ELSE seen
  BY <1>1, <1>2, <1>3, <1>4, <1>5, <1>6, Zenon DEF Record
<1>8. prog'.pc = "reset"
  BY DEF Record, LInv, Prog
<1>9. /\ tty \in Tty /\ tty.count \in Nat /\ prog.nbytes \in Nat /\ n = AtMost(tty.count, prog.nbytes)
      /\ n \in 0 .. tty.count /\ n \in 0 .. BUFFER_SIZE - 1 /\ prog.i = n
      /\ prog.buf = First(tty.line_buffer, n) /\ prog.buf \in Seq(Letter)
      /\ b \in HistoryIndex
  <2>1. /\ prog.n \in 0 .. tty.count /\ prog.i \in 0 .. prog.n /\ prog.i >= prog.n
    BY <1>3, <1>7, Copying
  <2>2. prog.i = n
    BY <1>3, <2>1, LineFacts DEF LInv, Ready
  <2> QED BY <1>1, <1>3, <1>7, <2>2, Copying
<1>10. /\ Len(seen.lines) = b /\ seen.lines \in Seq(Seq(Letter))
       /\ \A id \in 0 .. b - 1 : Str(H[id]) = seen.lines[id + 1]
       /\ \A k \in 0 .. n - 1 : H[b][k] = tty.line_buffer[k]
       /\ prog.nbytes # 0 /\ tty.enter_flag = 1
       /\ tty.count = 0 => tty.cur_buffer_id = b
  <2>1. tty.enter_flag = 1
    BY <1>7, Copying
  <2> QED BY <1>1, <1>2, <1>7, <1>9, <2>1 DEF HInv, Holds, Place, LInv, SeenOK
<1>11. /\ H[b] \in [0 .. BUFFER_SIZE - 1 -> Cell]
       /\ \A k \in 0 .. BUFFER_SIZE - 1 : H[b][k] \in Letter \cup {Nul}
       /\ H[b][BUFFER_SIZE - 1] = Nul
       /\ \A k \in 0 .. tty.count - 1 : tty.line_buffer[k] \in Letter
  BY <1>2, <1>9 DEF LInv, Ready, Tty
<1>12. \A id \in 0 .. b - 1 : id \in HistoryIndex /\ id # b
  BY <1>9, LineFacts DEF HistoryIndex
<1>13. PICK G : G = [H EXCEPT ![b] = h]
  OBVIOUS
<1>14. /\ \A id \in 0 .. b - 1 : G[id] = H[id]
       /\ G[b] = h
  <2>1. H \in [HistoryIndex -> [0 .. BUFFER_SIZE - 1 -> Cell]]
    BY <1>2, <1>9 DEF Tty
  <2> QED BY <1>9, <1>12, <1>13, <2>1
<1>15. tty' = [tty EXCEPT !.history_line_buf = G, !.buf_count = m, !.cur_buffer_id = q]
  BY <1>2, <1>7, <1>9, <1>13 DEF Tty
<1>16. tty'.history_line_buf = G /\ tty'.buf_count = m /\ tty'.cur_buffer_id = q
  BY <1>9, <1>15 DEF Tty
<1>17. b \in Nat /\ strlen(h) \in Nat
  <2>1. strlen(h) \in Nat
    BY Strlen, LineFacts
  <2> QED BY <1>9, <2>1 DEF HistoryIndex
<1>18. CASE n = 0
  <2>1. strlen(h) = 0
    <3>1. strlen(h) # 0 => n > 0
      BY <1>4, <1>9, <1>11, EndedKeeps
    <3> QED BY <1>18, <3>1
  <2>2. tty.count = 0
    BY <1>9, <1>10, <1>18 DEF AtMost
  <2>3. m = b /\ q = b /\ seen' = seen
    BY <1>5, <1>6, <1>7, <1>10, <1>18, <2>1, <2>2
  <2>4. Holds'
    BY <1>10, <1>14, <1>16, <2>3 DEF Holds
  <2>5. Place'
    BY <1>8, <1>16, <2>3 DEF Place, Waiting
  <2> QED BY <2>4, <2>5 DEF HInv
<1>19. CASE n # 0
  <2>1. n > 0 /\ 0 \in 0 .. n - 1
    BY <1>9, <1>19
  <2>2. \A k \in 0 .. n - 1 : H[b][k] \in Letter /\ H[b][k] # Nul
    <3>1. \A k \in 0 .. n - 1 : k \in 0 .. tty.count - 1
      BY <1>9
    <3> QED BY <1>10, <1>11, <3>1, LineFacts
  <2>3. strlen(H[b]) # 0
    <3>1. strlen(H[b]) = BUFFER_SIZE \/ H[b][strlen(H[b])] = Nul
      BY Strlen
    <3>2. H[b][0] # Nul /\ BUFFER_SIZE # 0
      BY <2>1, <2>2, LineFacts
    <3> QED BY <3>1, <3>2
  <2>4. h = [H[b] EXCEPT ![n] = Nul]
    BY <1>4, <2>3 DEF Ended
  <2>5. h[n] = Nul /\ \A k \in 0 .. n - 1 : h[k] = H[b][k]
    <3>1. \A k \in 0 .. n - 1 : k \in 0 .. BUFFER_SIZE - 1 /\ k # n
      BY <1>9, LineFacts
    <3> QED BY <1>9, <1>11, <2>4, <3>1
  <2>6. strlen(h) = n
    BY <1>9, <2>2, <2>5, StrlenIs
  <2>7. Str(h) = prog.buf
    <3>1. \A k \in 1 .. n : h[k - 1] = tty.line_buffer[k - 1]
      <4>1. ASSUME NEW k \in 1 .. n PROVE h[k - 1] = tty.line_buffer[k - 1]
        <5>1. k - 1 \in 0 .. n - 1
          BY <1>9
        <5> QED BY <1>10, <2>5, <5>1
      <4> QED BY <4>1
    <3>2. First(h, n) = First(tty.line_buffer, n)
      BY <3>1 DEF First
    <3> QED BY <1>9, <2>6, <3>2 DEF Str
  <2>8. m = b + 1 /\ q = b + 1
    BY <1>5, <1>6, <1>9, <1>19, <2>6
  <2>9. PICK s : s = Append(seen.lines, prog.buf)
    OBVIOUS
  <2>10. /\ s \in Seq(Seq(Letter)) /\ Len(s) = b + 1 /\ s[b + 1] = prog.buf
         /\ \A k \in 1 .. b : s[k] = seen.lines[k]
    BY <1>9, <1>10, <2>9, AppendProperties
  <2>11. seen'.lines = s
    BY <1>7, <2>1, <2>9 DEF LInv, SeenOK
  <2>12. \A id \in 0 .. (b + 1) - 1 : Str(G[id]) = s[id + 1]
    <3>1. ASSUME NEW id \in 0 .. (b + 1) - 1 PROVE Str(G[id]) = s[id + 1]
      <4>1. CASE id = b
        BY <1>14, <2>7, <2>10, <4>1
      <4>2. CASE id # b
        <5>1. id \in 0 .. b - 1 /\ id + 1 \in 1 .. b
          BY <1>17, <4>2
        <5> QED BY <1>10, <1>14, <2>10, <5>1
      <4> QED BY <4>1, <4>2
    <3> QED BY <3>1
  <2>13. Holds'
    BY <1>16, <2>8, <2>10, <2>11, <2>12 DEF Holds
  <2>14. Place'
    BY <1>8, <1>16, <2>8 DEF Place, Waiting
  <2> QED BY <2>13, <2>14 DEF HInv
<1> QED BY <1>18, <1>19

\* The end of a read, and Ctrl+C in one that has nothing to forget.
LEMMA ResetRemembers ==
    ASSUME LInv, HInv, Reset \/ ClearLine
    PROVE  HInv'
<1>1. prog.pc \in {"reset", "clear"} /\ prog'.pc \in {"reset", "clear", "return"} /\ seen' = seen
  BY DEF Reset, ClearLine, LInv, Prog
<1>2. /\ tty'.history_line_buf = tty.history_line_buf /\ tty'.buf_count = tty.buf_count
      /\ tty'.cur_buffer_id = tty.cur_buffer_id
  <2>1. CASE Reset
    <3>1. PICK f : f = Resets[prog.i]
      OBVIOUS
    <3>2. tty' = [tty EXCEPT ![f] = 0] /\ tty \in Tty
      BY <2>1, <3>1 DEF Reset, LInv, Ready
    <3>3. prog.i \in 1 .. 4
      BY <2>1 DEF Reset, LInv, Phases
    <3>4. f # "history_line_buf" /\ f # "buf_count" /\ f # "cur_buffer_id"
      BY <3>1, <3>3 DEF Resets
    <3> QED BY <3>2, <3>4 DEF Tty
  <2>2. CASE ClearLine
    <3>1. PICK b : b = [k \in Index |-> IF k >= 0 THEN Nul ELSE tty.line_buffer[k]]
      OBVIOUS
    <3>2. tty' = [tty EXCEPT !.line_buffer = b] /\ tty \in Tty
      BY <2>2, <3>1 DEF ClearLine, LInv, Ready, Tty
    <3> QED BY <3>2 DEF Tty
  <2> QED BY <2>1, <2>2
<1>3. Holds'
  BY <1>1, <1>2 DEF HInv, Holds
<1>4. Place'
  BY <1>1, <1>2 DEF HInv, Place, Waiting
<1> QED BY <1>3, <1>4 DEF HInv

LEMMA ReadEndRemembers ==
    ASSUME LInv, HInv, Remembering, Return \/ Killed
    PROVE  HInv'
<1>1. tty' = tty /\ seen'.lines = seen.lines /\ prog'.pc = "run"
  BY DEF Return, Killed, LInv, Prog, SeenOK
<1>2. tty.count = 0 /\ tty.cur_buffer_id = tty.buf_count
  <2>1. CASE Return
    BY <2>1 DEF Return, LInv, Phases, HInv, Place
  <2>2. CASE Killed
    BY <2>2, RememberingFacts DEF Killed
  <2> QED BY <2>1, <2>2
<1>3. Holds'
  BY <1>1 DEF HInv, Holds
<1>4. Place'
  BY <1>1, <1>2 DEF Place, Waiting
<1> QED BY <1>3, <1>4 DEF HInv

LEMMA HistoryInvariant == ASSUME Remembering PROVE Spec => [](LInv /\ HInv)
<1> USE RememberingFacts
<1>1. Init => HInv
  <2> SUFFICES ASSUME Init PROVE HInv
    OBVIOUS
  <2>1. /\ prog.pc = "run" /\ tty.count = 0 /\ tty.buf_count = 0 /\ tty.cur_buffer_id = 0
        /\ seen.lines = << >>
    BY DEF Init
  <2> QED BY <2>1 DEF HInv, Holds, Place, Waiting
<1>2. LInv /\ HInv /\ [Next]_vars => HInv'
  <2> SUFFICES ASSUME LInv, HInv, [Next]_vars PROVE HInv'
    OBVIOUS
  <2>1. CASE (\E c \in Typed : Type(c)) \/ Backspace \/ CURSOR_LEFT \/ CURSOR_RIGHT \/ Tab
             \/ ClearScreen
    BY <2>1, EditRemembers
  <2>2. CASE Enter
    BY <2>2, EnterRemembers
  <2>3. CASE CURSOR_UP \/ CURSOR_DOWN
    BY <2>3, HistoryKey
  <2>4. CASE Write
    BY <2>4, WriteRemembers
  <2>5. ASSUME NEW nbytes \in Nbytes, terminal_read(nbytes) PROVE HInv'
    BY <2>5, ReadRemembers
  <2>6. CASE Wake
    BY <2>6, WakeRemembers
  <2>7. CASE Copy
    BY <2>7, CopyRemembers
  <2>8. CASE Record
    BY <2>8, RecordRemembers
  <2>9. CASE Reset \/ ClearLine
    BY <2>9, ResetRemembers
  <2>10. CASE Return \/ Killed
    BY <2>10, ReadEndRemembers
  <2>11. CASE UNCHANGED vars
    BY <2>11 DEF vars, HInv, Holds, Place, Waiting
  <2> QED BY <2>1, <2>2, <2>3, <2>4, <2>5, <2>6, <2>7, <2>8, <2>9, <2>10, <2>11
          DEF Next, Keyboard, Read
<1>3. Spec => []LInv
  BY LineInvariant
<1> QED BY <1>1, <1>2, <1>3, PTL DEF Spec

\* Only the history keys move the user in the history while a program waits.
LEMMA OnlyHistoryKeys ==
    ASSUME LInv, HInv, Remembering, [Next]_vars, Waiting,
           tty'.cur_buffer_id # tty.cur_buffer_id
    PROVE  CURSOR_UP \/ CURSOR_DOWN
<1>1. prog.pc = "wait" /\ tty.enter_flag = 0 /\ tty \in Tty
  BY DEF Waiting, LInv, Ready
<1>2. Edited(tty) /\ tty.read_open = 1
  BY <1>1 DEF Edited, LInv, Phases
<1>3. ASSUME NEW c \in Letter \cup {"backspace"}, Key(Put(tty, c)),
             c = "backspace" => tty.count = 0 \/ tty.char_location > 0
      PROVE  FALSE
  <2>1. PICK t : t = Put(tty, c)
    OBVIOUS
  <2>2. SameRest(tty, t)
    BY <1>2, <1>3, <2>1, PutKeeps
  <2>3. tty' = t
    BY <1>3, <2>1 DEF Key
  <2> QED BY <2>2, <2>3 DEF SameRest
<1>4. ASSUME NEW c \in Typed PROVE ~Type(c)
  BY <1>3, LineFacts DEF Type
<1>5. ~Backspace
  BY <1>3, RememberingFacts DEF Backspace
<1>6. ~Enter
  <2> SUFFICES ASSUME Enter PROVE FALSE
    OBVIOUS
  <2>1. PICK t : t = Put(tty, "newline")
    OBVIOUS
  <2>2. tty' = t
    BY <2>1 DEF Enter, Key
  <2>3. t = [tty EXCEPT !.line_buffer[tty.count] = "newline", !.enter_flag = 1,
                        !.mem = t.mem, !.pos = t.pos]
    BY <1>2, <2>1, PutEnter
  <2>4. t.cur_buffer_id = tty.cur_buffer_id
    BY <1>1, <2>3 DEF Tty
  <2> QED BY <2>2, <2>4
<1>7. ~CURSOR_LEFT /\ ~CURSOR_RIGHT /\ ~ClearScreen
  <2>1. ASSUME CURSOR_LEFT PROVE FALSE
    <3>1. tty' = [tty EXCEPT !.pos = Back(@), !.char_location = @ - 1]
      BY <2>1 DEF CURSOR_LEFT, Key
    <3> QED BY <1>1, <3>1 DEF Tty
  <2>2. ASSUME CURSOR_RIGHT PROVE FALSE
    <3>1. tty' = [tty EXCEPT !.pos = Forward(@), !.char_location = @ + 1]
      BY <2>2 DEF CURSOR_RIGHT, Key
    <3> QED BY <1>1, <3>1 DEF Tty
  <2>3. ASSUME ClearScreen PROVE FALSE
    <3>1. tty' = [tty EXCEPT !.mem = Cleared(@), !.pos = Origin]
      BY <2>3 DEF ClearScreen, Key
    <3> QED BY <1>1, <3>1 DEF Tty
  <2> QED BY <2>1, <2>2, <2>3
<1>8. ~Tab
  <2> SUFFICES ASSUME Tab PROVE FALSE
    OBVIOUS
  <2>1. PICK f \in find_similar_file(Str(tty.line_buffer)), junk \in Junk :
           /\ junk \in Seq(Glyph \cup {Space}) \/ "StackControl" \in Env
           /\ Key(PutAll(Erased(tty), f \o junk))
    BY DEF Tab
  <2>2. f \o junk \in Seq(Letter)
    <3>1. f \in ExeFiles
      BY DEF find_similar_file
    <3>2. f \in Seq(Glyph) /\ junk \in Seq(Glyph \cup {Space})
      BY <2>1, <3>1, LineInputAssumption, RememberingFacts DEF Orderly
    <3>3. f \in Seq(Letter) /\ junk \in Seq(Letter)
      BY <3>2 DEF Letter
    <3> QED BY <3>3
  <2>3. PICK s \in Seq(Letter) : s = f \o junk
    BY <2>2
  <2>4. PICK t : t = PutAll(Erased(tty), s)
    OBVIOUS
  <2>5. tty' = t /\ tty.char_location = tty.count
    BY <2>1, <2>3, <2>4, RememberingFacts DEF Tab, AtEnd, Key
  <2>6. SameRest(tty, t)
    BY <1>2, <2>4, <2>5, CompletedKeeps
  <2> QED BY <2>5, <2>6 DEF SameRest
<1>9. ~Write /\ ~(\E nbytes \in Nbytes : terminal_read(nbytes)) /\ ~Copy /\ ~Record /\ ~Reset
      /\ ~ClearLine /\ ~Return /\ ~Wake /\ ~Killed /\ ~(UNCHANGED vars)
  BY <1>1 DEF Write, terminal_read, Copy, Record, Reset, ClearLine, Return, Wake, Killed, vars
<1> QED BY <1>4, <1>5, <1>6, <1>7, <1>8, <1>9 DEF Next, Keyboard, Read

\* While a program waits, a history key puts in the line buffer the line that was read
\* or, below the last one, the line that was being typed when the user left it, however
\* the lines were edited since: the loops of keyboard.c that save and load
\* history_line_buf against the one of terminal_read that fills it, for every size of
\* the buffers.
THEOREM RecallsHolds ==
    ASSUME Remembering
    PROVE  Spec => Recalls
<1>1. LInv /\ HInv /\ [Next]_vars =>
        [ (Waiting /\ tty'.cur_buffer_id # tty.cur_buffer_id) =>
            Text' \in IF tty'.cur_buffer_id = tty.buf_count
                      THEN seen.draft ELSE {seen.lines[tty'.cur_buffer_id + 1]} ]_vars
  BY OnlyHistoryKeys, HistoryKey
<1> QED BY <1>1, HistoryInvariant, PTL DEF Spec, Recalls
=============================================================================
