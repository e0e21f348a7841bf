---------------------------- MODULE ScreenProof ----------------------------
(***************************************************************************)
(* Lemmas about the operators of Screen, for every size of the screen: the *)
(* arithmetic of cursor positions, types, and what a character does to a   *)
(* screen that shows a line of text.  VideoProof and LineInputProof cite   *)
(* them.                                                                   *)
(***************************************************************************)
EXTENDS Screen, TLAPS

ScreenCell == Glyph \cup {Blank}
Printed == Glyph \cup {Blank, "newline", "backspace"}

----------------------------------------------------------------------------
(* Arithmetic                                                              *)

LEMMA ScreenFacts ==
    /\ NUM_COLS \in Nat /\ NUM_COLS >= 2 /\ NUM_ROWS \in Nat /\ NUM_ROWS >= 1
    /\ Last \in Nat
    /\ Blank \notin Glyph
    /\ \A c \in ScreenCell : c # "newline" /\ c # "backspace"
<1>1. NUM_ROWS * NUM_COLS >= 1
  <2>1. NUM_ROWS * NUM_COLS >= 1 * NUM_COLS
    BY ScreenAssumption, SMT
  <2> QED BY <2>1, ScreenAssumption
<1> QED BY <1>1, ScreenAssumption DEF Last, ScreenCell

LEMMA AtNatural == ASSUME NEW p \in Position PROVE At(p) \in Nat
<1>1. NUM_COLS \in Nat /\ p.y \in Nat /\ p.x \in Nat
  BY ScreenFacts DEF Position
<1>2. NUM_COLS * p.y \in Nat
  BY <1>1, SMT
<1> QED BY <1>1, <1>2 DEF At

LEMMA Rows ==
    ASSUME NEW a \in Nat, NEW m \in Int, NEW n \in Int
    PROVE  /\ a * m \in Int /\ a * (m + 1) = a * m + a /\ a * (m - 1) = a * m - a
           /\ a * m = m * a /\ a * 0 = 0
           /\ m <= n => a * m <= a * n
<1>1. a * m \in Int /\ a * (m + 1) = a * m + a /\ a * (m - 1) = a * m - a
  BY SMT
<1>2. a * m = m * a /\ a * 0 = 0
  BY SMT
<1>3. ASSUME m <= n PROVE a * m <= a * n
  <2>1. a * (n - m) >= 0 /\ a * (n - m) = a * n - a * m
    BY <1>3, SMT
  <2> QED BY <2>1, <1>1, SMT
<1> QED BY <1>1, <1>2, <1>3

\* The cells of the screen are 0 .. Last, in the order of the positions.
LEMMA AtFacts ==
    ASSUME NEW p \in Position
    PROVE  /\ At(p) \in 0 .. Last
           /\ At(p) = 0 <=> p = Origin
           /\ At(p) = Last <=> p = Corner
           /\ p # Corner => At(Forward(p)) = At(p) + 1
           /\ p # Origin => At(Back(p)) = At(p) - 1
           /\ p.y # NUM_ROWS - 1 => At([x |-> 0, y |-> p.y + 1]) >= At(p)
<1> DEFINE x == p.x
           y == p.y
           w == NUM_COLS * y
<1>1. /\ NUM_COLS \in Nat /\ NUM_COLS >= 2 /\ NUM_ROWS \in Nat /\ NUM_ROWS >= 1
      /\ y \in 0 .. NUM_ROWS - 1 /\ x \in 0 .. NUM_COLS - 1
      /\ p = [x |-> x, y |-> y] /\ x \in Int /\ y \in Int
  BY ScreenFacts DEF Position
<1>2. /\ w \in Int /\ w >= 0
      /\ NUM_COLS * (y + 1) = w + NUM_COLS /\ NUM_COLS * (y - 1) = w - NUM_COLS
  <2>1. 0 \in Int /\ 0 <= y /\ NUM_COLS * 0 <= NUM_COLS * y /\ NUM_COLS * 0 = 0
    BY <1>1, Rows
  <2> QED BY <1>1, <2>1, Rows
<1>3. Last = NUM_COLS * (NUM_ROWS - 1) + NUM_COLS - 1
  <2>1. NUM_ROWS * NUM_COLS = NUM_COLS * NUM_ROWS
    BY <1>1, Rows
  <2>2. NUM_COLS * (NUM_ROWS - 1) = NUM_COLS * NUM_ROWS - NUM_COLS
    BY <1>1, Rows
  <2>3. NUM_COLS * NUM_ROWS \in Int
    BY <1>1, Rows
  <2> QED BY <1>1, <2>1, <2>2, <2>3 DEF Last
<1>4. w <= NUM_COLS * (NUM_ROWS - 1) /\ NUM_COLS * (NUM_ROWS - 1) \in Int
  BY <1>1, Rows
<1>5. At(p) = w + x
  BY DEF At
<1>6. y # 0 => w >= NUM_COLS
  <2>1. y # 0 => 0 <= y - 1 /\ 0 \in Int /\ y - 1 \in Int
    BY <1>1
  <2>2. y # 0 => NUM_COLS * 0 <= NUM_COLS * (y - 1) /\ NUM_COLS * 0 = 0
    BY <1>1, <2>1, Rows
  <2> QED BY <1>1, <1>2, <2>2
<1>7. y # NUM_ROWS - 1 => w <= NUM_COLS * (NUM_ROWS - 1) - NUM_COLS
  <2>1. y # NUM_ROWS - 1 => y + 1 <= NUM_ROWS - 1 /\ y + 1 \in Int /\ NUM_ROWS - 1 \in Int
    BY <1>1
  <2>2. y # NUM_ROWS - 1 => NUM_COLS * (y + 1) <= NUM_COLS * (NUM_ROWS - 1)
    BY <1>1, <2>1, Rows
  <2> QED BY <1>1, <1>2, <1>4, <2>2
<1> DEFINE z == NUM_COLS * (NUM_ROWS - 1)
<1>8. y = NUM_ROWS - 1 => w = z
  OBVIOUS
<1>9. y = 0 => w = 0
  BY <1>1, Rows
<1> HIDE DEF w, z
<1>10. At(p) \in 0 .. Last
  BY <1>1, <1>2, <1>3, <1>4, <1>5 DEF z
<1>11. At(p) = 0 <=> p = Origin
  BY <1>1, <1>2, <1>5, <1>6, <1>9 DEF Origin
<1>12. At(p) = Last <=> p = Corner
  BY <1>1, <1>2, <1>3, <1>4, <1>5, <1>7, <1>8 DEF Corner, z
<1>13. ASSUME p # Corner PROVE At(Forward(p)) = At(p) + 1
  <2>1. CASE x = NUM_COLS - 1
    <3>1. At(Forward(p)) = NUM_COLS * (y + 1) + 0
      BY <2>1 DEF Forward, At
    <3> QED BY <1>1, <1>2, <1>5, <2>1, <3>1
  <2>2. CASE x # NUM_COLS - 1
    <3>1. Forward(p) = [x |-> x + 1, y |-> y]
      BY <1>1, <2>2 DEF Forward
    <3>2. At(Forward(p)) = w + (x + 1)
      BY <3>1 DEF At, w
    <3> QED BY <1>1, <1>2, <1>5, <3>2
  <2> QED BY <2>1, <2>2
<1>14. ASSUME p # Origin PROVE At(Back(p)) = At(p) - 1
  <2>1. CASE x = 0
    <3>1. At(Back(p)) = NUM_COLS * (y - 1) + (NUM_COLS - 1)
      BY <2>1 DEF Back, At
    <3> QED BY <1>1, <1>2, <1>5, <2>1, <3>1
  <2>2. CASE x # 0
    <3>1. Back(p) = [x |-> x - 1, y |-> y]
      BY <1>1, <2>2 DEF Back
    <3>2. At(Back(p)) = w + (x - 1)
      BY <3>1 DEF At, w
    <3> QED BY <1>1, <1>2, <1>5, <3>2
  <2> QED BY <2>1, <2>2
<1>15. At([x |-> 0, y |-> p.y + 1]) >= At(p)
  <2>1. At([x |-> 0, y |-> p.y + 1]) = NUM_COLS * (y + 1) + 0
    BY DEF At
  <2> QED BY <1>1, <1>2, <1>5, <2>1
<1> QED BY <1>10, <1>11, <1>12, <1>13, <1>14, <1>15

----------------------------------------------------------------------------
(* Types of the operators of Screen                                        *)

LEMMA PositionFacts ==
    /\ Origin \in Position /\ Bottom \in Position /\ Corner \in Position
    /\ \A p \in Position : p # Corner => Forward(p) \in Position
    /\ \A p \in Position : p # Origin => Back(p) \in Position
    /\ Forward(Bottom) \in Position
<1> USE ScreenFacts
<1>1. Origin \in Position /\ Bottom \in Position /\ Corner \in Position
  BY DEF Origin, Bottom, Corner, Position
<1>2. ASSUME NEW p \in Position, p # Corner PROVE Forward(p) \in Position
  <2>1. /\ p.x \in 0 .. NUM_COLS - 1 /\ p.y \in 0 .. NUM_ROWS - 1
        /\ p = [x |-> p.x, y |-> p.y]
    BY DEF Position
  <2>2. CASE p.x = NUM_COLS - 1
    <3>1. p.y # NUM_ROWS - 1
      BY <1>2, <2>1, <2>2 DEF Corner
    <3>2. p.y + 1 \in 0 .. NUM_ROWS - 1 /\ 0 \in 0 .. NUM_COLS - 1
      BY <2>1, <3>1
    <3>3. Forward(p) = [x |-> 0, y |-> p.y + 1]
      BY <2>2 DEF Forward
    <3> QED BY <3>2, <3>3 DEF Position
  <2>3. CASE p.x # NUM_COLS - 1
    <3>1. p.x + 1 \in 0 .. NUM_COLS - 1
      BY <2>1, <2>3
    <3>2. Forward(p) = [x |-> p.x + 1, y |-> p.y]
      BY <2>1, <2>3 DEF Forward
    <3> QED BY <2>1, <3>1, <3>2 DEF Position
  <2> QED BY <2>2, <2>3
<1>3. ASSUME NEW p \in Position, p # Origin PROVE Back(p) \in Position
  <2>1. /\ p.x \in 0 .. NUM_COLS - 1 /\ p.y \in 0 .. NUM_ROWS - 1
        /\ p = [x |-> p.x, y |-> p.y]
    BY DEF Position
  <2>2. CASE p.x = 0
    <3>1. p.y # 0
      BY <1>3, <2>1, <2>2 DEF Origin
    <3>2. p.y - 1 \in 0 .. NUM_ROWS - 1 /\ NUM_COLS - 1 \in 0 .. NUM_COLS - 1
      BY <2>1, <3>1
    <3>3. Back(p) = [x |-> NUM_COLS - 1, y |-> p.y - 1]
      BY <2>2 DEF Back
    <3> QED BY <3>2, <3>3 DEF Position
  <2>3. CASE p.x # 0
    <3>1. p.x - 1 \in 0 .. NUM_COLS - 1
      BY <2>1, <2>3
    <3>2. Back(p) = [x |-> p.x - 1, y |-> p.y]
      BY <2>1, <2>3 DEF Back
    <3> QED BY <2>1, <3>1, <3>2 DEF Position
  <2> QED BY <2>2, <2>3
<1>4. Forward(Bottom) \in Position
  BY <1>1, <1>2 DEF Bottom, Corner
<1> QED BY <1>1, <1>2, <1>3, <1>4

LEMMA ScrollTypes ==
    ASSUME NEW n \in Nat, Last <= n, NEW M \in [0 .. n -> ScreenCell]
    PROVE  /\ scroll_screen(M) \in [0 .. n -> ScreenCell]
           /\ Cleared(M) \in [0 .. n -> ScreenCell]
           /\ \A i \in Nat : scroll_left_char(M, i) \in [0 .. n -> ScreenCell]
           /\ \A i \in Nat, c \in ScreenCell :
                scroll_right_char(M, i, c) \in [0 .. n -> ScreenCell]
<1> USE ScreenFacts
<1>1. DOMAIN M = 0 .. n /\ \A i \in 0 .. n : M[i] \in ScreenCell
  OBVIOUS
<1>2. Blank \in ScreenCell /\ \A c \in ScreenCell : c \in ScreenCell
  BY DEF ScreenCell
<1>3. scroll_screen(M) \in [0 .. n -> ScreenCell]
  <2>1. \A i \in 0 .. n : i + NUM_COLS <= Last => i + NUM_COLS \in 0 .. n
    OBVIOUS
  <2> QED BY <1>1, <1>2, <2>1 DEF scroll_screen
<1>4. Cleared(M) \in [0 .. n -> ScreenCell]
  BY <1>1, <1>2 DEF Cleared
<1>5. ASSUME NEW i \in Nat PROVE scroll_left_char(M, i) \in [0 .. n -> ScreenCell]
  <2> DEFINE inRun(k) == \A j \in i .. k : M[j] # Blank
  <2>1. \A k \in 0 .. n : k <= Last /\ k # Last => k + 1 \in 0 .. n
    OBVIOUS
  <2>2. scroll_left_char(M, i) =
          [k \in 0 .. n |-> IF k >= i /\ k <= Last /\ inRun(k)
                            THEN IF k = Last THEN Blank ELSE M[k + 1]
                            ELSE M[k]]
    BY <1>1 DEF scroll_left_char
  <2> HIDE DEF inRun
  <2> QED BY <1>1, <1>2, <2>1, <2>2
<1>6. ASSUME NEW i \in Nat, NEW c \in ScreenCell
      PROVE  scroll_right_char(M, i, c) \in [0 .. n -> ScreenCell]
  <2> DEFINE inRun(k) == \A j \in i .. k - 1 : M[j] # Blank
  <2>1. \A k \in 0 .. n : k > i => k - 1 \in 0 .. n
    OBVIOUS
  <2>2. scroll_right_char(M, i, c) =
          [k \in 0 .. n |-> IF k = i THEN c
                            ELSE IF k > i /\ inRun(k) THEN M[k - 1] ELSE M[k]]
    BY <1>1 DEF scroll_right_char
  <2> HIDE DEF inRun
  <2> QED BY <1>1, <1>2, <2>1, <2>2
<1> QED BY <1>3, <1>4, <1>5, <1>6

LEMMA LineTypes ==
    ASSUME NEW n \in Nat, Last <= n, NEW M \in [0 .. n -> ScreenCell], NEW p \in Position
    PROVE  Line(M, p).mem \in [0 .. n -> ScreenCell] /\ Line(M, p).pos \in Position
<1>1. CASE p.y = NUM_ROWS - 1
  BY <1>1, ScrollTypes, PositionFacts DEF Line
<1>2. CASE p.y # NUM_ROWS - 1
  <2>1. p.y + 1 \in 0 .. NUM_ROWS - 1 /\ 0 \in 0 .. NUM_COLS - 1
    BY <1>2, ScreenFacts DEF Position
  <2> QED BY <1>2, <2>1 DEF Line, Position
<1> QED BY <1>1, <1>2

LEMMA PutcTypes ==
    ASSUME NEW n \in Nat, Last <= n, NEW M \in [0 .. n -> ScreenCell], NEW p \in Position,
           NEW c \in Printed
    PROVE  putc(M, p, c).mem \in [0 .. n -> ScreenCell] /\ putc(M, p, c).pos \in Position
<1>1. CASE AtOrigin(p, c)
  BY <1>1 DEF putc
<1>2. CASE ~AtOrigin(p, c) /\ c = "newline"
  BY <1>2, LineTypes DEF putc
<1>3. CASE ~AtOrigin(p, c) /\ c = "backspace"
  BY <1>3, PositionFacts DEF putc, ScreenCell, AtOrigin
<1>4. CASE c # "newline" /\ c # "backspace"
  <2>1. c \in ScreenCell /\ ~AtOrigin(p, c)
    BY <1>4 DEF Printed, ScreenCell, AtOrigin
  <2> DEFINE W == [M EXCEPT ![At(p)] = c]
  <2>2. W \in [0 .. n -> ScreenCell]
    BY <2>1 DEF ScreenCell
  <2>3. putc(M, p, c) = IF p = Corner THEN [mem |-> scroll_screen(W), pos |-> Bottom]
                                      ELSE [mem |-> W, pos |-> Forward(p)]
    BY <1>4, <2>1 DEF putc
  <2>4. scroll_screen(W) \in [0 .. n -> ScreenCell]
    BY <2>2, ScrollTypes
  <2> HIDE DEF W
  <2> QED BY <2>2, <2>3, <2>4, PositionFacts
<1> QED BY <1>1, <1>2, <1>3, <1>4

LEMMA PutcIntrTypes ==
    ASSUME NEW n \in Nat, Last <= n, NEW M \in [0 .. n -> ScreenCell], NEW p \in Position,
           NEW c \in Printed
    PROVE  /\ putc_intr(M, p, c).mem \in [0 .. n -> ScreenCell]
           /\ putc_intr(M, p, c).pos \in Position
<1>1. CASE AtOrigin(p, c)
  BY <1>1 DEF putc_intr
<1>2. CASE ~AtOrigin(p, c) /\ c = "newline"
  BY <1>2, LineTypes DEF putc_intr
<1>3. CASE ~AtOrigin(p, c) /\ c = "backspace"
  <2>1. Back(p) \in Position
    BY <1>3, PositionFacts DEF AtOrigin
  <2>2. scroll_left_char(M, At(Back(p))) \in [0 .. n -> ScreenCell]
    BY <2>1, AtNatural, ScrollTypes
  <2>3. putc_intr(M, p, c) = [mem |-> scroll_left_char(M, At(Back(p))),
                              pos |-> IF LeavesEarly(M, p, c) THEN p ELSE Back(p)]
    BY <1>3 DEF putc_intr
  <2> QED BY <2>1, <2>2, <2>3
<1>4. CASE c # "newline" /\ c # "backspace"
  <2>1. c \in ScreenCell /\ ~AtOrigin(p, c)
    BY <1>4 DEF Printed, ScreenCell, AtOrigin
  <2> DEFINE W == IF p = Corner THEN scroll_screen([M EXCEPT ![At(p)] = c]) ELSE M
             q == IF p = Corner THEN Bottom ELSE p
  <2>2. [M EXCEPT ![At(p)] = c] \in [0 .. n -> ScreenCell]
    BY <2>1 DEF ScreenCell
  <2>3. W \in [0 .. n -> ScreenCell]
    BY <2>2, ScrollTypes
  <2>4. q \in Position /\ Forward(q) \in Position
    BY PositionFacts
  <2>5. putc_intr(M, p, c) = [mem |-> scroll_right_char(W, At(q), c), pos |-> Forward(q)]
    BY <1>4, <2>1 DEF putc_intr
  <2> HIDE DEF W, q
  <2>6. scroll_right_char(W, At(q), c) \in [0 .. n -> ScreenCell]
    BY <2>1, <2>3, <2>4, AtNatural, ScrollTypes
  <2> QED BY <2>4, <2>5, <2>6
<1> QED BY <1>1, <1>2, <1>3, <1>4

----------------------------------------------------------------------------
(* The echo of a line                                                      *)

\* N is M after c came to cell a and the cells up to e moved right.
MovedRight(M, N, a, e, c) ==
    \A k \in 0 .. Last :
        N[k] = IF k = a THEN c ELSE IF k > a /\ k <= e THEN M[k - 1] ELSE M[k]

\* A character inserted at cell a moves the run there, up to the blank at cell e.
LEMMA RunInsert ==
    ASSUME NEW M \in [0 .. Last -> ScreenCell], NEW p \in Position, NEW c \in ScreenCell,
           NEW e \in 0 .. Last, At(p) <= e, e < Last, M[e] = Blank,
           \A j \in At(p) .. e - 1 : M[j] # Blank
    PROVE  LET r == putc_intr(M, p, c) IN
           r.pos \in Position /\ At(r.pos) = At(p) + 1 /\ MovedRight(M, r.mem, At(p), e, c)
<1> DEFINE a == At(p)
           r == putc_intr(M, p, c)
           inRun(k) == \A j \in a .. k - 1 : M[j] # Blank
<1>1. a \in 0 .. Last /\ Last \in Nat /\ a < Last /\ a # Last
  <2>1. At(p) \in 0 .. Last
    BY AtFacts
  <2>2. Last \in Nat
    BY ScreenFacts
  <2> QED BY <2>1, <2>2
<1>2. p # Corner /\ Forward(p) \in Position /\ At(Forward(p)) = a + 1
  <2>1. p # Corner
    BY <1>1, AtFacts
  <2> QED BY <2>1, AtFacts, PositionFacts
<1>3. c # "newline" /\ c # "backspace"
  BY ScreenFacts
<1>4. r = [mem |-> scroll_right_char(M, a, c), pos |-> Forward(p)]
  BY <1>2, <1>3 DEF putc_intr, AtOrigin
<1>5. scroll_right_char(M, a, c) =
        [k \in 0 .. Last |-> IF k = a THEN c
                             ELSE IF k > a /\ inRun(k) THEN M[k - 1] ELSE M[k]]
  BY DEF scroll_right_char
<1>6. ASSUME NEW k \in 0 .. Last, k > a PROVE inRun(k) <=> k <= e
  <2>1. k <= e => inRun(k)
    BY <1>1, <1>6
  <2>2. ~(k <= e) => e \in a .. k - 1
    BY <1>1, <1>6
  <2> QED BY <2>1, <2>2
<1> HIDE DEF inRun, a
<1>7. MovedRight(M, r.mem, a, e, c)
  BY <1>4, <1>5, <1>6 DEF MovedRight
<1> QED BY <1>2, <1>4, <1>7 DEF a

\* A backspace moves the run at the cell before the cursor, up to the blank at e.
LEMMA RunDelete ==
    ASSUME NEW M \in [0 .. Last -> ScreenCell], NEW p \in Position, p # Origin,
           NEW e \in 0 .. Last, At(p) - 1 <= e, M[e] = Blank,
           \A j \in At(p) - 1 .. e - 1 : M[j] # Blank
    PROVE  LET r == putc_intr(M, p, "backspace") IN
           /\ r.pos \in Position /\ At(r.pos) = At(p) - 1
           /\ \A k \in 0 .. Last :
                r.mem[k] = IF k >= At(p) - 1 /\ k < e THEN M[k + 1] ELSE M[k]
<1> DEFINE c == "backspace"
           a == At(Back(p))
           r == putc_intr(M, p, c)
           inRun(k) == \A j \in a .. k : M[j] # Blank
<1>1. /\ a = At(p) - 1 /\ Back(p) \in Position /\ a \in 0 .. Last /\ Last \in Nat
      /\ e \in a .. Last
  <2>1. Back(p) \in Position
    BY PositionFacts
  <2>2. At(Back(p)) = At(p) - 1
    BY AtFacts
  <2>3. At(Back(p)) \in 0 .. Last
    BY <2>1, AtFacts
  <2> QED BY <2>1, <2>2, <2>3, ScreenFacts
<1>2. ~AtOrigin(p, c) /\ ~LeavesEarly(M, p, c)
  BY <1>1 DEF AtOrigin, LeavesEarly
<1>4. r = [mem |-> scroll_left_char(M, a), pos |-> Back(p)]
  BY <1>2 DEF putc_intr
<1>5. scroll_left_char(M, a) =
        [k \in 0 .. Last |-> IF k >= a /\ k <= Last /\ inRun(k)
                             THEN IF k = Last THEN Blank ELSE M[k + 1]
                             ELSE M[k]]
  BY DEF scroll_left_char
<1>6. ASSUME NEW k \in 0 .. Last, k >= a PROVE inRun(k) <=> k < e
  <2>1. k < e => inRun(k)
    BY <1>1, <1>6
  <2>2. ~(k < e) => e \in a .. k
    BY <1>1, <1>6
  <2> QED BY <2>1, <2>2
<1> HIDE DEF inRun, a
<1>7. \A k \in 0 .. Last :
         r.mem[k] = IF k >= a /\ k < e THEN M[k + 1] ELSE M[k]
  BY <1>1, <1>4, <1>5, <1>6
<1> QED BY <1>1, <1>4, <1>7 DEF a

\* The screen is empty from position p on.
Blanks(M, p) == \A k \in 0 .. Last : k >= At(p) => M[k] = Blank

LEMMA BottomFacts ==
    /\ At(Bottom) \in 0 .. Last /\ At(Bottom) + NUM_COLS = Last + 1
    /\ Bottom # Corner /\ At(Forward(Bottom)) = At(Bottom) + 1
    /\ Forward(Bottom) \in Position
<1>1. Bottom # Corner
  BY ScreenFacts DEF Bottom, Corner
<1>2. NUM_COLS * (NUM_ROWS - 1) = NUM_COLS * NUM_ROWS - NUM_COLS
  BY ScreenFacts, Rows
<1>3. NUM_ROWS * NUM_COLS = NUM_COLS * NUM_ROWS /\ NUM_COLS * NUM_ROWS \in Int
  BY ScreenFacts, Rows
<1>4. At(Bottom) = NUM_COLS * (NUM_ROWS - 1) + 0
  BY DEF At, Bottom
<1>5. At(Bottom) + NUM_COLS = Last + 1
  BY <1>2, <1>3, <1>4, ScreenFacts DEF Last
<1> QED BY <1>1, <1>5, AtFacts, PositionFacts

LEMMA ScrollBlanks ==
    ASSUME NEW M \in [0 .. Last -> ScreenCell]
    PROVE  Blanks(scroll_screen(M), Bottom)
<1>1. At(Bottom) + NUM_COLS = Last + 1 /\ At(Bottom) \in 0 .. Last /\ NUM_COLS \in Nat
      /\ Last \in Nat
  BY BottomFacts, ScreenFacts
<1>2. scroll_screen(M) = [i \in 0 .. Last |-> IF i + NUM_COLS <= Last THEN M[i + NUM_COLS]
                                             ELSE IF i <= Last THEN Blank ELSE M[i]]
  BY DEF scroll_screen
<1>3. \A k \in 0 .. Last : k >= At(Bottom) => ~(k + NUM_COLS <= Last) /\ k <= Last
  BY <1>1
<1> QED BY <1>2, <1>3 DEF Blanks

\* Where the screen is empty from the cursor on, it is so after any character.
LEMMA LineBlanks ==
    ASSUME NEW M \in [0 .. Last -> ScreenCell], NEW p \in Position, Blanks(M, p)
    PROVE  Blanks(Line(M, p).mem, Line(M, p).pos)
<1>1. CASE p.y = NUM_ROWS - 1
  BY <1>1, ScrollBlanks DEF Line
<1>2. CASE p.y # NUM_ROWS - 1
  <2> DEFINE q == [x |-> 0, y |-> p.y + 1]
  <2>1. At(q) >= At(p) /\ At(p) \in 0 .. Last
    BY <1>2, AtFacts
  <2>2. q \in Position
    <3>1. p.y + 1 \in 0 .. NUM_ROWS - 1 /\ 0 \in 0 .. NUM_COLS - 1
      BY <1>2, ScreenFacts DEF Position
    <3> QED BY <3>1 DEF Position
  <2>3. At(q) \in 0 .. Last
    BY <2>2, AtFacts
  <2>4. Line(M, p) = [mem |-> M, pos |-> q]
    BY <1>2 DEF Line
  <2> HIDE DEF q
  <2> QED BY <2>1, <2>3, <2>4 DEF Blanks
<1> QED BY <1>1, <1>2

LEMMA EchoBlanks ==
    ASSUME NEW M \in [0 .. Last -> ScreenCell], NEW p \in Position, Blanks(M, p),
           NEW c \in Printed
    PROVE  Blanks(putc_intr(M, p, c).mem, putc_intr(M, p, c).pos)
<1> DEFINE r == putc_intr(M, p, c)
<1>1. At(p) \in 0 .. Last /\ Last \in Nat /\ M[At(p)] = Blank
  <2>1. At(p) \in 0 .. Last
    BY AtFacts
  <2> QED BY <2>1, ScreenFacts DEF Blanks
<1>2. CASE AtOrigin(p, c)
  BY <1>2 DEF putc_intr
<1>3. CASE c = "newline" /\ ~AtOrigin(p, c)
  BY <1>3, LineBlanks DEF putc_intr
<1>4. CASE c = "backspace" /\ ~AtOrigin(p, c)
  <2>1. p # Origin /\ At(p) # 0
    BY <1>4, AtFacts DEF AtOrigin
  <2>2. PICK e \in At(p) - 1 .. At(p) : M[e] = Blank /\ \A j \in At(p) - 1 .. e - 1 : M[j] # Blank
    <3>1. CASE M[At(p) - 1] = Blank
      BY <1>1, <3>1
    <3>2. CASE M[At(p) - 1] # Blank
      BY <1>1, <3>2
    <3> QED BY <3>1, <3>2
  <2>3. e \in 0 .. Last /\ At(p) - 1 <= e
    BY <1>1, <2>1
  <2>4. /\ At(r.pos) = At(p) - 1
        /\ \A k \in 0 .. Last :
             r.mem[k] = IF k >= At(p) - 1 /\ k < e THEN M[k + 1] ELSE M[k]
    <3>1. p # Origin /\ M[e] = Blank /\ \A j \in At(p) - 1 .. e - 1 : M[j] # Blank
      BY <2>1, <2>2
    <3>2. LET x == putc_intr(M, p, "backspace") IN
          /\ At(x.pos) = At(p) - 1
          /\ \A k \in 0 .. Last :
               x.mem[k] = IF k >= At(p) - 1 /\ k < e THEN M[k + 1] ELSE M[k]
      BY <2>3, <3>1, RunDelete
    <3> QED BY <1>4, <3>2
  <2>5. \A k \in 0 .. Last : k >= At(p) => M[k] = Blank
    BY DEF Blanks
  <2> HIDE DEF r
  <2>6. ASSUME NEW k \in 0 .. Last, k >= At(p) - 1 PROVE r.mem[k] = Blank
    <3>1. CASE k < e
      <4>1. k + 1 = At(p) /\ r.mem[k] = M[k + 1]
        BY <1>1, <2>3, <2>4, <2>6, <3>1
      <4> QED BY <1>1, <4>1
    <3>2. CASE ~(k < e)
      <4>1. r.mem[k] = M[k]
        BY <2>4, <3>2
      <4>2. k >= At(p) \/ k = e
        BY <1>1, <2>3, <2>6, <3>2
      <4> QED BY <2>2, <2>5, <4>1, <4>2
    <3> QED BY <3>1, <3>2
  <2> QED BY <1>1, <2>4, <2>6 DEF Blanks, r
<1>5. CASE c # "newline" /\ c # "backspace"
  <2>1. c \in ScreenCell /\ ~AtOrigin(p, c)
    BY <1>5 DEF Printed, ScreenCell, AtOrigin
  <2> DEFINE W == IF p = Corner THEN scroll_screen([M EXCEPT ![At(p)] = c]) ELSE M
             q == IF p = Corner THEN Bottom ELSE p
  <2>2. [M EXCEPT ![At(p)] = c] \in [0 .. Last -> ScreenCell]
    BY <2>1
  <2>3. W \in [0 .. Last -> ScreenCell]
    <3>1. Last \in Nat /\ Last <= Last
      BY <1>1
    <3>2. scroll_screen([M EXCEPT ![At(p)] = c]) \in [0 .. Last -> ScreenCell]
      BY <2>2, <3>1, ScrollTypes
    <3> QED BY <3>2
  <2>4. q \in Position /\ q # Corner /\ At(Forward(q)) = At(q) + 1
    BY PositionFacts, BottomFacts, AtFacts
  <2>5. r = [mem |-> scroll_right_char(W, At(q), c), pos |-> Forward(q)]
    BY <1>5, <2>1 DEF putc_intr
  <2>6. Blanks(W, q)
    BY <2>2, ScrollBlanks
  <2> HIDE DEF W, q
  <2>7. At(q) \in 0 .. Last /\ W[At(q)] = Blank
    <3>1. At(q) \in 0 .. Last
      BY <2>4, AtFacts
    <3> QED BY <1>1, <2>6, <3>1 DEF Blanks
  <2> DEFINE inRun(k) == \A j \in At(q) .. k - 1 : W[j] # Blank
             X == scroll_right_char(W, At(q), c)
  <2>8. X = [k \in 0 .. Last |-> IF k = At(q) THEN c
                                ELSE IF k > At(q) /\ inRun(k) THEN W[k - 1] ELSE W[k]]
    BY <2>3 DEF scroll_right_char
  <2>9. \A k \in 0 .. Last : k > At(q) => ~inRun(k)
    BY <2>7
  <2> HIDE DEF inRun, X
  <2>10. \A k \in 0 .. Last : k >= At(q) + 1 => X[k] = Blank
    BY <2>6, <2>7, <2>8, <2>9 DEF Blanks
  <2> QED BY <2>4, <2>5, <2>10 DEF Blanks, X
<1> QED BY <1>2, <1>3, <1>4, <1>5

LEMMA PutcBlanks ==
    ASSUME NEW M \in [0 .. Last -> ScreenCell], NEW p \in Position, Blanks(M, p),
           NEW c \in ScreenCell
    PROVE  Blanks(putc(M, p, c).mem, putc(M, p, c).pos)
<1> DEFINE W == [M EXCEPT ![At(p)] = c]
<1>1. c # "newline" /\ c # "backspace"
  BY ScreenFacts
<1>2. putc(M, p, c) = IF p = Corner THEN [mem |-> scroll_screen(W), pos |-> Bottom]
                                    ELSE [mem |-> W, pos |-> Forward(p)]
  BY <1>1 DEF putc, AtOrigin
<1>3. W \in [0 .. Last -> ScreenCell]
  OBVIOUS
<1>4. CASE p = Corner
  <2> HIDE DEF W
  <2>1. putc(M, p, c) = [mem |-> scroll_screen(W), pos |-> Bottom]
    BY <1>2, <1>4
  <2> QED BY <1>3, <2>1, ScrollBlanks
<1>5. CASE p # Corner
  <2>1. At(Forward(p)) = At(p) + 1 /\ At(p) \in 0 .. Last
    BY <1>5, AtFacts
  <2>2. \A k \in 0 .. Last : k # At(p) => W[k] = M[k]
    OBVIOUS
  <2> HIDE DEF W
  <2>3. \A k \in 0 .. Last : k >= At(p) + 1 => W[k] = Blank
    BY <2>1, <2>2 DEF Blanks
  <2> QED BY <1>2, <1>5, <2>1, <2>3 DEF Blanks
<1> QED BY <1>4, <1>5

----------------------------------------------------------------------------
(* The screen and the memory after it                                      *)

\* The screen that memory M begins with.
Top(M) == [i \in 0 .. Last |-> M[i]]

\* What the operators do to the screen is the same whatever follows it.
LEMMA TopScrolls ==
    ASSUME NEW n \in Nat, Last <= n, NEW M \in [0 .. n -> ScreenCell]
    PROVE  /\ scroll_screen(Top(M)) = Top(scroll_screen(M))
           /\ Cleared(Top(M)) = Top(Cleared(M))
           /\ \A i \in 0 .. Last : scroll_left_char(Top(M), i) = Top(scroll_left_char(M, i))
           /\ \A i \in 0 .. Last : \A c \in ScreenCell :
                scroll_right_char(Top(M), i, c) = Top(scroll_right_char(M, i, c))
<1>1. /\ Last \in Nat /\ NUM_COLS \in Nat /\ DOMAIN M = 0 .. n
      /\ \A k \in 0 .. Last : k \in 0 .. n
  BY ScreenFacts
<1>2. DOMAIN Top(M) = 0 .. Last /\ \A k \in 0 .. Last : Top(M)[k] = M[k]
  BY DEF Top
<1>3. scroll_screen(Top(M)) = Top(scroll_screen(M))
  <2>1. \A k \in 0 .. Last : k + NUM_COLS <= Last => k + NUM_COLS \in 0 .. Last
    BY <1>1
  <2>2. \A k \in 0 .. Last : scroll_screen(M)[k] = IF k + NUM_COLS <= Last
                                                   THEN M[k + NUM_COLS] ELSE Blank
    BY <1>1 DEF scroll_screen
  <2>3. scroll_screen(Top(M)) = [k \in 0 .. Last |-> IF k + NUM_COLS <= Last
                                                     THEN M[k + NUM_COLS] ELSE Blank]
    BY <1>1, <1>2, <2>1 DEF scroll_screen
  <2> QED BY <2>2, <2>3 DEF Top
<1>4. Cleared(Top(M)) = Top(Cleared(M))
  BY <1>1, <1>2 DEF Cleared, Top
<1>5. ASSUME NEW i \in 0 .. Last
      PROVE  scroll_left_char(Top(M), i) = Top(scroll_left_char(M, i))
  <2> DEFINE N == Top(M)
             inRun(k) == \A j \in i .. k : M[j] # Blank
             inTop(k) == \A j \in i .. k : N[j] # Blank
  <2>1. ASSUME NEW k \in 0 .. Last PROVE inRun(k) <=> inTop(k)
    <3>1. \A j \in i .. k : j \in 0 .. Last
      BY <1>1
    <3> QED BY <1>2, <3>1
  <2>2. \A k \in 0 .. Last : k # Last => k + 1 \in 0 .. Last
    BY <1>1
  <2>3. scroll_left_char(M, i) =
          [k \in 0 .. n |-> IF k >= i /\ k <= Last /\ inRun(k)
                            THEN IF k = Last THEN Blank ELSE M[k + 1] ELSE M[k]]
    BY <1>1 DEF scroll_left_char
  <2>4. scroll_left_char(N, i) =
          [k \in 0 .. Last |-> IF k >= i /\ k <= Last /\ inTop(k)
                               THEN IF k = Last THEN Blank ELSE N[k + 1] ELSE N[k]]
    BY <1>2 DEF scroll_left_char
  <2> HIDE DEF N, inRun, inTop
  <2>5. \A k \in 0 .. Last :
          scroll_left_char(M, i)[k] = IF k >= i /\ k <= Last /\ inRun(k)
                                      THEN IF k = Last THEN Blank ELSE M[k + 1] ELSE M[k]
    BY <1>1, <2>3
  <2>6. \A k \in 0 .. Last : N[k] = M[k]
    BY <1>2 DEF N
  <2>7. \A k \in 0 .. Last : scroll_left_char(N, i)[k] = scroll_left_char(M, i)[k]
    BY <2>1, <2>2, <2>4, <2>5, <2>6
  <2>8. scroll_left_char(N, i) = [k \in 0 .. Last |-> scroll_left_char(N, i)[k]]
    BY <2>4
  <2>9. scroll_left_char(N, i) = Top(scroll_left_char(M, i))
    BY <2>7, <2>8 DEF Top
  <2> QED BY <2>9 DEF N
<1>6. ASSUME NEW i \in 0 .. Last, NEW c \in ScreenCell
      PROVE  scroll_right_char(Top(M), i, c) = Top(scroll_right_char(M, i, c))
  <2> DEFINE N == Top(M)
             inRun(k) == \A j \in i .. k - 1 : M[j] # Blank
             inTop(k) == \A j \in i .. k - 1 : N[j] # Blank
  <2>1. ASSUME NEW k \in 0 .. Last PROVE inRun(k) <=> inTop(k)
    <3>1. \A j \in i .. k - 1 : j \in 0 .. Last
      BY <1>1
    <3> QED BY <1>2, <3>1
  <2>2. \A k \in 0 .. Last : k > i => k - 1 \in 0 .. Last
    BY <1>1
  <2>3. scroll_right_char(M, i, c) =
          [k \in 0 .. n |-> IF k = i THEN c
                            ELSE IF k > i /\ inRun(k) THEN M[k - 1] ELSE M[k]]
    BY <1>1 DEF scroll_right_char
  <2>4. scroll_right_char(N, i, c) =
          [k \in 0 .. Last |-> IF k = i THEN c
                               ELSE IF k > i /\ inTop(k) THEN N[k - 1] ELSE N[k]]
    BY <1>2 DEF scroll_right_char
  <2> HIDE DEF N, inRun, inTop
  <2>5. \A k \in 0 .. Last :
          scroll_right_char(M, i, c)[k] = IF k = i THEN c
                                          ELSE IF k > i /\ inRun(k) THEN M[k - 1] ELSE M[k]
    BY <1>1, <2>3
  <2>6. \A k \in 0 .. Last : N[k] = M[k]
    BY <1>2 DEF N
  <2>7. \A k \in 0 .. Last : scroll_right_char(N, i, c)[k] = scroll_right_char(M, i, c)[k]
    BY <2>1, <2>2, <2>4, <2>5, <2>6
  <2>8. scroll_right_char(N, i, c) = [k \in 0 .. Last |-> scroll_right_char(N, i, c)[k]]
    BY <2>4
  <2>9. scroll_right_char(N, i, c) = Top(scroll_right_char(M, i, c))
    BY <2>7, <2>8 DEF Top
  <2> QED BY <2>9 DEF N
<1> QED BY <1>3, <1>4, <1>5, <1>6

LEMMA TopLine ==
    ASSUME NEW n \in Nat, Last <= n, NEW M \in [0 .. n -> ScreenCell], NEW p \in Position
    PROVE  Line(Top(M), p) = [mem |-> Top(Line(M, p).mem), pos |-> Line(M, p).pos]
BY TopScrolls DEF Line

LEMMA TopPutc ==
    ASSUME NEW n \in Nat, Last <= n, NEW M \in [0 .. n -> ScreenCell], NEW p \in Position,
           NEW c \in Printed
    PROVE  putc(Top(M), p, c) = [mem |-> Top(putc(M, p, c).mem), pos |-> putc(M, p, c).pos]
<1>1. CASE AtOrigin(p, c)
  BY <1>1 DEF putc
<1>2. CASE ~AtOrigin(p, c) /\ c = "newline"
  BY <1>2, TopLine DEF putc
<1>3. CASE ~AtOrigin(p, c) /\ c = "backspace"
  <2>1. At(Back(p)) \in 0 .. Last /\ Blank \in ScreenCell
    BY <1>3, PositionFacts, AtFacts DEF AtOrigin, ScreenCell
  <2>2. PICK N : N = [M EXCEPT ![At(Back(p))] = Blank]
    OBVIOUS
  <2>3. [Top(M) EXCEPT ![At(Back(p))] = Blank] = Top(N)
    <3>1. \A k \in 0 .. Last : N[k] = IF k = At(Back(p)) THEN Blank ELSE M[k]
      BY <2>2, ScreenFacts
    <3>2. [Top(M) EXCEPT ![At(Back(p))] = Blank] =
            [k \in 0 .. Last |-> IF k = At(Back(p)) THEN Blank ELSE M[k]]
      BY <2>1 DEF Top
    <3> QED BY <3>1, <3>2 DEF Top
  <2> QED BY <1>3, <2>2, <2>3 DEF putc
<1>4. CASE c # "newline" /\ c # "backspace"
  <2>1. c \in ScreenCell /\ ~AtOrigin(p, c) /\ At(p) \in 0 .. Last
    BY <1>4, AtFacts DEF Printed, ScreenCell, AtOrigin
  <2>2. PICK W : W = [M EXCEPT ![At(p)] = c]
    OBVIOUS
  <2>3. W \in [0 .. n -> ScreenCell] /\ [Top(M) EXCEPT ![At(p)] = c] = Top(W)
    <3>1. W \in [0 .. n -> ScreenCell]
      BY <2>1, <2>2
    <3>2. \A k \in 0 .. Last : W[k] = IF k = At(p) THEN c ELSE M[k]
      BY <2>2, ScreenFacts
    <3>3. [Top(M) EXCEPT ![At(p)] = c] = [k \in 0 .. Last |-> IF k = At(p) THEN c ELSE M[k]]
      BY <2>1 DEF Top
    <3> QED BY <3>1, <3>2, <3>3 DEF Top
  <2>4. putc(M, p, c) = IF p = Corner THEN [mem |-> scroll_screen(W), pos |-> Bottom]
                                      ELSE [mem |-> W, pos |-> Forward(p)]
    BY <1>4, <2>1, <2>2 DEF putc
  <2>5. putc(Top(M), p, c) = IF p = Corner THEN [mem |-> scroll_screen(Top(W)), pos |-> Bottom]
                                           ELSE [mem |-> Top(W), pos |-> Forward(p)]
    BY <1>4, <2>1, <2>3 DEF putc
  <2>6. scroll_screen(Top(W)) = Top(scroll_screen(W))
    BY <2>3, TopScrolls
  <2> QED BY <2>4, <2>5, <2>6
<1> QED BY <1>1, <1>2, <1>3, <1>4

LEMMA TopPutcIntr ==
    ASSUME NEW n \in Nat, Last <= n, NEW M \in [0 .. n -> ScreenCell], NEW p \in Position,
           NEW c \in Printed
    PROVE  putc_intr(Top(M), p, c) =
             [mem |-> Top(putc_intr(M, p, c).mem), pos |-> putc_intr(M, p, c).pos]
<1>1. CASE AtOrigin(p, c)
  BY <1>1 DEF putc_intr
<1>2. CASE ~AtOrigin(p, c) /\ c = "newline"
  BY <1>2, TopLine DEF putc_intr
<1>3. CASE ~AtOrigin(p, c) /\ c = "backspace"
  <2>1. At(Back(p)) \in 0 .. Last
    BY <1>3, PositionFacts, AtFacts DEF AtOrigin
  <2>2. LeavesEarly(Top(M), p, c) <=> LeavesEarly(M, p, c)
    <3>1. \A k \in At(Back(p)) .. Last : k \in 0 .. Last
      BY <2>1, ScreenFacts
    <3>2. \A k \in At(Back(p)) .. Last : Top(M)[k] = M[k]
      BY <3>1 DEF Top
    <3> QED BY <3>2 DEF LeavesEarly
  <2>3. scroll_left_char(Top(M), At(Back(p))) = Top(scroll_left_char(M, At(Back(p))))
    BY <2>1, TopScrolls
  <2> QED BY <1>3, <2>2, <2>3 DEF putc_intr
<1>4. CASE c # "newline" /\ c # "backspace"
  <2>1. c \in ScreenCell /\ ~AtOrigin(p, c) /\ At(p) \in 0 .. Last
    BY <1>4, AtFacts DEF Printed, ScreenCell, AtOrigin
  <2>2. PICK V : V = [M EXCEPT ![At(p)] = c]
    OBVIOUS
  <2>3. V \in [0 .. n -> ScreenCell] /\ [Top(M) EXCEPT ![At(p)] = c] = Top(V)
    <3>1. V \in [0 .. n -> ScreenCell]
      BY <2>1, <2>2
    <3>2. \A k \in 0 .. Last : V[k] = IF k = At(p) THEN c ELSE M[k]
      BY <2>2, ScreenFacts
    <3>3. [Top(M) EXCEPT ![At(p)] = c] = [k \in 0 .. Last |-> IF k = At(p) THEN c ELSE M[k]]
      BY <2>1 DEF Top
    <3> QED BY <3>1, <3>2, <3>3 DEF Top
  <2>4. PICK W : W = IF p = Corner THEN scroll_screen(V) ELSE M
    OBVIOUS
  <2>5. PICK q : q = IF p = Corner THEN Bottom ELSE p
    OBVIOUS
  <2>6. W \in [0 .. n -> ScreenCell] /\ Top(W) = IF p = Corner THEN scroll_screen(Top(V)) ELSE Top(M)
    BY <2>3, <2>4, ScrollTypes, TopScrolls
  <2>7. At(q) \in 0 .. Last
    BY <2>1, <2>5, BottomFacts
  <2>8. putc_intr(M, p, c) = [mem |-> scroll_right_char(W, At(q), c), pos |-> Forward(q)]
    BY <1>4, <2>1, <2>2, <2>4, <2>5 DEF putc_intr
  <2>9. putc_intr(Top(M), p, c) = [mem |-> scroll_right_char(Top(W), At(q), c), pos |-> Forward(q)]
    BY <1>4, <2>1, <2>3, <2>5, <2>6 DEF putc_intr
  <2>10. scroll_right_char(Top(W), At(q), c) = Top(scroll_right_char(W, At(q), c))
    BY <2>1, <2>6, <2>7, TopScrolls
  <2> QED BY <2>8, <2>9, <2>10
<1> QED BY <1>1, <1>2, <1>3, <1>4

\* The echo leaves the memory after cell m alone, if the run that it moves ends there.
LEMMA EchoBelow ==
    ASSUME NEW n \in Nat, NEW m \in Nat, Last <= m, m <= n, NEW M \in [0 .. n -> ScreenCell],
           NEW p \in Position, NEW c \in Printed,
           c \in ScreenCell /\ p # Corner => \E e \in At(p) .. m : M[e] = Blank
    PROVE  \A k \in m + 1 .. n : putc_intr(M, p, c).mem[k] = M[k]
<1>1. /\ Last \in Nat /\ NUM_COLS \in Nat /\ DOMAIN M = 0 .. n
      /\ \A k \in m + 1 .. n : k \in 0 .. n /\ ~(k <= Last) /\ ~(k + NUM_COLS <= Last)
  BY ScreenFacts
<1>2. CASE AtOrigin(p, c)
  BY <1>2 DEF putc_intr
<1>3. CASE ~AtOrigin(p, c) /\ c = "newline"
  BY <1>1, <1>3 DEF putc_intr, Line, scroll_screen
<1>4. CASE ~AtOrigin(p, c) /\ c = "backspace"
  <2>1. \A i : \A k \in m + 1 .. n : scroll_left_char(M, i)[k] = M[k]
    BY <1>1 DEF scroll_left_char
  <2> QED BY <1>4, <2>1 DEF putc_intr
<1>5. CASE c # "newline" /\ c # "backspace"
  <2>1. c \in ScreenCell /\ ~AtOrigin(p, c) /\ At(p) \in 0 .. Last
    BY <1>5, AtFacts DEF Printed, ScreenCell, AtOrigin
  <2>2. PICK V : V = [M EXCEPT ![At(p)] = c]
    OBVIOUS
  <2>3. PICK W : W = IF p = Corner THEN scroll_screen(V) ELSE M
    OBVIOUS
  <2>4. PICK q : q = IF p = Corner THEN Bottom ELSE p
    OBVIOUS
  <2>5. putc_intr(M, p, c).mem = scroll_right_char(W, At(q), c)
    BY <1>5, <2>1, <2>2, <2>3, <2>4 DEF putc_intr
  <2>6. At(q) \in 0 .. Last
    BY <2>1, <2>4, BottomFacts
  <2>7. /\ DOMAIN W = 0 .. n
        /\ \A k \in m + 1 .. n : W[k] = M[k]
        /\ \E e \in At(q) .. m : W[e] = Blank
    <3>1. CASE p = Corner
      <4>1. DOMAIN V = 0 .. n /\ \A k \in m + 1 .. n : V[k] = M[k]
        <5>1. \A k \in m + 1 .. n : k # At(p)
          BY <1>1, <2>1
        <5> QED BY <1>1, <2>2, <5>1
      <4>2. W = [i \in 0 .. n |-> IF i + NUM_COLS <= Last THEN V[i + NUM_COLS]
                                  ELSE IF i <= Last THEN Blank ELSE V[i]]
        BY <2>3, <3>1, <4>1 DEF scroll_screen
      <4>3. \A k \in m + 1 .. n : W[k] = M[k]
        BY <1>1, <4>1, <4>2
      <4>4. At(q) + NUM_COLS = Last + 1 /\ At(q) \in 0 .. n /\ At(q) \in At(q) .. m
        BY <1>1, <2>4, <2>6, <3>1, BottomFacts
      <4>5. W[At(q)] = Blank
        BY <1>1, <2>6, <4>2, <4>4
      <4> QED BY <4>2, <4>3, <4>4, <4>5
    <3>2. CASE p # Corner
      BY <1>1, <2>1, <2>3, <2>4, <3>2
    <3> QED BY <3>1, <3>2
  <2>8. PICK e \in At(q) .. m : W[e] = Blank
    BY <2>7
  <2> DEFINE inRun(k) == \A j \in At(q) .. k - 1 : W[j] # Blank
  <2>9. \A k \in m + 1 .. n : ~inRun(k) /\ k # At(q)
    <3>1. \A k \in m + 1 .. n : e \in At(q) .. k - 1 /\ k # At(q)
      BY <1>1, <2>6, <2>8
    <3> QED BY <2>8, <3>1
  <2>10. scroll_right_char(W, At(q), c) =
           [k \in 0 .. n |-> IF k = At(q) THEN c
                             ELSE IF k > At(q) /\ inRun(k) THEN W[k - 1] ELSE W[k]]
    BY <2>7 DEF scroll_right_char
  <2> HIDE DEF inRun
  <2> QED BY <1>1, <2>5, <2>7, <2>9, <2>10
<1> QED BY <1>2, <1>3, <1>4, <1>5
=============================================================================
