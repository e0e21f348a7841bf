----------------------------- MODULE VideoProof -----------------------------
(***************************************************************************)
(* Proofs about Video, for every number of terminals and every size of the *)
(* screen and of the pages.                                                *)
(***************************************************************************)
EXTENDS MCVideo, ScreenProof

----------------------------------------------------------------------------
(* Arithmetic                                                              *)

LEMMA SizeFacts ==
    /\ NUM_TERMINAL \in Nat \ {0} /\ PAGE \in Nat \ {0}
    /\ NUM_COLS \in Nat /\ NUM_COLS >= 2 /\ NUM_ROWS \in Nat /\ NUM_ROWS >= 1
    /\ Last \in Nat /\ Last < PAGE
BY ScreenFacts, VideoAssumption

\* The cells of a page lie within the memory.
LEMMA PageInMemory ==
    ASSUME NEW g \in Page, NEW i \in 0 .. PAGE - 1
    PROVE  g * PAGE + i \in 0 .. (NUM_TERMINAL + 1) * PAGE - 1
<1>1. g \in Nat /\ NUM_TERMINAL - g \in Nat /\ PAGE \in Nat /\ i \in Nat
  BY SizeFacts DEF Page
<1>2. g * PAGE >= 0 /\ g * PAGE \in Int
  BY <1>1, SMT
<1>3. (NUM_TERMINAL - g) * PAGE >= 0
  BY <1>1, SMT
<1>4. (NUM_TERMINAL + 1) * PAGE = (NUM_TERMINAL - g) * PAGE + g * PAGE + PAGE
  BY <1>1, SizeFacts, SMT
<1> QED BY <1>1, <1>2, <1>3, <1>4, SizeFacts

LEMMA TerminalFacts ==
    /\ 0 \in Terminal
    /\ VMEM \in Page
    /\ \A t \in Terminal : back_video_buf_addr(t) \in Page
    /\ \A t \in Terminal : (t + 1) % NUM_TERMINAL \in Terminal
BY SizeFacts DEF Terminal, Page, VMEM, back_video_buf_addr

----------------------------------------------------------------------------
(* Type correctness                                                        *)

MemCells == 0 .. (NUM_TERMINAL + 1) * PAGE - 1

LEMMA PageTypes ==
    ASSUME NEW m \in [MemCells -> ScreenCell], NEW g \in Page
    PROVE  /\ PageOf(m, g) \in [0 .. PAGE - 1 -> ScreenCell]
           /\ \A p \in [0 .. PAGE - 1 -> ScreenCell] : WithPage(m, g, p) \in [MemCells -> ScreenCell]
<1>1. PageOf(m, g) \in [0 .. PAGE - 1 -> ScreenCell]
  <2>1. \A i \in 0 .. PAGE - 1 : m[g * PAGE + i] \in ScreenCell
    BY PageInMemory DEF MemCells
  <2> QED BY <2>1 DEF PageOf
<1>2. ASSUME NEW p \in [0 .. PAGE - 1 -> ScreenCell]
      PROVE  WithPage(m, g, p) \in [MemCells -> ScreenCell]
  <2>1. \A k \in MemCells : k % PAGE \in 0 .. PAGE - 1
    BY SizeFacts DEF MemCells
  <2> QED BY <2>1 DEF WithPage
<1> QED BY <1>1, <1>2

\* The sizes at which the lemmas about Screen are used.
LEMMA MemorySizes ==
    /\ PAGE - 1 \in Nat /\ Last <= PAGE - 1
    /\ (NUM_TERMINAL + 1) * PAGE - 1 \in Nat
    /\ Last <= (NUM_TERMINAL + 1) * PAGE - 1
<1>1. NUM_TERMINAL * PAGE >= 0 /\ NUM_TERMINAL * PAGE \in Int
  BY SizeFacts, SMT
<1>2. (NUM_TERMINAL + 1) * PAGE = NUM_TERMINAL * PAGE + PAGE
  BY SizeFacts, SMT
<1> QED BY <1>1, <1>2, SizeFacts

LEMMA PagingTypes ==
    ASSUME NEW term, NEW cur, NEW sche \in Terminal
    PROVE  PageFor(term, cur, sche) \in Page
BY TerminalFacts DEF PageFor

LEMMA TypeInit == Init => TypeOK
BY TerminalFacts, PositionFacts DEF Init, TypeOK

LEMMA TypeStep == TypeOK /\ [Next]_vars => TypeOK'
<1> SUFFICES ASSUME TypeOK, [Next]_vars PROVE TypeOK'
  OBVIOUS
<1> USE DEF ScreenCell
<1>1. /\ mem \in [MemCells -> ScreenCell] /\ base \in Page /\ usr_base \in Page
      /\ pos \in [Terminal -> Position] /\ hw \in Position
      /\ sche_term \in Terminal /\ cur_terminal \in Terminal
      /\ vidmapped \in [Terminal -> {"no", "begun", "done"}]
      /\ usr_present \in BOOLEAN
  BY DEF TypeOK, MemCells
<1>2. pos[sche_term] \in Position /\ pos[cur_terminal] \in Position
  BY <1>1
<1>3. ASSUME NEW c \in Char, Putc(c) PROVE TypeOK'
  <2> DEFINE r == putc(PageOf(mem, base), pos[sche_term], c)
  <2>5. c \in Printed
    BY DEF Char, Printed
  <2>1. r.mem \in [0 .. PAGE - 1 -> ScreenCell] /\ r.pos \in Position
    BY <1>1, <1>2, <2>5, PageTypes, PutcTypes, MemorySizes
  <2>2. WithPage(mem, base, r.mem) \in [MemCells -> ScreenCell]
    BY <1>1, <2>1, PageTypes
  <2>3. /\ mem' = WithPage(mem, base, r.mem)
        /\ pos' = [pos EXCEPT ![sche_term] = r.pos]
        /\ hw' = CursorAfter(r.pos)
        /\ UNCHANGED << cur_terminal, sche_term, base, usr_base, usr_present, vidmapped >>
    BY <1>3 DEF Putc
  <2> HIDE DEF r
  <2>4. pos' \in [Terminal -> Position] /\ hw' \in Position
    BY <1>1, <2>1, <2>3 DEF CursorAfter
  <2> QED BY <1>1, <2>2, <2>3, <2>4 DEF TypeOK, MemCells
<1>4. ASSUME NEW c \in Char, Echo(c) PROVE TypeOK'
  <2> DEFINE r == putc_intr(mem, pos[cur_terminal], c)
  <2>5. c \in Printed
    BY DEF Char, Printed
  <2>1. r.mem \in [MemCells -> ScreenCell] /\ r.pos \in Position
    BY <1>1, <1>2, <2>5, PutcIntrTypes, MemorySizes DEF MemCells
  <2>2. /\ mem' = r.mem
        /\ pos' = [pos EXCEPT ![cur_terminal] = r.pos]
        /\ hw' = hw \/ hw' = r.pos
        /\ \E term : base' = PageFor(term, cur_terminal, sche_term)
                     /\ usr_base' = PageFor(term, cur_terminal, sche_term)
        /\ UNCHANGED << cur_terminal, sche_term, usr_present, vidmapped >>
    BY <1>4 DEF Echo, update_video_mem_paging
  <2> HIDE DEF r
  <2>3. pos' \in [Terminal -> Position] /\ hw' \in Position
    BY <1>1, <2>1, <2>2
  <2>4. base' \in Page /\ usr_base' \in Page
    BY <1>1, <2>2, PagingTypes
  <2> QED BY <1>1, <2>1, <2>2, <2>3, <2>4 DEF TypeOK, MemCells
<1>5. CASE Clear
  <2>1. Cleared(PageOf(mem, base)) \in [0 .. PAGE - 1 -> ScreenCell]
    BY <1>1, PageTypes, ScrollTypes, MemorySizes
  <2>2. mem' \in [MemCells -> ScreenCell]
    BY <1>1, <1>5, <2>1, PageTypes DEF Clear
  <2>3. pos' \in [Terminal -> Position] /\ hw' \in Position
    BY <1>1, <1>5, PositionFacts DEF Clear
  <2> QED BY <1>1, <1>5, <2>2, <2>3 DEF Clear, TypeOK, MemCells
<1>6. CASE ClearIntr
  <2>1. Cleared(PageOf(mem, VMEM)) \in [0 .. PAGE - 1 -> ScreenCell]
    BY <1>1, PageTypes, ScrollTypes, MemorySizes, TerminalFacts
  <2>2. mem' \in [MemCells -> ScreenCell]
    BY <1>1, <1>6, <2>1, PageTypes, TerminalFacts DEF ClearIntr
  <2>3. pos' \in [Terminal -> Position] /\ hw' \in Position
    BY <1>1, <1>6, PositionFacts DEF ClearIntr
  <2>4. base' \in Page /\ usr_base' \in Page
    BY <1>1, <1>6, PagingTypes DEF ClearIntr, update_video_mem_paging
  <2> QED BY <1>1, <1>6, <2>2, <2>3, <2>4 DEF ClearIntr, TypeOK, MemCells
<1>7. CASE VidmapBegin
  BY <1>1, <1>7 DEF VidmapBegin, TypeOK, MemCells
<1>8. CASE VidmapEnd
  BY <1>1, <1>8, TerminalFacts DEF VidmapEnd, TypeOK, MemCells
<1>9. ASSUME NEW i \in 0 .. Last, NEW c \in Glyph \cup {Blank}, Store(i, c)
      PROVE  TypeOK'
  <2>1. mem' \in [MemCells -> ScreenCell]
    BY <1>1, <1>9 DEF Store
  <2> QED BY <1>1, <1>9, <2>1 DEF Store, TypeOK, MemCells
<1>10. CASE Tick
  <2>1. sche_term' \in Terminal
    BY <1>1, <1>10, TerminalFacts DEF Tick
  <2>2. base' \in Page /\ usr_base' \in Page
    BY <1>10, <2>1, PagingTypes DEF Tick, update_video_mem_paging
  <2> QED BY <1>1, <1>10, <2>1, <2>2 DEF Tick, TypeOK, MemCells
<1>11. ASSUME NEW t \in Terminal, terminal_switch(t) PROVE TypeOK'
  <2> DEFINE m == WithPage(mem, back_video_buf_addr(cur_terminal), PageOf(mem, VMEM))
  <2>1. m \in [MemCells -> ScreenCell]
    BY <1>1, PageTypes, TerminalFacts
  <2>2. WithPage(m, VMEM, PageOf(m, back_video_buf_addr(t))) \in [MemCells -> ScreenCell]
    <3> HIDE DEF m
    <3> QED BY <1>11, <2>1, PageTypes, TerminalFacts
  <2>3. mem' \in [MemCells -> ScreenCell]
    BY <1>11, <2>2 DEF terminal_switch, Exchanged
  <2> HIDE DEF m
  <2>4. base' \in Page /\ usr_base' \in Page
    BY <1>1, <1>11, PagingTypes DEF terminal_switch, update_video_mem_paging
  <2>5. hw' \in Position
    BY <1>1, <1>11 DEF terminal_switch
  <2> QED BY <1>1, <1>11, <2>3, <2>4, <2>5 DEF terminal_switch, TypeOK, MemCells
<1>12. CASE UNCHANGED vars
  BY <1>12 DEF vars, TypeOK
<1> QED BY <1>3, <1>4, <1>5, <1>6, <1>7, <1>8, <1>9, <1>10, <1>11, <1>12 DEF Next

\* TypeOK holds for every size of the screen, every number of terminals and
\* every environment: in particular putc and putc_intr (lib.c) never take a
\* cursor off the screen.
THEOREM TypeCorrect == Spec => []TypeOK
BY TypeInit, TypeStep, PTL DEF Spec

----------------------------------------------------------------------------
(* The windows                                                             *)

\* None of the three events after which a window is left on the wrong page.
WindowsQuiet ==
    Env \cap {"LeaveEarly", "BackgroundVidmap", "VidmapPreempt"} = {}

\* A program that is within vidmap is the running one, in the foreground.
VidmapInFront ==
    \A t \in Terminal : vidmapped[t] = "begun" => t = sche_term /\ t = cur_terminal

\* The kernel's window is right, and the programs' whenever it is open; it is
\* open from the first complete vidmap on, unless one is under way.
Windows ==
    /\ base = PageFor(sche_term, cur_terminal, sche_term)
    /\ usr_present => usr_base = base
    /\ \A t \in Terminal :
         vidmapped[t] = "done" => \/ usr_present
                                  \/ \E u \in Terminal : vidmapped[u] = "begun"

WInv == TypeOK /\ VidmapInFront /\ Windows

LEMMA WindowsInit == Init => WInv
BY TypeInit DEF Init, WInv, VidmapInFront, Windows, PageFor

LEMMA WindowsStep ==
    ASSUME WindowsQuiet
    PROVE  WInv /\ [Next]_vars => WInv'
<1> SUFFICES ASSUME WInv, [Next]_vars PROVE WInv'
  OBVIOUS
<1>1. TypeOK'
  BY TypeStep DEF WInv
<1>2. /\ sche_term \in Terminal /\ cur_terminal \in Terminal
      /\ vidmapped \in [Terminal -> {"no", "begun", "done"}]
      /\ VidmapInFront /\ Windows
  BY DEF WInv, TypeOK
<1>3. /\ "LeaveEarly" \notin Env /\ "BackgroundVidmap" \notin Env
      /\ "VidmapPreempt" \notin Env
  BY DEF WindowsQuiet
\* An action that leaves the terminals and vidmap alone, and the windows too or
\* opens them for the scheduled terminal.
<1>4. ASSUME UNCHANGED << cur_terminal, sche_term, usr_present, vidmapped >>,
             \/ UNCHANGED << base, usr_base >>
             \/ update_video_mem_paging(sche_term, cur_terminal, sche_term)
      PROVE  WInv'
  <2>1. VidmapInFront'
    BY <1>2, <1>4 DEF VidmapInFront
  <2>2. Windows'
    BY <1>2, <1>4 DEF Windows, update_video_mem_paging, PageFor
  <2> QED BY <1>1, <2>1, <2>2 DEF WInv
\* An interrupt that is taken only outside vidmap, and opens the windows for the
\* terminal that is scheduled then.
<1>5. ASSUME Undisturbed,
             UNCHANGED << usr_present, vidmapped >>,
             update_video_mem_paging(sche_term', cur_terminal', sche_term')
      PROVE  WInv'
  <2>1. \A t \in Terminal : vidmapped[t] # "begun"
    BY <1>3, <1>5 DEF Undisturbed
  <2>2. VidmapInFront'
    BY <1>5, <2>1 DEF VidmapInFront
  <2>3. Windows'
    BY <1>2, <1>5, <2>1 DEF Windows, update_video_mem_paging, PageFor
  <2> QED BY <1>1, <2>2, <2>3 DEF WInv
<1>6. ASSUME NEW c \in Char, Putc(c) PROVE WInv'
  BY <1>4, <1>6 DEF Putc
<1>7. ASSUME NEW c \in Char, Echo(c) PROVE WInv'
  <2>1. ~LeavesEarly(mem, pos[cur_terminal], c)
    BY <1>3, <1>7 DEF Echo
  <2> QED BY <1>4, <1>7, <2>1 DEF Echo
<1>8. CASE Clear
  BY <1>4, <1>8 DEF Clear
<1>9. CASE ClearIntr
  BY <1>4, <1>9 DEF ClearIntr
<1>10. CASE VidmapBegin
  <2>1. sche_term = cur_terminal
    BY <1>3, <1>10 DEF VidmapBegin
  <2>2. /\ vidmapped' = [vidmapped EXCEPT ![sche_term] = "begun"]
        /\ usr_present' = FALSE
        /\ UNCHANGED << cur_terminal, sche_term, base, usr_base >>
    BY <1>10 DEF VidmapBegin
  <2>3. VidmapInFront'
    BY <1>2, <2>1, <2>2 DEF VidmapInFront
  <2>4. vidmapped'[sche_term] = "begun"
    BY <1>2, <2>2
  <2>5. Windows'
    BY <1>2, <2>2, <2>4 DEF Windows, PageFor
  <2> QED BY <1>1, <2>3, <2>5 DEF WInv
<1>11. CASE VidmapEnd
  <2>1. vidmapped[sche_term] = "begun"
    BY <1>11 DEF VidmapEnd, Runs
  <2>2. sche_term = cur_terminal
    BY <1>2, <2>1 DEF VidmapInFront
  <2>3. /\ vidmapped' = [vidmapped EXCEPT ![sche_term] = "done"]
        /\ usr_present' = TRUE
        /\ usr_base' = VMEM
        /\ UNCHANGED << cur_terminal, sche_term, base >>
    BY <1>11 DEF VidmapEnd
  <2>4. base = VMEM
    BY <1>2, <2>2 DEF Windows, PageFor
  <2>5. VidmapInFront'
    BY <1>2, <2>3 DEF VidmapInFront
  <2>6. Windows'
    BY <1>2, <2>3, <2>4 DEF Windows, PageFor
  <2> QED BY <1>1, <2>5, <2>6 DEF WInv
<1>12. ASSUME NEW i \in 0 .. Last, NEW c \in Glyph \cup {Blank}, Store(i, c)
       PROVE  WInv'
  BY <1>4, <1>12 DEF Store
<1>13. CASE Tick
  BY <1>5, <1>13 DEF Tick
<1>14. ASSUME NEW t \in Terminal, terminal_switch(t) PROVE WInv'
  BY <1>5, <1>14 DEF terminal_switch
<1>15. CASE UNCHANGED vars
  BY <1>4, <1>15 DEF vars
<1> QED BY <1>6, <1>7, <1>8, <1>9, <1>10, <1>11, <1>12, <1>13, <1>14, <1>15 DEF Next

LEMMA WindowsInvariant ==
    ASSUME WindowsQuiet
    PROVE  Spec => []WInv
<1>1. WInv /\ [Next]_vars => WInv'
  BY WindowsStep
<1> QED BY <1>1, WindowsInit, PTL DEF Spec

\* WindowsFollow holds unless the environment has an early return of putc_intr, a
\* vidmap in the background or one that is preempted: no order of ticks, keys
\* and terminal switches leaves a window on another terminal's page
\* (update_video_mem_paging, scheduler.c:18-29, and its five callers).
THEOREM WindowsFollowHolds ==
    ASSUME WindowsQuiet
    PROVE  Spec => []WindowsFollow
<1>1. Spec => []WInv
  BY WindowsInvariant
<1>2. WInv => WindowsFollow
  BY DEF WInv, Windows, WindowsFollow
<1> QED BY <1>1, <1>2, PTL

----------------------------------------------------------------------------
(* The display's cursor                                                    *)

LEMMA CursorStep ==
    ASSUME "BackgroundFault" \notin Env
    PROVE  TypeOK /\ CursorShown /\ [Next]_vars => CursorShown'
<1> SUFFICES ASSUME TypeOK, CursorShown, [Next]_vars PROVE CursorShown'
  OBVIOUS
<1>1. /\ pos \in [Terminal -> Position] /\ sche_term \in Terminal
      /\ cur_terminal \in Terminal /\ hw = pos[cur_terminal]
  BY DEF TypeOK, CursorShown
<1>2. ASSUME NEW c \in Char, Putc(c) PROVE CursorShown'
  BY <1>1, <1>2 DEF Putc, CursorAfter, CursorShown
<1>3. ASSUME NEW c \in Char, Echo(c) PROVE CursorShown'
  <2> DEFINE r == putc_intr(mem, pos[cur_terminal], c)
             early == LeavesEarly(mem, pos[cur_terminal], c)
  <2>1. early => r.pos = pos[cur_terminal]
    BY DEF LeavesEarly, putc_intr, AtOrigin
  <2>2. /\ pos' = [pos EXCEPT ![cur_terminal] = r.pos]
        /\ hw' = IF early THEN hw ELSE r.pos
        /\ cur_terminal' = cur_terminal
    BY <1>3 DEF Echo
  <2> HIDE DEF r, early
  <2> QED BY <1>1, <2>1, <2>2 DEF CursorShown
<1>4. CASE Clear
  <2>1. sche_term = cur_terminal
    BY <1>4 DEF Clear
  <2> QED BY <1>1, <1>4, <2>1 DEF Clear, CursorShown
<1>5. CASE ClearIntr
  BY <1>1, <1>5 DEF ClearIntr, CursorShown
<1>6. CASE VidmapBegin \/ VidmapEnd \/ Tick
  BY <1>1, <1>6 DEF VidmapBegin, VidmapEnd, Tick, CursorShown
<1>7. ASSUME NEW i \in 0 .. Last, NEW c \in Glyph \cup {Blank}, Store(i, c)
      PROVE  CursorShown'
  BY <1>1, <1>7 DEF Store, CursorShown
<1>8. ASSUME NEW t \in Terminal, terminal_switch(t) PROVE CursorShown'
  BY <1>1, <1>8 DEF terminal_switch, CursorShown
<1>9. CASE UNCHANGED vars
  BY <1>1, <1>9 DEF vars, CursorShown
<1> QED BY <1>2, <1>3, <1>4, <1>5, <1>6, <1>7, <1>8, <1>9 DEF Next

\* CursorShown holds unless a program in the background faults: output, echo,
\* clearing and switches move the display's cursor exactly when they move that of
\* the terminal in the foreground (lib.c:296, 393, terminal.c:209).
THEOREM CursorShownHolds ==
    ASSUME "BackgroundFault" \notin Env
    PROVE  Spec => []CursorShown
<1>1. Init => CursorShown
  BY TerminalFacts DEF Init, CursorShown
<1>2. TypeOK /\ CursorShown /\ [Next]_vars => CursorShown'
  BY CursorStep
<1> QED BY <1>1, <1>2, TypeCorrect, PTL DEF Spec

----------------------------------------------------------------------------
(* The screens                                                             *)

\* The screen that page g of memory m holds.
ScreenIn(m, g) == [i \in 0 .. Last |-> m[g * PAGE + i]]

\* The screens of the terminals, and the page where that of t is.
AllScreens == [t \in Terminal |-> ScreenOf(t)]
Home(t) == PageFor(t, cur_terminal, t)

LEMMA CellOfPage ==
    ASSUME NEW h \in Page, NEW i \in 0 .. PAGE - 1
    PROVE  (h * PAGE + i) \div PAGE = h /\ (h * PAGE + i) % PAGE = i
<1>1. h \in Nat /\ PAGE \in Nat /\ PAGE > 0 /\ i \in Nat /\ i < PAGE
  BY SizeFacts DEF Page
<1> QED BY <1>1, SMT

\* A page is replaced and the screens in the other pages stay.
LEMMA PageScreens ==
    ASSUME NEW m \in [MemCells -> ScreenCell], NEW g \in Page, NEW h \in Page,
           NEW p \in [0 .. PAGE - 1 -> ScreenCell]
    PROVE  ScreenIn(WithPage(m, g, p), h) = IF h = g THEN Top(p) ELSE ScreenIn(m, h)
<1>1. \A i \in 0 .. Last :
        /\ i \in 0 .. PAGE - 1 /\ h * PAGE + i \in MemCells
        /\ (h * PAGE + i) \div PAGE = h /\ (h * PAGE + i) % PAGE = i
  <2>1. ASSUME NEW i \in 0 .. Last
        PROVE  /\ i \in 0 .. PAGE - 1 /\ h * PAGE + i \in MemCells
               /\ (h * PAGE + i) \div PAGE = h /\ (h * PAGE + i) % PAGE = i
    <3>1. i \in 0 .. PAGE - 1
      BY SizeFacts
    <3> QED BY <3>1, PageInMemory, CellOfPage DEF MemCells
  <2> QED BY <2>1
<1>2. \A k \in MemCells : WithPage(m, g, p)[k] = IF k \div PAGE = g THEN p[k % PAGE] ELSE m[k]
  BY DEF WithPage
<1>3. \A i \in 0 .. Last :
        WithPage(m, g, p)[h * PAGE + i] = IF h = g THEN p[i] ELSE m[h * PAGE + i]
  BY <1>1, <1>2
<1> QED BY <1>3 DEF ScreenIn, Top

LEMMA ScreensAt ==
    /\ \A m, g : Top(PageOf(m, g)) = ScreenIn(m, g)
    /\ \A m : Top(m) = ScreenIn(m, VMEM)
    /\ \A t : ScreenOf(t) = ScreenIn(mem, Home(t))
<1>1. /\ \A i \in 0 .. Last : i \in 0 .. PAGE - 1
      /\ \A i \in 0 .. Last : VMEM * PAGE + i = i
  BY SizeFacts DEF VMEM
<1>2. ASSUME NEW m, NEW g PROVE Top(PageOf(m, g)) = ScreenIn(m, g)
  BY <1>1 DEF Top, PageOf, ScreenIn
<1>3. ASSUME NEW m PROVE Top(m) = ScreenIn(m, VMEM)
  BY <1>1 DEF Top, ScreenIn
<1>4. ASSUME NEW t PROVE ScreenOf(t) = ScreenIn(mem, Home(t))
  BY DEF ScreenOf, ScreenIn, Home, PageFor
<1> QED BY <1>2, <1>3, <1>4

\* No two terminals have their screens in one page.
LEMMA PagesApart ==
    ASSUME NEW cur \in Terminal, NEW t \in Terminal, NEW u \in Terminal
    PROVE  /\ PageFor(t, cur, t) \in Page
           /\ t # u => PageFor(t, cur, t) # PageFor(u, cur, u)
BY SizeFacts DEF PageFor, Page, Terminal, VMEM, back_video_buf_addr

\* A step that changes the screen of t and no other page.
LEMMA OneScreen ==
    ASSUME cur_terminal \in Terminal, cur_terminal' = cur_terminal, NEW t \in Terminal, NEW s,
           ScreenIn(mem', Home(t)) = s,
           \A h \in Page : h # Home(t) => ScreenIn(mem', h) = ScreenIn(mem, h)
    PROVE  AllScreens' = [AllScreens EXCEPT ![t] = s]
<1>1. Home(t)' = Home(t) /\ \A u \in Terminal : Home(u)' = Home(u)
  BY DEF Home, PageFor
<1>2. ASSUME NEW u \in Terminal
      PROVE  ScreenOf(u)' = IF u = t THEN s ELSE ScreenOf(u)
  <2>1. ScreenOf(u)' = ScreenIn(mem', Home(u))
    BY <1>1, ScreensAt DEF ScreenOf, ScreenIn, Home, PageFor
  <2>2. Home(u) \in Page /\ (u # t => Home(u) # Home(t))
    BY PagesApart DEF Home
  <2> QED BY <2>1, <2>2, ScreensAt
<1> QED BY <1>2 DEF AllScreens

\* Screens is about the same operators.
LEMMA SameOperators ==
    /\ Screens!Terminal = Terminal /\ Screens!Last = Last /\ Screens!Origin = Origin
    /\ \A M : Screens!Cleared(M) = Cleared(M)
    /\ \A M, p, c : Screens!putc(M, p, c) = putc(M, p, c)
    /\ \A M, p, c : Screens!putc_intr(M, p, c) = putc_intr(M, p, c)
<1> USE DEF Screens!Terminal, Terminal, Screens!Last, Last, Screens!Origin, Origin,
            Screens!Cleared, Cleared, Screens!Bottom, Bottom, Screens!Corner, Corner,
            Screens!At, At, Screens!Forward, Forward, Screens!Back, Back,
            Screens!Line, Line, Screens!scroll_screen, scroll_screen,
            Screens!scroll_left_char, scroll_left_char,
            Screens!scroll_right_char, scroll_right_char,
            Screens!AtOrigin, AtOrigin, Screens!LeavesEarly, LeavesEarly
<1>1. /\ Screens!Terminal = Terminal /\ Screens!Last = Last /\ Screens!Origin = Origin
      /\ \A M : Screens!Cleared(M) = Cleared(M)
  OBVIOUS
<1>2. ASSUME NEW M, NEW p, NEW c PROVE Screens!putc(M, p, c) = putc(M, p, c)
  BY DEF Screens!putc, putc
<1>3. ASSUME NEW M, NEW p, NEW c PROVE Screens!putc_intr(M, p, c) = putc_intr(M, p, c)
  BY DEF Screens!putc_intr, putc_intr
<1> QED BY <1>1, <1>2, <1>3

\* No event after which a window or a screen is wrong; a page fault in the
\* background only leaves the display's cursor on the wrong screen.
ScreensQuiet ==
    Env \cap {"LeaveEarly", "BackgroundVidmap", "VidmapPreempt", "PageOverflow"} = {}

LEMMA ScreensInitial == Init => Screens!ScreensInit
<1> SUFFICES ASSUME Init PROVE Screens!ScreensInit
  OBVIOUS
<1>1. \A t \in Terminal : ScreenOf(t) = [i \in 0 .. Last |-> Blank]
  <2>1. ASSUME NEW t \in Terminal PROVE ScreenOf(t) = [i \in 0 .. Last |-> Blank]
    <3>1. PICK g : g = Home(t)
      OBVIOUS
    <3>2. g \in Page
      BY <3>1, TerminalFacts, PagesApart DEF Home, Init
    <3>3. \A i \in 0 .. Last : g * PAGE + i \in MemCells
      BY <3>2, PageInMemory, SizeFacts DEF MemCells
    <3>4. \A i \in 0 .. Last : mem[g * PAGE + i] = Blank
      BY <3>3 DEF Init, MemCells
    <3> QED BY <3>1, <3>4, ScreensAt DEF ScreenIn
  <2> QED BY <2>1
<1> QED BY <1>1, SameOperators DEF Screens!ScreensInit, Init

\* What the promise calls a step on the screen of t, from what it is in Video.
LEMMA PutIsPut ==
    ASSUME NEW t, NEW s, NEW p, AllScreens' = [AllScreens EXCEPT ![t] = s],
           pos' = [pos EXCEPT ![t] = p], UNCHANGED << cur_terminal, sche_term >>
    PROVE  Screens!Put(t, [mem |-> s, pos |-> p])
BY DEF Screens!Put, AllScreens

LEMMA OutputStep ==
    ASSUME WInv, NEW c \in Char, Putc(c)
    PROVE  Screens!Output(c)
<1>1. /\ mem \in [MemCells -> ScreenCell] /\ sche_term \in Terminal /\ cur_terminal \in Terminal
      /\ pos[sche_term] \in Position /\ base = Home(sche_term) /\ base \in Page
  BY DEF WInv, TypeOK, Windows, Home, PageFor, MemCells, ScreenCell
<1>2. PICK M : M = PageOf(mem, base)
  OBVIOUS
<1>3. PICK r : r = putc(M, pos[sche_term], c)
  OBVIOUS
<1>4. /\ mem' = WithPage(mem, base, r.mem)
      /\ pos' = [pos EXCEPT ![sche_term] = r.pos]
      /\ UNCHANGED << cur_terminal, sche_term >>
  BY <1>2, <1>3 DEF Putc
<1>5. M \in [0 .. PAGE - 1 -> ScreenCell] /\ c \in Printed
  BY <1>1, <1>2, PageTypes DEF Char, Printed
<1>6. /\ r.mem \in [0 .. PAGE - 1 -> ScreenCell]
      /\ putc(Top(M), pos[sche_term], c) = [mem |-> Top(r.mem), pos |-> r.pos]
  BY <1>1, <1>3, <1>5, MemorySizes, PutcTypes, TopPutc
<1>7. AllScreens' = [AllScreens EXCEPT ![sche_term] = Top(r.mem)]
  <2>1. \A h \in Page : ScreenIn(mem', h) = IF h = base THEN Top(r.mem) ELSE ScreenIn(mem, h)
    BY <1>1, <1>4, <1>6, PageScreens
  <2> QED BY <1>1, <1>4, <2>1, OneScreen
<1>8. AllScreens[sche_term] = Top(M)
  BY <1>1, <1>2, ScreensAt DEF AllScreens
<1>9. Screens!Put(sche_term, [mem |-> Top(r.mem), pos |-> r.pos])
  BY <1>4, <1>7, PutIsPut
<1>10. Screens!putc(AllScreens[sche_term], pos[sche_term], c) = [mem |-> Top(r.mem), pos |-> r.pos]
  BY <1>6, <1>8, SameOperators
<1> QED BY <1>9, <1>10 DEF Screens!Output, AllScreens

LEMMA ClearStep ==
    ASSUME WInv, Clear
    PROVE  Screens!ClearTurn
<1>1. /\ mem \in [MemCells -> ScreenCell] /\ sche_term \in Terminal /\ cur_terminal \in Terminal
      /\ base = Home(sche_term) /\ base \in Page
  BY DEF WInv, TypeOK, Windows, Home, PageFor, MemCells, ScreenCell
<1>2. PICK M : M = PageOf(mem, base)
  OBVIOUS
<1>3. PICK N : N = Cleared(M)
  OBVIOUS
<1>4. /\ mem' = WithPage(mem, base, N) /\ pos' = [pos EXCEPT ![sche_term] = Origin]
      /\ UNCHANGED << cur_terminal, sche_term >>
  BY <1>2, <1>3 DEF Clear
<1>5. M \in [0 .. PAGE - 1 -> ScreenCell]
  BY <1>1, <1>2, PageTypes
<1>6. N \in [0 .. PAGE - 1 -> ScreenCell] /\ Cleared(Top(M)) = Top(N)
  BY <1>3, <1>5, MemorySizes, ScrollTypes, TopScrolls
<1>7. AllScreens' = [AllScreens EXCEPT ![sche_term] = Top(N)]
  <2>1. \A h \in Page : ScreenIn(mem', h) = IF h = base THEN Top(N) ELSE ScreenIn(mem, h)
    BY <1>1, <1>4, <1>6, PageScreens
  <2> QED BY <1>1, <1>4, <2>1, OneScreen
<1>8. AllScreens[sche_term] = Top(M)
  BY <1>1, <1>2, ScreensAt DEF AllScreens
<1>9. Screens!Put(sche_term, [mem |-> Top(N), pos |-> Origin])
  BY <1>4, <1>7, PutIsPut
<1> QED BY <1>6, <1>8, <1>9, SameOperators DEF Screens!ClearTurn, AllScreens

LEMMA ClearIntrStep ==
    ASSUME WInv, ClearIntr
    PROVE  Screens!ClearFront
<1>1. /\ mem \in [MemCells -> ScreenCell] /\ cur_terminal \in Terminal
      /\ VMEM = Home(cur_terminal) /\ VMEM \in Page
  BY TerminalFacts DEF WInv, TypeOK, Home, PageFor, MemCells, ScreenCell
<1>2. PICK M : M = PageOf(mem, VMEM)
  OBVIOUS
<1>3. PICK N : N = Cleared(M)
  OBVIOUS
<1>4. /\ mem' = WithPage(mem, VMEM, N) /\ pos' = [pos EXCEPT ![cur_terminal] = Origin]
      /\ UNCHANGED << cur_terminal, sche_term >>
  BY <1>2, <1>3 DEF ClearIntr
<1>5. M \in [0 .. PAGE - 1 -> ScreenCell]
  BY <1>1, <1>2, PageTypes
<1>6. N \in [0 .. PAGE - 1 -> ScreenCell] /\ Cleared(Top(M)) = Top(N)
  BY <1>3, <1>5, MemorySizes, ScrollTypes, TopScrolls
<1>7. AllScreens' = [AllScreens EXCEPT ![cur_terminal] = Top(N)]
  <2>1. \A h \in Page : ScreenIn(mem', h) = IF h = VMEM THEN Top(N) ELSE ScreenIn(mem, h)
    BY <1>1, <1>4, <1>6, PageScreens
  <2> QED BY <1>1, <1>4, <2>1, OneScreen
<1>8. AllScreens[cur_terminal] = Top(M)
  BY <1>1, <1>2, ScreensAt DEF AllScreens
<1>9. Screens!Put(cur_terminal, [mem |-> Top(N), pos |-> Origin])
  BY <1>4, <1>7, PutIsPut
<1> QED BY <1>6, <1>8, <1>9, SameOperators DEF Screens!ClearFront, AllScreens

LEMMA StoreStep ==
    ASSUME WInv, NEW i \in 0 .. Last, NEW c \in ScreenCell, Store(i, c)
    PROVE  Screens!Store(i, c)
<1>1. /\ mem \in [MemCells -> ScreenCell] /\ sche_term \in Terminal /\ cur_terminal \in Terminal
      /\ usr_base = Home(sche_term) /\ usr_base \in Page /\ pos \in [Terminal -> Position]
  BY DEF WInv, TypeOK, Windows, Home, PageFor, MemCells, ScreenCell, Store
<1>2. PICK g : g = usr_base
  OBVIOUS
<1>3. PICK a : a = g * PAGE + i
  OBVIOUS
<1>4. mem' = [mem EXCEPT ![a] = c] /\ UNCHANGED << cur_terminal, sche_term, pos >>
  BY <1>2, <1>3 DEF Store
<1>5. ASSUME NEW h \in Page, NEW j \in 0 .. Last
      PROVE  mem'[h * PAGE + j] = IF h = g /\ j = i THEN c ELSE mem[h * PAGE + j]
  <2>1. /\ i \in 0 .. PAGE - 1 /\ j \in 0 .. PAGE - 1 /\ g \in Page
    BY <1>1, <1>2, SizeFacts
  <2>2. h * PAGE + j = a => h = g /\ j = i
    BY <1>3, <2>1, CellOfPage
  <2>3. h * PAGE + j \in MemCells
    BY <2>1, PageInMemory DEF MemCells
  <2> QED BY <1>1, <1>3, <1>4, <2>2, <2>3
<1>6. PICK s : s = [ScreenIn(mem, g) EXCEPT ![i] = c]
  OBVIOUS
<1>7. s = [j \in 0 .. Last |-> IF j = i THEN c ELSE mem[g * PAGE + j]]
  BY <1>6 DEF ScreenIn
<1>8. ScreenIn(mem', g) = s
  BY <1>1, <1>2, <1>5, <1>7 DEF ScreenIn
<1>9. \A h \in Page : h # g => ScreenIn(mem', h) = ScreenIn(mem, h)
  BY <1>5 DEF ScreenIn
<1>10. AllScreens' = [AllScreens EXCEPT ![sche_term] = s]
  <2>1. g = Home(sche_term) /\ cur_terminal' = cur_terminal
    BY <1>1, <1>2, <1>4
  <2> QED BY <1>1, <1>8, <1>9, <2>1, OneScreen
<1>11. AllScreens[sche_term] = ScreenIn(mem, g)
  BY <1>1, <1>2, ScreensAt DEF AllScreens
<1>12. pos' = [pos EXCEPT ![sche_term] = pos[sche_term]]
  BY <1>1, <1>4
<1>13. Screens!Put(sche_term, [mem |-> s, pos |-> pos[sche_term]])
  BY <1>4, <1>10, <1>12, PutIsPut
<1> QED BY <1>6, <1>11, <1>13 DEF Screens!Store, AllScreens

LEMMA TypeScreen ==
    ASSUME WInv, ScreensQuiet, NEW c \in Char, Echo(c)
    PROVE  Screens!Type(c)
<1>1. /\ mem \in [MemCells -> ScreenCell] /\ cur_terminal \in Terminal
      /\ pos[cur_terminal] \in Position /\ VMEM = Home(cur_terminal) /\ VMEM \in Page
  BY TerminalFacts DEF WInv, TypeOK, Home, PageFor, MemCells, ScreenCell
<1>2. PICK p : p = pos[cur_terminal]
  OBVIOUS
<1>3. PICK r : r = putc_intr(mem, p, c)
  OBVIOUS
<1>4. /\ mem' = r.mem /\ pos' = [pos EXCEPT ![cur_terminal] = r.pos]
      /\ UNCHANGED << cur_terminal, sche_term >>
      /\ c \in Glyph /\ p # Corner => RunEnds(PageOf(mem, VMEM), At(p))
  BY <1>2, <1>3 DEF Echo, ScreensQuiet
<1>5. PICK n \in Nat : n = (NUM_TERMINAL + 1) * PAGE - 1 /\ Last <= n /\ PAGE - 1 <= n
  <2>1. VMEM * PAGE + (PAGE - 1) \in 0 .. (NUM_TERMINAL + 1) * PAGE - 1
    BY <1>1, PageInMemory, SizeFacts
  <2>2. VMEM * PAGE + (PAGE - 1) = PAGE - 1
    BY SizeFacts DEF VMEM
  <2> QED BY <2>1, <2>2, MemorySizes
<1>6. c \in Printed /\ mem \in [0 .. n -> ScreenCell] /\ p \in Position
  BY <1>1, <1>2, <1>5 DEF Char, Printed, MemCells
<1>7. putc_intr(Top(mem), p, c) = [mem |-> Top(r.mem), pos |-> r.pos]
  BY <1>3, <1>5, <1>6, TopPutcIntr
<1>8. c \in ScreenCell /\ p # Corner => \E e \in At(p) .. PAGE - 1 : mem[e] = Blank
  <2> SUFFICES ASSUME c \in ScreenCell, p # Corner
               PROVE  \E e \in At(p) .. PAGE - 1 : mem[e] = Blank
    OBVIOUS
  <2>1. c \in Glyph
    BY ScreenFacts DEF Char
  <2>2. PICK e \in 0 .. PAGE - 1 : e >= At(p) /\ PageOf(mem, VMEM)[e] = Blank
    BY <1>4, <2>1 DEF RunEnds, PageOf
  <2>3. mem[e] = Blank
    BY <2>2, SizeFacts DEF PageOf, VMEM
  <2>4. At(p) \in 0 .. Last
    BY <1>6, AtFacts
  <2> QED BY <2>2, <2>3, <2>4, SizeFacts
<1>9. \A k \in PAGE .. n : mem'[k] = mem[k]
  <2>1. \A k \in (PAGE - 1) + 1 .. n : r.mem[k] = mem[k]
    BY <1>3, <1>5, <1>6, <1>8, MemorySizes, EchoBelow
  <2> QED BY <1>4, <2>1, SizeFacts
<1>10. ScreenIn(mem', Home(cur_terminal)) = Top(r.mem)
  BY <1>1, <1>4, ScreensAt
<1>11. ASSUME NEW h \in Page, h # Home(cur_terminal)
       PROVE  ScreenIn(mem', h) = ScreenIn(mem, h)
  <2>1. ASSUME NEW i \in 0 .. Last PROVE h * PAGE + i \in PAGE .. n
    <3>1. h * PAGE + i \in 0 .. n
      BY <1>5, PageInMemory, SizeFacts
    <3>2. h \in Int /\ 1 <= h
      BY <1>1, <1>11 DEF Page, VMEM
    <3>3. PAGE * 1 <= PAGE * h /\ PAGE * h = h * PAGE /\ PAGE * h \in Int
      BY <3>2, SizeFacts, Rows
    <3> QED BY <1>5, <3>1, <3>3, SizeFacts
  <2> QED BY <1>9, <2>1 DEF ScreenIn
<1>12. AllScreens' = [AllScreens EXCEPT ![cur_terminal] = Top(r.mem)]
  BY <1>1, <1>4, <1>10, <1>11, OneScreen
<1>13. AllScreens[cur_terminal] = Top(mem)
  BY <1>1, ScreensAt DEF AllScreens
<1>14. Screens!Put(cur_terminal, [mem |-> Top(r.mem), pos |-> r.pos])
  BY <1>4, <1>12, PutIsPut
<1>15. Screens!putc_intr(AllScreens[cur_terminal], pos[cur_terminal], c)
         = [mem |-> Top(r.mem), pos |-> r.pos]
  BY <1>2, <1>7, <1>13, SameOperators
<1> QED BY <1>14, <1>15 DEF Screens!Type, AllScreens

\* Looking at another terminal exchanges pages, and no screen changes.
LEMMA LookStep ==
    ASSUME WInv, NEW t \in Terminal, terminal_switch(t)
    PROVE  Screens!Look(t)
<1>1. /\ mem \in [MemCells -> ScreenCell] /\ cur_terminal \in Terminal /\ cur_terminal # t
  BY DEF WInv, TypeOK, MemCells, ScreenCell, terminal_switch
<1>2. PICK b : b = back_video_buf_addr(cur_terminal)
  OBVIOUS
<1>3. PICK d : d = back_video_buf_addr(t)
  OBVIOUS
<1>4. /\ b \in Page /\ d \in Page /\ VMEM \in Page
      /\ b # d /\ b # VMEM /\ d # VMEM
      /\ \A u \in Terminal : u # t /\ u # cur_terminal =>
           /\ back_video_buf_addr(u) \in Page
           /\ back_video_buf_addr(u) # b /\ back_video_buf_addr(u) # VMEM
  BY <1>1, <1>2, <1>3, TerminalFacts DEF back_video_buf_addr, VMEM, Terminal
<1>5. PICK m : m = WithPage(mem, b, PageOf(mem, VMEM))
  OBVIOUS
<1>6. mem' = WithPage(m, VMEM, PageOf(m, d))
      /\ cur_terminal' = t /\ UNCHANGED << sche_term, pos >>
  BY <1>2, <1>3, <1>5 DEF terminal_switch, Exchanged
<1>7. /\ PageOf(mem, VMEM) \in [0 .. PAGE - 1 -> ScreenCell]
      /\ m \in [MemCells -> ScreenCell] /\ PageOf(m, d) \in [0 .. PAGE - 1 -> ScreenCell]
  BY <1>1, <1>4, <1>5, PageTypes
<1>8. \A h \in Page : ScreenIn(m, h) = IF h = b THEN ScreenIn(mem, VMEM) ELSE ScreenIn(mem, h)
  BY <1>1, <1>4, <1>5, <1>7, PageScreens, ScreensAt
<1>9. \A h \in Page : ScreenIn(mem', h) = IF h = VMEM THEN ScreenIn(m, d) ELSE ScreenIn(m, h)
  BY <1>4, <1>6, <1>7, PageScreens, ScreensAt
<1>10. ASSUME NEW u \in Terminal PROVE ScreenOf(u)' = ScreenOf(u)
  <2>1. /\ ScreenOf(u) = ScreenIn(mem, IF u = cur_terminal THEN VMEM ELSE back_video_buf_addr(u))
        /\ ScreenOf(u)' = ScreenIn(mem', IF u = t THEN VMEM ELSE back_video_buf_addr(u))
    BY <1>6 DEF ScreenOf, ScreenIn
  <2> QED BY <1>1, <1>2, <1>3, <1>4, <1>8, <1>9, <2>1
<1>11. AllScreens' = AllScreens
  BY <1>10 DEF AllScreens
<1> QED BY <1>6, <1>11 DEF Screens!Look, AllScreens

\* A step that writes nothing to memory and stays on the terminal.
LEMMA ScreensStay ==
    ASSUME UNCHANGED << mem, cur_terminal >>
    PROVE  AllScreens' = AllScreens
BY DEF AllScreens, ScreenOf

LEMMA ScreensStep ==
    ASSUME ScreensQuiet, WInv, [Next]_vars
    PROVE  [Screens!ScreensNext]_<< AllScreens, pos, sche_term, cur_terminal >>
<1>1. sche_term \in Terminal
  BY DEF WInv, TypeOK
<1>2. ASSUME NEW c \in Char, Putc(c) PROVE Screens!ScreensNext
  <2>1. Screens!Output(c)
    BY <1>2, OutputStep
  <2> QED BY <2>1 DEF Screens!ScreensNext, Char
<1>3. ASSUME NEW c \in Char, Echo(c) PROVE Screens!ScreensNext
  <2>1. Screens!Type(c)
    BY <1>3, TypeScreen
  <2> QED BY <2>1 DEF Screens!ScreensNext, Char
<1>4. CASE Clear
  BY <1>4, ClearStep DEF Screens!ScreensNext
<1>5. CASE ClearIntr
  BY <1>5, ClearIntrStep DEF Screens!ScreensNext
<1>6. ASSUME NEW i \in 0 .. Last, NEW c \in Glyph \cup {Blank}, Store(i, c)
      PROVE  Screens!ScreensNext
  <2>1. Screens!Store(i, c)
    BY <1>6, StoreStep DEF ScreenCell
  <2>2. i \in 0 .. Screens!Last
    BY SameOperators
  <2> QED BY <2>1, <2>2 DEF Screens!ScreensNext
<1>7. CASE Tick
  <2>1. sche_term' \in Terminal /\ UNCHANGED << mem, cur_terminal, pos >>
    BY <1>1, <1>7, TerminalFacts DEF Tick
  <2>2. Screens!TurnTo(sche_term')
    BY <2>1, ScreensStay DEF Screens!TurnTo, AllScreens
  <2> QED BY <2>1, <2>2, SameOperators DEF Screens!ScreensNext
<1>8. ASSUME NEW t \in Terminal, terminal_switch(t) PROVE Screens!ScreensNext
  <2>1. Screens!Look(t)
    BY <1>8, LookStep
  <2> QED BY <2>1, SameOperators DEF Screens!ScreensNext
<1>9. CASE VidmapBegin \/ VidmapEnd \/ UNCHANGED vars
  <2>1. UNCHANGED << mem, cur_terminal, pos, sche_term >>
    BY <1>9 DEF VidmapBegin, VidmapEnd, vars
  <2> QED BY <2>1, ScreensStay
<1> QED BY <1>2, <1>3, <1>4, <1>5, <1>6, <1>7, <1>8, <1>9 DEF Next

\* Every terminal has a screen and a cursor of its own: Video implements VirtualScreens.
\* Programs write through one window, the echo writes to video memory, and the switch
\* copies pages, and still each character goes to the screen that it is meant for and to
\* no other (scheduler.c, terminal_switch in terminal.c, putc and putc_intr in lib.c), for
\* every number of terminals and every size of screen and page.
THEOREM ScreensImplemented ==
    ASSUME ScreensQuiet
    PROVE  Spec => ImplementsScreens
<1>1. Spec => []WInv
  <2>1. WindowsQuiet
    BY DEF ScreensQuiet, WindowsQuiet
  <2> QED BY <2>1, WindowsInvariant
<1>2. Init => Screens!ScreensInit
  BY ScreensInitial
<1>3. WInv /\ [Next]_vars => [Screens!ScreensNext]_<< AllScreens, pos, sche_term, cur_terminal >>
  BY ScreensStep
<1> QED BY <1>1, <1>2, <1>3, PTL DEF Spec, ImplementsScreens, Screens!ScreensSpec, AllScreens
=============================================================================
