------------------------------- MODULE Video -------------------------------
(***************************************************************************)
(* The screens of the terminals and the two windows onto them.  The kernel *)
(* and the programs always write at the same virtual addresses: the kernel *)
(* at 0xB8000, a program that has called vidmap at 132MB.  Page tables say *)
(* which page that is: the video memory of the machine when the terminal   *)
(* in question is in the foreground, its back buffer otherwise.  The       *)
(* scheduler (scheduler.c), the switch of terminals (terminal.c), the echo *)
(* of the keyboard and the clearing of the screen (lib.c) and vidmap       *)
(* (system_call.c) all change the mapping.                                 *)
(***************************************************************************)
EXTENDS Screen

CONSTANTS
    NUM_TERMINAL,   \* terminal.h: 3
    PAGE,           \* cells of a page: 2048, of which the screen shows 2000
    Env             \* which events of EnvEvents happen

\* Events after which the windows, the screens or the cursor are wrong:
\*   LeaveEarly        a backspace on which putc_intr returns early
\*   PageOverflow      the echo pushes a character past the end of the page
\*   BackgroundVidmap  a program calls vidmap on a terminal in the background
\*   VidmapPreempt     a tick is taken, or the terminal switched, within vidmap
\*   BackgroundFault   a program in the background has a page fault
EnvEvents == {"LeaveEarly", "PageOverflow", "BackgroundVidmap", "VidmapPreempt",
              "BackgroundFault"}

ASSUME VideoAssumption ==
    /\ NUM_TERMINAL \in Nat \ {0}
    /\ PAGE \in Nat /\ Last < PAGE
    /\ Env \subseteq EnvEvents

Terminal == 0 .. NUM_TERMINAL - 1

\* The page of video memory, and the back buffers in the pages that follow it.
VMEM == 0
back_video_buf_addr(t) == t + 1
Page == 0 .. NUM_TERMINAL

VARIABLES
    mem,            \* the cells of these pages, one page after the other
    cur_terminal,   \* the terminal in the foreground
    sche_term,      \* the terminal whose time slice it is
    base,           \* page_tbl[0xB8]: the page the kernel writes to
    usr_base,       \* page_tbl_usr_video: the page a program writes to
    usr_present,    \* and whether that one is mapped
    vidmapped,      \* vidmapped[t]: vidmap on t "no", "begun" or "done"
    pos,            \* multi_terms[t].x and y
    hw              \* the cursor of the display

vars == << mem, cur_terminal, sche_term, base, usr_base, usr_present, vidmapped,
           pos, hw >>

\* One page of memory m, and m with that page replaced.
PageOf(m, g) == [i \in 0 .. PAGE - 1 |-> m[g * PAGE + i]]
WithPage(m, g, p) ==
    [k \in DOMAIN m |-> IF k \div PAGE = g THEN p[k % PAGE] ELSE m[k]]

\* Defect: terminal_switch maps the windows before it assigns cur_terminal.
PageBefore(term, cur, sche) ==
    IF term = cur_terminal THEN VMEM ELSE back_video_buf_addr(sche)

\* The page for terminal term, when cur is in the foreground and sche scheduled.
PageFor(term, cur, sche) == IF term = cur THEN VMEM ELSE back_video_buf_addr(sche)

\* Both windows are opened onto it, and the TLB is flushed.
update_video_mem_paging(term, cur, sche) ==
    /\ base' = PageFor(term, cur, sche)
    /\ usr_base' = PageFor(term, cur, sche)

Char == Glyph \cup {"newline", "backspace"}

----------------------------------------------------------------------------
(* The running program, in its time slice                                  *)

\* A vidmap that has begun is interrupted only if the environment has that.
Undisturbed == "VidmapPreempt" \in Env \/ \A t \in Terminal : vidmapped[t] # "begun"

\* No program does anything else while it is inside vidmap.
Runs == vidmapped[sche_term] # "begun"

\* Defect: the output of a program moves the cursor of the display, wherever it is.
CursorFollows(p) == p

\* The cursor of the display once putc has moved that of the terminal to p.
CursorAfter(p) == IF sche_term = cur_terminal THEN p ELSE hw

\* terminal_write and printf print through the kernel's window.
Putc(c) ==
    LET r == putc(PageOf(mem, base), pos[sche_term], c) IN
    /\ Runs
    /\ ~AtOrigin(pos[sche_term], c)
    /\ mem' = WithPage(mem, base, r.mem)
    /\ pos' = [pos EXCEPT ![sche_term] = r.pos]
    /\ hw' = CursorAfter(r.pos)
    /\ UNCHANGED << cur_terminal, sche_term, base, usr_base, usr_present, vidmapped >>

\* clear(), which exception_handler calls before it prints; at a page fault, which
\* arrives through an interrupt gate, so that nothing interrupts the loop.
Clear ==
    /\ Runs
    /\ sche_term # cur_terminal => "BackgroundFault" \in Env
    /\ mem' = WithPage(mem, base, Cleared(PageOf(mem, base)))
    /\ pos' = [pos EXCEPT ![sche_term] = Origin]
    /\ hw' = Origin
    /\ UNCHANGED << cur_terminal, sche_term, base, usr_base, usr_present, vidmapped >>

\* vidmap, up to the memset of the page table entry ...
VidmapBegin ==
    /\ Runs
    /\ sche_term # cur_terminal => "BackgroundVidmap" \in Env
    /\ vidmapped' = [vidmapped EXCEPT ![sche_term] = "begun"]
    /\ usr_present' = FALSE
    /\ UNCHANGED << mem, cur_terminal, sche_term, base, usr_base, pos, hw >>

\* ... and the rest of it, which maps video memory whoever calls.
VidmapEnd ==
    /\ ~Runs
    /\ vidmapped' = [vidmapped EXCEPT ![sche_term] = "done"]
    /\ usr_present' = TRUE
    /\ usr_base' = VMEM
    /\ UNCHANGED << mem, cur_terminal, sche_term, base, pos, hw >>

\* A program that has called vidmap stores a character on its screen.
Store(i, c) ==
    /\ vidmapped[sche_term] = "done"
    /\ usr_present
    /\ mem' = [mem EXCEPT ![usr_base * PAGE + i] = c]
    /\ UNCHANGED << cur_terminal, sche_term, base, usr_base, usr_present, vidmapped,
                    pos, hw >>

----------------------------------------------------------------------------
(* Interrupts                                                              *)

\* scheduler(): the next terminal has its turn, and the windows follow.
Tick ==
    /\ Undisturbed
    /\ sche_term' = (sche_term + 1) % NUM_TERMINAL
    /\ update_video_mem_paging(sche_term', cur_terminal, sche_term')
    /\ UNCHANGED << mem, cur_terminal, usr_present, vidmapped, pos, hw >>

\* keyboard_handler echoes a character on the terminal in the foreground.
Echo(c) ==
    LET p == pos[cur_terminal]
        r == putc_intr(mem, p, c)
        early == LeavesEarly(mem, p, c) IN
    /\ early => "LeaveEarly" \in Env
    /\ c \in Glyph /\ p # Corner =>
         /\ RunEnds(mem, At(p))
         /\ RunEnds(PageOf(mem, VMEM), At(p)) \/ "PageOverflow" \in Env
    /\ mem' = r.mem
    /\ pos' = [pos EXCEPT ![cur_terminal] = r.pos]
    /\ hw' = IF early THEN hw ELSE r.pos
    /\ update_video_mem_paging(IF early THEN cur_terminal ELSE sche_term,
                               cur_terminal, sche_term)
    /\ UNCHANGED << cur_terminal, sche_term, usr_present, vidmapped >>

\* clear_intr(), for ctrl+l.
ClearIntr ==
    /\ mem' = WithPage(mem, VMEM, Cleared(PageOf(mem, VMEM)))
    /\ pos' = [pos EXCEPT ![cur_terminal] = Origin]
    /\ hw' = Origin
    /\ update_video_mem_paging(sche_term, cur_terminal, sche_term)
    /\ UNCHANGED << cur_terminal, sche_term, usr_present, vidmapped >>

\* Defect: the new screen is loaded before the old one is saved.
LoadedFirst(t) ==
    LET m == WithPage(mem, VMEM, PageOf(mem, back_video_buf_addr(t)))
    IN  WithPage(m, back_video_buf_addr(cur_terminal), PageOf(m, VMEM))

\* Video memory is saved in the back buffer of the old foreground terminal, and
\* the back buffer of t is loaded into video memory.
Exchanged(t) ==
    LET m == WithPage(mem, back_video_buf_addr(cur_terminal), PageOf(mem, VMEM))
    IN  WithPage(m, VMEM, PageOf(m, back_video_buf_addr(t)))

terminal_switch(t) ==
    /\ Undisturbed
    /\ t # cur_terminal
    /\ mem' = Exchanged(t)
    /\ hw' = pos[t]
    /\ cur_terminal' = t
    /\ update_video_mem_paging(sche_term, t, sche_term)
    /\ UNCHANGED << sche_term, usr_present, vidmapped, pos >>

----------------------------------------------------------------------------
Init ==
    /\ mem = [k \in 0 .. (NUM_TERMINAL + 1) * PAGE - 1 |-> Blank]
    /\ cur_terminal = 0
    /\ sche_term = 0
    /\ base = VMEM
    /\ usr_base = VMEM
    /\ usr_present = FALSE
    /\ vidmapped = [t \in Terminal |-> "no"]
    /\ pos = [t \in Terminal |-> Origin]
    /\ hw = Origin

Next ==
    \/ \E c \in Char : Putc(c) \/ Echo(c)
    \/ Clear
    \/ ClearIntr
    \/ VidmapBegin
    \/ VidmapEnd
    \/ \E i \in 0 .. Last, c \in Glyph \cup {Blank} : Store(i, c)
    \/ Tick
    \/ \E t \in Terminal : terminal_switch(t)

Spec == Init /\ [][Next]_vars

----------------------------------------------------------------------------
(* Properties                                                              *)

\* Every variable keeps to its type; a cursor never leaves the screen.
TypeOK ==
    /\ mem \in [0 .. (NUM_TERMINAL + 1) * PAGE - 1 -> Glyph \cup {Blank}]
    /\ cur_terminal \in Terminal
    /\ sche_term \in Terminal
    /\ base \in Page
    /\ usr_base \in Page
    /\ usr_present \in BOOLEAN
    /\ vidmapped \in [Terminal -> {"no", "begun", "done"}]
    /\ pos \in [Terminal -> Position]
    /\ hw \in Position

\* Whenever the program of a terminal can print or store a character, the
\* windows are open onto the page that holds the screen of that terminal,
\* whatever interrupts and switches came before (scheduler.c:18-29).
WindowsFollow ==
    /\ base = PageFor(sche_term, cur_terminal, sche_term)
    /\ Runs /\ usr_present => usr_base = base

\* The display shows the cursor of the terminal in the foreground.
CursorShown == hw = pos[cur_terminal]
=============================================================================
