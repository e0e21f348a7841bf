------------------------------ MODULE MCVideo ------------------------------
(***************************************************************************)
(* Video for TLC, and the screens that it implements: that of the terminal *)
(* in the foreground is in video memory, the others in their back buffers. *)
(***************************************************************************)
EXTENDS Video

ScreenOf(t) ==
    LET g == IF t = cur_terminal THEN VMEM ELSE back_video_buf_addr(t)
    IN  [i \in 0 .. Last |-> mem[g * PAGE + i]]

Screens == INSTANCE VirtualScreens WITH
               scr <- [t \in Terminal |-> ScreenOf(t)],
               turn <- sche_term,
               front <- cur_terminal

\* Every terminal has a screen of its own: programs, echo and switches of the
\* terminals, in any order, have the effect they would have if each terminal had
\* its own display.
ImplementsScreens == Screens!ScreensSpec
=============================================================================
