---------------------------- MODULE MCLineInput ----------------------------
(***************************************************************************)
(* LineInput for TLC: Tab completes "a" to the only program, "aa", and may *)
(* add an "a" that the stack buffer holds.                                 *)
(***************************************************************************)
EXTENDS LineInput

MCExeFiles == {<<"a", "a">>}
MCOtherFiles == {}
MCJunk == {<< >>, <<"a">>}
=============================================================================
