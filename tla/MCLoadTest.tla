----------------------------- MODULE MCLoadTest -----------------------------
(***************************************************************************)
(* Small instances of LoadTest.                                            *)
(***************************************************************************)
EXTENDS LoadTest

NoStall == {"interrupt", "url"}
OnlyStall == {"stall"}
AllFaults == {"interrupt", "file", "url", "stall"}
=============================================================================
