---------------------------- MODULE MCSyncEnvoy ----------------------------
(***************************************************************************)
(* Small instances of SyncEnvoy.                                           *)
(***************************************************************************)
EXTENDS SyncEnvoy

\* Two Envoys, each with a node id of its own.
TwoStreams == {"s1", "s2"}
TwoNodes == {"n1", "n2"}
EachItsNode == [s \in TwoStreams |-> IF s = "s1" THEN "n1" ELSE "n2"]

\* Two Envoys with the node id of the one bootstrap there is.
SameNode == [s \in TwoStreams |-> "n1"]

\* One Envoy.
OneStream == {"s1"}
OneNode == {"n1"}
TheNode == [s \in OneStream |-> "n1"]

AllFaults == {"interrupt", "setup", "reject", "break"}
NoInterrupt == {"setup", "reject", "break"}
NoFaults == {}
=============================================================================
