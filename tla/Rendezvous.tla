----------------------------- MODULE Rendezvous -----------------------------
(***************************************************************************)
(* What `serve-backends' promises its clients: a list of members that each *)
(* join once, that is published complete and not changed afterwards, and   *)
(* members that are on it before they rely on it.  Registration implements *)
(* this, and ServeBackends does, when nobody registers twice.              *)
(***************************************************************************)
CONSTANT Members

VARIABLES
  phase,      \* the list is being gathered, is published, or is gone
  joined,     \* the members on the list
  confirmed   \* the members that know they are on it

rendezvous == <<phase, joined, confirmed>>

Init == phase = "gathering" /\ joined = {} /\ confirmed = {}

Join(m) ==
  /\ phase = "gathering" /\ m \notin joined
  /\ joined' = joined \cup {m}
  /\ UNCHANGED <<phase, confirmed>>

Confirm(m) ==
  /\ m \in joined
  /\ confirmed' = confirmed \cup {m}
  /\ UNCHANGED <<phase, joined>>

Leave(m) ==
  /\ m \in confirmed
  /\ confirmed' = confirmed \ {m}
  /\ UNCHANGED <<phase, joined>>

Publish ==
  /\ phase = "gathering" /\ joined = Members
  /\ phase' = "published"
  /\ UNCHANGED <<joined, confirmed>>

End ==
  /\ phase # "ended"
  /\ phase' = "ended"
  /\ UNCHANGED <<joined, confirmed>>

Next == Publish \/ End \/ \E m \in Members : Join(m) \/ Confirm(m) \/ Leave(m)

Spec == Init /\ [][Next]_rendezvous
=============================================================================
