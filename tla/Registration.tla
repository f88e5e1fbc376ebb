---------------------------- MODULE Registration ----------------------------
(***************************************************************************)
(* What `serve-backends' promises its clients when they retry and their    *)
(* requests are delivered late: there are as many places as members, each  *)
(* registration takes one, and nothing is added to a list that is          *)
(* published.  ServeBackends implements this with any number of retries.   *)
(***************************************************************************)
EXTENDS Naturals, FiniteSets

CONSTANTS
  Members,
  Places  \* how many may register: as many as there are members

VARIABLES
  phase,      \* the list is being gathered, is published, or is gone
  taken,      \* the places that are taken
  joined,     \* the members on the list
  confirmed,  \* the members that rely on being on it
  denied      \* the members that were told that there is no place left

told == <<confirmed, denied>>
registration == <<phase, taken, joined, told>>

Init ==
  /\ phase = "gathering" /\ taken = 0
  /\ joined = {} /\ confirmed = {} /\ denied = {}

\* A member that has joined may join again, and takes another place.
Join(m) ==
  /\ phase # "ended" /\ taken < Places
  /\ taken' = taken + 1
  /\ joined' = joined \cup {m}
  /\ UNCHANGED <<phase, told>>

Confirm(m) ==
  /\ m \in joined \ denied
  /\ confirmed' = confirmed \cup {m}
  /\ UNCHANGED <<phase, taken, joined, denied>>

Deny(m) ==
  /\ taken = Places /\ m \notin confirmed
  /\ denied' = denied \cup {m}
  /\ UNCHANGED <<phase, taken, joined, confirmed>>

Leave(m) ==
  /\ m \in confirmed
  /\ confirmed' = confirmed \ {m}
  /\ UNCHANGED <<phase, taken, joined, denied>>

Publish ==
  /\ phase = "gathering" /\ taken = Places
  /\ phase' = "published"
  /\ UNCHANGED <<taken, joined, told>>

End ==
  /\ phase # "ended"
  /\ phase' = "ended"
  /\ UNCHANGED <<taken, joined, told>>

Next ==
  \/ Publish \/ End
  \/ \E m \in Members : Join(m) \/ Confirm(m) \/ Deny(m) \/ Leave(m)

Spec == Init /\ [][Next]_registration

-----------------------------------------------------------------------------
(* What a client may take from it.                                         *)

\* Places are never overdrawn, a published list has none left, and only then
\* is anyone denied; who relies on being on the list is on it.
Consistent ==
  /\ Cardinality(joined) <= taken /\ taken <= Places
  /\ phase = "published" \/ denied # {} => taken = Places
  /\ confirmed \subseteq joined /\ confirmed \cap denied = {}

\* Two clients that ask after the publication are given the same list.
Frozen == [][phase = "published" => UNCHANGED <<taken, joined>>]_registration

\* If no member took two places the published list is complete.
CompleteUnlessTwice ==
  phase = "published" /\ taken = Cardinality(joined) => joined = Members

\* Nobody joins twice.
JoinsOnce == [][joined' = joined => taken' = taken]_registration

R == INSTANCE Rendezvous
=============================================================================
