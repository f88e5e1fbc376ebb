------------------------- MODULE RegistrationProofs -------------------------
(***************************************************************************)
(* Theorems about Registration, for any finite set of members, and that it *)
(* implements Rendezvous when nobody joins twice.                          *)
(***************************************************************************)
EXTENDS Registration, FiniteSetTheorems, TLAPS

TypeOK ==
  /\ phase \in {"gathering", "published", "ended"}
  /\ taken \in Nat
  /\ joined \subseteq Members /\ confirmed \subseteq Members /\ denied \subseteq Members

LEMMA RegistrationTypes == Spec => []TypeOK
<1>1. Init => TypeOK
  BY DEF Init, TypeOK
<1>2. TypeOK /\ [Next]_registration => TypeOK'
  BY DEF TypeOK, Next, Join, Confirm, Deny, Leave, Publish, End, registration, told
<1> QED
  BY <1>1, <1>2, PTL DEF Spec

EnoughPlaces == IsFiniteSet(Members) /\ Places = Cardinality(Members)

LEMMA PlacesNat == ASSUME EnoughPlaces PROVE IsFiniteSet(Members) /\ Places \in Nat
  BY FS_CardinalityType DEF EnoughPlaces

\* A list is no larger than the set of the members.
LEMMA JoinedSize ==
  ASSUME EnoughPlaces, TypeOK
  PROVE  IsFiniteSet(joined) /\ Cardinality(joined) \in Nat
<1>1. joined \in SUBSET Members
  BY DEF TypeOK
<1> QED
  BY <1>1, PlacesNat, FS_Subset, FS_CardinalityType

LEMMA JoinConsistent ==
  ASSUME EnoughPlaces, TypeOK, Consistent, NEW m \in Members, Join(m)
  PROVE  Consistent'
<1>1. /\ taken' = taken + 1 /\ taken < Places
      /\ joined' = joined \cup {m} /\ UNCHANGED <<phase, confirmed, denied>>
  BY DEF Join, told
<1>2. Cardinality(joined') <= Cardinality(joined) + 1
  <2>1. CASE m \in joined
    <3>1. joined' = joined
      BY <1>1, <2>1
    <3>2. Cardinality(joined') = Cardinality(joined) /\ Cardinality(joined) \in Nat
      BY <3>1, JoinedSize
    <3> QED
      BY <3>2
  <2>2. CASE m \notin joined
    <3>1. Cardinality(joined \cup {m}) = Cardinality(joined) + 1
      BY <2>2, JoinedSize, FS_AddElement
    <3>2. Cardinality(joined) \in Nat
      BY JoinedSize
    <3> QED
      BY <1>1, <3>1, <3>2
  <2> QED
    BY <2>1, <2>2
<1>3. /\ Cardinality(joined') \in Nat
      /\ Cardinality(joined) \in Nat
      /\ Places \in Nat
  <2>1. IsFiniteSet(joined')
    BY <1>1, JoinedSize, FS_AddElement
  <2> QED
    BY <2>1, JoinedSize, PlacesNat, FS_CardinalityType
<1>4. Cardinality(joined') <= taken' /\ taken' <= Places
  BY <1>1, <1>2, <1>3 DEF Consistent, TypeOK
<1>5. ~(phase = "published" \/ denied # {})
  BY <1>1, <1>3 DEF Consistent, TypeOK
<1> QED
  BY <1>1, <1>4, <1>5 DEF Consistent

\* Places are not overdrawn, nobody is denied while there is one, and nobody
\* relies on a place that is not theirs.
THEOREM PlacesKept == ASSUME EnoughPlaces PROVE Spec => []Consistent
<1>1. Init => Consistent
  BY FS_EmptySet, PlacesNat DEF Init, Consistent
<1>2. TypeOK /\ Consistent /\ [Next]_registration => Consistent'
  <2> SUFFICES ASSUME TypeOK, Consistent, [Next]_registration PROVE Consistent'
    OBVIOUS
  <2>1. ASSUME NEW m \in Members, Confirm(m) \/ Deny(m) \/ Leave(m) PROVE Consistent'
    BY <2>1 DEF Consistent, Confirm, Deny, Leave
  <2>2. CASE Publish \/ End \/ UNCHANGED registration
    BY <2>2 DEF Consistent, Publish, End, registration, told
  <2> QED
    BY <2>1, <2>2, JoinConsistent DEF Next
<1> QED
  BY <1>1, <1>2, RegistrationTypes, PTL DEF Spec

\* A list that is published is not changed any more.
THEOREM ListFrozen == ASSUME EnoughPlaces PROVE Spec => Frozen
<1>1. TypeOK /\ Consistent /\ [Next]_registration
        => [phase = "published" => UNCHANGED <<taken, joined>>]_registration
  <2> SUFFICES ASSUME TypeOK, Consistent, Next, phase = "published"
               PROVE  UNCHANGED <<taken, joined>>
    OBVIOUS
  <2>1. \A m \in Members : ~Join(m)
    BY PlacesNat DEF Join, Consistent, TypeOK
  <2> QED
    BY <2>1 DEF Next, Confirm, Deny, Leave, Publish, End
<1> QED
  BY <1>1, PlacesKept, RegistrationTypes, PTL DEF Spec, Frozen

\* As many as there are, if each of them took one place.
LEMMA AllJoined ==
  ASSUME EnoughPlaces, TypeOK, taken = Places, taken = Cardinality(joined)
  PROVE  joined = Members
<1>1. joined \in SUBSET Members
  BY DEF TypeOK
<1> QED
  BY <1>1, FS_Subset DEF EnoughPlaces

\* What is published lacks a member only if another one took two places, as a
\* backend does that retries a registration which was stored.
THEOREM PublishedIsComplete ==
  ASSUME EnoughPlaces
  PROVE  Spec => []CompleteUnlessTwice
<1>1. TypeOK /\ Consistent => CompleteUnlessTwice
  BY AllJoined DEF Consistent, CompleteUnlessTwice
<1> QED
  BY <1>1, PlacesKept, RegistrationTypes, PTL

-----------------------------------------------------------------------------
(* Rendezvous.                                                             *)

Once == taken = Cardinality(joined)

LEMMA JoinOnce ==
  ASSUME EnoughPlaces, TypeOK, Consistent, Once, NEW m \in Members, Join(m),
         joined' = joined => taken' = taken
  PROVE  Once' /\ R!Join(m)
<1>1. /\ taken' = taken + 1 /\ joined' = joined \cup {m}
      /\ taken < Places /\ phase # "ended"
      /\ UNCHANGED <<phase, confirmed>>
  BY DEF Join, told
<1>2. m \notin joined
  BY <1>1 DEF TypeOK
<1>3. Once'
  BY <1>1, <1>2, JoinedSize, FS_AddElement DEF Once
<1>4. phase = "gathering"
  BY <1>1, PlacesNat DEF Consistent, TypeOK
<1> QED
  BY <1>1, <1>2, <1>3, <1>4 DEF R!Join

\* When nobody joins twice, what is published is complete and final.
THEOREM RegistrationImplements ==
  ASSUME EnoughPlaces
  PROVE  Spec /\ JoinsOnce => R!Spec
<1>1. Init => R!Init /\ Once
  BY FS_EmptySet DEF Init, R!Init, Once
<1>2. TypeOK /\ Consistent /\ Once /\ [Next]_registration
        /\ [joined' = joined => taken' = taken]_registration
      => Once' /\ [R!Next]_(R!rendezvous)
  <2> SUFFICES ASSUME TypeOK, Consistent, Once, [Next]_registration,
                      [joined' = joined => taken' = taken]_registration
               PROVE  Once' /\ [R!Next]_(R!rendezvous)
    OBVIOUS
  <2>1. CASE UNCHANGED registration
    BY <2>1 DEF registration, told, Once, R!rendezvous
  <2>2. ASSUME NEW m \in Members, Join(m), joined' = joined => taken' = taken
        PROVE  Once' /\ [R!Next]_(R!rendezvous)
    BY <2>2, JoinOnce DEF R!Next
  <2>3. ASSUME NEW m \in Members, Confirm(m) \/ Leave(m) \/ Deny(m)
        PROVE  Once' /\ [R!Next]_(R!rendezvous)
    BY <2>3 DEF Confirm, Leave, Deny, Once, R!Next, R!Confirm, R!Leave, R!rendezvous
  <2>4. CASE Publish
    <3>1. joined = Members
      BY <2>4, AllJoined DEF Publish, Once
    <3> QED
      BY <2>4, <3>1 DEF Publish, told, Once, R!Next, R!Publish
  <2>5. CASE End
    BY <2>5 DEF End, told, Once, R!Next, R!End
  <2> QED
    BY <2>1, <2>2, <2>3, <2>4, <2>5 DEF Next
<1> QED
  BY <1>1, <1>2, PlacesKept, RegistrationTypes, PTL DEF Spec, JoinsOnce, R!Spec
=============================================================================
