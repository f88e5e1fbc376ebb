----------------------------- MODULE Discovery -----------------------------
(***************************************************************************)
(* What a client of serve-backends can be told: the list of the backends   *)
(* first, then the certificates, each of the start that runs when it asks. *)
(* serve-backends may be started again at any time.                        *)
(***************************************************************************)
EXTENDS Naturals

VARIABLES
  start,  \* how often serve-backends was started
  told,   \* "nothing", "list", "both"
  list,   \* the start the list is of, 0 for none
  root    \* the start the certificates are of, 0 for none

vars == <<start, told, list, root>>

Init == start = 0 /\ told = "nothing" /\ list = 0 /\ root = 0

Restart ==
  /\ start' = start + 1
  /\ UNCHANGED <<told, list, root>>

\* It begins anew; what it knew before is superseded.
AskBackends ==
  /\ start > 0
  /\ told' = "list" /\ list' = start /\ root' = 0
  /\ UNCHANGED start

AskCertificates ==
  /\ told = "list"
  /\ told' = "both" /\ root' = start
  /\ UNCHANGED <<start, list>>

Refused ==
  /\ told = "list"
  /\ told' = "nothing" /\ list' = 0
  /\ UNCHANGED <<start, root>>

Next == Restart \/ AskBackends \/ AskCertificates \/ Refused

Spec == Init /\ [][Next]_vars
=============================================================================
