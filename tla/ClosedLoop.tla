----------------------------- MODULE ClosedLoop -----------------------------
(***************************************************************************)
(* What a load test promises: a closed loop.  There is a fixed set of      *)
(* requests and of clients.  A client sends a request and waits for what   *)
(* becomes of it; no request is under way twice and none but those of the  *)
(* file is sent.  What the test reports is what came back, each answer or  *)
(* failure once.  How requests queue, and who sends which, is left open.   *)
(***************************************************************************)
EXTENDS Integers

CONSTANTS
  Requests,
  Clients,  \* the set of clients
  Bound     \* the counters stop here

VARIABLES
  phase,    \* "idle", "running", "ended"
  out,      \* requests under way
  hits, errors, bad

vars == <<phase, out, hits, errors, bad>>

\* There is a client for each of S.
OneClientEach(S) ==
  \E of \in [S -> Clients] : \A r, q \in S : of[r] = of[q] => r = q

Up(n) == IF n < Bound THEN n + 1 ELSE n

Init ==
  /\ phase = "idle" /\ out = {}
  /\ hits = 0 /\ errors = 0 /\ bad = 0

Begin ==
  /\ phase = "idle" /\ phase' = "running"
  /\ UNCHANGED <<out, hits, errors, bad>>

Send(r) ==
  /\ phase = "running"
  /\ r \notin out /\ OneClientEach(out \cup {r})
  /\ out' = out \cup {r}
  /\ UNCHANGED <<phase, hits, errors, bad>>

\* An answer, a failure or a bad status: a hit in any case.
Return(r) ==
  /\ phase = "running"
  /\ r \in out /\ out' = out \ {r}
  /\ hits' = Up(hits)
  /\ \/ UNCHANGED <<errors, bad>>
     \/ errors' = Up(errors) /\ UNCHANGED bad
     \/ bad' = Up(bad) /\ UNCHANGED errors
  /\ UNCHANGED phase

\* The requests under way are abandoned, and not counted.
End ==
  /\ phase # "ended" /\ phase' = "ended"
  /\ UNCHANGED <<out, hits, errors, bad>>

Next ==
  \/ Begin \/ End
  \/ \E r \in Requests : Send(r) \/ Return(r)

Spec == Init /\ [][Next]_vars
=============================================================================
