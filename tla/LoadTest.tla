------------------------------ MODULE LoadTest ------------------------------
(***************************************************************************)
(* The load generators: `perf-test-hydra test' (perf/mb.go) and its stand- *)
(* alone copy gomb (perf/cmd/gomb/gomb.go).                                *)
(*                                                                         *)
(* The main loop hands requests to fetchers, one goroutine per client, and *)
(* takes results back, over two unbuffered channels and in one select that *)
(* also watches the end of the test and the interrupt.  Every request goes *)
(* round: pendingRequests, a fetcher, pendingRequests.  The body of a      *)
(* response is read by the main loop, not by the fetcher.                  *)
(***************************************************************************)
EXTENDS Integers, Sequences, FiniteSets

CONSTANTS
  Program,    \* "test" or "gomb"
  Clients,    \* clients of the first request of the file
  Nrequests,  \* requests of the file
  Duration,   \* --duration, in ticks of a clock
  Minute,     \* 60 seconds, in ticks
  MaxTime,    \* bound: the clock stops here
  MaxCount,   \* bound: the counters stop here
  Faults      \* "interrupt", "file" (the file cannot be read or decoded),
              \* "url" (NewRequest fails), "stall" (see Stall)

ASSUME ConstantsAssumption ==
  /\ Program \in {"test", "gomb"}
  /\ Clients \in Nat
  /\ Nrequests \in Nat
  /\ Duration \in Nat /\ Minute \in Nat /\ MaxTime \in Nat /\ MaxCount \in Nat
  /\ Faults \subseteq {"interrupt", "file", "url", "stall"}

Fetchers == 1 .. Clients

\* Each client brings requests of its own, one for each of the file.
Requests == Fetchers \X (1 .. Nrequests)

None == <<>>

VARIABLES
  main,         \* where Run is
  status,       \* what it returned
  pending,      \* pendingRequests
  holds,        \* the request each fetcher has
  fetch,        \* what became of it, or that it waits for one
  hits, errors, bad,
  elapsed,      \* time since the test began
  interrupted   \* p.Context is cancelled

fetchers == <<holds, fetch>>
counters == <<hits, errors, bad>>
vars == <<main, status, pending, fetchers, counters, elapsed, interrupted>>

Elements(s) == {s[i] : i \in DOMAIN s}
Busy == {f \in Fetchers : holds[f] # None}

\* When testComplete fires: gomb has the constant of the default.
Limit == IF Program = "gomb" THEN Minute ELSE Duration

Inc(n) == IF n < MaxCount THEN n + 1 ELSE n

-----------------------------------------------------------------------------
\* Client by client, in the order of the file.
InitialRequests ==
  [i \in 1 .. Clients * Nrequests |->
     <<((i - 1) \div Nrequests) + 1, ((i - 1) % Nrequests) + 1>>]

Init ==
  /\ main = "start" /\ status = "none"
  /\ pending = <<>>
  /\ holds = [f \in Fetchers |-> None]
  /\ fetch = [f \in Fetchers |-> "idle"]
  /\ hits = 0 /\ errors = 0 /\ bad = 0
  /\ elapsed = 0 /\ interrupted = FALSE

Return(result) == main' = "returned" /\ status' = result

\* The file cannot be read, or holds no list of requests.
Unreadable == "file" \in Faults /\ Return("bad file")

\* Start the fetchers and fill pendingRequests, unless NewRequest fails.
Fill ==
  \/ main' = "select" /\ pending' = InitialRequests /\ UNCHANGED status
  \/ "url" \in Faults /\ Clients > 0 /\ Return("bad request") /\ UNCHANGED pending

Start ==
  /\ main = "start"
  /\ \/ Unreadable /\ UNCHANGED pending
     \/ IF Nrequests = 0 THEN Return("nil") /\ UNCHANGED pending ELSE Fill
  /\ UNCHANGED <<fetchers, counters, elapsed, interrupted>>

-----------------------------------------------------------------------------
(* The cases of the select.  The ticker that reports progress is left out. *)

InterruptedIdle ==
  /\ main = "select" /\ interrupted /\ pending = <<>>
  /\ Return("test interrupted")
  /\ UNCHANGED <<pending, fetchers, counters, elapsed, interrupted>>

Interrupted ==
  /\ main = "select" /\ interrupted
  /\ Return("test interrupted")
  /\ UNCHANGED <<pending, fetchers, counters, elapsed, interrupted>>

Complete ==
  /\ main = "select" /\ elapsed >= Limit
  /\ Return("nil")
  /\ UNCHANGED <<pending, fetchers, counters, elapsed, interrupted>>

\* sendCh is nil when nothing is pending.
Dispatch(f) ==
  /\ main = "select" /\ pending # <<>> /\ fetch[f] = "idle"
  /\ holds' = [holds EXCEPT ![f] = Head(pending)]
  /\ fetch' = [fetch EXCEPT ![f] = "fetching"]
  /\ pending' = Tail(pending)
  /\ UNCHANGED <<main, status, counters, elapsed, interrupted>>

RequeueAnswered(f) ==
  pending' = IF fetch[f] = "error" THEN pending ELSE Append(pending, holds[f])
RequeueNone(f) == pending' = Append(pending, None)
RequeueFirst(f) == pending' = <<holds[f]>> \o pending
Requeue(f) == pending' = Append(pending, holds[f])

CountAnswered(f) ==
  /\ hits'   = IF fetch[f] = "error" THEN hits ELSE Inc(hits)
  /\ errors' = IF fetch[f] = "error" THEN Inc(errors) ELSE errors
  /\ bad'    = IF fetch[f] = "bad" THEN Inc(bad) ELSE bad
Count(f) ==
  /\ hits'   = Inc(hits)
  /\ errors' = IF fetch[f] = "error" THEN Inc(errors) ELSE errors
  /\ bad'    = IF fetch[f] = "bad" THEN Inc(bad) ELSE bad

ReceiveLater(f) ==
  /\ main = "select" /\ fetch[f] \in {"ok", "error", "bad"}
  /\ pending = <<>>
  /\ Requeue(f)
  /\ Count(f)
  /\ holds' = [holds EXCEPT ![f] = None]
  /\ fetch' = [fetch EXCEPT ![f] = "idle"]
  /\ main' = IF fetch[f] = "error" THEN "select" ELSE "body"
  /\ UNCHANGED <<status, elapsed, interrupted>>

\* The fetcher goes back to requestCh; there is a body unless it failed.
Receive(f) ==
  /\ main = "select" /\ fetch[f] \in {"ok", "error", "bad"}
  /\ Requeue(f)
  /\ Count(f)
  /\ holds' = [holds EXCEPT ![f] = None]
  /\ fetch' = [fetch EXCEPT ![f] = "idle"]
  /\ main' = IF fetch[f] = "error" THEN "select" ELSE "body"
  /\ UNCHANGED <<status, elapsed, interrupted>>

\* io.Copy reaches the end of the body, or an error it ignores.
EndOfBody ==
  /\ main = "body"
  /\ main' = "select"
  /\ UNCHANGED <<status, pending, fetchers, counters, elapsed, interrupted>>

-----------------------------------------------------------------------------
\* client.Do returns: an answer, or an error, a timeout of the dial, the
\* handshake or the header among them.
Fetch(f) ==
  /\ main # "returned" /\ fetch[f] = "fetching"
  /\ \E outcome \in {"ok", "error", "bad"} : fetch' = [fetch EXCEPT ![f] = outcome]
  /\ UNCHANGED <<main, status, pending, holds, counters, elapsed, interrupted>>

Tick ==
  /\ main \notin {"start", "returned"} /\ elapsed < MaxTime
  /\ elapsed' = elapsed + 1
  /\ UNCHANGED <<main, status, pending, fetchers, counters, interrupted>>

Interrupt ==
  /\ "interrupt" \in Faults /\ main # "returned" /\ ~interrupted
  /\ interrupted' = TRUE
  /\ UNCHANGED <<main, status, pending, fetchers, counters, elapsed>>

\* A server stops in the middle of a body and keeps the connection.  No
\* timeout of the client covers that, and the request has no context.
Stall ==
  /\ "stall" \in Faults /\ main = "body"
  /\ main' = "stalled"
  /\ UNCHANGED <<status, pending, fetchers, counters, elapsed, interrupted>>

Resume ==
  /\ main = "stalled"
  /\ main' = "body"
  /\ UNCHANGED <<status, pending, fetchers, counters, elapsed, interrupted>>

Terminated == main = "returned" /\ UNCHANGED vars

SendCase    == \E f \in Fetchers : Dispatch(f)
ReceiveCase == \E f \in Fetchers : Receive(f)

Next ==
  \/ Start \/ Interrupted \/ Complete \/ SendCase \/ ReceiveCase \/ EndOfBody
  \/ \E f \in Fetchers : Fetch(f)
  \/ Tick \/ Interrupt \/ Stall \/ Resume \/ Terminated

Spec == Init /\ [][Next]_vars

\* A select picks at random among its ready cases, so a case that is ready
\* again and again is picked.  Go serves senders that wait on one channel in
\* their order: each fetcher gets its turn.  Nothing makes a server resume.
Fairness ==
  /\ WF_vars(Start) /\ WF_vars(EndOfBody) /\ WF_vars(Tick)
  /\ SF_vars(Interrupted) /\ SF_vars(Complete) /\ SF_vars(SendCase)
  /\ \A f \in Fetchers : WF_vars(Fetch(f)) /\ SF_vars(Receive(f))

FairSpec == Spec /\ Fairness

-----------------------------------------------------------------------------
(* Properties.                                                             *)

\* The type invariant.
TypeOK ==
  /\ main \in {"start", "select", "body", "stalled", "returned"}
  /\ status \in {"none", "nil", "bad file", "bad request", "test interrupted"}
  /\ pending \in Seq(Requests)
  /\ holds \in [Fetchers -> Requests \cup {None}]
  /\ fetch \in [Fetchers -> {"idle", "fetching", "ok", "error", "bad"}]
  /\ hits \in 0 .. MaxCount /\ errors \in 0 .. MaxCount /\ bad \in 0 .. MaxCount
  /\ elapsed \in 0 .. MaxTime
  /\ interrupted \in BOOLEAN

\* A fetcher is busy when it has a request.
BusyInv == \A f \in Fetchers : holds[f] = None <=> fetch[f] = "idle"

Started == main \in {"select", "body", "stalled"}

\* No request is lost or doubled on its rounds, whatever becomes of it: it is
\* once in pendingRequests, or one fetcher has it.
RequestsConserved ==
  Started =>
    /\ \A i, j \in DOMAIN pending : pending[i] = pending[j] => i = j
    /\ \A f, g \in Busy : holds[f] = holds[g] => f = g
    /\ \A f \in Busy : holds[f] \notin Elements(pending)
    /\ Elements(pending) \cup {holds[f] : f \in Busy} = Requests

\* With BusyInv and an empty start this is inductive.
LoadInv ==
  /\ BusyInv
  /\ RequestsConserved
  /\ main = "start" => Busy = {}

\* The report adds up: a failed or bad request is a hit as well, once.
ReportAddsUp ==
  /\ errors <= hits /\ bad <= hits
  /\ hits < MaxCount => errors + bad <= hits

\* The closed loop the test implements: a fetcher that has a request is a
\* client that waits, and pendingRequests is an order among the rest.
Loop == INSTANCE ClosedLoop WITH
  Clients <- Fetchers,
  Bound   <- MaxCount,
  phase   <- IF main = "start" THEN "idle" ELSE IF Started THEN "running" ELSE "ended",
  out     <- {holds[f] : f \in Busy}

\* Whatever the order of the select, the interrupts and the bodies: no
\* request is sent while it is under way, none is lost or made up on its
\* rounds, and the report counts what came back, once, nothing after the end.
ImplementsClosedLoop == Loop!Spec

\* No URL is starved: what is pending is sent, again and again, while the
\* test goes on.
EveryRequestRuns ==
  \A r \in Requests :
    r \in Elements(pending) ~> (main = "returned" \/ \E f \in Fetchers : holds[f] = r)

\* No fetcher is left in its send to resultCh, nor the main loop in its send
\* to requestCh: neither waits for the other.
ResultsTaken ==
  \A f \in Fetchers : fetch[f] \in {"ok", "error", "bad"} ~> (fetch[f] = "idle" \/ main = "returned")

\* An interrupt ends the test as long as servers finish what they send.
InterruptEndsTest == interrupted ~> main = "returned"

-----------------------------------------------------------------------------
(* What the code says of itself and does not do.                           *)

\* --duration, "Test duration": the test ends, whatever the servers do.
TestEnds == <>(main = "returned")
=============================================================================
