----------------------------- MODULE SyncEnvoy -----------------------------
(***************************************************************************)
(* `perf-test-hydra sync-envoy-config' (perf/envoy.go) and the control     *)
(* plane it runs (vendored go-control-plane: server/sotw, cache).          *)
(*                                                                         *)
(* Run starts the xDS server, sleeps until a first request has come in,    *)
(* takes the first node the cache knows, gives the cache a snapshot for it *)
(* and polls until a response of each type has been recorded.  Each stream *)
(* of an Envoy is a goroutine of its own that calls the callbacks, watches *)
(* the cache and sends.  Another goroutine counts interrupts.              *)
(*                                                                         *)
(* The flow of one type on one stream goes round:                          *)
(*   none      never asked on this stream                                  *)
(*   request   a request is on its way                                     *)
(*   asked     OnStreamRequest has run, CreateWatch has not                *)
(*   open      the watch is in the cache                                   *)
(*   ready     the watch is answered, the response in its channel          *)
(*   append    OnStreamResponse has read the slice of responses            *)
(*   send      it has written it                                           *)
(*   response  the response is on its way; the Envoy answers it by request *)
(* An Envoy answers a response once and asks for nothing by name, so nonces *)
(* always match and are left out.                                          *)
(***************************************************************************)
EXTENDS Integers, FiniteSets

CONSTANTS
  Streams,    \* the streams that may be open at a time
  Nodes,      \* node ids
  NodeOf,     \* the node id that comes with a stream
  MaxBreaks,  \* bound: how often a stream breaks
  Faults      \* "interrupt", "setup" (the discovery or a bind fails), "reject"
              \* (an Envoy rejects a response), "break" (a stream does)

ASSUME ConstantsAssumption ==
  /\ NodeOf \in [Streams -> Nodes]
  /\ MaxBreaks \in Nat
  /\ Faults \subseteq {"interrupt", "setup", "reject", "break"}

\* The types of the snapshot.
Types == {"cluster", "listener"}

NoNode == "none"
ASSUME NoNodeAssumption == NoNode \notin Nodes

VARIABLES
  main,       \* where Run is, or how the process ended
  manager,    \* RunManagementServer
  signals,    \* signalChan, which holds one
  watcher,    \* the goroutine that receives from it
  cancelled,  \* ctx is cancelled
  connected,  \* cb.Signal is closed
  known,      \* the keys of the cache's status
  nodeId,     \* the node Run chose
  snapshot,   \* the cache has the snapshot of nodeId
  recorded,   \* the types in cb.Responses
  read,       \* what OnStreamResponse of a stream read of them
  overlapped, \* history: one append began while another was in progress
  up,         \* the streams that are open
  flow,       \* of each type on each stream
  have,       \* the version of each type the Envoy of a stream runs
  breaks

run     == <<main, manager, nodeId, snapshot>>
signal  == <<signals, watcher, cancelled>>
callback == <<connected, recorded, read, overlapped>>
stream  == <<up, flow, have, breaks>>
vars == <<run, signal, callback, known, stream>>

Endings == {"done", "error", "panic", "interrupted"}
Ended == main \in Endings

Appending(s) == \E t \in Types : flow[s][t] = "append"
Busy(s) == \E t \in Types : flow[s][t] \in {"asked", "append", "send"}

SelectingTwice(s) == ~Ended /\ s \in up

\* The goroutine of s is in its select and its stream is open.
Selecting(s) == ~Ended /\ s \in up /\ ~Busy(s)

Move(s, t, where) == flow' = [flow EXCEPT ![s][t] = where]
Quiet == [t \in Types |-> "none"]

-----------------------------------------------------------------------------
Init ==
  /\ main = "backends" /\ manager = "off"
  /\ signals = 0 /\ watcher = "first" /\ cancelled = FALSE
  /\ connected = FALSE /\ known = {} /\ nodeId = NoNode /\ snapshot = FALSE
  /\ recorded = {} /\ read = [s \in Streams |-> {}] /\ overlapped = FALSE
  /\ up = {}
  /\ flow = [s \in Streams |-> Quiet]
  /\ have = [s \in Streams |-> [t \in Types |-> "old"]]
  /\ breaks = 0

-----------------------------------------------------------------------------
(* Run.                                                                    *)

\* One of the errands that come before the server: it may fail, and then Run
\* returns its error.
Errand(here, next) ==
  /\ main = here
  /\ \/ main' = next
     \/ "setup" \in Faults /\ main' = "error"
  /\ UNCHANGED <<manager, nodeId, snapshot, signal, callback, known, stream>>

FetchBackends     == Errand("backends", "certs")
FetchCertificates == Errand("certs", "files")
WriteCertificates == Errand("files", "start")

\* Interrupts are notified from here on; then the server is started.
Unnotified == {"backends", "certs", "files"}

Start ==
  /\ main = "start"
  /\ main' = "connect" /\ manager' = "starting"
  /\ UNCHANGED <<nodeId, snapshot, signal, callback, known, stream>>

\* <-signal
Connected ==
  /\ main = "connect" /\ connected
  /\ main' = "status"
  /\ UNCHANGED <<manager, nodeId, snapshot, signal, callback, known, stream>>

\* GetStatusKeys()[0]: the keys come from a map, in any order.
ChooseNode ==
  /\ main = "status"
  /\ \/ known = {} /\ main' = "panic" /\ UNCHANGED nodeId
     \/ nodeId' \in known /\ main' = "set"
  /\ UNCHANGED <<manager, snapshot, signal, callback, known, stream>>

OutdatedAnywhere(s, t) == flow[s][t] = "open" /\ have[s][t] = "old"
OutdatedCluster(s, t) == t = "cluster" /\ flow[s][t] = "open" /\ have[s][t] = "old"

\* A watch of nodeId that is open for another version than the snapshot's.
Outdated(s, t) == NodeOf[s] = nodeId /\ flow[s][t] = "open" /\ have[s][t] = "old"

\* Under the mutex of the cache.  A cancelled ctx may win over the channel.
SetSnapshot ==
  /\ main = "set"
  /\ \/ /\ flow' = [s \in Streams |-> [t \in Types |->
                      IF Outdated(s, t) THEN "ready" ELSE flow[s][t]]]
        /\ snapshot' = TRUE
        /\ main' = "sync"
     \/ /\ cancelled /\ \E s \in Streams, t \in Types : Outdated(s, t)
        /\ main' = "error"
        /\ UNCHANGED <<flow, snapshot>>
  /\ UNCHANGED <<manager, nodeId, signal, callback, known, up, have, breaks>>

AllResponsesSent == recorded = Types

\* The loop that waits for Envoy to sync reads cb.Responses without a lock:
\* beside an append it may see the new length and no element yet.
Sync ==
  /\ main = "sync"
  /\ \/ AllResponsesSent /\ main' = "done"
     \/ (\E s \in Streams : Appending(s)) /\ main' = "panic"
  /\ UNCHANGED <<manager, nodeId, snapshot, signal, callback, known, stream>>

-----------------------------------------------------------------------------
(* RunManagementServer and the goroutine that counts interrupts.           *)

Listen ==
  /\ ~Ended /\ manager = "starting"
  /\ \/ manager' = "listening" /\ UNCHANGED main
     \/ "setup" \in Faults /\ main' = "error" /\ UNCHANGED manager
  /\ UNCHANGED <<nodeId, snapshot, signal, callback, known, stream>>

\* In a goroutine of its own: it may find that GracefulStop was there first,
\* and then its error ends the process.
Serve ==
  /\ ~Ended
  /\ \/ manager = "listening" /\ manager' = "serving" /\ UNCHANGED main
     \/ manager = "early" /\ main' = "error" /\ UNCHANGED manager
  /\ UNCHANGED <<nodeId, snapshot, signal, callback, known, stream>>

GracefulStop ==
  /\ ~Ended /\ manager \in {"listening", "serving"} /\ cancelled
  /\ manager' = IF manager = "listening" THEN "early" ELSE "stopped"
  /\ UNCHANGED <<main, nodeId, snapshot, signal, callback, known, stream>>

FirstSignal ==
  /\ ~Ended /\ watcher = "first" /\ signals = 1
  /\ signals' = 0 /\ cancelled' = TRUE /\ watcher' = "second"
  /\ UNCHANGED <<run, callback, known, stream>>

GaveUp == FALSE
Waiting == watcher = "second"

SecondSignal ==
  /\ ~Ended /\ Waiting /\ signals = 1
  /\ signals' = 0 /\ main' = "interrupted"
  /\ UNCHANGED <<manager, nodeId, snapshot, watcher, cancelled, callback, known, stream>>

-----------------------------------------------------------------------------
(* The goroutine of a stream.                                              *)

\* reqCh: OnStreamRequest closes cb.Signal, once.
OnStreamRequest(s, t) ==
  /\ Selecting(s) /\ flow[s][t] = "request"
  /\ connected' = TRUE
  /\ Move(s, t, "asked")
  /\ UNCHANGED <<run, signal, recorded, read, overlapped, known, up, have, breaks>>

LeftOpen(s, t) == TRUE

\* There is no snapshot for the node, or it has that version.
UpToDate(s, t) == ~snapshot \/ NodeOf[s] # nodeId \/ have[s][t] = "new"

\* Under the mutex of the cache.
CreateWatch(s, t) ==
  /\ ~Ended /\ flow[s][t] = "asked"
  /\ known' = known \cup {NodeOf[s]}
  /\ Move(s, t, IF UpToDate(s, t) THEN "open" ELSE "ready")
  /\ UNCHANGED <<run, signal, callback, up, have, breaks>>

\* The slice is read; it is written in a step of its own.
BeginAppend(s) ==
  /\ read' = [read EXCEPT ![s] = recorded]
  /\ overlapped' = (overlapped \/ \E r \in Streams : Appending(r))

BothAtOnce(s, t) ==
  /\ Selecting(s) /\ \A u \in Types : flow[s][u] = "ready"
  /\ BeginAppend(s)
  /\ Move(s, t, "append")
  /\ UNCHANGED <<run, signal, connected, recorded, known, up, have, breaks>>

\* A response arrives from a watch: OnStreamResponse appends to cb.Responses
\* without a lock, in the two steps of an append, and the stream sends.
OnStreamResponse(s, t) ==
  /\ Selecting(s) /\ flow[s][t] = "ready"
  /\ BeginAppend(s)
  /\ Move(s, t, "append")
  /\ UNCHANGED <<run, signal, connected, recorded, known, up, have, breaks>>

OnlyLast(s, t) == {t}
Appended(s, t) == read[s] \cup {t}

AppendResponse(s, t) ==
  /\ ~Ended /\ flow[s][t] = "append"
  /\ recorded' = Appended(s, t)
  /\ read' = [read EXCEPT ![s] = {}]
  /\ Move(s, t, "send")
  /\ UNCHANGED <<run, signal, connected, overlapped, known, up, have, breaks>>

Send(s, t) ==
  /\ ~Ended /\ flow[s][t] = "send"
  /\ Move(s, t, "response")
  /\ UNCHANGED <<run, signal, callback, known, up, have, breaks>>

\* The stream ends; its watches are cancelled.
CloseStream(s) ==
  /\ up' = up \ {s}
  /\ flow' = [flow EXCEPT ![s] = Quiet]

ContextDone(s) ==
  /\ Selecting(s) /\ cancelled
  /\ CloseStream(s)
  /\ UNCHANGED <<run, signal, callback, known, have, breaks>>

-----------------------------------------------------------------------------
(* The Envoys, and who interrupts.                                         *)

Open(s) ==
  /\ ~Ended /\ manager = "serving" /\ s \notin up
  /\ up' = up \cup {s}
  /\ UNCHANGED <<run, signal, callback, known, flow, have, breaks>>

Ask(s, t) ==
  /\ ~Ended /\ s \in up /\ flow[s][t] = "none"
  /\ Move(s, t, "request")
  /\ UNCHANGED <<run, signal, callback, known, up, have, breaks>>

Accept(s, t) ==
  /\ ~Ended /\ flow[s][t] = "response"
  /\ have' = [have EXCEPT ![s][t] = "new"]
  /\ Move(s, t, "request")
  /\ UNCHANGED <<run, signal, callback, known, up, breaks>>

Reject(s, t) ==
  /\ "reject" \in Faults
  /\ ~Ended /\ flow[s][t] = "response"
  /\ Move(s, t, "request")
  /\ UNCHANGED <<run, signal, callback, known, up, have, breaks>>

Break(s) ==
  /\ "break" \in Faults /\ breaks < MaxBreaks
  /\ Selecting(s)
  /\ CloseStream(s)
  /\ breaks' = breaks + 1
  /\ UNCHANGED <<run, signal, callback, known, have>>

Unbounded == signals + 1

\* Notify does not block: a signal is dropped when signalChan is full.
Notified == 1

Interrupt ==
  /\ "interrupt" \in Faults /\ ~Ended /\ main \notin Unnotified
  /\ signals' = Notified
  /\ UNCHANGED <<run, watcher, cancelled, callback, known, stream>>

Terminated == Ended /\ UNCHANGED vars

-----------------------------------------------------------------------------
MainStep == \/ FetchBackends \/ FetchCertificates \/ WriteCertificates \/ Start
            \/ Connected \/ ChooseNode \/ SetSnapshot \/ Sync
ManagerStep == Listen \/ GracefulStop
WatcherStep == FirstSignal \/ SecondSignal

\* The goroutine of s goes on with what it has taken from its select.
Work(s) == \E t \in Types : CreateWatch(s, t) \/ AppendResponse(s, t) \/ Send(s, t)
\* What it takes for type t: a request or an answered watch, never both.
Take(s, t) == OnStreamRequest(s, t) \/ OnStreamResponse(s, t)
AskAny(s) == \E t \in Types : Ask(s, t)

StreamStep(s) ==
  \/ Open(s) \/ AskAny(s) \/ Work(s) \/ ContextDone(s) \/ Break(s)
  \/ \E t \in Types : Take(s, t) \/ Accept(s, t) \/ Reject(s, t)

Next ==
  \/ MainStep \/ ManagerStep \/ Serve \/ WatcherStep
  \/ \E s \in Streams : StreamStep(s)
  \/ Interrupt \/ Terminated

Spec == Init /\ [][Next]_vars

\* Goroutines are scheduled and a select picks at random among its ready
\* cases.  Of an Envoy it is assumed that it connects, and connects again,
\* and asks for every type; whether it accepts is its own affair.
Fairness ==
  /\ WF_vars(MainStep) /\ WF_vars(ManagerStep) /\ WF_vars(Serve) /\ WF_vars(WatcherStep)
  /\ \A s \in Streams :
       /\ WF_vars(Open(s)) /\ WF_vars(AskAny(s))
       /\ WF_vars(Work(s)) /\ WF_vars(ContextDone(s))
       /\ \A t \in Types : SF_vars(Take(s, t))

FairSpec == Spec /\ Fairness

-----------------------------------------------------------------------------
(* Properties.                                                             *)

\* The type invariant.
TypeOK ==
  /\ main \in Unnotified \cup {"start", "connect", "status", "set", "sync"} \cup Endings
  /\ manager \in {"off", "starting", "listening", "serving", "early", "stopped"}
  /\ signals \in {0, 1} /\ watcher \in {"first", "second"} /\ cancelled \in BOOLEAN
  /\ connected \in BOOLEAN
  /\ known \subseteq Nodes /\ nodeId \in known \cup {NoNode} /\ snapshot \in BOOLEAN
  /\ recorded \subseteq Types /\ read \in [Streams -> SUBSET Types]
  /\ overlapped \in BOOLEAN
  /\ up \subseteq Streams
  /\ flow \in [Streams -> [Types -> {"none", "request", "asked", "open", "ready",
                                     "append", "send", "response"}]]
  /\ have \in [Streams -> [Types -> {"old", "new"}]]
  /\ breaks \in 0 .. MaxBreaks

\* The goroutine of a stream does one thing at a time, and only an open
\* stream has watches.
StreamInv ==
  \A s \in Streams :
    /\ \A t, u \in Types :
         /\ flow[s][t] \in {"asked", "append", "send"}
         /\ flow[s][u] \in {"asked", "append", "send"}
         => t = u
    /\ s \notin up => flow[s] = Quiet

\* Once the snapshot is set no watch of its node is left open on an outdated
\* version, where nothing would ever answer it: a request either finds the
\* snapshot or is found by SetSnapshot.
NoForgottenWatch ==
  snapshot =>
    \A s \in Streams, t \in Types :
      NodeOf[s] = nodeId /\ flow[s][t] = "open" => have[s][t] = "new"

\* Only Envoys of the node that Run chose are given a configuration, and only
\* when it is complete.
OnlyChosenServed ==
  \A s \in Streams, t \in Types :
    \/ flow[s][t] \in {"ready", "append", "send", "response"}
    \/ have[s][t] = "new"
    => snapshot /\ NodeOf[s] = nodeId

\* The node is chosen before the snapshot is set, and never again.
ChosenInv == snapshot => main \in {"sync"} \cup Endings

\* Together these are inductive.
SyncInv == StreamInv /\ ChosenInv /\ NoForgottenWatch /\ OnlyChosenServed

\* A type that was sent on an open stream, or that an Envoy runs, and that is
\* missing from cb.Responses.
Unrecorded ==
  \E s \in Streams, t \in Types :
    t \notin recorded /\ (flow[s][t] \in {"send", "response"} \/ have[s][t] = "new")

\* Goroutines append to cb.Responses without a lock.  A response is lost from
\* it only if two of them were in the two steps of an append at once, for
\* which two streams must carry the chosen node's id; every other order of
\* requests, snapshot, responses and reconnections records what it sends.
LossNeedsOverlap == Unrecorded => overlapped

\* Why: while appends do not overlap no stream works on an old slice.
AppendInv ==
  /\ \A r, s \in Streams : Appending(r) /\ Appending(s) => r = s
  /\ \A s \in Streams : Appending(s) => read[s] = recorded
  /\ ~Unrecorded

\* The promise that sync-envoy-config keeps while no append is lost, and so
\* whenever each node id has one stream:
\* one node that asked is configured, once and completely, and none but its
\* Envoys run anything; Run succeeds when each type has been sent and
\* recorded, and what an Envoy runs has been recorded before.
Provision == INSTANCE Provisioning WITH
  Clients <- Streams,
  phase   <- IF main = "done" THEN "done"
             ELSE IF Ended THEN "failed"
             ELSE IF snapshot THEN "configured" ELSE "open",
  asked   <- known,
  chosen  <- nodeId,
  noted   <- recorded,
  running <- {p \in Streams \X Types : have[p[1]][p[2]] = "new"}

ImplementsProvisioning == Provision!Spec

\* An answered watch is sent, or its stream ends.
AnswerSent ==
  \A s \in Streams, t \in Types :
    flow[s][t] = "ready" ~> (flow[s][t] \in {"response", "none"} \/ Ended)

\* An append is in progress that is going to undo another's.
Undoing ==
  \E s \in Streams, t \in Types :
    flow[s][t] = "append" /\ ~(recorded \subseteq read[s] \cup {t})

\* Run ends, whoever connects, breaks or rejects, with two exceptions.  The
\* first interrupt stops the server and not Run.  And when two streams carry
\* the node's id (the bootstrap envoy-dynamic.yaml gives every Envoy the same
\* one) one append may undo another: an accepted type is then never sent again
\* and Run polls for it for ever.
SyncEnds == main = "connect" ~> (Ended \/ cancelled \/ Undoing)

\* A second interrupt ends the program wherever Run is.
SecondInterruptEnds == cancelled /\ signals = 1 ~> Ended

-----------------------------------------------------------------------------
(* What the code says of itself and does not do.                           *)

\* "Envoy Connected": then the cache knows a node for Run to choose.
ConnectedIsKnown == main # "panic"
=============================================================================
