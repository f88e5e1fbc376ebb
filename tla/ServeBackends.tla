--------------------------- MODULE ServeBackends ---------------------------
(***************************************************************************)
(* `perf-test-hydra serve-backends' and the `serve-backend' processes it   *)
(* spawns (perf/backends.go, perf/backend.go).                             *)
(*                                                                         *)
(* The parent runs a metadata server, writes certificates, spawns one      *)
(* process per backend and blocks until each has POSTed to /register; it   *)
(* then publishes /certs and /backends and stays up until it is            *)
(* interrupted or a backend dies.  Its goroutines are Run itself (main)    *)
(* and three members of an errgroup: the SIGCHLD watcher, the HTTP server  *)
(* and the goroutine that shuts the server down (closer).  Each request to *)
(* /register is served by a goroutine of its own under one mutex.          *)
(*                                                                         *)
(* A backend is another process.  It registers in a retry loop, and an     *)
(* attempt its client gave up on stays in the parent, where its handler    *)
(* may still run: delivery is at least once.                               *)
(***************************************************************************)
EXTENDS Integers, FiniteSets

CONSTANTS
  TrafficTypes,  \* AllTrafficTypes
  TLSTypes,      \* those that ServeBackendCmd.Run serves with ServeTLS
  Nbackends,     \* --nbackends: backends per traffic type
  Retries,       \* attempts a backend makes to register (17 in the code)
  Port,          \* --port of the parent
  ChildPort,     \* --port of a backend
  Faults         \* the faults of the environment that may happen, see below

(***************************************************************************)
(* "interrupt" SIGINT or SIGTERM to the parent   "kill"    SIGKILL to it   *)
(* "signal"    SIGINT or SIGTERM to a backend    "crash"   SIGKILL to it   *)
(* "transport" a request times out or its connection breaks                *)
(* "bind"      a process cannot bind its address                           *)
(* "setup"     certificates cannot be written, or fork fails               *)
(* "tls"       a backend cannot load its key pair                          *)
(***************************************************************************)
AllFaults == {"interrupt", "kill", "signal", "crash", "transport", "bind",
              "setup", "tls"}

ASSUME ConstantsAssumption ==
  /\ IsFiniteSet(TrafficTypes)
  /\ TLSTypes \subseteq TrafficTypes
  /\ Nbackends \in Nat
  /\ Retries \in Nat \ {0}
  /\ Faults \subseteq AllFaults

Backends == TrafficTypes \X (0 .. Nbackends - 1)

\* One attempt of one backend to register.
Requests == Backends \X (1 .. Retries)

\* len(backendsByTrafficType) * p.Nbackends.  Nothing registers before the
\* map is complete, since no backend has been spawned.
Total == Cardinality(TrafficTypes) * Nbackends

NoRequest == <<>>
NoError   == "nil"

VARIABLES
  main,         \* where Run of the parent is
  status,       \* what Run returned
  watcher,      \* the goroutine that waits for SIGCHLD
  server,       \* the goroutine in ListenAndServe
  closer,       \* the goroutine that calls Shutdown
  groupErr,     \* g.err: the first error of a member of the errgroup
  gDone,        \* gCtx is cancelled
  interrupted,  \* p.Context is cancelled
  chld,         \* chldSignalCtx is cancelled
  lock,         \* the request whose handler keeps registerHandlerLock
  registered,   \* backendsRegistered
  bound,        \* the names stored in boundBackends
  routes,       \* the metadata handlers the mux has
  req,          \* what became of each request
  child,        \* where Run of each backend is, or how it ended
  serve,        \* the server goroutine of each backend
  attempt,      \* the registration attempts each backend has begun
  term          \* the backends whose p.Context is cancelled

group   == <<watcher, server, closer, groupErr, gDone, interrupted, chld>>
handler == <<lock, registered, bound, req>>
backend == <<child, serve, attempt, term>>
vars == <<main, status, group, handler, routes, backend>>

Errors == {"a backend died", "listen failed", "shutdown timeout"}
Statuses == {NoError, "timeout", "setup failed", "killed"} \cup Errors

\* How a backend's process ends.
Endings == {"unbound",    \* net.Listen failed
            "refused",    \* ECONNREFUSED from /register
            "exhausted",  \* the last attempt failed
            "denied",     \* /register did not answer 200
            "unread",     \* the body of such an answer broke off
            "stopped",    \* g.Wait returned
            "crashed"}

Up          == main # "returned"
Spawned(b)  == child[b] # "unborn"
Alive(b)    == Spawned(b) /\ child[b] \notin Endings

\* SIGCHLD has a receiver for as long as Run of the parent runs: NotifyContext
\* is called before the first backend is spawned.
NotifiedLate == main \in {"select", "mux", "wait"}
Notified == Up

\* Shutdown closes the listener before anything else.
Listening == Up /\ server = "listening" /\ closer = "waiting"

Current(b) == <<b, attempt[b]>>
Active == {r \in Requests : req[r] \in {"queued", "sending"}}
Counted == {r \in Requests : req[r] \in {"sending", "ok"}}

-----------------------------------------------------------------------------
Init ==
  /\ main = "prepare" /\ status = NoError
  /\ watcher = "waiting" /\ server = "starting" /\ closer = "waiting"
  /\ groupErr = NoError
  /\ gDone = FALSE /\ interrupted = FALSE /\ chld = FALSE
  /\ lock = NoRequest /\ registered = 0 /\ bound = {} /\ routes = {}
  /\ req = [r \in Requests |-> "none"]
  /\ child = [b \in Backends |-> "unborn"]
  /\ serve = [b \in Backends |-> "off"]
  /\ attempt = [b \in Backends |-> 0]
  /\ term = {}

Return(result) == main' = "returned" /\ status' = result

\* A member of the errgroup returns an error: only the first is kept.
FailSilently(e) ==
  /\ groupErr' = groupErr
  /\ gDone' = TRUE

Fail(e) ==
  /\ groupErr' = IF groupErr = NoError THEN e ELSE groupErr
  /\ gDone' = TRUE

-----------------------------------------------------------------------------
(* Run of the parent.                                                      *)

\* Name the backends, create the certificates and write them.
Prepare ==
  /\ main = "prepare"
  /\ \/ main' = "spawn" /\ UNCHANGED status
     \/ "setup" \in Faults /\ Return("setup failed")
  /\ UNCHANGED <<group, handler, routes, backend>>

\* The loop over backendsByTrafficType, a map: the types in any order, the
\* backends of a type in theirs.  Nothing in it looks at gCtx.
NextToSpawn(b) ==
  /\ ~Spawned(b)
  /\ \A c \in Backends :
       /\ c[1] = b[1] => (Spawned(c) <=> c[2] < b[2])
       /\ c[1] # b[1] => \A d \in Backends : c[1] = d[1] => (Spawned(c) <=> Spawned(d))

SpawnBackend(b) ==
  /\ main = "spawn"
  /\ NextToSpawn(b)
  /\ \/ /\ child' = [child EXCEPT ![b] = "listen"]
        /\ UNCHANGED <<main, status>>
     \/ "setup" \in Faults /\ Return("setup failed") /\ UNCHANGED child
  /\ UNCHANGED <<group, handler, routes, serve, attempt, term>>

AllSpawned ==
  /\ main = "spawn"
  /\ \A b \in Backends : Spawned(b)
  /\ main' = "select"
  /\ UNCHANGED <<status, group, handler, routes, backend>>

\* The three cases of the select.  backendsReady is unbuffered: the send of
\* the handler and this receive are one step, and the handler then returns.
SelectReady ==
  /\ main = "select"
  /\ \E r \in Requests :
       /\ req[r] = "sending"
       /\ req' = [req EXCEPT ![r] = "ok"]
  /\ lock' = NoRequest
  /\ main' = "mux"
  /\ UNCHANGED <<status, group, registered, bound, routes, backend>>

SelectDone ==
  /\ main = "select"
  /\ gDone
  /\ Return(NoError)
  /\ UNCHANGED <<group, handler, routes, backend>>

SelectTimeout ==
  /\ main = "select"
  /\ Return("timeout")
  /\ UNCHANGED <<group, handler, routes, backend>>

HandleCerts ==
  /\ main = "mux" /\ routes = {}
  /\ routes' = {"/certs"}
  /\ UNCHANGED <<main, status, group, handler, backend>>

HandleBackends ==
  /\ main = "mux" /\ routes # {}
  /\ routes' = routes \cup {"/backends"}
  /\ main' = "wait"
  /\ UNCHANGED <<status, group, handler, backend>>

\* g.Wait
Wait ==
  /\ main = "wait"
  /\ watcher = "returned" /\ server = "returned" /\ closer = "returned"
  /\ Return(groupErr)
  /\ UNCHANGED <<group, handler, routes, backend>>

-----------------------------------------------------------------------------
(* The errgroup of the parent.                                             *)

\* Both cases of the watcher's select may be ready.
Watch ==
  /\ Up /\ watcher = "waiting"
  /\ \/ chld /\ Fail("a backend died")
     \/ gDone /\ UNCHANGED <<groupErr, gDone>>
  /\ watcher' = "returned"
  /\ UNCHANGED <<main, status, server, closer, interrupted, chld, handler, routes, backend>>

Listen ==
  /\ Up /\ server = "starting" /\ closer = "waiting"
  /\ \/ server' = "listening" /\ UNCHANGED <<groupErr, gDone>>
     \/ "bind" \in Faults /\ server' = "returned" /\ Fail("listen failed")
  /\ UNCHANGED <<main, status, watcher, closer, interrupted, chld, handler, routes, backend>>

\* Once Shutdown has begun ListenAndServe returns ErrServerClosed, also when
\* it has not listened yet; that is no error.
ServerClosed ==
  /\ Up /\ server \in {"starting", "listening"} /\ closer # "waiting"
  /\ server' = "returned"
  /\ UNCHANGED <<main, status, watcher, closer, groupErr, gDone, interrupted, chld,
                 handler, routes, backend>>

BeginShutdown ==
  /\ Up /\ closer = "waiting" /\ gDone
  /\ closer' = "draining"
  /\ UNCHANGED <<main, status, watcher, server, groupErr, gDone, interrupted, chld,
                 handler, routes, backend>>

\* Shutdown waits for the requests in progress, for 15 seconds at most.
EndShutdown ==
  /\ Up /\ closer = "draining"
  /\ IF Active = {} THEN UNCHANGED <<groupErr, gDone>> ELSE Fail("shutdown timeout")
  /\ closer' = "returned"
  /\ UNCHANGED <<main, status, watcher, server, interrupted, chld, handler, routes, backend>>

-----------------------------------------------------------------------------
(* The handler of /register.  What it does between Lock and Unlock is one  *)
(* step, except that it blocks in its send to backendsReady.               *)

FullTooEarly == registered + 1 >= Total
FullNever == registered > Total
Full == registered = Total

ReadyTooEarly(n) == n + 1 >= Total
Ready(n) == n = Total

RejectLocked(r) ==
  /\ req' = [req EXCEPT ![r] = "bad"]
  /\ lock' = r
  /\ UNCHANGED <<registered, bound>>

Reject(r) ==
  /\ req' = [req EXCEPT ![r] = "bad"]
  /\ UNCHANGED <<lock, registered, bound>>

DecodeFailsCounted(r) ==
  /\ child[r[1]] # "await" \/ r # Current(r[1])
  /\ req' = [req EXCEPT ![r] = "lost"]
  /\ registered' = registered + 1
  /\ UNCHANGED <<lock, bound>>

\* The client is gone and took the body with it.
DecodeFails(r) ==
  /\ child[r[1]] # "await" \/ r # Current(r[1])
  /\ req' = [req EXCEPT ![r] = "lost"]
  /\ UNCHANGED <<lock, registered, bound>>

Store(b) == bound' = bound \cup {b}

Count(r) ==
  /\ Store(r[1])
  /\ registered' = registered + 1
  /\ req' = [req EXCEPT ![r] = IF Ready(registered') THEN "sending" ELSE "ok"]
  /\ lock' = IF Ready(registered') THEN r ELSE NoRequest

Register(r) ==
  /\ Up /\ req[r] = "queued" /\ lock = NoRequest
  /\ IF Full THEN Reject(r) ELSE DecodeFails(r) \/ Count(r)
  /\ UNCHANGED <<main, status, group, routes, backend>>

-----------------------------------------------------------------------------
(* A backend.                                                              *)

\* The process of b ends, and its parent gets SIGCHLD.
Exit(b, how) ==
  /\ child' = [child EXCEPT ![b] = how]
  /\ chld' = (chld \/ Notified)
  /\ UNCHANGED <<main, status, watcher, server, closer, groupErr, gDone, interrupted, routes>>

Goto(b, where) ==
  /\ child' = [child EXCEPT ![b] = where]
  /\ UNCHANGED <<main, status, group, routes>>

\* net.Listen, then both goroutines of the backend's errgroup are started.
ChildListen(b) ==
  /\ child[b] = "listen"
  /\ \/ Goto(b, "dial") /\ serve' = [serve EXCEPT ![b] = "starting"]
     \/ "bind" \in Faults /\ Exit(b, "unbound") /\ UNCHANGED serve
  /\ UNCHANGED <<handler, attempt, term>>

\* A request that breaks on the way never reaches a handler.
Dial(b) ==
  /\ child[b] = "dial" /\ attempt[b] < Retries
  /\ Listening /\ ChildPort = Port
  /\ attempt' = [attempt EXCEPT ![b] = @ + 1]
  /\ \E s \in {"queued"} \cup IF "transport" \in Faults THEN {"lost"} ELSE {} :
       req' = [req EXCEPT ![<<b, attempt[b] + 1>>] = s]
  /\ Goto(b, "await")
  /\ UNCHANGED <<lock, registered, bound, serve, term>>

Refused(b) ==
  /\ child[b] = "dial"
  /\ ~(Listening /\ ChildPort = Port)
  /\ Exit(b, "refused")
  /\ UNCHANGED <<handler, serve, attempt, term>>

\* client.Do fails with something else than ECONNREFUSED: it timed out or the
\* connection broke, whatever became of the request in the parent.
GiveUp(b) ==
  /\ child[b] = "await"
  /\ "transport" \in Faults \/ ~Up \/ req[Current(b)] = "lost"
  /\ IF attempt[b] = Retries THEN Exit(b, "exhausted") ELSE Goto(b, "dial")
  /\ UNCHANGED <<handler, serve, attempt, term>>

\* A 200 has no body to read.  Another answer has, and when reading it fails
\* that ends the backend as well, with no retry.
Answered(b) ==
  /\ child[b] = "await"
  /\ \/ req[Current(b)] = "ok"  /\ Goto(b, "wait")
     \/ req[Current(b)] = "bad" /\ Exit(b, "denied")
     \/ req[Current(b)] = "bad" /\ ("transport" \in Faults \/ ~Up) /\ Exit(b, "unread")
  /\ UNCHANGED <<handler, serve, attempt, term>>

\* Serve or ServeTLS of the backend.
ChildServe(b) ==
  /\ Alive(b) /\ serve[b] = "starting"
  /\ \/ serve' = [serve EXCEPT ![b] = "up"]
     \/ "tls" \in Faults /\ b[1] \in TLSTypes /\ serve' = [serve EXCEPT ![b] = "down"]
  /\ UNCHANGED <<main, status, group, handler, routes, child, attempt, term>>

\* A signal cancels p.Context of the backend, which shuts its server down.
ChildShutdown(b) ==
  /\ Alive(b) /\ b \in term /\ serve[b] \in {"starting", "up"}
  /\ serve' = [serve EXCEPT ![b] = "down"]
  /\ UNCHANGED <<main, status, group, handler, routes, child, attempt, term>>

\* g.Wait of the backend.  The registration loop before it never looks at
\* its context.
ChildWait(b) ==
  /\ child[b] = "wait" /\ serve[b] = "down"
  /\ Exit(b, "stopped")
  /\ UNCHANGED <<handler, serve, attempt, term>>

DeathSignalMissing(b) == FALSE /\ UNCHANGED vars

\* The kernel signals the backends when their parent dies (Pdeathsig).
DeathSignal(b) ==
  /\ ~Up /\ Alive(b) /\ b \notin term
  /\ term' = term \cup {b}
  /\ UNCHANGED <<main, status, group, handler, routes, child, serve, attempt>>

-----------------------------------------------------------------------------
(* The environment.                                                        *)

Interrupt ==
  /\ "interrupt" \in Faults /\ Up /\ ~interrupted
  /\ interrupted' = TRUE /\ gDone' = TRUE
  /\ UNCHANGED <<main, status, watcher, server, closer, groupErr, chld, handler, routes, backend>>

Kill ==
  /\ "kill" \in Faults /\ Up
  /\ Return("killed")
  /\ UNCHANGED <<group, handler, routes, backend>>

Signal(b) ==
  /\ "signal" \in Faults /\ Up /\ Alive(b) /\ b \notin term
  /\ term' = term \cup {b}
  /\ UNCHANGED <<main, status, group, handler, routes, child, serve, attempt>>

Crash(b) ==
  /\ "crash" \in Faults /\ Up /\ Alive(b)
  /\ Exit(b, "crashed")
  /\ UNCHANGED <<handler, serve, attempt, term>>

Stopped == ~Up /\ \A b \in Backends : ~Alive(b)

\* Every process has ended.
Terminated == Stopped /\ UNCHANGED vars

-----------------------------------------------------------------------------
MainStep == \/ Prepare \/ (\E b \in Backends : SpawnBackend(b)) \/ AllSpawned
            \/ SelectReady \/ SelectDone \/ SelectTimeout
            \/ HandleCerts \/ HandleBackends \/ Wait
ServerStep == Listen \/ ServerClosed
CloserStep == BeginShutdown \/ EndShutdown
ChildStep(b) == ChildListen(b) \/ Dial(b) \/ Refused(b) \/ GiveUp(b) \/ Answered(b) \/ ChildWait(b)
ServeStep(b) == ChildServe(b) \/ ChildShutdown(b)
Environment == \/ Interrupt \/ Kill
               \/ \E b \in Backends : Signal(b) \/ Crash(b)

Next ==
  \/ MainStep \/ Watch \/ ServerStep \/ CloserStep
  \/ \E r \in Requests : Register(r)
  \/ \E b \in Backends : ChildStep(b) \/ ServeStep(b) \/ DeathSignal(b)
  \/ Environment \/ Terminated

Spec == Init /\ [][Next]_vars

\* Goroutines and processes are scheduled, the timers of the select, of
\* Shutdown and of a backend's client expire and the kernel delivers signals.
\* Nothing is assumed of the environment.
Fairness ==
  /\ WF_vars(MainStep) /\ WF_vars(Watch) /\ WF_vars(ServerStep) /\ WF_vars(CloserStep)
  /\ \A r \in Requests : WF_vars(Register(r))
  /\ \A b \in Backends : WF_vars(ChildStep(b)) /\ WF_vars(ServeStep(b)) /\ WF_vars(DeathSignal(b))

FairSpec == Spec /\ Fairness

-----------------------------------------------------------------------------
(* Properties.                                                             *)

MainTypeOK ==
  /\ main \in {"prepare", "spawn", "select", "mux", "wait", "returned"}
  /\ status \in Statuses
  /\ routes \subseteq {"/certs", "/backends"}

GroupTypeOK ==
  /\ watcher \in {"waiting", "returned"}
  /\ server \in {"starting", "listening", "returned"}
  /\ closer \in {"waiting", "draining", "returned"}
  /\ groupErr \in Errors \cup {NoError}
  /\ gDone \in BOOLEAN /\ interrupted \in BOOLEAN /\ chld \in BOOLEAN

HandlerTypeOK ==
  /\ lock \in Requests \cup {NoRequest}
  /\ registered \in 0 .. Total
  /\ bound \subseteq Backends
  /\ req \in [Requests -> {"none", "queued", "sending", "ok", "bad", "lost"}]

BackendTypeOK ==
  /\ child \in [Backends -> {"unborn", "listen", "dial", "await", "wait"} \cup Endings]
  /\ serve \in [Backends -> {"off", "starting", "up", "down"}]
  /\ attempt \in [Backends -> 0 .. Retries]
  /\ term \subseteq Backends

\* The type invariant; backendsRegistered never passes the number of backends.
TypeOK == MainTypeOK /\ GroupTypeOK /\ HandlerTypeOK /\ BackendTypeOK

\* backendsRegistered counts requests, boundBackends holds who sent them:
\* the two agree with what the handlers did, whatever was retried or lost.
RegisteredCountsRequests ==
  /\ registered = Cardinality(Counted)
  /\ bound = {r[1] : r \in Counted}

CountedTwice == \E r, s \in Counted : r # s /\ r[1] = s[1]

\* When Run goes on to publish /backends, whose handler panics at a missing
\* name, a name can be missing only if another was counted twice.
MissingOnlyByRetry ==
  main \in {"mux", "wait"} /\ ~CountedTwice => bound = Backends

\* A backend is told "unexpected registration" only if some backend retried.
NoDenialWithoutRetry ==
  (\E b \in Backends : child[b] = "denied") => \E c \in Backends : attempt[c] > 1

\* backendsReady is received from once.  No handler blocks in the send, with
\* registerHandlerLock held, after that.
NoLateSender ==
  main \in {"mux", "wait"} => /\ \A r \in Requests : req[r] # "sending"
                             /\ lock = NoRequest

\* Once /backends is published Run returns without an error only if it was
\* interrupted: the death of a backend and a failed listen are reported.
ErrorReported ==
  [][main = "wait" /\ main' = "returned" /\ status' = NoError => interrupted]_vars

\* Why: the group is cancelled by an interrupt or by an error it keeps, and
\* Shutdown begins, so g.Wait can end, only when the group is cancelled.
CancelInv ==
  /\ gDone => interrupted \/ groupErr # NoError
  /\ closer # "waiting" => gDone

\* A backend that ends, however and whenever, takes down the whole test bed.
DeadBackendStopsAll == (\E b \in Backends : child[b] \in Endings) ~> Stopped

\* So does an interrupt of the parent, whatever the parent is doing.
InterruptStopsAll == interrupted ~> Stopped

\* No request to /register waits for ever on registerHandlerLock or backendsReady.
RequestAnswered ==
  \A r \in Requests :
    req[r] \in {"queued", "sending"} ~> (req[r] \in {"ok", "bad", "lost"} \/ ~Up)

\* An attempt leaves "none" when it is begun.
BegunInv == \A r \in Requests : req[r] = "none" <=> r[2] > attempt[r[1]]

\* The lock is kept by the one sender, which is there only when the count is
\* complete; nobody is denied before that either.
SenderInv ==
  /\ \A r \in Requests : req[r] = "sending" <=> lock = r
  /\ \A r \in Requests : req[r] \in {"sending", "bad"} => registered = Total

\* The select is left with the count complete and the lock free.
SelectInv == main \in {"mux", "wait"} => registered = Total /\ lock = NoRequest

\* A backend waits, or ends as denied, on what one of its requests was told.
ToldInv ==
  \A b \in Backends :
    /\ child[b] \in {"await", "wait"} => attempt[b] > 0
    /\ child[b] = "wait" => req[Current(b)] = "ok"
    /\ child[b] = "denied" => \E r \in Requests : req[r] = "bad"

\* Why the four invariants on registration hold: this one is inductive.
RegistrationInv ==
  RegisteredCountsRequests /\ BegunInv /\ SenderInv /\ SelectInv /\ ToldInv

\* The abstract view of the parent: the list is boundBackends.
Phase == IF main = "returned" THEN "ended"
         ELSE IF main \in {"mux", "wait"} THEN "published" ELSE "gathering"

Confirmed == {b \in Backends : child[b] = "wait"}

R == INSTANCE Rendezvous WITH Members <- Backends, phase <- Phase,
                              joined <- bound, confirmed <- Confirmed

\* When every backend registers in one attempt, /backends is published
\* complete and nobody relies on a registration that is not on it.
ImplementsRendezvous == R!Spec

Denied == {b \in Backends : child[b] = "denied"}

G == INSTANCE Registration WITH Members <- Backends, Places <- Total, phase <- Phase,
                                taken <- registered, joined <- bound,
                                confirmed <- Confirmed, denied <- Denied

\* However often backends retry and whatever is delivered late: nobody is
\* denied while there is room, nobody relies on a registration that is not
\* there, and from publication on no handler changes what /backends reads
\* without the lock.
ImplementsRegistration == G!Spec

-----------------------------------------------------------------------------
(* What the code says of itself and does not do.                           *)

\* "missing backend registration for" is a panic: when /backends is published
\* every backend is in boundBackends.
ReadyMeansAllBound == main \in {"mux", "wait"} => bound = Backends

\* "Perhaps the parent crashed [...] If we cannot connect there's no point
\* retrying": a backend is refused only by a parent that is gone or going.
RefusedMeansNoParent ==
  \A b \in Backends : child[b] = "refused" => ~Up \/ gDone
=============================================================================
