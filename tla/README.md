# A formal model of perf-test-hydra

`perf-test-hydra` (directory `perf/` of this repository) is a test bed for
proxies: it serves backends of four traffic types, generates the
configuration of HAProxy and Envoy for them, and generates load.  This
directory holds TLA+ models of its concurrent parts and of what passes
between them, the TLC configurations that check them on small instances, and
theorems checked by TLAPS.

Run everything from this directory:

    tlc -config ServeBackends_delivery.cfg MCServeBackends
    tlapm ServeBackendsProofs.tla

## 1. Inventory

| Component | State it keeps | Operations | Hard behaviour | What makes it correct | Modelled by |
|---|---|---|---|---|---|
| `serve-backends` (`backends.go`) | count of registrations, map of bound backends, mutex, channel, errgroup, HTTP server, SIGCHLD context | spawn, `/register`, select, publish `/certs` and `/backends`, shutdown | handlers, three group goroutines and `Run` interleave; children die; the parent is killed | the list is complete when published; an error after that is reported; one death ends everything | `ServeBackends` |
| `serve-backend` (`backend.go`) | a process: listener, server goroutine, registration attempts, context | bind, register with retries, serve, shut down | retries of registrations that were handled; a registration that arrives after its client gave up; refusal while the parent starts | 200 means registered; it ends with its parent | `ServeBackends` |
| errgroup (vendored) | first error, context | Go, Wait | first error wins | - | inside `ServeBackends` |
| `test` (`mb.go`), `gomb` (`cmd/gomb`) | queue of requests, fetchers, counters, timer | send, receive, count, requeue, end | two unbuffered channels in both directions, select without priority, body read in the main loop | requests conserved, none starved, no deadlock, ends on interrupt | `LoadTest` |
| `sync-envoy-config` (`envoy.go`) | recorded responses, a signal channel, chosen node, interrupts | start server, wait for an Envoy, set the snapshot, poll | callbacks on stream goroutines, unlocked slice, order of callback and watch | outdated watches answered, only the chosen node served, ends unless a response is lost | `SyncEnvoy` |
| go-control-plane (vendored) | per node status, watches, snapshots | process, CreateWatch, SetSnapshot | watch and snapshot race | as above | inside `SyncEnvoy` |
| `gen-proxy-config` (`haproxy.go`, templates) | five maps, the sections and the frontends of one HAProxy, made from one list of backends and one bundle | fetch, write certificates, configuration and maps | what it fetched may be of an earlier start, or of two; a name must be in each of the maps a request passes | a request reaches the backend it names over the encryption of its type | `Routing`; its writes of certificates in `CertFiles` |
| `gen-workload` (`requests.go`), `gen-hosts` (`hosts.go`) | request files | remove, fetch, write | the files outlive the backends they name | scheme and port fit the proxy and the type | `Routing` |
| certificates on disk (`certs.go`, `utils.go`) | five files in one directory | RemoveAll, then createFile five times | three commands, and a second `serve-backends` by mistake, write the directory without a lock while backends read from it; two writers have one file open; a writer stops half way | the directory is complete when all are done; whose bundle a backend serves | `CertFiles` |
| certificate generation (`certgen.go`) | none | create a root and a leaf | - | the leaf has all names | a bundle is a new value per start (`CertFiles`); the names in `Routing` |
| metadata client (`metadata.go`) | none | GET `/backends`, then `/certs` | the parent publishes `/certs` first, then `/backends`, and may restart between the two | the certificates are not older than the list | `CertFiles`, `SyncEnvoy` |
| version, main, commands, scripts, interposers | none of their own | print, parse, start, preload | - | - | signal contexts only |

How they interact.  The parent spawns the backends as child processes and
sends them SIGTERM when it dies (`Pdeathsig`); each posts to the parent's
`/register`; the parent learns of a death by SIGCHLD.  The generators and
`sync-envoy-config` read `/backends` and `/certs` of the parent over HTTP and
write the certificates again, into the directory the backends read.  HAProxy
is started with the generated files; Envoy connects to `sync-envoy-config` by
gRPC.  `test` and `gomb` send the requests that `gen-workload` wrote to the
proxy, or (`gomb` only) to the backends themselves.

## 2. Modules

- **`ServeBackends`**: the parent and its children in one module, because
  their correctness is in the exchange between them.  `main`, `watcher`,
  `server`, `closer` are the program counters of `Run` and of the three
  members of its errgroup; `groupErr`, `gDone` the group; `lock`,
  `registered`, `bound`, `req` the handlers of `/register`, one per request;
  `child`, `serve`, `attempt`, `term` the backends.  A handler takes the lock
  and does all of its work in one step (`Register`), except that the last
  one blocks in its send and keeps the lock (`req = "sending"`,
  `lock = r`); `SelectReady` is the rendezvous on `backendsReady`.  A request
  survives its client: `GiveUp` leaves `req` as it is, so the handler may
  run later, or fail to read the body (`DecodeFails`).  A process that ends
  raises SIGCHLD (`Exit`), which is the only link from a death to the group.
  A 200 of `/register` has no body, so reading it cannot fail; the answer to
  a refusal has one, which may break off (`Answered`).
  Requests that are cut short return 400 to nobody.  The deadline of a
  client that gives up is not tied to real time: it may pass at any moment
  when `"transport"` is among the faults.
- **`Registration`**: the abstract specification of the parent with retries:
  as many places as members, a registration takes one whoever makes it, and
  the list is published when none is left.
- **`Rendezvous`**: what one would like it to be: members join a list, confirm
  once they are on it, and the list is published when complete.
- **`LoadTest`**: `pending` is the slice, `holds` and `fetch` the fetchers,
  `main` the loop.  The rendezvous on `requestCh` is `Dispatch`, on `resultCh`
  `Receive`, which appends, counts and, unless the request failed, goes on to
  read the body (`main = "body"`).  The clock is a counter of ticks.  `gomb`
  is the same loop but for its limit: `testComplete` is 60 seconds whatever
  `--duration` says (`gomb.go:129`), which `Limit` reproduces.  A file that
  cannot be read or decoded, and a URL that is none, end it before the first
  request (`Unreadable`, `Fill`).  The progress ticker, which only logs, is
  left out.
- **`ClosedLoop`**: the abstract load test: requests are under way, at most one
  for each client and none twice, and what comes back is counted once.
- **`SyncEnvoy`**: `Run`, the management server, the interrupt goroutine and
  one goroutine per stream.  `flow[s][t]` is the round of one type on one
  stream, from request to watch to response; the two steps in which a stream
  is between two calls (`asked`: after `OnStreamRequest`, before
  `CreateWatch`; `append`: in the middle of an unlocked append) are states of
  it.  The cache's `CreateWatch` and `SetSnapshot` each hold its mutex and
  are one step.  A version is `old` or `new`: `Run` draws its version at
  random so that it differs from any other.  Streams may carry the same node
  id, and then two of them may be in an append at once: each writes what it
  read and its own response, so that the later one undoes the earlier
  (`overlapped` remembers that it happened).  An unlocked read beside an
  append may panic (`Sync`), which stands for the undefined outcome of the
  race.  `GracefulStop` may overtake the goroutine that calls `Serve`, whose
  error then ends the process.  What an Envoy does with a response
  (`Accept`, `Reject`) is not in the repository.
- **`Provisioning`**: the abstract control plane: nodes ask, one is chosen for
  good and configured once, its clients run only types that were noted, and
  success means that all were.
- **`CertFiles`**: the directory of certificates.  A writer is
  `writeCertificates` in one command, call of the system by call: RemoveAll
  lists the directory once (`List`), removes what it listed (`Unlink`) and the
  directory (`Rmdir`, which fails if a file has appeared); `createFile` makes
  the directory, creates or truncates, and writes (`Mkdir`, `Open`, `Write`).
  A file that is removed while it is open is written without a name
  (`linked`).  Two writers with the same file open each write from its
  beginning, so the tail of a longer content may stay behind a shorter one:
  such a file is `torn`.  `serve-backends` is started up to `MaxStarts` times;
  it calls RemoveAll twice (`passes`: `backends.go:64` and `certs.go:28`),
  writes a new bundle and spawns its backends after the last file; each
  backend reads the certificate and then the key (`LoadCert`, `LoadKey`).  A
  generator fetches the list, then the bundle, of whichever start is serving
  at that moment.  A stray is a second `serve-backends` that is started while
  one runs: it removes and writes the directory before its bind fails; its
  bundle is its own and nobody is told of it.  (It is followed to the end of
  its writes; the backends it spawns load that bundle too, but are refused or
  end with it.)  A bundle is the number of the start that made it, and
  `StrayBundle` for the strays.
- **`Discovery`**: what a client of `serve-backends` can be told, while that may
  be started again at any time: a list, then the certificates, each of the
  start that runs when it asks.
- **`Routing`**: the way of one request.  `ports[s]` is what the kernel gave
  the backends of start `s`; `leaf[b]` is the bundle of the certificate that
  backend `b` serves; `proxy` is what the running proxy was made from: a list,
  and the bundle its CA file had when the proxy opened it; `requests` is what
  the request files were made from.  Backends and proxies read the directory
  that `CertFiles` is about, in which at any time any bundle may lie that was
  created so far, or that of a stray (`StrayBundles`): so `leaf` and
  `proxy.root` are any of these, each chosen when it is read, and `list` is of
  any start so far, since a generator may be slow.  A generator that is told
  nothing writes no configuration and changes no proxy.  `at` is where the
  request is: a frontend, a section or a cluster by its name in the generated
  configuration.  Each step reads the map, filter chain or server line that
  the code generates there, so that what a request meets is computed from
  `haproxy.go`, `envoy.go` and the templates and not from what it should meet.
  A backend answers if it owns the port that is dialled, speaks what is spoken
  (`Serves`) and has, where the proxy checks it, a certificate of the bundle
  whose root the proxy has (`Verified`).  A request is `fresh` if the list it
  is sent by is the running start's and, for reencrypt, its backend and the
  proxy have read the same bundle.
- **`MC...`** modules give the constants small values.
- **`...Proofs`** modules hold the theorems.

## 3. Runs

| Run | Question | Instance | States |
|---|---|---|---|
| `ServeBackends_delivery` | do count, names, lock and answers agree when registrations are lost, late or repeated and processes fail to come up; is every error after publication reported; does the system implement `Registration`? | 2 backends, 2 attempts; interrupt, transport, bind, setup and crash faults | 2.3 M |
| `ServeBackends_liveness` | does a death or an interrupt end every process, and does the system implement `Rendezvous`? | 2 types, 1 attempt; interrupt, kill, signal and TLS faults | 170 k |
| `ServeBackends_double` | violation, see findings | 2 backends, 2 attempts | |
| `ServeBackends_early` | violation | 1 backend, no fault | |
| `LoadTest_rounds` | are requests conserved, does the report add up, is the test a `ClosedLoop`? | 2 clients, 2 requests, `gomb` | 185 k |
| `LoadTest_liveness` | is no request starved, nobody deadlocked; does an interrupt end it while servers finish? | 2 clients, 2 requests, no stall | 18 k |
| `LoadTest_stall` | violation | 1 client, 1 request | |
| `SyncEnvoy_two` | are watches answered; is one node provisioned, once and completely (`Provisioning`); does a second interrupt end it? | 2 streams of 2 nodes, a break, all faults | 276 k |
| `SyncEnvoy_liveness` | what can make the unlocked append lose a response, and does `Run` end otherwise? | 2 streams of 1 node, a break, rejections, a failed bind; no interrupt | 197 k |
| `SyncEnvoy_panic` | violation | 1 stream, no fault | |
| `CertFiles_overlap` | is the directory complete when all writers are done, whose bundle does a backend serve, what makes it fail to load one, are list and bundle of one start? | 3 files, 2 starts, 1 generator, 1 stray, 1 backend; writers may break | 3.5 M |
| `Routing_restart` | does a request reach the backend it names, over the encryption of its type and checked against the root of the bundle that backend serves, while list, CA, requests and certificates are of different starts; when is it misled; is it answered? | 2 backends per type, 2 starts, 2 ways to bind, both proxies | 508 k |

**Bounds.**  Two backends are the fewest with which one can be counted in
place of the other, be denied, and with which the handler that sends keeps
another waiting; two attempts are the fewest that duplicate a registration
(the code has 17; for any number `RegistrationInv` and `NoLateSender` are
proved).  Two types distinguish `Serve` from `ServeTLS`.  Two clients and two
requests let results come back in another order than they went out.  The
counters of `LoadTest` stop at `MaxCount`, its clock at `MaxTime`; `MaxBreaks`
bounds how often a stream breaks.  `MaxCount` saturates, so that the rounds go
on beyond it.  Of the five files of a bundle `CertFiles_overlap` has three:
the two a backend reads, first and last in the order as in the code, and one
between them; a generator has one bundle, so that two starts are the fewest
with an old one, and the stray, whose RemoveAll runs beside the generator's, makes it
three writers.  Two streams of one node are the fewest whose appends overlap,
and those of two nodes the fewest of which one must not be served.  In
`Routing_restart` the ports of a second start give the port of a backend to
one of the same type, one of another type or to nobody; two backends per type
tell a wrong name from a wrong type; `StrayBundles` is empty there, since the
bundle of another start is already a wrong one, and any set in the theorems.
`CertFiles_overlap` does not check for deadlock, since its commands end, and
`SyncEnvoy_liveness` does not, since `Run` polls for ever after a lost append.

**Fairness.**  `ServeBackends`: weak fairness of each goroutine, handler,
child and of the kernel's delivery of `Pdeathsig`: the scheduler runs what
can run, and the timers in the select, in `Shutdown` and in a client expire.
`LoadTest`: strong fairness of the cases of the select, since Go picks
uniformly among the ready ones, and of each fetcher's result, since the
runtime queues the senders of a channel; weak fairness of the rest; none of
the server that stalled.  `SyncEnvoy`: weak fairness of the goroutines,
strong of the cases of a stream's select; of an Envoy it is assumed that it
connects (again) and asks for both types, which is what its xDS client does
with an ADS configuration, but not that it accepts what it is sent.
`Routing`: weak fairness of `Travel`, the steps of a request under way (proxies
and backends go on with what they have, and a proxy's timeouts end the rest);
none of the commands.  `CertFiles` has no liveness property and no fairness:
the commands are started by hand and may fail.  No fault is fair.

**Faults** are a constant, `Faults`, so that each run names what may go
wrong in it.

## 4. What the runs found

1. *A registration counted twice* (`ServeBackends_double`, `backends.go:116`).
   A backend whose client gave up on a request that was handled registers
   again; the count is incremented although the name was there.  `/backends`
   is then published with a backend missing, and its handler panics;
   the missing backend is told "unexpected registration" and dies.
   `MissingOnlyByRetry` says, and is proved, that nothing else leads there.
2. *A backend that overtakes its parent* (`ServeBackends_early`,
   `backend.go:107`).  Nothing orders the call of `ListenAndServe` before the
   first backend's connection, and ECONNREFUSED is not retried.
3. *A test that does not end* (`LoadTest_stall`, `mb.go:140`).
4. *An index into an empty list* (`SyncEnvoy_panic`, `envoy.go:110`).

Some more disagreements were met that no run is spent on.  `spawnBackend`
passes on neither `--port` nor `--output-dir` (`backends.go:39-46`), so that
with another port than the default every backend is refused: the model has
`Port` and `ChildPort`, which the runs make equal and the theorems leave
open.  `gomb --duration` does not limit the test.

When two streams carry the same node id the unlocked append to
`cb.Responses` (`envoy.go:506`) may lose a response; its type has been
accepted, is not sent again, and `sync-envoy-config` polls for ever.  That is
no odd case: the one bootstrap in the repository, `envoy/envoy-dynamic.yaml`,
gives every Envoy the id `test-id`.  `SyncEnvoy_liveness` has two such streams.
`SyncEnds` fails there without its exception `Undoing` (an append is in
progress that will undo another's), and holds with it: nothing else keeps
`Run` from its end.  `LossNeedsOverlap` says, and it is proved, that a response
is lost only if two appends were in progress at once.

`test` takes the scheme and host of a request from its file and ignores the
port (`mb.go:72-79`), so the files under `requests/direct` go to the port of
the proxy unless `gomb` sends them, and those under `haproxy-reencrypt-only`
never see the SNI-only port.  The listeners of Envoy are at 8080 and 8443
whatever `--http-port` and `--https-port` say (`envoy.go:55`) and there is
none for SNI-only traffic.  Both are in `Routing`; `Supported` sets such
requests apart.  `GenWorkloadCmd.UseProxy` and `useProxy` (`requests.go:117`)
are read nowhere.

Nothing keeps a generator that fetched before a restart of
`serve-backends` from writing the old bundle over the new one, nor a second
`serve-backends` from writing its own: `OwnBundle` says, and it is proved,
that only these make a backend serve another bundle than its parent publishes.
A reencrypt request to it is refused by a proxy with the published CA and
accepted by one that has read the same wrong bundle, which `Routing` follows.

A backend that dies before `/backends` is published makes the command end
without an error: `backends.go:181-182` returns nil.  `ErrorReported` is about
the time after publication.

## 5. Proofs

- **`ServeBackendsProofs`**, for any types, number of backends, attempts,
  ports and set of faults.  The invariant `RegistrationInv` is inductive
  with `TypeOK`.  `RegisteredCountsRequests` (count = number of stored
  requests, names = their senders) alone does not survive a `Register`: one
  needs to know that the lock is held exactly by the one handler that sends
  and that sending or refusing implies a complete count (`SenderInv`), that
  `Run` leaves the select only by that send (`SelectInv`), and which attempts
  have begun (`BegunInv`).  From it follow: a name is missing at
  publication only by a double count, by counting requests against backends;
  a denial needs a retry; no handler is left sending; a 200 means
  the name is stored.  `ErrorsReported` rests on `CancelInv`: the group is
  cancelled by an interrupt or by an error it keeps.
  `ImplementsAtLeastOnce` maps every step to a step of `Registration` or a
  stutter, for any number of attempts; `PublishedIsFinal` follows (the handler
  of `/backends` reads the map without the lock, and what it reads does not
  change any more).  `Implements` is the step from there to `Rendezvous` and
  assumes `Retries = 1`, since with more the double count breaks it: with one
  attempt the count is that of the names (`OnePlaceInv`), so nobody takes two
  places.  `NobodyLeftWaiting` (`ReleaseInv`) is the part of the liveness
  that is a statement about every state: no death goes unnoticed, and whoever
  returns, or is interrupted, has cancelled the group that the others wait
  for.  `NeverPublished`: with no backends, or with another port than the
  backends are started with, nothing is ever registered or published.
- **`RegistrationProofs`**, about the abstract specification alone, for a
  finite set of members and as many places: places are not overdrawn, a
  published list is frozen, it is complete unless somebody joined twice, and
  `RegistrationImplements`: a behaviour in which nobody does is one of
  `Rendezvous`.
- **`LoadTestProofs`**, for any number of clients and requests: types,
  `RequestsConserved` by `LoadInv`, and `ReportAddsUp`; its lemmas on
  sequences without repetition (append, tail, the initial fill) are in the
  module.  `ImplementsLoop` maps each step to a step of `ClosedLoop` or a
  stutter; what is under way is what the fetchers hold, so that the fetchers
  are the clients its `OneClientEach` asks for.  `NeverOutOfWork`, with at
  least one client: once it has started, a fetcher is at work or all are idle
  and a request is pending, which `EveryRequestRuns` needs of every state.
- **`SyncEnvoyProofs`**, for any streams, nodes and breaks: types; the
  inductive `SyncInv` (a stream does one thing at a time, the node is chosen
  before the snapshot and for good, no outdated watch stays open, nobody else
  is served).  Of the unlocked append: `NothingUnrecorded`, for any node ids,
  says that unless two appends have overlapped no response that was sent is
  missing from `cb.Responses`, by `AppendInv`: what a stream read is still
  there when it writes.  `NeverPollsInVain`, under the same exception: what
  `Run` polls for never lies in the cache of a chosen node's open stream
  without being handed out.  `OverlapNeedsSharedId`: only the chosen node's
  streams append, so with a node id of its own for each nothing overlaps.
  `KeepsPromise` maps each step to a step of `Provisioning` or a stutter as
  long as no two appends overlap, by `ChoiceInv` (how far `Run` is tells
  whether there is a node and a snapshot); an append that overlaps could take
  back what was noted. `PromiseToDistinct` is that for distinct node ids.
- **`CertFilesProofs`**, for any files in any order, backends, generators,
  strays, starts and breaks.  That the directory is complete when all are
  quiet is not inductive: `CoverInv` says of each file that it is written, or
  that some command is going to write it or has failed (`ToWrite`).  A writer
  that removes the file of another is before its own writes, so what it takes
  away it covers itself.  `OwnInv` says whose bundle can be in the directory
  once the parent has wiped it and that no file is torn unless two bundles
  met, `AloneInv` how far the parent is while nobody else touches it,
  `ListInv` that a list a generator was told of by this start is still
  published together with the certificates.  `CertDiscovery`: what each
  generator is told is a behaviour of `Discovery`.  `WhatRoutingAssumes`: what
  a backend or a proxy reads is of a bundle created so far, and of the
  parent's once it has wiped the directory unless somebody wrote another.
- **`RoutingProofs`**, for any number of backends, ports of the proxy (other
  than 8080 and 8443 too), bindings, starts and strays.  `RouteInv` says for
  each place what is known there of the request: the port it came by
  (`PlaceInv`), what is spoken and who has opened it (`WireInv`), and, while
  it is fresh, that list and port are those of the running start and the root
  is that of the certificate its backend serves, whichever that is
  (`FreshInv`); `DestInv` says whose port is dialled.  There is one lemma for
  each step; those of both proxies come down to three: a request fails, moves
  on, or is dialled.  `ReachesNamedBackend` needs that no two backends of a
  start share a port and none has a port of the proxy, which the constants
  assume of the kernel.  `TrustNeedsBundle` does not say that the bundle is
  the published one, which need not be so: it says that proxy and backend have
  read the same.  `OnlyRestartMisleads`: another backend answers only at a
  port that the named one had in an earlier start.  `NoCircle`: every step of
  a request brings it nearer to an end (`StepsLeft`, five at most), so that
  with the fairness of `Travel` `FreshIsServed` is left with the question
  whether a step is possible.

The assumptions are those on the constants, named in each module.

Only model-checked: all liveness, because its fairness is about ENABLED, which
the prover does not do; `ReleaseInv`, `WorkInv`, `PollInv` and `NoCircle` are
the parts of it that can be said without.

## 6. Not modelled

The contents of pages, certificates and responses; cryptography (`certgen.go`
makes a new value); the printing command; logging; HTTP beyond request, answer
and refusal; HTTP/2 and the certificate list it is configured in
(`generateCertConfig`); requests without SNI, which nobody sends; the proxies
themselves, beyond the steps that the generated configuration tells them to
take; the operating system's limits on threads and descriptors
(`SetMaxThreads`).  The select's 15 second timer and the clients' timeouts are
events without a clock.  A panic of the `/backends` handler is recovered by
the HTTP server and is not followed further.  The shell scripts start the
commands by hand, and the two interposers are C libraries that answer one call
each.

Hazards without a property: the empty test bed (`--nbackends=0`) and the
options that `spawnBackend` does not hand on, of which `NeverPublished` proves
what comes of them; the race of `Run` with an append, whose panic is an
outcome in the model; the ports of Envoy's listeners, since `Supported` sets
requests to others apart; and `gen-workload` without an answer, which leaves
no request files.

## 7. How the modules fit together

`ServeBackends` implements `Registration`, and that implements `Rendezvous` if
nobody joins twice.  `LoadTest` implements `ClosedLoop`, `SyncEnvoy`
implements `Provisioning` while no appends overlap, and what each generator of
`CertFiles` is told is a behaviour of `Discovery`.  `CertFiles` takes from
`ServeBackends` what it needs of the parent: that `/certs` and `/backends` are
published in this order and only when all backends have registered, that
backends are spawned when the certificates are written, and that a new start
has a new bundle.  `Routing` takes from `CertFiles` no more than
`WhatRoutingAssumes`: lists are of starts so far, and what is read from the
directory is of some bundle created so far, not of the running start's.
`LoadTest` sends the requests that `Routing` follows one at a time.
`SyncEnvoy` delivers the configuration that `Routing` computes for Envoy.
