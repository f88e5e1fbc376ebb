----------------------------- MODULE CertFiles -----------------------------
(***************************************************************************)
(* The directory <output-dir>/certs: `serve-backends' writes a new bundle  *)
(* of certificates into it each time it is started, `gen-proxy-config' and *)
(* `sync-envoy-config' fetch the bundle of the parent and write it into    *)
(* the same directory, and the backends read their key pair from it        *)
(* (perf/certs.go, utils.go, metadata.go; callers in backends.go,          *)
(* backend.go, haproxy.go and envoy.go).                                   *)
(*                                                                         *)
(* Nothing locks the directory.  writeCertificates is RemoveAll followed   *)
(* by one createFile for each file, and each of these is several calls of  *)
(* the system, which are the steps of this module.                         *)
(*                                                                         *)
(* A second `serve-backends' that is started by mistake, while one runs,   *)
(* removes and writes the directory as well: nothing stops it before it    *)
(* has tried to listen, beside that.  It is a writer whose bundle nobody   *)
(* is told of.                                                             *)
(***************************************************************************)
EXTENDS Integers, Sequences, FiniteSets

CONSTANTS
  WriteOrder,  \* the files in the order in which they are written
  DomainFile,  \* domain.pem, where a backend finds its certificate
  TLSKeyFile,  \* tls.key, where it finds the key
  Backends,    \* the backends that call ServeTLS
  Generators,  \* the runs of gen-proxy-config and sync-envoy-config
  Strays,      \* the runs of serve-backends beside another
  StrayBundle, \* the bundle that each of these creates
  MaxStarts,   \* bound: how often serve-backends is started
  Faults       \* "break": a call fails, or the command is killed while it writes

Files == {WriteOrder[i] : i \in DOMAIN WriteOrder}

Parent == "serve-backends"
Writers == {Parent} \cup Generators \cup Strays

ASSUME ConstantsAssumption ==
  /\ WriteOrder \in Seq(STRING) /\ WriteOrder # <<>>
  /\ \A i, j \in DOMAIN WriteOrder : WriteOrder[i] = WriteOrder[j] => i = j
  /\ DomainFile \in Files /\ TLSKeyFile \in Files
  /\ Parent \notin Generators \cup Strays /\ Generators \cap Strays = {}
  /\ MaxStarts \in Nat
  /\ StrayBundle \in [Strays -> Nat \ (0 .. MaxStarts)]
  /\ \A v, w \in Strays : StrayBundle[v] = StrayBundle[w] => v = w
  /\ Faults \subseteq {"break"}

\* A bundle is known by the start of serve-backends that created it.
Starts == 1 .. MaxStarts
Bundles == Starts \cup {StrayBundle[w] : w \in Strays}
Absent == -1
Empty  == 0

VARIABLES
  start,    \* how often serve-backends was started
  file,     \* the bundle that each file begins with
  torn,     \* the files whose last line another's tail has spoiled
  there,    \* the directory exists
  pc,       \* where each command is
  passes,   \* the calls of RemoveAll it has yet to finish
  todo,     \* the files RemoveAll has listed and not removed
  next,     \* the file writeCertificates is at
  linked,   \* the file it has open is still the one of that name
  bundle,   \* the bundle it writes, 0 before it has one
  list,     \* the start whose backends it was told of, 0 before it was
  routes,   \* the metadata handlers of the parent
  load,     \* ServeTLS of each backend of the last start
  cert,     \* the certificate it has read
  touched   \* history: who changed the directory since the last start

dir     == <<file, torn, there>>
writer  == <<passes, todo, next, linked>>
fetched == <<bundle, list>>
backend == <<load, cert>>
vars == <<start, dir, pc, writer, fetched, routes, backend, touched>>

Writing(w) == pc[w] \in {"list", "unlink", "mkdir", "open", "write"}
Name(w)    == WriteOrder[next[w]]
Serving    == pc[Parent] = "done"

Goto(w, where) == pc' = [pc EXCEPT ![w] = where]
Touch(w) == touched' = touched \cup ({w} \ {Parent})

-----------------------------------------------------------------------------
Init ==
  /\ start = 0
  /\ file = [f \in Files |-> Absent] /\ torn = {} /\ there = FALSE
  /\ pc = [w \in Writers |-> "idle"]
  /\ passes = [w \in Writers |-> 1]
  /\ todo = [w \in Writers |-> {}]
  /\ next = [w \in Writers |-> 1]
  /\ linked = [w \in Writers |-> FALSE]
  /\ bundle = [w \in Writers |-> 0] /\ list = [w \in Writers |-> 0]
  /\ routes = {}
  /\ load = [b \in Backends |-> "off"] /\ cert = [b \in Backends |-> 0]
  /\ touched = {}

\* A new parent has no backends yet.
SpawnedFirst == load' = [b \in Backends |-> "cert"]
Unspawned    == load' = [b \in Backends |-> "off"]

\* serve-backends is started, for the first time or after it ended.  It calls
\* RemoveAll, creates the certificates and calls writeCertificates.
StartParent ==
  /\ pc[Parent] \in {"idle", "ended", "failed"} /\ start < MaxStarts
  /\ start' = start + 1
  /\ bundle' = [bundle EXCEPT ![Parent] = start + 1]
  /\ passes' = [passes EXCEPT ![Parent] = 2]
  /\ Goto(Parent, "list")
  /\ Unspawned
  /\ touched' = {}
  /\ UNCHANGED <<dir, todo, next, linked, list, routes, cert>>

\* The order of the two handlers in the mux.
PublishBackendsFirst ==
  routes' = IF routes = {} THEN {"/backends"} ELSE {"/certs", "/backends"}
Published ==
  routes' = IF routes = {} THEN {"/certs"} ELSE {"/certs", "/backends"}

Publish ==
  /\ Serving /\ "/backends" \notin routes
  /\ Published
  /\ UNCHANGED <<start, dir, pc, writer, fetched, backend, touched>>

\* It is interrupted, is killed, or a backend dies.
EndParent ==
  /\ Serving
  /\ Goto(Parent, "ended")
  /\ routes' = {}
  /\ UNCHANGED <<start, dir, writer, fetched, backend, touched>>

\* It is not going to be the parent, whose port it finds taken.
StartStray(w) ==
  /\ pc[w] = "idle" /\ pc[Parent] \notin {"idle", "ended", "failed"}
  /\ bundle' = [bundle EXCEPT ![w] = StrayBundle[w]]
  /\ passes' = [passes EXCEPT ![w] = 2]
  /\ Goto(w, "list")
  /\ UNCHANGED <<start, dir, todo, next, linked, list, routes, backend, touched>>

-----------------------------------------------------------------------------
(* What a generator is told; without an answer of 200 it returns an error. *)

FetchBackends(w) ==
  /\ pc[w] = "idle"
  /\ IF Serving /\ "/backends" \in routes
     THEN list' = [list EXCEPT ![w] = start] /\ Goto(w, "certs")
     ELSE UNCHANGED list /\ Goto(w, "refused")
  /\ UNCHANGED <<start, dir, writer, bundle, routes, backend, touched>>

FetchCertificates(w) ==
  /\ pc[w] = "certs"
  /\ IF Serving /\ "/certs" \in routes
     THEN bundle' = [bundle EXCEPT ![w] = start] /\ Goto(w, "list")
     ELSE UNCHANGED bundle /\ Goto(w, "refused")
  /\ UNCHANGED <<start, dir, writer, list, routes, backend, touched>>

-----------------------------------------------------------------------------
(* os.RemoveAll: it reads the directory once, removes what it read, then   *)
(* the directory, which fails if somebody has created a file meanwhile.    *)

List(w) ==
  /\ pc[w] = "list"
  /\ todo' = [todo EXCEPT ![w] = {f \in Files : file[f] # Absent}]
  /\ Goto(w, "unlink")
  /\ UNCHANGED <<start, dir, passes, next, linked, fetched, routes, backend, touched>>

\* Who has the file open goes on writing, to a file without a name.
Unlinked(f) ==
  /\ file' = [file EXCEPT ![f] = Absent] /\ torn' = torn \ {f}
  /\ linked' = [v \in Writers |-> linked[v] /\ Name(v) # f]

Unlink(w) ==
  /\ pc[w] = "unlink"
  /\ \E f \in todo[w] :
       /\ Unlinked(f)
       /\ todo' = [todo EXCEPT ![w] = @ \ {f}]
  /\ Touch(w)
  /\ UNCHANGED <<start, there, pc, passes, next, fetched, routes, backend>>

Rmdir(w) ==
  /\ pc[w] = "unlink" /\ todo[w] = {}
  /\ IF \E f \in Files : file[f] # Absent
     THEN Goto(w, "failed") /\ UNCHANGED <<there, passes, next, touched>>
     ELSE /\ there' = FALSE
          /\ IF passes[w] > 1
             THEN /\ Goto(w, "list") /\ UNCHANGED next
                  /\ passes' = [passes EXCEPT ![w] = @ - 1]
             ELSE /\ Goto(w, "mkdir") /\ UNCHANGED passes
                  /\ next' = [next EXCEPT ![w] = 1]
          /\ Touch(w)
  /\ UNCHANGED <<start, file, torn, todo, linked, fetched, routes, backend>>

-----------------------------------------------------------------------------
(* createFile, once for each file.                                         *)

\* The MkdirAll of writeCertificates itself is the first of these.
Mkdir(w) ==
  /\ pc[w] = "mkdir"
  /\ there' = TRUE
  /\ Goto(w, "open")
  /\ Touch(w)
  /\ UNCHANGED <<start, file, torn, writer, fetched, routes, backend>>

\* os.Create truncates a file that is there, and fails without a directory.
Open(w) ==
  /\ pc[w] = "open"
  /\ IF there
     THEN /\ file' = [file EXCEPT ![Name(w)] = Empty] /\ torn' = torn \ {Name(w)}
          /\ linked' = [linked EXCEPT ![w] = TRUE]
          /\ Goto(w, "write")
          /\ Touch(w)
     ELSE Goto(w, "failed") /\ UNCHANGED <<file, torn, linked, touched>>
  /\ UNCHANGED <<start, there, passes, todo, next, fetched, routes, backend>>

LastTooLate(w) == next[w] > Len(WriteOrder)
LastButOne(w) == next[w] + 1 >= Len(WriteOrder)
Last(w) == next[w] = Len(WriteOrder)

\* After the last file the parent spawns its backends, which begin to load.
SpawnedEarly(w) == load' = [b \in Backends |-> IF w = Parent THEN "cert" ELSE load[b]]
Spawned(w) ==
  load' = IF w = Parent /\ Last(w) THEN [b \in Backends |-> "cert"] ELSE load

\* Each writes from the beginning of the file, which was truncated only when
\* it was opened: what another has written meanwhile, if it was longer, goes on
\* behind the last line, which has no end of its own.
Put(w) ==
  LET f == Name(w) IN
  /\ file' = [file EXCEPT ![f] = bundle[w]]
  /\ IF file[f] \in Bundles \ {bundle[w]}
     THEN torn' \in {torn \cup {f}, torn \ {f}}
     ELSE UNCHANGED torn

Write(w) ==
  /\ pc[w] = "write"
  /\ IF linked[w] THEN Put(w) ELSE UNCHANGED <<file, torn>>
  /\ linked' = [linked EXCEPT ![w] = FALSE]
  /\ IF Last(w)
     THEN Goto(w, "done") /\ UNCHANGED next
     ELSE Goto(w, "mkdir") /\ next' = [next EXCEPT ![w] = @ + 1]
  /\ Spawned(w)
  /\ Touch(w)
  /\ UNCHANGED <<start, there, passes, todo, fetched, routes, cert>>

Break(w) ==
  /\ "break" \in Faults /\ Writing(w)
  /\ Goto(w, "failed")
  /\ linked' = [linked EXCEPT ![w] = FALSE]
  /\ UNCHANGED <<start, dir, passes, todo, next, fetched, routes, backend, touched>>

-----------------------------------------------------------------------------
(* tls.LoadX509KeyPair of a backend: two files, one after the other.  Of   *)
(* domain.pem it takes the first certificate, which nothing spoils.        *)

LoadCert(b) ==
  /\ load[b] = "cert"
  /\ cert' = [cert EXCEPT ![b] = file[DomainFile]]
  /\ load' = [load EXCEPT ![b] = IF file[DomainFile] \in Bundles THEN "key" ELSE "failed"]
  /\ UNCHANGED <<start, dir, pc, writer, fetched, routes, touched>>

Matches(b) == file[TLSKeyFile] = cert[b] /\ TLSKeyFile \notin torn

LoadKey(b) ==
  /\ load[b] = "key"
  /\ load' = [load EXCEPT ![b] = IF Matches(b) THEN "up" ELSE "failed"]
  /\ UNCHANGED <<start, dir, pc, writer, fetched, routes, cert, touched>>

-----------------------------------------------------------------------------
WriteCertificates(w) == List(w) \/ Unlink(w) \/ Rmdir(w) \/ Mkdir(w) \/ Open(w) \/ Write(w)
Load(b) == LoadCert(b) \/ LoadKey(b)

Next ==
  \/ StartParent \/ Publish \/ EndParent
  \/ \E w \in Strays : StartStray(w)
  \/ \E w \in Generators : FetchBackends(w) \/ FetchCertificates(w)
  \/ \E w \in Writers : WriteCertificates(w) \/ Break(w)
  \/ \E b \in Backends : Load(b)

Spec == Init /\ [][Next]_vars

-----------------------------------------------------------------------------
(* Properties.                                                             *)

CommandTypeOK ==
  /\ pc \in [Writers -> {"idle", "certs", "refused", "list", "unlink", "mkdir",
                         "open", "write", "done", "failed", "ended"}]
  /\ passes \in [Writers -> 1 .. 2]
  /\ todo \in [Writers -> SUBSET Files]
  /\ next \in [Writers -> DOMAIN WriteOrder]
  /\ linked \in [Writers -> BOOLEAN]
  /\ bundle \in [Writers -> {0} \cup Bundles]
  /\ list \in [Writers -> 0 .. MaxStarts]

\* The type invariant.
TypeOK ==
  /\ start \in 0 .. MaxStarts
  /\ file \in [Files -> {Absent, Empty} \cup Bundles] /\ torn \subseteq Files
  /\ there \in BOOLEAN
  /\ CommandTypeOK
  /\ routes \subseteq {"/certs", "/backends"}
  /\ load \in [Backends -> {"off", "cert", "key", "up", "failed"}]
  /\ cert \in [Backends -> {Absent, Empty} \cup Bundles]
  /\ touched \subseteq Generators \cup Strays

Quiet == \A w \in Writers : ~Writing(w) /\ pc[w] # "failed"

\* Somebody writes another bundle than the parent's, as a generator does that
\* was told of it before a restart, or a stray serve-backends.
Stale == \E w \in touched : bundle[w] # start

\* However writers overlap, once all are done and none has failed every file
\* is there and written: what one removes of another's it writes itself.  And
\* each is written to its end, unless writers of two bundles met in it.
CompleteWhenQuiet ==
  start > 0 /\ Quiet =>
    /\ \A f \in Files : file[f] \in Bundles
    /\ torn = {} \/ Stale

\* A backend serves the bundle of its own parent, which is the one published
\* at /certs, unless somebody has written another one since.
OwnBundle ==
  \A b \in Backends : load[b] = "up" /\ cert[b] # start => Stale

\* A backend finds a pair that matches, unless another command rewrote the
\* directory it was started with.
LoadNeedsRewrite ==
  (\E b \in Backends : load[b] = "failed") => touched # {}

\* Who was told of the backends can be told of the certificates by the same
\* parent; and the list is never of a later start than the certificates.
FetchOrder ==
  \A w \in Generators :
    /\ pc[w] = "certs" /\ list[w] = start /\ Serving => "/certs" \in routes
    /\ bundle[w] # 0 => list[w] <= bundle[w]

-----------------------------------------------------------------------------
(* Why they hold: an inductive invariant.                                  *)

\* Who writes has a bundle: its own, or one of a start that has been.
BundleInv ==
  /\ start > 0 => bundle[Parent] = start
  /\ pc[Parent] # "idle" <=> start > 0
  /\ pc[Parent] \notin {"certs", "refused"}
  /\ \A w \in Writers :
       /\ w \notin Strays => bundle[w] <= start
       /\ list[w] <= start
       /\ Writing(w) => bundle[w] # 0
  /\ \A w \in Strays : bundle[w] \in {0, StrayBundle[w]}

\* The command is going to write the file that is the i-th in the order.
ToWrite(w, i) ==
  \/ pc[w] \in {"list", "unlink"}
  \/ pc[w] \in {"mkdir", "open"} /\ i >= next[w]
  \/ pc[w] = "write" /\ (i > next[w] \/ (i = next[w] /\ linked[w]))

\* Each file is there, or somebody is going to write it, or has failed to.
CoverInv ==
  start > 0 =>
    \A i \in DOMAIN WriteOrder :
      file[WriteOrder[i]] \in Bundles \/ \E w \in Writers : pc[w] = "failed" \/ ToWrite(w, i)

Wiped == pc[Parent] \in {"mkdir", "open", "write", "done", "ended"}

\* Once the parent has removed all, an earlier bundle comes back only with a
\* generator that has it, and the backends read after that.
OwnInv ==
  /\ \A f \in torn : file[f] \in Bundles
  /\ Wiped => Stale \/ (torn = {} /\ \A f \in Files : file[f] \in {Absent, Empty, start})
  /\ \A w \in touched : pc[w] \in {"list", "unlink", "mkdir", "open", "write", "done", "failed"}
  /\ \A b \in Backends :
       /\ load[b] # "off" => pc[Parent] \in {"done", "ended"}
       /\ load[b] \in {"key", "up"} => cert[b] = start \/ Stale

\* While nobody else touches the directory the parent gets through it.
AloneInv ==
  touched = {} =>
    /\ \A i \in DOMAIN WriteOrder :
         pc[Parent] \in {"done", "ended"} \/ (pc[Parent] \in {"mkdir", "open", "write"} /\ i < next[Parent])
           => file[WriteOrder[i]] = start
    /\ pc[Parent] = "write" => linked[Parent]
    /\ \A b \in Backends : load[b] # "failed" /\ (load[b] \in {"key", "up"} => cert[b] = start)

\* What a parent has published it goes on publishing.
ListInv ==
  /\ "/backends" \in routes => "/certs" \in routes
  /\ \A w \in Generators :
       /\ pc[w] = "certs" /\ list[w] = start =>
            ~Writing(Parent) /\ (Serving => "/backends" \in routes)
       /\ pc[w] \in {"idle", "certs"} => bundle[w] = 0
       /\ bundle[w] # 0 => list[w] <= bundle[w]

\* The conjunction is inductive with the types.
CertInv == BundleInv /\ CoverInv /\ OwnInv /\ AloneInv /\ ListInv
=============================================================================
