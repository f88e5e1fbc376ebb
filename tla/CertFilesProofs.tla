-------------------------- MODULE CertFilesProofs --------------------------
(***************************************************************************)
(* Theorems about CertFiles, for any files in any order, any number of     *)
(* backends, generators, strays and starts, whatever breaks.               *)
(***************************************************************************)
EXTENDS CertFiles, TLAPS

States == {"idle", "certs", "refused", "list", "unlink", "mkdir", "open", "write",
           "done", "failed", "ended"}
Loads == {"off", "cert", "key", "up", "failed"}
Contents == {Absent, Empty} \cup Bundles

\* The order is a sequence, and a file has one place in it.
LEMMA OrderFacts ==
  /\ Len(WriteOrder) \in Nat \ {0}
  /\ DOMAIN WriteOrder = 1 .. Len(WriteOrder)
  /\ \A i, j \in DOMAIN WriteOrder : WriteOrder[i] = WriteOrder[j] => i = j
  /\ \A i \in DOMAIN WriteOrder : WriteOrder[i] \in Files
  /\ DomainFile \in Files /\ TLSKeyFile \in Files
  /\ \A f \in Files : \E i \in DOMAIN WriteOrder : f = WriteOrder[i]
  /\ Parent \in Writers /\ Parent \notin Generators /\ Parent \notin Strays
  /\ \A w \in Writers : w # Parent => w \in Generators \cup Strays
  /\ \A w \in Generators : w \in Writers /\ w \notin Strays
  /\ \A w \in Strays : w \in Writers /\ w \notin Generators
  /\ MaxStarts \in Nat
  BY ConstantsAssumption DEF ConstantsAssumption, Files, Writers

\* A stray's bundle is none of a start.
LEMMA BundleFacts ==
  /\ Starts \subseteq Bundles /\ Bundles \subseteq Nat \ {0}
  /\ \A w \in Strays : StrayBundle[w] \in Bundles /\ StrayBundle[w] \notin Starts
  /\ 0 \notin Bundles /\ Absent \notin Bundles
<1>1. MaxStarts \in Nat /\ StrayBundle \in [Strays -> Nat \ (0 .. MaxStarts)]
  BY ConstantsAssumption DEF ConstantsAssumption
<1>2. \A w \in Strays : StrayBundle[w] \in Nat /\ StrayBundle[w] \notin 0 .. MaxStarts
  BY <1>1
<1>3. 0 \in 0 .. MaxStarts /\ Starts \subseteq 0 .. MaxStarts /\ Starts \subseteq Nat \ {0}
  BY <1>1 DEF Starts
<1>4. \A w \in Strays : StrayBundle[w] \in Nat \ {0} /\ StrayBundle[w] \notin Starts
  BY <1>1, <1>2, <1>3
<1>5. Bundles \subseteq Nat \ {0}
  BY <1>3, <1>4 DEF Bundles
<1>6. Absent \notin Nat
  BY DEF Absent
<1> QED
  BY <1>4, <1>5, <1>6 DEF Bundles

-----------------------------------------------------------------------------
(* Types.                                                                  *)

\* What a change of place in one command keeps.
LEMMA GotoType ==
  ASSUME TypeOK, NEW w \in Writers, NEW where \in States, Goto(w, where)
  PROVE  pc' \in [Writers -> States]
  BY DEF TypeOK, CommandTypeOK, Goto, States

LEMMA TouchType ==
  ASSUME TypeOK, NEW w \in Writers, Touch(w)
  PROVE  touched' \subseteq Generators \cup Strays
  BY OrderFacts DEF TypeOK, Touch

LEMMA InitType == Init => TypeOK
<1> SUFFICES ASSUME Init PROVE TypeOK
  OBVIOUS
<1>1. 1 \in DOMAIN WriteOrder /\ MaxStarts \in Nat
  BY OrderFacts
<1>2. CommandTypeOK
  BY <1>1 DEF Init, CommandTypeOK
<1>3. start \in 0 .. MaxStarts
  BY <1>1 DEF Init
<1>4. file \in [Files -> Contents] /\ cert \in [Backends -> Contents]
  BY DEF Init, Contents, Empty
<1> QED
  BY <1>2, <1>3, <1>4 DEF Init, TypeOK, Contents

LEMMA ParentType ==
  ASSUME TypeOK, StartParent \/ Publish \/ EndParent \/ \E w \in Strays : StartStray(w)
  PROVE  TypeOK'
<1> USE OrderFacts
<1>1. CASE StartParent
  <2>1. pc' \in [Writers -> States]
    BY <1>1, GotoType DEF StartParent, States
  <2>2. start' \in 0 .. MaxStarts /\ start + 1 \in 0 .. MaxStarts
    BY <1>1 DEF StartParent, TypeOK
  <2>3. /\ bundle' \in [Writers -> {0} \cup Bundles]
        /\ passes' \in [Writers -> 1 .. 2]
    <3>1. start + 1 \in Bundles
      BY <1>1, <2>2, BundleFacts DEF StartParent, TypeOK, Starts
    <3> QED
      BY <1>1, <3>1 DEF StartParent, TypeOK, CommandTypeOK
  <2>4. CommandTypeOK'
    BY <1>1, <2>1, <2>3 DEF StartParent, TypeOK, CommandTypeOK, States
  <2> QED
    BY <1>1, <2>2, <2>4 DEF StartParent, TypeOK, Unspawned, dir
<1>2. CASE Publish
  BY <1>2 DEF Publish, Published, TypeOK, CommandTypeOK, dir, writer, fetched, backend
<1>3. CASE EndParent
  <2>1. pc' \in [Writers -> States]
    BY <1>3, GotoType DEF EndParent, States
  <2> QED
    BY <1>3, <2>1 DEF EndParent, TypeOK, CommandTypeOK, States, dir, writer, fetched, backend
<1>4. ASSUME NEW w \in Strays, StartStray(w) PROVE TypeOK'
  <2>1. pc' \in [Writers -> States]
    BY <1>4, GotoType DEF StartStray, States
  <2>2. bundle' \in [Writers -> {0} \cup Bundles] /\ passes' \in [Writers -> 1 .. 2]
    BY <1>4, BundleFacts DEF StartStray, TypeOK, CommandTypeOK
  <2> QED
    BY <1>4, <2>1, <2>2 DEF StartStray, TypeOK, CommandTypeOK, States, dir, backend
<1> QED
  BY <1>1, <1>2, <1>3, <1>4

LEMMA FetchType ==
  ASSUME TypeOK, NEW w \in Generators, FetchBackends(w) \/ FetchCertificates(w)
  PROVE  TypeOK'
<1>1. w \in Writers
  BY DEF Writers
<1>2. pc' \in [Writers -> States]
  BY <1>1, GotoType DEF FetchBackends, FetchCertificates, States
<1>3. list' \in [Writers -> 0 .. MaxStarts] /\ bundle' \in [Writers -> {0} \cup Bundles]
  <2>1. start \in {0} \cup Bundles
    BY BundleFacts, OrderFacts DEF TypeOK, Starts
  <2> QED
    BY <2>1 DEF FetchBackends, FetchCertificates, TypeOK, CommandTypeOK
<1> QED
  BY <1>2, <1>3 DEF FetchBackends, FetchCertificates, TypeOK, CommandTypeOK, States,
                    dir, writer, backend

LEMMA RemoveType ==
  ASSUME TypeOK, NEW w \in Writers, List(w) \/ Unlink(w) \/ Rmdir(w)
  PROVE  TypeOK'
<1> USE OrderFacts
<1>1. CASE List(w)
  <2>1. pc' \in [Writers -> States]
    BY <1>1, GotoType DEF List, States
  <2>2. todo' \in [Writers -> SUBSET Files]
    BY <1>1 DEF List, TypeOK, CommandTypeOK
  <2> QED
    BY <1>1, <2>1, <2>2 DEF List, TypeOK, CommandTypeOK, States, dir, fetched, backend
<1>2. CASE Unlink(w)
  <2>1. PICK f \in todo[w] : Unlinked(f) /\ todo' = [todo EXCEPT ![w] = @ \ {f}]
    BY <1>2 DEF Unlink
  <2>2. f \in Files
    BY <2>1 DEF TypeOK, CommandTypeOK
  <2>3. file' \in [Files -> Contents] /\ torn' \subseteq Files
    BY <2>1, <2>2 DEF Unlinked, TypeOK, Contents
  <2>4. linked' \in [Writers -> BOOLEAN]
    BY <2>1 DEF Unlinked, TypeOK, CommandTypeOK
  <2>5. todo' \in [Writers -> SUBSET Files]
    BY <2>1 DEF TypeOK, CommandTypeOK
  <2>6. touched' \subseteq Generators \cup Strays
    BY <1>2, TouchType DEF Unlink
  <2> QED
    BY <1>2, <2>3, <2>4, <2>5, <2>6
    DEF Unlink, TypeOK, CommandTypeOK, Contents, fetched, backend
<1>3. CASE Rmdir(w)
  <2>1. pc' \in [Writers -> States]
    BY <1>3, GotoType DEF Rmdir, States
  <2>2. touched' \subseteq Generators \cup Strays
    BY <1>3, TouchType DEF Rmdir, TypeOK
  <2>3. passes' \in [Writers -> 1 .. 2]
    <3>1. passes' = passes \/ (passes[w] > 1 /\ passes' = [passes EXCEPT ![w] = passes[w] - 1])
      BY <1>3 DEF Rmdir
    <3>2. passes \in [Writers -> 1 .. 2] /\ passes[w] \in 1 .. 2
      BY DEF TypeOK, CommandTypeOK
    <3>3. passes[w] > 1 => passes[w] - 1 \in 1 .. 2
      BY <3>2
    <3> QED
      BY <3>1, <3>2, <3>3
  <2>4. next' \in [Writers -> DOMAIN WriteOrder]
    <3>1. next' = next \/ next' = [next EXCEPT ![w] = 1]
      BY <1>3 DEF Rmdir
    <3>2. next \in [Writers -> DOMAIN WriteOrder] /\ 1 \in DOMAIN WriteOrder
      BY DEF TypeOK, CommandTypeOK
    <3> QED
      BY <3>1, <3>2
  <2>5. there' \in BOOLEAN
    BY <1>3 DEF Rmdir, TypeOK
  <2> QED
    BY <1>3, <2>1, <2>2, <2>3, <2>4, <2>5
    DEF Rmdir, TypeOK, CommandTypeOK, States, fetched, backend
<1> QED
  BY <1>1, <1>2, <1>3

LEMMA CreateType ==
  ASSUME TypeOK, NEW w \in Writers, Mkdir(w) \/ Open(w) \/ Write(w) \/ Break(w)
  PROVE  TypeOK'
<1> USE OrderFacts
<1>1. CASE Mkdir(w)
  <2>1. pc' \in [Writers -> States] /\ touched' \subseteq Generators \cup Strays
    BY <1>1, GotoType, TouchType DEF Mkdir, States
  <2> QED
    BY <1>1, <2>1 DEF Mkdir, TypeOK, CommandTypeOK, States, writer, fetched, backend
<1>2. CASE Open(w)
  <2>1. pc' \in [Writers -> States]
    BY <1>2, GotoType DEF Open, States
  <2>2. touched' \subseteq Generators \cup Strays
    BY <1>2, TouchType DEF Open, TypeOK
  <2>3. Name(w) \in Files
    BY DEF TypeOK, CommandTypeOK, Name
  <2>4. file' \in [Files -> Contents]
    BY <1>2, <2>3 DEF Open, TypeOK, Contents
  <2>5. linked' \in [Writers -> BOOLEAN] /\ torn' \subseteq Files
    <3>1. linked' = linked \/ linked' = [linked EXCEPT ![w] = TRUE]
      BY <1>2 DEF Open
    <3>2. linked' \in [Writers -> BOOLEAN]
      BY <3>1 DEF TypeOK, CommandTypeOK
    <3>3. torn' \subseteq torn
      BY <1>2 DEF Open
    <3> QED
      BY <3>2, <3>3 DEF TypeOK
  <2> QED
    BY <1>2, <2>1, <2>2, <2>4, <2>5 DEF Open, TypeOK, CommandTypeOK, States, Contents, fetched, backend
<1>3. CASE Write(w)
  <2>1. pc' \in [Writers -> States]
    BY <1>3, GotoType DEF Write, States
  <2>2. touched' \subseteq Generators \cup Strays
    BY <1>3, TouchType DEF Write
  <2>3. Name(w) \in Files
    BY DEF TypeOK, CommandTypeOK, Name
  <2>4. bundle[w] \in Contents
    BY DEF TypeOK, CommandTypeOK, Contents, Empty
  <2>5. file' \in [Files -> Contents] /\ linked' \in [Writers -> BOOLEAN] /\ torn' \subseteq Files
    <3>1. file' = file \/ file' = [file EXCEPT ![Name(w)] = bundle[w]]
      BY <1>3 DEF Write, Put
    <3>2. torn' \subseteq torn \cup {Name(w)}
      BY <1>3 DEF Write, Put
    <3>3. linked' \in [Writers -> BOOLEAN]
      BY <1>3 DEF Write, TypeOK, CommandTypeOK
    <3>4. file' \in [Files -> Contents]
      BY <2>4, <3>1 DEF TypeOK, Contents
    <3> QED
      BY <2>3, <3>2, <3>3, <3>4 DEF TypeOK
  <2>6. next' \in [Writers -> DOMAIN WriteOrder]
    <3>1. next' = next \/ (next[w] # Len(WriteOrder) /\ next' = [next EXCEPT ![w] = next[w] + 1])
      BY <1>3 DEF Write, Last
    <3>2. next \in [Writers -> 1 .. Len(WriteOrder)] /\ next[w] \in 1 .. Len(WriteOrder)
      BY DEF TypeOK, CommandTypeOK
    <3>3. next[w] # Len(WriteOrder) => next[w] + 1 \in 1 .. Len(WriteOrder)
      BY <3>2
    <3> QED
      BY <3>1, <3>2, <3>3
  <2>7. load' \in [Backends -> Loads]
    BY <1>3 DEF Write, Spawned, TypeOK, Loads
  <2> QED
    BY <1>3, <2>1, <2>2, <2>5, <2>6, <2>7
    DEF Write, TypeOK, CommandTypeOK, States, Contents, Loads, fetched
<1>4. CASE Break(w)
  <2>1. pc' \in [Writers -> States] /\ linked' \in [Writers -> BOOLEAN]
    BY <1>4, GotoType DEF Break, States, TypeOK, CommandTypeOK
  <2> QED
    BY <1>4, <2>1 DEF Break, TypeOK, CommandTypeOK, States, dir, fetched, backend
<1> QED
  BY <1>1, <1>2, <1>3, <1>4

LEMMA LoadType ==
  ASSUME TypeOK, NEW b \in Backends, LoadCert(b) \/ LoadKey(b)
  PROVE  TypeOK'
<1>1. load' \in [Backends -> Loads] /\ cert' \in [Backends -> Contents]
  BY OrderFacts DEF LoadCert, LoadKey, TypeOK, Loads, Contents
<1> QED
  BY <1>1 DEF LoadCert, LoadKey, TypeOK, CommandTypeOK, Loads, Contents, dir, writer, fetched

LEMMA StepType == TypeOK /\ [Next]_vars => TypeOK'
<1> SUFFICES ASSUME TypeOK, [Next]_vars PROVE TypeOK'
  OBVIOUS
<1>1. CASE UNCHANGED vars
  BY <1>1 DEF vars, dir, writer, fetched, backend, TypeOK, CommandTypeOK
<1> QED
  BY <1>1, ParentType, FetchType, RemoveType, CreateType, LoadType
  DEF Next, WriteCertificates, Load

\* Every variable keeps its type.
THEOREM CertTypeCorrect == Spec => []TypeOK
  BY InitType, StepType, PTL DEF Spec

-----------------------------------------------------------------------------
(* The invariant, conjunct by conjunct.                                    *)

WritingStates == {"list", "unlink", "mkdir", "open", "write"}

\* One command moves and the others stay where they are.
LEMMA GotoOne ==
  ASSUME TypeOK, NEW w \in Writers, NEW where, Goto(w, where)
  PROVE  pc'[w] = where /\ \A v \in Writers : v # w => pc'[v] = pc[v]
  BY DEF TypeOK, CommandTypeOK, Goto

\* A step of a command that writes: from one place of writing to the next,
\* to the end or to a failure.
LEMMA WriterStep ==
  ASSUME TypeOK, NEW w \in Writers, WriteCertificates(w) \/ Break(w)
  PROVE  /\ Writing(w) /\ UNCHANGED <<start, bundle, list, routes, cert>>
         /\ pc'[w] \in WritingStates \cup {"done", "failed"}
         /\ \A v \in Writers : v # w => pc'[v] = pc[v]
<1>1. CASE List(w)
  BY <1>1, GotoOne DEF List, Writing, WritingStates, dir, fetched, backend
<1>2. CASE Unlink(w)
  BY <1>2 DEF Unlink, Writing, WritingStates, fetched, backend
<1>3. CASE Rmdir(w)
  <2>1. \E where \in {"failed", "list", "mkdir"} : Goto(w, where)
    BY <1>3 DEF Rmdir
  <2> QED
    BY <1>3, <2>1, GotoOne DEF Rmdir, Writing, WritingStates, fetched, backend
<1>4. CASE Mkdir(w)
  BY <1>4, GotoOne DEF Mkdir, Writing, WritingStates, fetched, backend
<1>5. CASE Open(w)
  <2>1. \E where \in {"failed", "write"} : Goto(w, where)
    BY <1>5 DEF Open
  <2> QED
    BY <1>5, <2>1, GotoOne DEF Open, Writing, WritingStates, fetched, backend
<1>6. CASE Write(w)
  <2>1. \E where \in {"done", "mkdir"} : Goto(w, where)
    BY <1>6 DEF Write
  <2> QED
    BY <1>6, <2>1, GotoOne DEF Write, Writing, WritingStates, fetched
<1>7. CASE Break(w)
  BY <1>7, GotoOne DEF Break, Writing, WritingStates, dir, fetched, backend
<1> QED
  BY <1>1, <1>2, <1>3, <1>4, <1>5, <1>6, <1>7 DEF WriteCertificates

\* A backend that reads changes nothing but what it has read.
LEMMA LoadStep ==
  ASSUME NEW b \in Backends, Load(b)
  PROVE  UNCHANGED <<start, dir, pc, writer, fetched, routes, touched>>
  BY DEF Load, LoadCert, LoadKey, dir, writer, fetched

LEMMA BundleStep ==
  ASSUME TypeOK, BundleInv, [Next]_vars
  PROVE  BundleInv'
<1> USE OrderFacts
<1>1. CASE StartParent
  <2>1. pc'[Parent] = "list" /\ \A w \in Writers : w # Parent => pc'[w] = pc[w]
    BY <1>1, GotoOne DEF StartParent
  <2>2. start' = start + 1 /\ start \in Nat /\ list' = list
    BY <1>1 DEF StartParent, TypeOK
  <2>3. /\ bundle'[Parent] = start + 1
        /\ \A w \in Writers : w # Parent => bundle'[w] = bundle[w]
    BY <1>1 DEF StartParent, TypeOK, CommandTypeOK
  <2>4. \A w \in Writers : bundle[w] \in Nat /\ list[w] \in Nat
    <3>1. {0} \cup Bundles \subseteq Nat /\ 0 .. MaxStarts \subseteq Nat
      BY BundleFacts
    <3> QED
      BY <3>1 DEF TypeOK, CommandTypeOK
  <2> QED
    BY <2>1, <2>2, <2>3, <2>4 DEF BundleInv, Writing
<1>7. ASSUME NEW w \in Strays, StartStray(w) PROVE BundleInv'
  <2>1. w \in Writers /\ w # Parent
    OBVIOUS
  <2>2. pc'[w] = "list" /\ \A v \in Writers : v # w => pc'[v] = pc[v]
    BY <1>7, <2>1, GotoOne DEF StartStray
  <2>3. /\ bundle'[w] = StrayBundle[w] /\ StrayBundle[w] # 0
        /\ \A v \in Writers : v # w => bundle'[v] = bundle[v]
        /\ UNCHANGED <<start, list>>
    BY <1>7, BundleFacts DEF StartStray, TypeOK, CommandTypeOK
  <2> QED
    BY <2>1, <2>2, <2>3 DEF BundleInv, Writing
<1>2. CASE EndParent
  <2>1. pc'[Parent] = "ended" /\ \A w \in Writers : w # Parent => pc'[w] = pc[w]
    BY <1>2, GotoOne DEF EndParent
  <2> QED
    BY <1>2, <2>1 DEF EndParent, BundleInv, Writing, Serving, fetched
<1>3. ASSUME NEW w \in Generators, FetchBackends(w) PROVE BundleInv'
  <2>1. w \in Writers /\ w # Parent
    BY DEF Writers
  <2>2. pc'[w] \in {"certs", "refused"} /\ \A v \in Writers : v # w => pc'[v] = pc[v]
    BY <1>3, <2>1, GotoOne DEF FetchBackends
  <2>3. \A v \in Writers : list'[v] = list[v] \/ list'[v] = start
    BY <1>3 DEF FetchBackends, TypeOK, CommandTypeOK
  <2>4. start \in Nat
    BY DEF TypeOK
  <2> QED
    BY <1>3, <2>1, <2>2, <2>3, <2>4 DEF FetchBackends, BundleInv, Writing
<1>4. ASSUME NEW w \in Generators, FetchCertificates(w) PROVE BundleInv'
  <2>1. w \in Writers /\ w # Parent
    BY DEF Writers
  <2>2. \A v \in Writers : v # w => pc'[v] = pc[v] /\ bundle'[v] = bundle[v]
    <3>1. \A v \in Writers : v # w => pc'[v] = pc[v]
      BY <1>4, <2>1, GotoOne DEF FetchCertificates
    <3>2. \A v \in Writers : v # w => bundle'[v] = bundle[v]
      BY <1>4 DEF FetchCertificates, TypeOK, CommandTypeOK
    <3> QED
      BY <3>1, <3>2
  <2>3. start \in Nat /\ (Serving => start > 0)
    BY DEF TypeOK, BundleInv, Serving
  <2>4. \/ pc'[w] = "list" /\ bundle'[w] = start /\ start > 0
        \/ pc'[w] = "refused" /\ bundle'[w] = bundle[w]
    <3>1. CASE Serving /\ "/certs" \in routes
      <4>1. pc'[w] = "list"
        BY <1>4, <2>1, <3>1, GotoOne DEF FetchCertificates
      <4>2. bundle'[w] = start
        BY <1>4, <2>1, <3>1 DEF FetchCertificates, TypeOK, CommandTypeOK
      <4> QED
        BY <2>3, <3>1, <4>1, <4>2
    <3>2. CASE ~(Serving /\ "/certs" \in routes)
      BY <1>4, <2>1, <3>2, GotoOne DEF FetchCertificates
    <3> QED
      BY <3>1, <3>2
  <2> QED
    BY <1>4, <2>1, <2>2, <2>3, <2>4 DEF FetchCertificates, BundleInv, Writing
<1>5. ASSUME NEW w \in Writers, WriteCertificates(w) \/ Break(w) PROVE BundleInv'
  BY <1>5, WriterStep DEF BundleInv, Writing, WritingStates
<1>6. CASE Publish \/ (\E b \in Backends : Load(b)) \/ UNCHANGED vars
  <2>1. UNCHANGED <<start, pc, bundle, list>>
    BY <1>6, LoadStep DEF Publish, vars, fetched
  <2> QED
    BY <2>1 DEF BundleInv, Writing
<1> QED
  BY <1>1, <1>2, <1>3, <1>4, <1>5, <1>6, <1>7 DEF Next

-----------------------------------------------------------------------------
(* Files that are there or will be.                                        *)

Covers(w, i) == pc[w] = "failed" \/ ToWrite(w, i)
Covered(i) == file[WriteOrder[i]] \in Bundles \/ \E w \in Writers : Covers(w, i)

LEMMA CoverForm ==
  /\ CoverInv <=> (start > 0 => \A i \in DOMAIN WriteOrder : Covered(i))
  /\ CoverInv' <=> (start' > 0 => \A i \in DOMAIN WriteOrder : Covered(i)')
  BY DEF CoverInv, Covered, Covers

\* A command that does not move covers what it covered.
LEMMA CoversSame ==
  ASSUME NEW v \in Writers, NEW i \in DOMAIN WriteOrder,
         UNCHANGED <<pc[v], next[v], linked[v]>>, Covers(v, i)
  PROVE  Covers(v, i)'
  BY DEF Covers, ToWrite

LEMMA CoverWriter ==
  ASSUME TypeOK, BundleInv, NEW w \in Writers, WriteCertificates(w) \/ Break(w),
         NEW i \in DOMAIN WriteOrder, Covered(i)
  PROVE  Covered(i)'
<1> USE OrderFacts
<1>1. \A v \in Writers : v # w => pc'[v] = pc[v]
  BY WriterStep
<1>2. next[w] \in 1 .. Len(WriteOrder) /\ i \in 1 .. Len(WriteOrder)
  BY DEF TypeOK, CommandTypeOK
<1>3. CASE List(w) \/ Unlink(w)
  <2>1. pc'[w] = "unlink"
    BY <1>3, GotoOne DEF List, Unlink
  <2> QED
    BY <2>1 DEF Covered, Covers, ToWrite
<1>4. CASE Rmdir(w)
  <2>1. pc'[w] \in {"failed", "list"} \/ (pc'[w] = "mkdir" /\ next'[w] = 1)
    BY <1>4, GotoOne DEF Rmdir, TypeOK, CommandTypeOK
  <2> QED
    BY <1>2, <2>1 DEF Covered, Covers, ToWrite
<1>5. CASE Mkdir(w)
  <2>1. pc[w] = "mkdir" /\ pc'[w] = "open" /\ UNCHANGED <<file, next, linked>>
    BY <1>5, GotoOne DEF Mkdir, writer
  <2>2. \A v \in Writers : Covers(v, i) => Covers(v, i)'
    BY <1>1, <2>1 DEF Covers, ToWrite
  <2> QED
    BY <2>1, <2>2 DEF Covered
<1>6. CASE Open(w)
  <2>1. CASE ~there
    BY <1>6, <2>1, GotoOne DEF Open, Covered, Covers
  <2>2. CASE there
    <3>1. /\ pc[w] = "open" /\ pc'[w] = "write" /\ next' = next /\ linked'[w]
          /\ \A v \in Writers : v # w => linked'[v] = linked[v]
          /\ \A f \in Files : f # WriteOrder[next[w]] => file'[f] = file[f]
      BY <1>6, <2>2, GotoOne DEF Open, Name, TypeOK, CommandTypeOK
    <3>2. CASE i >= next[w]
      BY <1>2, <3>1, <3>2 DEF Covered, Covers, ToWrite
    <3>3. CASE i < next[w]
      <4>1. ~Covers(w, i)
        BY <1>2, <3>1, <3>3 DEF Covers, ToWrite
      <4>2. file'[WriteOrder[i]] = file[WriteOrder[i]]
        BY <1>2, <3>1, <3>3
      <4>3. \A v \in Writers : v # w /\ Covers(v, i) => Covers(v, i)'
        BY <1>1, <3>1, CoversSame
      <4> QED
        BY <4>1, <4>2, <4>3 DEF Covered
    <3> QED
      BY <1>2, <3>2, <3>3
  <2> QED
    BY <2>1, <2>2
<1>7. CASE Write(w)
  <2>1. /\ pc[w] = "write"
        /\ \A v \in Writers : v # w => linked'[v] = linked[v] /\ next'[v] = next[v]
        /\ \/ next[w] = Len(WriteOrder)
           \/ pc'[w] = "mkdir" /\ next'[w] = next[w] + 1
    BY <1>7, GotoOne DEF Write, Last, TypeOK, CommandTypeOK
  <2>2. \A v \in Writers : v # w /\ Covers(v, i) => Covers(v, i)'
    BY <1>1, <2>1, CoversSame
  <2>3. bundle[w] \in Bundles /\ Name(w) = WriteOrder[next[w]]
    BY <2>1 DEF BundleInv, Writing, TypeOK, CommandTypeOK, Name
  <2>4. file[WriteOrder[i]] \in Bundles => file'[WriteOrder[i]] \in Bundles
    BY <1>7, <2>3 DEF Write, Put, TypeOK
  <2>5. CASE Covers(w, i)
    <3>1. CASE i > next[w]
      BY <1>2, <2>1, <3>1 DEF Covered, Covers, ToWrite
    <3>2. CASE i = next[w] /\ linked[w]
      <4>1. file' = [file EXCEPT ![WriteOrder[i]] = bundle[w]]
        BY <1>7, <2>3, <3>2 DEF Write, Put
      <4>2. file'[WriteOrder[i]] = bundle[w]
        BY <4>1 DEF TypeOK
      <4> QED
        BY <2>3, <4>2 DEF Covered
    <3> QED
      BY <1>2, <2>1, <2>5, <3>1, <3>2 DEF Covers, ToWrite
  <2> QED
    BY <2>2, <2>4, <2>5 DEF Covered
<1>8. CASE Break(w)
  <2>1. pc'[w] = "failed"
    BY <1>8, GotoOne DEF Break
  <2> QED
    BY <2>1 DEF Covered, Covers
<1> QED
  BY <1>3, <1>4, <1>5, <1>6, <1>7, <1>8 DEF WriteCertificates

LEMMA CoverStep ==
  ASSUME TypeOK, BundleInv, CoverInv, [Next]_vars
  PROVE  CoverInv'
<1> USE OrderFacts
<1>1. CASE StartParent
  <2>1. pc'[Parent] = "list"
    BY <1>1, GotoOne DEF StartParent
  <2>2. \A i \in DOMAIN WriteOrder : Covered(i)'
    BY <2>1 DEF Covered, Covers, ToWrite
  <2> QED
    BY <2>2, CoverForm
<1>2. ASSUME NEW w \in Writers, WriteCertificates(w) \/ Break(w) PROVE CoverInv'
  <2>1. start' = start
    BY <1>2, WriterStep
  <2>2. start > 0 => \A i \in DOMAIN WriteOrder : Covered(i)'
    BY <1>2, CoverForm, CoverWriter
  <2> QED
    BY <2>1, <2>2, CoverForm
<1>3. ASSUME NEW w \in Writers, pc[w] \in {"idle", "certs", "done"},
             \A v \in Writers : v # w => pc'[v] = pc[v],
             UNCHANGED <<start, file, next, linked>>
      PROVE  CoverInv'
  <2>1. \A i \in DOMAIN WriteOrder : ~Covers(w, i)
    BY <1>3 DEF Covers, ToWrite
  <2>2. \A i \in DOMAIN WriteOrder : Covered(i) => Covered(i)'
    BY <1>3, <2>1, CoversSame DEF Covered
  <2> QED
    BY <1>3, <2>2, CoverForm
<1>4. ASSUME NEW w \in Generators, FetchBackends(w) \/ FetchCertificates(w) PROVE CoverInv'
  <2>1. w \in Writers
    BY DEF Writers
  <2>2. \E where \in {"certs", "list", "refused"} : Goto(w, where)
    BY <1>4 DEF FetchBackends, FetchCertificates
  <2>3. \A v \in Writers : v # w => pc'[v] = pc[v]
    BY <2>1, <2>2, GotoOne
  <2> QED
    BY <1>3, <1>4, <2>1, <2>3 DEF FetchBackends, FetchCertificates, dir, writer
<1>7. ASSUME NEW w \in Strays, StartStray(w) PROVE CoverInv'
  <2>1. \A v \in Writers : v # w => pc'[v] = pc[v]
    BY <1>7, GotoOne DEF StartStray
  <2> QED
    BY <1>3, <1>7, <2>1 DEF StartStray, dir
<1>5. CASE EndParent
  <2>1. \A v \in Writers : v # Parent => pc'[v] = pc[v]
    BY <1>5, GotoOne DEF EndParent
  <2> QED
    BY <1>3, <1>5, <2>1 DEF EndParent, Serving, dir, writer
<1>6. CASE Publish \/ (\E b \in Backends : Load(b)) \/ UNCHANGED vars
  <2>1. UNCHANGED <<start, file, pc, next, linked>>
    BY <1>6, LoadStep DEF Publish, vars, dir, writer
  <2>2. \A i \in DOMAIN WriteOrder : Covered(i) => Covered(i)'
    BY <2>1 DEF Covered, Covers, ToWrite
  <2> QED
    BY <2>1, <2>2, CoverForm
<1> QED
  BY <1>1, <1>2, <1>4, <1>5, <1>6, <1>7 DEF Next

-----------------------------------------------------------------------------
(* Bundles of earlier starts.                                              *)

LEMMA StaleKept ==
  ASSUME start' = start, touched \subseteq touched',
         \A w \in touched : bundle'[w] = bundle[w], Stale
  PROVE  Stale'
  BY DEF Stale

\* What a step of a command that writes does to the directory.
LEMMA DirectoryStep ==
  ASSUME TypeOK, NEW w \in Writers, WriteCertificates(w) \/ Break(w)
  PROVE  /\ touched \subseteq touched' /\ touched' \subseteq touched \cup ({w} \ {Parent})
         /\ \A f \in Files :
              \/ file'[f] = file[f] \/ file'[f] \in {Absent, Empty}
              \/ file'[f] = bundle[w] /\ (w = Parent \/ w \in touched')
         /\ \A f \in torn' :
              \/ f \in torn /\ file'[f] = file[f]
              \/ file'[f] = bundle[w] /\ (f \in torn \/ file[f] \in Bundles \ {bundle[w]})
<1> USE OrderFacts
<1>1. CASE List(w) \/ Break(w) \/ Rmdir(w) \/ Mkdir(w)
  BY <1>1 DEF List, Break, Rmdir, Mkdir, Touch, dir
<1>2. CASE Unlink(w)
  BY <1>2 DEF Unlink, Unlinked, Touch, TypeOK
<1>3. CASE Open(w)
  <2>1. \A f \in Files : file'[f] = file[f] \/ file'[f] = Empty
    BY <1>3 DEF Open, TypeOK
  <2>2. \A f \in torn' : f \in torn /\ file'[f] = file[f]
    BY <1>3 DEF Open, TypeOK
  <2> QED
    BY <1>3, <2>1, <2>2 DEF Open, Touch
<1>4. CASE Write(w)
  <2>1. \A f \in Files : file'[f] = file[f] \/ file'[f] = bundle[w]
    BY <1>4 DEF Write, Put, TypeOK
  <2>2. \A f \in torn' :
          \/ f \in torn /\ file'[f] = file[f]
          \/ file'[f] = bundle[w] /\ (f \in torn \/ file[f] \in Bundles \ {bundle[w]})
    BY <1>4 DEF Write, Put, TypeOK, CommandTypeOK, Name
  <2> QED
    BY <1>4, <2>1, <2>2 DEF Write, Touch
<1> QED
  BY <1>1, <1>2, <1>3, <1>4 DEF WriteCertificates

\* The backends notice a writer only when the parent is through.
LEMMA SpawnStep ==
  ASSUME TypeOK, NEW w \in Writers, WriteCertificates(w) \/ Break(w), NEW b \in Backends
  PROVE  /\ cert' = cert
         /\ \/ load'[b] = load[b]
            \/ w = Parent /\ pc'[Parent] = "done" /\ load'[b] = "cert"
<1>1. CASE Write(w)
  <2>1. Last(w) => pc'[w] = "done"
    BY <1>1, GotoOne DEF Write
  <2> QED
    BY <1>1, <2>1 DEF Write, Spawned
<1> QED
  BY <1>1 DEF WriteCertificates, List, Unlink, Rmdir, Mkdir, Open, Break, backend

LEMMA OwnWriter ==
  ASSUME TypeOK, BundleInv, OwnInv, NEW w \in Writers, WriteCertificates(w) \/ Break(w)
  PROVE  OwnInv'
<1> USE OrderFacts
<1>1. /\ UNCHANGED <<start, bundle>> /\ Writing(w)
      /\ pc'[w] \in WritingStates \cup {"done", "failed"}
      /\ \A v \in Writers : v # w => pc'[v] = pc[v]
  BY WriterStep
<1>2. bundle[w] \in Bundles /\ Absent \notin Bundles /\ Empty \notin Bundles
  BY <1>1, BundleFacts DEF BundleInv, TypeOK, CommandTypeOK, Empty
<1>3. Stale => Stale'
  BY <1>1, DirectoryStep, StaleKept
<1>4. ~Stale' => w = Parent \/ w \notin touched' \/ bundle[w] = start
  BY <1>1 DEF Stale
<1>5. Wiped' => Stale' \/ (torn' = {} /\ \A f \in Files : file'[f] \in {Absent, Empty, start})
  <2>1. CASE Wiped
    <3> SUFFICES ASSUME ~Stale'
                 PROVE  torn' = {} /\ \A f \in Files : file'[f] \in {Absent, Empty, start}
      OBVIOUS
    <3>1. torn = {} /\ \A f \in Files : file[f] \in {Absent, Empty, start}
      BY <1>3, <2>1 DEF OwnInv
    <3>2. bundle[Parent] = start
      BY <2>1 DEF Wiped, BundleInv, TypeOK
    <3>3. \A f \in Files : file'[f] \in {Absent, Empty, start}
      BY <1>4, <3>1, <3>2, DirectoryStep
    <3>4. ASSUME NEW f \in torn' PROVE FALSE
      <4>1. f \in Files
        BY StepType, <3>4 DEF TypeOK, Next
      <4>2. file'[f] = bundle[w] /\ file[f] = start /\ bundle[w] # start
        BY <1>2, <3>1, <4>1, <3>4, DirectoryStep
      <4>3. w = Parent \/ w \in touched'
        BY <1>2, <4>1, <4>2, DirectoryStep
      <4> QED
        BY <1>4, <3>2, <4>2, <4>3
    <3> QED
      BY <3>3, <3>4
  <2>2. CASE ~Wiped /\ Wiped'
    <3>1. w = Parent /\ pc[w] \in {"list", "unlink"} /\ pc'[w] \in {"mkdir", "open", "write", "done"}
      BY <1>1, <2>2 DEF Wiped, Writing, WritingStates
    <3>2. Rmdir(w)
      BY <3>1, GotoOne DEF WriteCertificates, List, Unlink, Mkdir, Open, Write, Break
    <3>3. torn' = torn /\ \A f \in Files : file[f] = Absent /\ file'[f] = file[f]
      BY <3>1, <3>2, GotoOne DEF Rmdir
    <3>4. torn = {}
      BY <1>2, <3>3 DEF OwnInv, TypeOK
    <3> QED
      BY <3>3, <3>4
  <2> QED
    BY <2>1, <2>2
<1>8. \A f \in torn' : file'[f] \in Bundles
  BY <1>2, DirectoryStep DEF OwnInv
<1>6. \A v \in touched' : pc'[v] \in WritingStates \cup {"done", "failed"}
  <2>1. touched' \subseteq touched \cup {w} /\ touched \subseteq Writers
    BY DirectoryStep DEF TypeOK, Writers
  <2> QED
    BY <1>1, <2>1 DEF OwnInv, WritingStates
<1>7. ASSUME NEW b \in Backends
      PROVE  /\ load'[b] # "off" => pc'[Parent] \in {"done", "ended"}
             /\ load'[b] \in {"key", "up"} => cert'[b] = start' \/ Stale'
  <2>1. CASE load'[b] = load[b]
    <3>1. load[b] # "off" => w # Parent
      BY <1>1 DEF OwnInv, Writing
    <3> QED
      BY <1>1, <1>3, <2>1, <3>1, SpawnStep DEF OwnInv
  <2>2. CASE w = Parent /\ pc'[Parent] = "done" /\ load'[b] = "cert"
    BY <2>2
  <2> QED
    BY <2>1, <2>2, SpawnStep
<1> QED
  BY <1>1, <1>5, <1>6, <1>7, <1>8 DEF OwnInv, WritingStates

LEMMA OwnStep ==
  ASSUME TypeOK, BundleInv, OwnInv, [Next]_vars
  PROVE  OwnInv'
<1> USE OrderFacts
<1>1. CASE StartParent
  <2>1. pc'[Parent] = "list"
    BY <1>1, GotoOne DEF StartParent
  <2>2. touched' = {} /\ UNCHANGED <<file, torn>> /\ \A b \in Backends : load'[b] = "off"
    BY <1>1 DEF StartParent, Unspawned, dir
  <2> QED
    BY <2>1, <2>2 DEF OwnInv, Wiped
<1>2. ASSUME NEW w \in Writers, WriteCertificates(w) \/ Break(w) PROVE OwnInv'
  BY <1>2, OwnWriter
<1>3. ASSUME NEW w \in Generators \cup Strays,
             FetchBackends(w) \/ FetchCertificates(w) \/ StartStray(w)
      PROVE  OwnInv'
  <2>1. w \in Writers /\ w # Parent /\ w \notin touched
    BY <1>3 DEF Writers, OwnInv, FetchBackends, FetchCertificates, StartStray
  <2>2. /\ \A v \in Writers : v # w => pc'[v] = pc[v] /\ bundle'[v] = bundle[v]
        /\ UNCHANGED <<start, file, torn, touched, load, cert>>
    BY <1>3, <2>1, GotoOne
    DEF FetchBackends, FetchCertificates, StartStray, TypeOK, CommandTypeOK, dir, backend
  <2>3. \A v \in touched : v \in Writers /\ v # w
    BY <2>1 DEF TypeOK, Writers
  <2>4. Stale => Stale'
    BY <2>2, <2>3, StaleKept
  <2>5. Wiped' <=> Wiped
    BY <2>1, <2>2 DEF Wiped
  <2> QED
    BY <2>1, <2>2, <2>3, <2>4, <2>5 DEF OwnInv
<1>4. CASE EndParent
  <2>1. pc'[Parent] = "ended" /\ \A v \in Writers : v # Parent => pc'[v] = pc[v]
    BY <1>4, GotoOne DEF EndParent
  <2>2. UNCHANGED <<start, file, torn, touched, load, cert, bundle>> /\ Wiped
    BY <1>4 DEF EndParent, Serving, Wiped, dir, fetched, backend
  <2>3. \A v \in touched : v \in Writers /\ v # Parent
    BY DEF TypeOK, Writers
  <2> QED
    BY <2>1, <2>2, <2>3 DEF OwnInv, Stale
<1>5. ASSUME NEW b \in Backends, Load(b) PROVE OwnInv'
  <2>1. UNCHANGED <<start, file, torn, pc, bundle, touched>>
    BY <1>5, LoadStep DEF dir, fetched
  <2>2. pc[Parent] \in {"done", "ended"}
    BY <1>5 DEF OwnInv, Load, LoadCert, LoadKey
  <2>3. Stale' <=> Stale
    BY <2>1 DEF Stale
  <2>4. \A c \in Backends : c # b => load'[c] = load[c] /\ cert'[c] = cert[c]
    BY <1>5 DEF Load, LoadCert, LoadKey, TypeOK
  <2>5. load'[b] \in {"key", "up"} => cert'[b] = start \/ Stale
    <3>1. CASE LoadCert(b)
      <4>1. /\ cert'[b] = file[DomainFile]
            /\ load'[b] \in {"key", "up"} => file[DomainFile] \in Bundles
        BY <3>1 DEF LoadCert, TypeOK
      <4>2. Stale \/ file[DomainFile] \in {Absent, Empty, start}
        BY <2>2 DEF OwnInv, Wiped
      <4>3. Absent \notin Bundles /\ Empty \notin Bundles
        BY BundleFacts DEF Empty
      <4> QED
        BY <4>1, <4>2, <4>3
    <3>2. CASE LoadKey(b)
      BY <3>2 DEF LoadKey, OwnInv
    <3> QED
      BY <1>5, <3>1, <3>2 DEF Load
  <2> QED
    BY <2>1, <2>2, <2>3, <2>4, <2>5 DEF OwnInv, Wiped
<1>6. CASE Publish \/ UNCHANGED vars
  <2>1. UNCHANGED <<start, file, torn, pc, bundle, touched, load, cert>>
    BY <1>6 DEF Publish, vars, dir, fetched, backend
  <2> QED
    BY <2>1 DEF OwnInv, Stale, Wiped
<1> QED
  BY <1>1, <1>2, <1>3, <1>4, <1>5, <1>6 DEF Next

-----------------------------------------------------------------------------
(* A parent that nobody disturbs.                                          *)

Written(i) ==
  \/ pc[Parent] \in {"done", "ended"}
  \/ pc[Parent] \in {"mkdir", "open", "write"} /\ i < next[Parent]

FilesAlone ==
  /\ \A i \in DOMAIN WriteOrder : Written(i) => file[WriteOrder[i]] = start
  /\ pc[Parent] = "write" => linked[Parent]

LoadsAlone ==
  \A b \in Backends : load[b] # "failed" /\ (load[b] \in {"key", "up"} => cert[b] = start)

LEMMA AloneForm ==
  /\ AloneInv <=> (touched = {} => FilesAlone /\ LoadsAlone)
  /\ AloneInv' <=> (touched' = {} => FilesAlone' /\ LoadsAlone')
  BY DEF AloneInv, FilesAlone, LoadsAlone, Written

\* The parent's own steps.
LEMMA AloneParent ==
  ASSUME TypeOK, BundleInv, FilesAlone, WriteCertificates(Parent) \/ Break(Parent)
  PROVE  FilesAlone'
<1> USE OrderFacts
<1>1. start' = start /\ Writing(Parent)
  BY WriterStep
<1>2. /\ next[Parent] \in 1 .. Len(WriteOrder)
      /\ bundle[Parent] = start
  BY <1>1 DEF TypeOK, CommandTypeOK, BundleInv, Writing
<1>3. CASE List(Parent) \/ Unlink(Parent) \/ Break(Parent)
  <2>1. pc'[Parent] \in {"unlink", "failed"}
    BY <1>3, GotoOne DEF List, Unlink, Break
  <2> QED
    BY <2>1 DEF FilesAlone, Written
<1>4. CASE Rmdir(Parent)
  <2>1. pc'[Parent] \in {"failed", "list"} \/ (pc'[Parent] = "mkdir" /\ next'[Parent] = 1)
    BY <1>4, GotoOne DEF Rmdir, TypeOK, CommandTypeOK
  <2> QED
    BY <2>1 DEF FilesAlone, Written
<1>5. CASE Mkdir(Parent)
  <2>1. pc[Parent] = "mkdir" /\ pc'[Parent] = "open" /\ UNCHANGED <<file, next>>
    BY <1>5, GotoOne DEF Mkdir, writer
  <2> QED
    BY <1>1, <2>1 DEF FilesAlone, Written
<1>6. CASE Open(Parent)
  <2>1. CASE ~there
    <3>1. pc'[Parent] = "failed"
      BY <1>6, <2>1, GotoOne DEF Open
    <3> QED
      BY <3>1 DEF FilesAlone, Written
  <2>2. CASE there
    <3>1. /\ pc[Parent] = "open" /\ pc'[Parent] = "write" /\ next' = next /\ linked'[Parent]
          /\ \A f \in Files : f # WriteOrder[next[Parent]] => file'[f] = file[f]
      BY <1>6, <2>2, GotoOne DEF Open, Name, TypeOK, CommandTypeOK
    <3>2. ASSUME NEW i \in DOMAIN WriteOrder, i < next[Parent]
          PROVE  file'[WriteOrder[i]] = start
      BY <1>2, <3>1, <3>2 DEF FilesAlone, Written
    <3> QED
      BY <1>1, <3>1, <3>2 DEF FilesAlone, Written
  <2> QED
    BY <2>1, <2>2
<1>7. CASE Write(Parent)
  <2>1. /\ pc[Parent] = "write" /\ linked[Parent]
        /\ \/ pc'[Parent] = "done" /\ next[Parent] = Len(WriteOrder)
           \/ pc'[Parent] = "mkdir" /\ next'[Parent] = next[Parent] + 1
    BY <1>7, GotoOne DEF Write, Last, TypeOK, CommandTypeOK, FilesAlone
  <2>2. file' = [file EXCEPT ![WriteOrder[next[Parent]]] = start]
    BY <1>2, <1>7, <2>1 DEF Write, Put, Name
  <2>3. ASSUME NEW i \in DOMAIN WriteOrder, i <= next[Parent]
        PROVE  file'[WriteOrder[i]] = start
    <3>1. i = next[Parent] => file'[WriteOrder[i]] = start
      BY <2>2 DEF TypeOK
    <3>2. i < next[Parent] => file[WriteOrder[i]] = start
      BY <2>1 DEF FilesAlone, Written
    <3>3. i < next[Parent] => WriteOrder[i] # WriteOrder[next[Parent]]
      BY <1>2
    <3> QED
      BY <1>2, <2>2, <2>3, <3>1, <3>2, <3>3 DEF TypeOK
  <2>4. ASSUME NEW i \in DOMAIN WriteOrder, Written(i)' PROVE i <= next[Parent]
    BY <1>2, <2>1, <2>4 DEF Written
  <2> QED
    BY <1>1, <2>1, <2>3, <2>4 DEF FilesAlone
<1> QED
  BY <1>3, <1>4, <1>5, <1>6, <1>7 DEF WriteCertificates

\* A generator that leaves no trace does nothing to the parent's files.
LEMMA AloneOther ==
  ASSUME TypeOK, NEW w \in Writers, w # Parent, WriteCertificates(w) \/ Break(w), touched' = {}
  PROVE  /\ UNCHANGED <<file, load, next[Parent]>>
         /\ linked'[Parent] = linked[Parent]
<1>1. ~Touch(w)
  BY DEF Touch
<1>2. CASE List(w) \/ Rmdir(w) \/ Open(w)
  BY <1>1, <1>2 DEF List, Rmdir, Open, dir, backend
<1>3. CASE Break(w)
  BY <1>3, OrderFacts DEF Break, dir, backend, TypeOK, CommandTypeOK
<1> QED
  BY <1>1, <1>2, <1>3 DEF WriteCertificates, Unlink, Mkdir, Write

LEMMA AloneWriter ==
  ASSUME TypeOK, BundleInv, AloneInv, NEW w \in Writers, WriteCertificates(w) \/ Break(w)
  PROVE  AloneInv'
<1> SUFFICES ASSUME touched' = {} PROVE FilesAlone' /\ LoadsAlone'
  BY AloneForm
<1>1. FilesAlone /\ LoadsAlone
  BY DirectoryStep, AloneForm
<1>2. start' = start /\ \A v \in Writers : v # w => pc'[v] = pc[v]
  BY WriterStep
<1>3. LoadsAlone'
  BY <1>1, <1>2, SpawnStep DEF LoadsAlone
<1>4. CASE w = Parent
  BY <1>1, <1>3, <1>4, AloneParent
<1>5. CASE w # Parent
  <2>1. UNCHANGED <<file, start, pc[Parent], next[Parent], linked[Parent]>>
    BY <1>2, <1>5, AloneOther, OrderFacts
  <2> QED
    BY <1>1, <1>3, <2>1 DEF FilesAlone, Written
<1> QED
  BY <1>4, <1>5

LEMMA AloneStep ==
  ASSUME TypeOK, BundleInv, OwnInv, AloneInv, [Next]_vars
  PROVE  AloneInv'
<1> USE OrderFacts
<1>1. CASE StartParent
  <2>1. pc'[Parent] = "list" /\ \A b \in Backends : load'[b] = "off"
    BY <1>1, GotoOne DEF StartParent, Unspawned
  <2> QED
    BY <2>1 DEF AloneInv
<1>2. ASSUME NEW w \in Writers, WriteCertificates(w) \/ Break(w) PROVE AloneInv'
  BY <1>2, AloneWriter
<1>3. ASSUME NEW w \in Generators \cup Strays,
             FetchBackends(w) \/ FetchCertificates(w) \/ StartStray(w)
      PROVE  AloneInv'
  <2>1. w \in Writers /\ w # Parent
    BY DEF Writers
  <2>2. pc'[Parent] = pc[Parent] /\ UNCHANGED <<start, file, next, linked, touched, load, cert>>
    BY <1>3, <2>1, GotoOne
    DEF FetchBackends, FetchCertificates, StartStray, dir, writer, backend
  <2> QED
    BY <2>2 DEF AloneInv
<1>4. CASE EndParent
  <2>1. pc[Parent] = "done" /\ pc'[Parent] = "ended"
        /\ UNCHANGED <<start, file, touched, load, cert>>
    BY <1>4, GotoOne DEF EndParent, Serving, dir, backend
  <2> QED
    BY <2>1 DEF AloneInv
<1>5. ASSUME NEW b \in Backends, Load(b) PROVE AloneInv'
  <2>1. UNCHANGED <<start, file, pc, next, linked, touched>>
    BY <1>5, LoadStep DEF dir, writer
  <2> SUFFICES ASSUME touched = {} PROVE FilesAlone' /\ LoadsAlone'
    BY <2>1, AloneForm
  <2>2. FilesAlone /\ LoadsAlone
    BY AloneForm
  <2>3. FilesAlone'
    BY <2>1, <2>2 DEF FilesAlone, Written
  <2>4. pc[Parent] \in {"done", "ended"}
    BY <1>5 DEF OwnInv, Load, LoadCert, LoadKey
  <2>5. \A f \in Files : file[f] = start
    BY <2>2, <2>4 DEF FilesAlone, Written
  <2>6. start \in Bundles /\ torn = {}
    <3>1. start \in Starts
      BY <2>4 DEF BundleInv, TypeOK, Starts
    <3>2. Wiped /\ ~Stale
      BY <2>1, <2>4 DEF Wiped, Stale
    <3> QED
      BY <3>1, <3>2, BundleFacts DEF OwnInv
  <2>7. \A c \in Backends : c # b => load'[c] = load[c] /\ cert'[c] = cert[c]
    BY <1>5 DEF Load, LoadCert, LoadKey, TypeOK
  <2>8. load'[b] \in {"key", "up"} /\ cert'[b] = start
    <3>1. CASE LoadCert(b)
      BY <2>5, <2>6, <3>1 DEF LoadCert, TypeOK
    <3>2. CASE LoadKey(b)
      BY <2>2, <2>5, <2>6, <3>2 DEF LoadKey, Matches, LoadsAlone, TypeOK
    <3> QED
      BY <1>5, <3>1, <3>2 DEF Load
  <2> QED
    BY <2>1, <2>2, <2>3, <2>7, <2>8 DEF LoadsAlone
<1>6. CASE Publish \/ UNCHANGED vars
  <2>1. UNCHANGED <<start, file, pc, next, linked, touched, load, cert>>
    BY <1>6 DEF Publish, vars, dir, writer, backend
  <2> QED
    BY <2>1 DEF AloneInv
<1> QED
  BY <1>1, <1>2, <1>3, <1>4, <1>5, <1>6 DEF Next

-----------------------------------------------------------------------------
(* What is published.                                                      *)

LEMMA ListStep ==
  ASSUME TypeOK, BundleInv, ListInv, [Next]_vars
  PROVE  ListInv'
<1> USE OrderFacts
<1>0. \A w \in Generators : w \in Writers /\ w # Parent
  BY DEF Writers
<1>1. CASE StartParent
  <2>1. pc'[Parent] = "list" /\ \A w \in Writers : w # Parent => pc'[w] = pc[w]
    BY <1>1, GotoOne DEF StartParent
  <2>2. \A w \in Generators : bundle'[w] = bundle[w] /\ list'[w] = list[w] /\ pc'[w] = pc[w]
    BY <1>0, <1>1, <2>1 DEF StartParent, TypeOK, CommandTypeOK
  <2>3. \A w \in Generators : list[w] # start'
    BY <1>0, <1>1 DEF StartParent, BundleInv, TypeOK, CommandTypeOK
  <2> QED
    BY <1>1, <2>1, <2>2, <2>3 DEF StartParent, ListInv, Serving
<1>2. CASE Publish
  <2>1. UNCHANGED <<start, pc, bundle, list>> /\ "/certs" \in routes'
        /\ ("/backends" \in routes => "/backends" \in routes')
    BY <1>2 DEF Publish, Published, ListInv, fetched
  <2> QED
    BY <2>1 DEF ListInv, Serving, Writing
<1>3. CASE EndParent
  <2>1. pc'[Parent] = "ended" /\ \A w \in Writers : w # Parent => pc'[w] = pc[w]
    BY <1>3, GotoOne DEF EndParent
  <2> QED
    BY <1>0, <1>3, <2>1 DEF EndParent, ListInv, Serving, Writing, fetched
<1>4. ASSUME NEW w \in Generators, FetchBackends(w) PROVE ListInv'
  <2>1. \A v \in Writers : v # w => pc'[v] = pc[v]
    BY <1>0, <1>4, GotoOne DEF FetchBackends
  <2>2. \A v \in Generators : v # w => list'[v] = list[v]
    BY <1>0, <1>4 DEF FetchBackends, TypeOK, CommandTypeOK
  <2>3. UNCHANGED <<start, bundle, routes>> /\ bundle[w] = 0 /\ pc'[Parent] = pc[Parent]
    BY <1>0, <1>4, <2>1 DEF FetchBackends, ListInv
  <2>4. pc'[w] = "certs" => Serving /\ "/backends" \in routes
    BY <1>0, <1>4, GotoOne DEF FetchBackends
  <2> QED
    BY <1>0, <2>1, <2>2, <2>3, <2>4 DEF ListInv, Serving, Writing
<1>5. ASSUME NEW w \in Generators, FetchCertificates(w) PROVE ListInv'
  <2>1. pc'[w] \in {"list", "refused"} /\ \A v \in Writers : v # w => pc'[v] = pc[v]
    BY <1>0, <1>5, GotoOne DEF FetchCertificates
  <2>2. \A v \in Generators : v # w => bundle'[v] = bundle[v]
    BY <1>0, <1>5 DEF FetchCertificates, TypeOK, CommandTypeOK
  <2>3. bundle'[w] # 0 => list[w] <= bundle'[w]
    BY <1>0, <1>5 DEF FetchCertificates, ListInv, BundleInv, TypeOK, CommandTypeOK
  <2>4. UNCHANGED <<start, list, routes>> /\ pc'[Parent] = pc[Parent]
    BY <1>0, <1>5, <2>1 DEF FetchCertificates
  <2> QED
    BY <1>0, <2>1, <2>2, <2>3, <2>4 DEF ListInv, Serving, Writing
<1>6. ASSUME NEW w \in Writers, WriteCertificates(w) \/ Break(w) PROVE ListInv'
  <2>1. /\ Writing(w) /\ UNCHANGED <<start, bundle, list, routes>>
        /\ pc'[w] \in WritingStates \cup {"done", "failed"}
        /\ \A v \in Writers : v # w => pc'[v] = pc[v]
    BY <1>6, WriterStep
  <2>2. \A v \in Generators : pc'[v] \in {"idle", "certs"} => pc[v] = pc'[v] /\ v # w
    BY <1>0, <2>1 DEF WritingStates
  <2>3. w # Parent => pc'[Parent] = pc[Parent]
    BY <2>1
  <2> QED
    BY <2>1, <2>2, <2>3 DEF ListInv, Serving, Writing
<1>7. CASE (\E b \in Backends : Load(b)) \/ UNCHANGED vars
  <2>1. UNCHANGED <<start, pc, bundle, list, routes>>
    BY <1>7, LoadStep DEF vars, fetched
  <2> QED
    BY <2>1 DEF ListInv, Serving, Writing
<1>8. ASSUME NEW w \in Strays, StartStray(w) PROVE ListInv'
  <2>1. w \in Writers /\ w # Parent /\ w \notin Generators
    OBVIOUS
  <2>2. \A v \in Writers : v # w => pc'[v] = pc[v] /\ bundle'[v] = bundle[v]
    BY <1>8, <2>1, GotoOne DEF StartStray, TypeOK, CommandTypeOK
  <2>3. UNCHANGED <<start, list, routes>> /\ pc'[Parent] = pc[Parent]
    BY <1>8, <2>1, <2>2 DEF StartStray
  <2> QED
    BY <1>0, <2>1, <2>2, <2>3 DEF ListInv, Serving, Writing
<1> QED
  BY <1>1, <1>2, <1>3, <1>4, <1>5, <1>6, <1>7, <1>8 DEF Next

-----------------------------------------------------------------------------
(* The theorems.                                                           *)

LEMMA InitCert == Init => CertInv
<1> SUFFICES ASSUME Init PROVE CertInv
  OBVIOUS
<1> USE OrderFacts
<1>1. BundleInv
  BY DEF Init, BundleInv, Writing
<1>2. CoverInv /\ OwnInv
  BY DEF Init, CoverInv, OwnInv, Wiped
<1>3. AloneInv
  BY DEF Init, AloneInv
<1>4. ListInv
  <2>1. \A w \in Generators : w \in Writers
    BY DEF Writers
  <2> QED
    BY <2>1 DEF Init, ListInv, Serving, Writing
<1> QED
  BY <1>1, <1>2, <1>3, <1>4 DEF CertInv

\* The inductive invariant of the directory and of those who use it.
THEOREM CertCorrect == Spec => []CertInv
<1>1. TypeOK /\ CertInv /\ [Next]_vars => CertInv'
  BY BundleStep, CoverStep, OwnStep, AloneStep, ListStep DEF CertInv
<1> QED
  BY <1>1, InitCert, CertTypeCorrect, PTL DEF Spec

\* When all commands are through and none has failed the directory is whole,
\* in whatever order they removed and wrote each other's files.
THEOREM DirectoryComplete == Spec => []CompleteWhenQuiet
<1>1. ASSUME TypeOK, CertInv, start > 0, Quiet PROVE CompleteWhenQuiet
  <2>1. \A f \in Files : file[f] \in Bundles
    <3> SUFFICES ASSUME NEW f \in Files PROVE file[f] \in Bundles
      OBVIOUS
    <3>1. PICK i \in DOMAIN WriteOrder : f = WriteOrder[i]
      BY OrderFacts
    <3>2. \A w \in Writers : pc[w] # "failed" /\ ~ToWrite(w, i)
      BY <1>1 DEF Quiet, Writing, ToWrite
    <3> QED
      BY <1>1, <3>1, <3>2 DEF CertInv, CoverInv
  <2>2. torn = {} \/ Stale
    <3>1. pc[Parent] # "idle" => Wiped
      BY <1>1, OrderFacts
      DEF Quiet, Writing, Wiped, TypeOK, CommandTypeOK, CertInv, BundleInv
    <3>2. pc[Parent] # "idle"
      BY <1>1 DEF CertInv, BundleInv
    <3> QED
      BY <1>1, <3>1, <3>2 DEF CertInv, OwnInv
  <2> QED
    BY <2>1, <2>2 DEF CompleteWhenQuiet
<1>2. TypeOK /\ CertInv => CompleteWhenQuiet
  BY <1>1 DEF CompleteWhenQuiet
<1> QED
  BY <1>2, CertTypeCorrect, CertCorrect, PTL

\* A backend serves what its own parent created, unless a generator that was
\* told of an earlier start has written, or a stray serve-backends.
THEOREM BundleOwned == Spec => []OwnBundle
<1>1. CertInv => OwnBundle
  BY DEF CertInv, OwnInv, Stale, OwnBundle
<1> QED
  BY <1>1, CertCorrect, PTL

\* No backend fails on a pair that the parent alone has written.
THEOREM RewriteNeeded == Spec => []LoadNeedsRewrite
<1>1. CertInv => LoadNeedsRewrite
  BY DEF CertInv, AloneInv, LoadNeedsRewrite
<1> QED
  BY <1>1, CertCorrect, PTL

\* A generator that has the list of the parent that runs can have its
\* certificates, and never has certificates older than its list.
THEOREM FetchesOrdered == Spec => []FetchOrder
<1>1. CertInv => FetchOrder
  BY DEF CertInv, ListInv, FetchOrder
<1> QED
  BY <1>1, CertCorrect, PTL
-----------------------------------------------------------------------------
(* What a proxy and a backend can have read.                               *)

\* The bundles that have been created, with those of strays.
Created == (1 .. start) \cup {StrayBundle[w] : w \in Strays}

CreatedInv ==
  /\ \A f \in Files : file[f] \in {Absent, Empty} \cup Created
  /\ \A b \in Backends : load[b] \in {"key", "up"} => cert[b] \in Created

LEMMA CreatedFacts ==
  ASSUME TypeOK, BundleInv, [Next]_vars
  PROVE  /\ start \in Nat /\ start' \in {start, start + 1} /\ Created \subseteq Created'
         /\ Absent \notin Created /\ Empty \notin Created
         /\ \A w \in Writers : Writing(w) => bundle[w] \in Created
<1>1. start \in Nat /\ start <= MaxStarts /\ MaxStarts \in Nat
  BY OrderFacts DEF TypeOK
<1>2. start' \in {start, start + 1}
  <2>1. start' = start \/ start' = start + 1
    BY WriterStep, LoadStep
    DEF Next, vars, StartParent, Publish, EndParent, StartStray, FetchBackends, FetchCertificates
  <2> QED
    BY <2>1
<1>3. Created \subseteq Bundles
  BY <1>1 DEF Created, Bundles, Starts
<1>4. Created \subseteq Created'
  BY <1>1, <1>2 DEF Created
<1>5. ASSUME NEW w \in Writers, Writing(w) PROVE bundle[w] \in Created
  <2>1. bundle[w] # 0 /\ bundle[w] \in {0} \cup Bundles
    BY <1>5 DEF BundleInv, TypeOK, CommandTypeOK
  <2>2. CASE w \in Strays
    BY <2>1, <2>2 DEF BundleInv, Created
  <2>3. CASE w \notin Strays
    <3>1. bundle[w] <= start /\ bundle[w] \in Nat \ {0}
      BY <2>1, <2>3, BundleFacts DEF BundleInv
    <3> QED
      BY <1>1, <3>1 DEF Created
  <2> QED
    BY <2>2, <2>3
<1> QED
  BY <1>1, <1>2, <1>3, <1>4, <1>5, BundleFacts DEF Empty

LEMMA CreatedStep ==
  ASSUME TypeOK, BundleInv, CreatedInv, [Next]_vars
  PROVE  CreatedInv'
<1>0. Created \subseteq Created'
  BY CreatedFacts
<1>1. ASSUME NEW w \in Writers, WriteCertificates(w) \/ Break(w) PROVE CreatedInv'
  <2>1. Writing(w) /\ cert' = cert
    BY <1>1, WriterStep
  <2>2. bundle[w] \in Created'
    BY <1>0, <2>1, CreatedFacts
  <2>3. \A f \in Files : file'[f] = file[f] \/ file'[f] \in {Absent, Empty} \/ file'[f] = bundle[w]
    BY <1>1, DirectoryStep
  <2>4. \A b \in Backends : load'[b] = load[b] \/ load'[b] = "cert"
    BY <1>1, SpawnStep
  <2> QED
    BY <1>0, <2>1, <2>2, <2>3, <2>4 DEF CreatedInv
<1>2. ASSUME NEW b \in Backends, Load(b) PROVE CreatedInv'
  <2>1. file' = file
    BY <1>2, LoadStep DEF dir
  <2>2. \A c \in Backends : c # b => load'[c] = load[c] /\ cert'[c] = cert[c]
    BY <1>2 DEF Load, LoadCert, LoadKey, TypeOK
  <2>3. load'[b] \in {"key", "up"} => cert'[b] \in Created
    <3>1. CASE LoadCert(b)
      <4>1. cert'[b] = file[DomainFile] /\ (load'[b] \in {"key", "up"} => cert'[b] \in Bundles)
        BY <3>1 DEF LoadCert, TypeOK
      <4> QED
        BY <4>1, OrderFacts, BundleFacts DEF CreatedInv, Empty
    <3>2. CASE LoadKey(b)
      BY <3>2 DEF LoadKey, CreatedInv
    <3> QED
      BY <1>2, <3>1, <3>2 DEF Load
  <2> QED
    BY <1>0, <2>1, <2>2, <2>3 DEF CreatedInv
<1>3. CASE \/ StartParent \/ Publish \/ EndParent \/ (\E w \in Strays : StartStray(w))
           \/ (\E w \in Generators : FetchBackends(w) \/ FetchCertificates(w))
           \/ UNCHANGED vars
  <2>1. /\ UNCHANGED <<file, cert>>
        /\ \A b \in Backends : load'[b] \in {load[b], "off"}
    BY <1>3
    DEF StartParent, Publish, EndParent, StartStray, FetchBackends, FetchCertificates, vars, dir,
        backend, Unspawned
  <2> QED
    BY <1>0, <2>1 DEF CreatedInv
<1> QED
  BY <1>1, <1>2, <1>3 DEF Next

\* What a proxy or a backend finds: nobody has told it of a start that is yet to
\* come; a file and the certificate of a backend that is up are of some bundle
\* that has been created; and once the parent has removed what was there before,
\* of its own bundle, unless somebody wrote another.
WhatIsRead ==
  /\ \A w \in Generators : list[w] <= start
  /\ \A f \in Files : file[f] \in {Absent, Empty} \cup Created
  /\ \A b \in Backends : load[b] = "up" => cert[b] \in Created
  /\ Wiped /\ ~Stale =>
       /\ torn = {} /\ \A f \in Files : file[f] \in {Absent, Empty, start}
       /\ \A b \in Backends : load[b] = "up" => cert[b] = start

LEMMA UpHasRead ==
  ASSUME TypeOK, CertInv, CreatedInv
  PROVE  WhatIsRead
<1>1. \A w \in Generators : list[w] <= start
  BY OrderFacts DEF CertInv, BundleInv
<1>2. Wiped /\ ~Stale =>
       /\ torn = {} /\ \A f \in Files : file[f] \in {Absent, Empty, start}
       /\ \A b \in Backends : load[b] = "up" => cert[b] = start
  BY DEF CertInv, OwnInv
<1> QED
  BY <1>1, <1>2 DEF CreatedInv, WhatIsRead

\* The premises of Routing, where a proxy reads and a backend serves any bundle
\* created so far, and where a request can be fresh because in a directory that
\* only the parent's bundle is written to they have all read the same.
THEOREM WhatRoutingAssumes == Spec => []WhatIsRead
<1>1. Init => CreatedInv
  BY DEF Init, CreatedInv
<1>2. TypeOK /\ CertInv /\ CreatedInv /\ [Next]_vars => CreatedInv'
  BY CreatedStep DEF CertInv
<1> QED
  BY <1>1, <1>2, UpHasRead, CertTypeCorrect, CertCorrect, PTL DEF Spec

-----------------------------------------------------------------------------
(* What a generator is told.                                               *)

Told(w) == IF pc[w] \in {"idle", "refused"} THEN "nothing"
           ELSE IF pc[w] = "certs" THEN "list" ELSE "both"
ListTold(w) == IF Told(w) = "nothing" THEN 0 ELSE list[w]
RootTold(w) == IF Told(w) = "both" THEN bundle[w] ELSE 0

D(w) == INSTANCE Discovery WITH
  told <- Told(w), list <- ListTold(w), root <- RootTold(w)

LEMMA ToldSame ==
  ASSUME NEW w \in Generators, UNCHANGED <<start, list, bundle>>,
         \/ pc'[w] = pc[w]
         \/ /\ pc[w] \notin {"idle", "refused", "certs"}
            /\ pc'[w] \notin {"idle", "refused", "certs"}
  PROVE  UNCHANGED D(w)!vars
  BY DEF D!vars, Told, ListTold, RootTold

LEMMA DiscoveryStep ==
  ASSUME TypeOK, CertInv, [Next]_vars, NEW w \in Generators
  PROVE  [D(w)!Next]_(D(w)!vars)
<1>0. w \in Writers /\ w # Parent
  BY OrderFacts DEF Writers
<1>1. CASE StartParent
  <2>0. Goto(Parent, "list") /\ Parent \in Writers
    BY <1>1 DEF StartParent, Writers
  <2>1. pc'[w] = pc[w] /\ bundle'[w] = bundle[w] /\ list' = list /\ start' = start + 1
    BY <1>0, <1>1, <2>0, GotoOne DEF StartParent, TypeOK, CommandTypeOK
  <2>2. D(w)!Restart
    BY <2>1 DEF D!Restart, Told, ListTold, RootTold
  <2> QED
    BY <2>2 DEF D!Next
<1>2. CASE Publish \/ EndParent
  <2>0. UNCHANGED pc \/ (Goto(Parent, "ended") /\ Parent \in Writers)
    BY <1>2 DEF Publish, EndParent, Writers
  <2>1. pc'[w] = pc[w] /\ UNCHANGED <<start, list, bundle>>
    BY <1>0, <1>2, <2>0, GotoOne DEF Publish, EndParent, fetched
  <2> QED
    BY <2>1, ToldSame
<1>3. ASSUME NEW v \in Generators, FetchBackends(v) PROVE [D(w)!Next]_(D(w)!vars)
  <2>0. v \in Writers
    BY OrderFacts DEF Writers
  <2>1. CASE v # w
    <3>1. pc'[w] = pc[w] /\ list'[w] = list[w] /\ UNCHANGED <<start, bundle>>
      BY <1>0, <1>3, <2>0, <2>1, GotoOne DEF FetchBackends, TypeOK, CommandTypeOK
    <3> QED
      BY <3>1 DEF D!vars, Told, ListTold, RootTold
  <2>2. CASE v = w /\ Serving /\ "/backends" \in routes
    <3>1. pc[w] = "idle" /\ pc'[w] = "certs" /\ list'[w] = start /\ UNCHANGED <<start, bundle>>
      BY <1>0, <1>3, <2>2, GotoOne DEF FetchBackends, TypeOK, CommandTypeOK
    <3>2. start > 0
      BY <2>2 DEF CertInv, BundleInv, Serving
    <3>3. D(w)!AskBackends
      BY <3>1, <3>2 DEF D!AskBackends, Told, ListTold, RootTold
    <3> QED
      BY <3>3 DEF D!Next
  <2>3. CASE v = w /\ ~(Serving /\ "/backends" \in routes)
    <3>1. pc[w] = "idle" /\ pc'[w] = "refused" /\ UNCHANGED <<start, list, bundle>>
      BY <1>0, <1>3, <2>3, GotoOne DEF FetchBackends
    <3> QED
      BY <3>1 DEF D!vars, Told, ListTold, RootTold
  <2> QED
    BY <2>1, <2>2, <2>3
<1>4. ASSUME NEW v \in Generators, FetchCertificates(v) PROVE [D(w)!Next]_(D(w)!vars)
  <2>0. v \in Writers
    BY OrderFacts DEF Writers
  <2>1. CASE v # w
    <3>1. pc'[w] = pc[w] /\ bundle'[w] = bundle[w] /\ UNCHANGED <<start, list>>
      BY <1>0, <1>4, <2>0, <2>1, GotoOne DEF FetchCertificates, TypeOK, CommandTypeOK
    <3> QED
      BY <3>1 DEF D!vars, Told, ListTold, RootTold
  <2>2. CASE v = w /\ Serving /\ "/certs" \in routes
    <3>1. pc[w] = "certs" /\ pc'[w] = "list" /\ bundle'[w] = start /\ UNCHANGED <<start, list>>
      BY <1>0, <1>4, <2>2, GotoOne DEF FetchCertificates, TypeOK, CommandTypeOK
    <3>2. D(w)!AskCertificates
      BY <3>1 DEF D!AskCertificates, Told, ListTold, RootTold
    <3> QED
      BY <3>2 DEF D!Next
  <2>3. CASE v = w /\ ~(Serving /\ "/certs" \in routes)
    <3>1. pc[w] = "certs" /\ pc'[w] = "refused" /\ UNCHANGED <<start, list, bundle>>
      BY <1>0, <1>4, <2>3, GotoOne DEF FetchCertificates
    <3>2. D(w)!Refused
      BY <3>1 DEF D!Refused, Told, ListTold, RootTold
    <3> QED
      BY <3>2 DEF D!Next
  <2> QED
    BY <2>1, <2>2, <2>3
<1>5. ASSUME NEW v \in Writers, WriteCertificates(v) \/ Break(v) PROVE [D(w)!Next]_(D(w)!vars)
  <2>1. /\ Writing(v) /\ UNCHANGED <<start, bundle, list, routes>>
        /\ pc'[v] \in WritingStates \cup {"done", "failed"}
        /\ v # w => pc'[w] = pc[w]
    BY <1>0, <1>5, WriterStep
  <2> QED
    BY <2>1, ToldSame DEF Writing, WritingStates
<1>6. CASE (\E b \in Backends : Load(b)) \/ UNCHANGED vars
  <2>1. UNCHANGED <<start, pc, bundle, list>>
    BY <1>6, LoadStep DEF vars, fetched
  <2> QED
    BY <2>1, ToldSame
<1>7. ASSUME NEW v \in Strays, StartStray(v) PROVE [D(w)!Next]_(D(w)!vars)
  <2>1. v \in Writers /\ v # w
    BY OrderFacts
  <2>2. pc'[w] = pc[w] /\ bundle'[w] = bundle[w] /\ UNCHANGED <<start, list>>
    BY <1>0, <1>7, <2>1, GotoOne DEF StartStray, TypeOK, CommandTypeOK
  <2> QED
    BY <2>2 DEF D!vars, Told, ListTold, RootTold
<1> QED
  BY <1>1, <1>2, <1>3, <1>4, <1>5, <1>6, <1>7 DEF Next

\* Whatever else happens in the directory and to the parent, a generator is
\* told what a client of serve-backends can be told, in this order.
THEOREM CertDiscovery == ASSUME NEW w \in Generators PROVE Spec => D(w)!Spec
<1>1. Init => D(w)!Init
  <2> SUFFICES ASSUME Init PROVE D(w)!Init
    OBVIOUS
  <2>1. pc[w] = "idle" /\ start = 0
    BY DEF Init, Writers
  <2> QED
    BY <2>1 DEF D!Init, Told, ListTold, RootTold
<1>2. TypeOK /\ CertInv /\ [Next]_vars => [D(w)!Next]_(D(w)!vars)
  BY DiscoveryStep
<1> QED
  BY <1>1, <1>2, CertTypeCorrect, CertCorrect, PTL DEF Spec, D!Spec
=============================================================================
