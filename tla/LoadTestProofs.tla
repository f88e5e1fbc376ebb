--------------------------- MODULE LoadTestProofs ---------------------------
(***************************************************************************)
(* Theorems about LoadTest, for any number of clients and requests.        *)
(***************************************************************************)
EXTENDS LoadTest, SequenceTheorems, TLAPS

-----------------------------------------------------------------------------
(* Sequences without repetition.                                           *)

NoRepeat(s) == \A i, j \in DOMAIN s : s[i] = s[j] => i = j

LEMMA ElementsAppend ==
  ASSUME NEW S, NEW s \in Seq(S), NEW x \in S
  PROVE  /\ Elements(Append(s, x)) = Elements(s) \cup {x}
         /\ NoRepeat(s) /\ x \notin Elements(s) => NoRepeat(Append(s, x))
<1>1. /\ DOMAIN s = 1 .. Len(s) /\ Len(s) \in Nat
      /\ DOMAIN Append(s, x) = 1 .. Len(s) + 1
      /\ \A i \in 1 .. Len(s) : Append(s, x)[i] = s[i]
      /\ Append(s, x)[Len(s) + 1] = x
  OBVIOUS
<1>2. Elements(Append(s, x)) = Elements(s) \cup {x}
  <2>1. ASSUME NEW y \in Elements(Append(s, x)) PROVE y \in Elements(s) \cup {x}
    <3>1. PICK i \in 1 .. Len(s) + 1 : y = Append(s, x)[i]
      BY <1>1, <2>1 DEF Elements
    <3>2. i \in 1 .. Len(s) \/ i = Len(s) + 1
      BY <1>1
    <3> QED
      BY <1>1, <3>1, <3>2 DEF Elements
  <2>2. ASSUME NEW y \in Elements(s) \cup {x} PROVE y \in Elements(Append(s, x))
    <3>1. CASE y = x
      BY <1>1, <3>1 DEF Elements
    <3>2. CASE y \in Elements(s)
      <4>1. PICK i \in 1 .. Len(s) : y = s[i]
        BY <1>1, <3>2 DEF Elements
      <4>2. i \in 1 .. Len(s) + 1
        BY <1>1
      <4> QED
        BY <1>1, <4>1, <4>2 DEF Elements
    <3> QED
      BY <2>2, <3>1, <3>2
  <2> QED
    BY <2>1, <2>2
<1>3. ASSUME NoRepeat(s), x \notin Elements(s) PROVE NoRepeat(Append(s, x))
  <2> SUFFICES ASSUME NEW i \in 1 .. Len(s) + 1, NEW j \in 1 .. Len(s) + 1,
                      Append(s, x)[i] = Append(s, x)[j]
               PROVE  i = j
    BY <1>1 DEF NoRepeat
  <2>1. \A k \in 1 .. Len(s) : s[k] # x
    BY <1>1, <1>3 DEF Elements
  <2> QED
    BY <1>1, <1>3, <2>1 DEF NoRepeat
<1> QED
  BY <1>2, <1>3

LEMMA ElementsTail ==
  ASSUME NEW S, NEW s \in Seq(S), s # <<>>, NoRepeat(s)
  PROVE  /\ Tail(s) \in Seq(S) /\ Head(s) \in S
         /\ NoRepeat(Tail(s))
         /\ Head(s) \notin Elements(Tail(s))
         /\ Elements(s) = Elements(Tail(s)) \cup {Head(s)}
<1>1. /\ DOMAIN s = 1 .. Len(s) /\ Len(s) \in Nat \ {0}
      /\ Tail(s) \in Seq(S) /\ Head(s) \in S /\ Head(s) = s[1]
      /\ DOMAIN Tail(s) = 1 .. Len(s) - 1
      /\ \A i \in 1 .. Len(s) - 1 : Tail(s)[i] = s[i + 1]
  OBVIOUS
<1>2. NoRepeat(Tail(s))
  <2> SUFFICES ASSUME NEW i \in 1 .. Len(s) - 1, NEW j \in 1 .. Len(s) - 1,
                      Tail(s)[i] = Tail(s)[j]
               PROVE  i = j
    BY <1>1 DEF NoRepeat
  <2>1. s[i + 1] = s[j + 1] /\ i + 1 \in DOMAIN s /\ j + 1 \in DOMAIN s
    BY <1>1
  <2>2. i + 1 = j + 1
    BY <2>1 DEF NoRepeat
  <2> QED
    BY <1>1, <2>2
<1>3. Head(s) \notin Elements(Tail(s))
  <2> SUFFICES ASSUME NEW i \in 1 .. Len(s) - 1, Tail(s)[i] = Head(s) PROVE FALSE
    BY <1>1 DEF Elements
  <2>1. s[i + 1] = s[1] /\ i + 1 \in DOMAIN s /\ 1 \in DOMAIN s
    BY <1>1
  <2>2. i + 1 = 1
    BY <2>1 DEF NoRepeat
  <2> QED
    BY <1>1, <2>2
<1>4. Elements(s) = Elements(Tail(s)) \cup {Head(s)}
  <2>1. ASSUME NEW y \in Elements(s) PROVE y \in Elements(Tail(s)) \cup {Head(s)}
    <3>1. PICK i \in 1 .. Len(s) : y = s[i]
      BY <1>1, <2>1 DEF Elements
    <3>2. CASE i = 1
      BY <1>1, <3>1, <3>2
    <3>3. CASE i # 1
      <4>1. i - 1 \in 1 .. Len(s) - 1 /\ Tail(s)[i - 1] = s[i]
        BY <1>1, <3>3
      <4> QED
        BY <1>1, <3>1, <4>1 DEF Elements
    <3> QED
      BY <3>2, <3>3
  <2>2. ASSUME NEW y \in Elements(Tail(s)) PROVE y \in Elements(s)
    <3>1. PICK i \in 1 .. Len(s) - 1 : y = Tail(s)[i]
      BY <1>1, <2>2 DEF Elements
    <3>2. i + 1 \in DOMAIN s /\ s[i + 1] = y
      BY <1>1, <3>1
    <3> QED
      BY <3>2 DEF Elements
  <2>3. Head(s) \in Elements(s)
    BY <1>1 DEF Elements
  <2> QED
    BY <2>1, <2>2, <2>3
<1> QED
  BY <1>1, <1>2, <1>3, <1>4

\* Client by client, request by request: each request is there once.
LEMMA InitialComplete ==
  ASSUME Nrequests # 0
  PROVE  /\ InitialRequests \in Seq(Requests)
         /\ NoRepeat(InitialRequests)
         /\ Elements(InitialRequests) = Requests
<1> DEFINE N == Nrequests
           L == Clients * N
           q(i) == (i - 1) \div N
           m(i) == (i - 1) % N
<1>1. Clients \in Nat /\ N \in Nat \ {0} /\ L \in Nat
  BY ConstantsAssumption, SMT DEF ConstantsAssumption
<1>2. ASSUME NEW i \in 1 .. L
      PROVE  /\ q(i) \in Nat /\ m(i) \in 0 .. N - 1
             /\ i - 1 = N * q(i) + m(i)
  BY <1>1, SMT
<1>3. ASSUME NEW i \in 1 .. L PROVE q(i) < Clients
  <2>1. CASE q(i) >= Clients
    <3>1. N * q(i) >= N * Clients
      BY <1>1, <1>2, <2>1, SMT
    <3> QED
      BY <1>1, <1>2, <3>1, SMT
  <2> QED
    BY <1>1, <1>2, <2>1
<1>4. ASSUME NEW i \in 1 .. L PROVE <<q(i) + 1, m(i) + 1>> \in Requests
  BY <1>1, <1>2, <1>3 DEF Requests, Fetchers
<1>5. ASSUME NEW c \in 1 .. Clients, NEW u \in 1 .. N
      PROVE  \E i \in 1 .. L : q(i) + 1 = c /\ m(i) + 1 = u
  <2> DEFINE k == (c - 1) * N + u
  <2>1. k \in 1 .. L
    <3>1. (c - 1) * N >= 0
      BY <1>1, SMT
    <3>2. c * N <= L /\ c * N = (c - 1) * N + N
      BY <1>1, SMT
    <3> QED
      BY <1>1, <3>1, <3>2, SMT
  <2>2. q(k) \in Nat /\ m(k) \in 0 .. N - 1 /\ k - 1 = N * q(k) + m(k)
    BY <1>2, <2>1
  <2>3. N * (q(k) - (c - 1)) = u - 1 - m(k)
    BY <1>1, <2>2, SMT
  <2>4. q(k) = c - 1
    BY <1>1, <2>2, <2>3, SMT
  <2>5. m(k) = u - 1
    BY <1>1, <2>2, <2>3, <2>4, SMT
  <2>6. q(k) + 1 = c /\ m(k) + 1 = u
    BY <2>4, <2>5, SMT
  <2> HIDE DEF q, m, k
  <2> QED
    BY <2>1, <2>6
<1>6. InitialRequests = [i \in 1 .. L |-> <<q(i) + 1, m(i) + 1>>]
  BY DEF InitialRequests
<1> HIDE DEF q, m, L, N
<1>7. InitialRequests \in Seq(Requests)
  <2>1. InitialRequests \in [1 .. L -> Requests]
    BY <1>4, <1>6
  <2> QED
    BY <1>1, <2>1, SeqDef
<1>8. NoRepeat(InitialRequests)
  <2> SUFFICES ASSUME NEW i \in 1 .. L, NEW j \in 1 .. L, q(i) + 1 = q(j) + 1, m(i) + 1 = m(j) + 1
               PROVE  i = j
    BY <1>6 DEF NoRepeat
  <2>1. q(i) = q(j) /\ m(i) = m(j)
    <3>1. q(i) \in Int /\ m(i) \in Int
      BY <1>1, <1>2
    <3>2. q(j) \in Int /\ m(j) \in Int
      BY <1>1, <1>2
    <3> QED
      BY <3>1, <3>2
  <2>2. i - 1 = j - 1
    BY <1>2, <2>1
  <2> QED
    BY <1>1, <2>2
<1>9. Elements(InitialRequests) = Requests
  <2>1. DOMAIN InitialRequests = 1 .. L
    BY <1>6
  <2>2. \A i \in 1 .. L : InitialRequests[i] = <<q(i) + 1, m(i) + 1>>
    BY <1>6
  <2>3. ASSUME NEW r \in Requests PROVE r \in Elements(InitialRequests)
    <3>1. r[1] \in 1 .. Clients /\ r[2] \in 1 .. N /\ r = <<r[1], r[2]>>
      BY DEF Requests, Fetchers, N
    <3>2. PICK i \in 1 .. L : q(i) + 1 = r[1] /\ m(i) + 1 = r[2]
      BY <1>5, <3>1
    <3>3. InitialRequests[i] = r
      BY <2>2, <3>1, <3>2
    <3> QED
      BY <2>1, <3>3 DEF Elements
  <2>4. ASSUME NEW r \in Elements(InitialRequests) PROVE r \in Requests
    BY <1>4, <2>1, <2>2, <2>4 DEF Elements
  <2> QED
    BY <2>3, <2>4
<1> QED
  BY <1>7, <1>8, <1>9

-----------------------------------------------------------------------------
(* Type correctness.                                                       *)

CountersOK == hits \in 0 .. MaxCount /\ errors \in 0 .. MaxCount /\ bad \in 0 .. MaxCount

LEMMA IncType == ASSUME NEW n \in 0 .. MaxCount PROVE Inc(n) \in 0 .. MaxCount
  BY ConstantsAssumption DEF ConstantsAssumption, Inc

LEMMA CountType == ASSUME TypeOK, NEW f \in Fetchers, Count(f) PROVE CountersOK'
<1>1. /\ hits \in 0 .. MaxCount /\ errors \in 0 .. MaxCount /\ bad \in 0 .. MaxCount
      /\ hits' = Inc(hits) /\ errors' \in {errors, Inc(errors)} /\ bad' \in {bad, Inc(bad)}
  BY DEF TypeOK, Count
<1>2. Inc(hits) \in 0 .. MaxCount /\ Inc(errors) \in 0 .. MaxCount /\ Inc(bad) \in 0 .. MaxCount
  BY <1>1, IncType
<1> QED
  BY <1>1, <1>2 DEF CountersOK

LEMMA NotARequest == None \notin Requests
  BY DEF None, Requests

LEMMA DispatchType ==
  ASSUME TypeOK, NEW f \in Fetchers, Dispatch(f)
  PROVE  TypeOK'
<1>1. Tail(pending) \in Seq(Requests) /\ Head(pending) \in Requests
  <2>1. pending \in Seq(Requests) /\ pending # <<>>
    BY DEF TypeOK, Dispatch
  <2> QED
    BY <2>1
<1>2. pending' = Tail(pending) /\ UNCHANGED <<main, status, hits, errors, bad, elapsed, interrupted>>
  BY DEF Dispatch, counters
<1>3. holds' \in [Fetchers -> Requests \cup {None}]
  BY <1>1 DEF TypeOK, Dispatch
<1>4. fetch' \in [Fetchers -> {"idle", "fetching", "ok", "error", "bad"}]
  BY DEF TypeOK, Dispatch
<1> QED
  BY <1>1, <1>2, <1>3, <1>4 DEF TypeOK

LEMMA ReceiveType ==
  ASSUME TypeOK, BusyInv, NEW f \in Fetchers, Receive(f)
  PROVE  TypeOK'
<1>1. holds[f] \in Requests
  BY DEF TypeOK, BusyInv, Receive
<1>2. pending' \in Seq(Requests)
  <2>1. pending \in Seq(Requests) /\ pending' = Append(pending, holds[f])
    BY DEF TypeOK, Receive, Requeue
  <2> QED
    BY <1>1, <2>1
<1>3. CountersOK'
  BY CountType DEF Receive
<1>4. holds' \in [Fetchers -> Requests \cup {None}]
  BY DEF TypeOK, Receive
<1>5. fetch' \in [Fetchers -> {"idle", "fetching", "ok", "error", "bad"}]
  BY DEF TypeOK, Receive
<1>6. main' \in {"select", "body"} /\ UNCHANGED <<status, elapsed, interrupted>>
  BY DEF Receive
<1> QED
  BY <1>2, <1>3, <1>4, <1>5, <1>6 DEF TypeOK, CountersOK

LEMMA OtherType ==
  ASSUME TypeOK,
         \/ Start \/ Interrupted \/ Complete \/ EndOfBody \/ Tick \/ Interrupt \/ Stall \/ Resume
         \/ (\E f \in Fetchers : Fetch(f)) \/ UNCHANGED vars
  PROVE  TypeOK'
<1>1. CASE Start
  <2>1. pending' \in Seq(Requests)
    <3>1. pending' = pending \/ (Nrequests # 0 /\ pending' = InitialRequests)
      BY <1>1 DEF Start, Unreadable, Fill
    <3> QED
      BY <3>1, InitialComplete DEF TypeOK
  <2>2. main' \in {"select", "returned"} /\ status' \in {"none", "nil", "bad file", "bad request", "test interrupted"}
    BY <1>1 DEF Start, Unreadable, Fill, Return, TypeOK
  <2>3. UNCHANGED <<holds, fetch, hits, errors, bad, elapsed, interrupted>>
    BY <1>1 DEF Start, Unreadable, Fill, fetchers, counters
  <2> QED
    BY <2>1, <2>2, <2>3 DEF TypeOK
<1>2. CASE Interrupted \/ Complete
  BY <1>2 DEF Interrupted, Complete, Return, TypeOK, fetchers, counters
<1>3. CASE EndOfBody \/ Stall \/ Resume
  BY <1>3 DEF EndOfBody, Stall, Resume, TypeOK, fetchers, counters
<1>4. CASE Tick
  <2>1. elapsed' \in 0 .. MaxTime
    <3>1. elapsed \in 0 .. MaxTime /\ elapsed < MaxTime /\ elapsed' = elapsed + 1 /\ MaxTime \in Nat
      BY <1>4, ConstantsAssumption DEF Tick, TypeOK, ConstantsAssumption
    <3> QED
      BY <3>1
  <2> QED
    BY <1>4, <2>1 DEF Tick, TypeOK, fetchers, counters
<1>5. CASE Interrupt
  BY <1>5 DEF Interrupt, TypeOK, fetchers, counters
<1>6. ASSUME NEW f \in Fetchers, Fetch(f) PROVE TypeOK'
  BY <1>6 DEF Fetch, TypeOK, counters
<1>7. CASE UNCHANGED vars
  BY <1>7 DEF vars, TypeOK, fetchers, counters
<1> QED
  BY <1>1, <1>2, <1>3, <1>4, <1>5, <1>6, <1>7

-----------------------------------------------------------------------------
(* Conservation.                                                           *)

LEMMA DispatchLoad ==
  ASSUME TypeOK, LoadInv, NEW f \in Fetchers, Dispatch(f)
  PROVE  LoadInv'
<1> DEFINE r == Head(pending)
<1>1. /\ pending \in Seq(Requests) /\ pending # <<>> /\ NoRepeat(pending)
      /\ holds[f] = None /\ Started
  BY DEF TypeOK, LoadInv, BusyInv, RequestsConserved, Dispatch, Started, NoRepeat
<1>2. /\ pending' = Tail(pending) /\ main' = main
      /\ holds' = [holds EXCEPT ![f] = r] /\ fetch' = [fetch EXCEPT ![f] = "fetching"]
  BY DEF Dispatch
<1>3. /\ r \in Requests /\ NoRepeat(Tail(pending)) /\ r \notin Elements(Tail(pending))
      /\ Elements(pending) = Elements(Tail(pending)) \cup {r}
  BY <1>1, ElementsTail
<1>4. /\ holds \in [Fetchers -> Requests \cup {None}] /\ DOMAIN fetch = Fetchers
      /\ holds'[f] = r /\ \A g \in Fetchers \ {f} : holds'[g] = holds[g]
  BY <1>2 DEF TypeOK
<1>5. Busy' = Busy \cup {f} /\ f \notin Busy
  BY <1>1, <1>3, <1>4, NotARequest DEF Busy
<1>6. BusyInv'
  BY <1>2, <1>3, <1>4, NotARequest DEF LoadInv, BusyInv
<1>7. /\ \A g, h \in Busy : holds[g] = holds[h] => g = h
      /\ \A g \in Busy : holds[g] \notin Elements(pending)
      /\ Elements(pending) \cup {holds[g] : g \in Busy} = Requests
  BY <1>1 DEF LoadInv, RequestsConserved
<1>8. \A g, h \in Busy' : holds'[g] = holds'[h] => g = h
  BY <1>3, <1>4, <1>5, <1>7 DEF Busy
<1>9. \A g \in Busy' : holds'[g] \notin Elements(pending')
  BY <1>2, <1>3, <1>4, <1>5, <1>7 DEF Busy
<1>10. {holds'[g] : g \in Busy'} = {holds[g] : g \in Busy} \cup {r}
  BY <1>4, <1>5 DEF Busy
<1>11. Elements(pending') \cup {holds'[g] : g \in Busy'} = Requests
  BY <1>2, <1>3, <1>7, <1>10
<1>12. RequestsConserved'
  BY <1>2, <1>3, <1>8, <1>9, <1>11 DEF RequestsConserved, NoRepeat
<1> QED
  BY <1>1, <1>2, <1>6, <1>12 DEF LoadInv, Started

LEMMA ReceiveLoad ==
  ASSUME TypeOK, LoadInv, NEW f \in Fetchers, Receive(f)
  PROVE  LoadInv'
<1> DEFINE r == holds[f]
<1>1. /\ pending \in Seq(Requests) /\ r # None /\ r \in Requests /\ f \in Busy /\ Started
  BY DEF TypeOK, LoadInv, BusyInv, Receive, Started, Busy
<1>2. /\ pending' = Append(pending, r) /\ main' \in {"select", "body"}
      /\ holds' = [holds EXCEPT ![f] = None] /\ fetch' = [fetch EXCEPT ![f] = "idle"]
  BY DEF Receive, Requeue
<1>3. /\ NoRepeat(pending)
      /\ \A g, h \in Busy : holds[g] = holds[h] => g = h
      /\ \A g \in Busy : holds[g] \notin Elements(pending)
      /\ Elements(pending) \cup {holds[g] : g \in Busy} = Requests
  BY <1>1 DEF LoadInv, RequestsConserved, NoRepeat
<1>4. NoRepeat(pending') /\ Elements(pending') = Elements(pending) \cup {r}
  BY <1>1, <1>2, <1>3, ElementsAppend
<1>5. /\ holds \in [Fetchers -> Requests \cup {None}]
      /\ fetch \in [Fetchers -> {"idle", "fetching", "ok", "error", "bad"}]
      /\ holds'[f] = None /\ \A g \in Fetchers \ {f} : holds'[g] = holds[g]
  BY <1>2 DEF TypeOK
<1>6. Busy' = Busy \ {f}
  BY <1>1, <1>5 DEF Busy
<1>7. BusyInv'
  BY <1>2, <1>5 DEF LoadInv, BusyInv
<1>8. \A g \in Busy' : g \in Busy /\ g # f /\ holds'[g] = holds[g]
  BY <1>5, <1>6 DEF Busy
<1>9. \A g, h \in Busy' : holds'[g] = holds'[h] => g = h
  BY <1>3, <1>8
<1>10. \A g \in Busy' : holds'[g] \notin Elements(pending')
  BY <1>1, <1>3, <1>4, <1>8
<1>11. {holds[g] : g \in Busy} = {holds'[g] : g \in Busy'} \cup {r}
  BY <1>1, <1>6, <1>8
<1>12. RequestsConserved'
  BY <1>3, <1>4, <1>9, <1>10, <1>11 DEF RequestsConserved, NoRepeat
<1> QED
  BY <1>2, <1>7, <1>12 DEF LoadInv

LEMMA OtherLoad ==
  ASSUME TypeOK, LoadInv,
         \/ Start \/ Interrupted \/ Complete \/ EndOfBody \/ Tick \/ Interrupt \/ Stall \/ Resume
         \/ (\E f \in Fetchers : Fetch(f)) \/ UNCHANGED vars
  PROVE  LoadInv'
<1>1. CASE Start
  <2>1. UNCHANGED <<holds, fetch>> /\ Busy = {} /\ main = "start" /\ main' \in {"select", "returned"}
    BY <1>1 DEF Start, Unreadable, Fill, Return, LoadInv, fetchers
  <2>2. BusyInv'
    BY <2>1 DEF LoadInv, BusyInv
  <2>3. CASE main' = "select"
    <3>1. Nrequests # 0 /\ pending' = InitialRequests
      BY <1>1, <2>3 DEF Start, Unreadable, Fill, Return
    <3>2. Busy' = {}
      BY <2>1 DEF Busy
    <3>3. NoRepeat(pending') /\ Elements(pending') = Requests
      BY <3>1, InitialComplete
    <3>4. RequestsConserved'
      BY <3>2, <3>3 DEF RequestsConserved, NoRepeat
    <3> QED
      BY <2>2, <2>3, <3>4 DEF LoadInv
  <2>4. CASE main' = "returned"
    BY <2>2, <2>4 DEF LoadInv, RequestsConserved, Started
  <2> QED
    BY <2>1, <2>3, <2>4
<1>2. CASE /\ UNCHANGED <<pending, holds, fetch>>
           /\ main' # main => Started /\ main' # "start"
  <2>1. Busy' = Busy /\ Elements(pending') = Elements(pending)
    BY <1>2 DEF Busy, Elements
  <2>2. Started' => Started
    BY <1>2 DEF Started
  <2>3. RequestsConserved'
    BY <1>2, <2>1, <2>2 DEF LoadInv, RequestsConserved
  <2>4. BusyInv'
    BY <1>2 DEF LoadInv, BusyInv
  <2> QED
    BY <1>2, <2>1, <2>3, <2>4 DEF LoadInv
<1>3. ASSUME NEW f \in Fetchers, Fetch(f) PROVE LoadInv'
  <2>1. UNCHANGED <<main, pending, holds>> /\ fetch[f] = "fetching"
    BY <1>3 DEF Fetch
  <2>2. PICK o \in {"ok", "error", "bad"} : fetch' = [fetch EXCEPT ![f] = o]
    BY <1>3 DEF Fetch
  <2>3. BusyInv'
    BY <2>1, <2>2 DEF LoadInv, BusyInv, TypeOK
  <2>4. Busy' = Busy /\ Elements(pending') = Elements(pending)
    BY <2>1 DEF Busy, Elements
  <2>5. RequestsConserved'
    BY <2>1, <2>4 DEF LoadInv, RequestsConserved, Started
  <2> QED
    BY <2>1, <2>3, <2>4, <2>5 DEF LoadInv
<1> QED
  BY <1>1, <1>2, <1>3 DEF Interrupted, Complete, EndOfBody, Tick, Interrupt, Stall, Resume, Return,
                          Started, vars, fetchers

LEMMA InitLoad == Init => TypeOK /\ LoadInv
<1> SUFFICES ASSUME Init PROVE TypeOK /\ LoadInv
  OBVIOUS
<1>1. pending \in Seq(Requests)
  BY DEF Init
<1>2. TypeOK
  <2>1. 0 \in 0 .. MaxCount /\ 0 \in 0 .. MaxTime
    BY ConstantsAssumption DEF ConstantsAssumption
  <2>2. /\ holds \in [Fetchers -> Requests \cup {None}]
        /\ fetch \in [Fetchers -> {"idle", "fetching", "ok", "error", "bad"}]
    BY DEF Init
  <2> QED
    BY <1>1, <2>1, <2>2 DEF Init, TypeOK
<1>3. LoadInv
  BY DEF Init, LoadInv, BusyInv, RequestsConserved, Started, Busy
<1> QED
  BY <1>2, <1>3

LEMMA LoadCorrect == Spec => [](TypeOK /\ LoadInv)
<1>1. TypeOK /\ LoadInv /\ [Next]_vars => (TypeOK /\ LoadInv)'
  <2> SUFFICES ASSUME TypeOK, LoadInv, [Next]_vars PROVE TypeOK' /\ LoadInv'
    OBVIOUS
  <2>1. ASSUME NEW f \in Fetchers, Dispatch(f) PROVE TypeOK' /\ LoadInv'
    BY <2>1, DispatchType, DispatchLoad
  <2>2. ASSUME NEW f \in Fetchers, Receive(f) PROVE TypeOK' /\ LoadInv'
    BY <2>2, ReceiveType, ReceiveLoad DEF LoadInv
  <2> QED
    BY <2>1, <2>2, OtherType, OtherLoad DEF Next, SendCase, ReceiveCase, Terminated
<1> QED
  BY <1>1, InitLoad, PTL DEF Spec

\* Every variable keeps its type.
THEOREM LoadTypeCorrect == Spec => []TypeOK
  BY LoadCorrect, PTL

\* Nothing of the load is lost or doubled, for any number of clients and
\* requests: each request is pending once or with one fetcher.
THEOREM Conservation == Spec => []RequestsConserved
<1>1. LoadInv => RequestsConserved
  BY DEF LoadInv
<1> QED
  BY <1>1, LoadCorrect, PTL

LEMMA CountAdds ==
  ASSUME TypeOK, ReportAddsUp, NEW f \in Fetchers, Count(f)
  PROVE  ReportAddsUp'
<1> DEFINE Sum(h, e, b) ==
      /\ e <= h /\ b <= h
      /\ h < MaxCount => e + b <= h
<1>1. /\ MaxCount \in Nat
      /\ hits \in 0 .. MaxCount /\ errors \in 0 .. MaxCount /\ bad \in 0 .. MaxCount
      /\ Sum(hits, errors, bad)
  BY ConstantsAssumption DEF TypeOK, ReportAddsUp
<1>2. hits' = Inc(hits)
  BY DEF Count
<1>3. CASE fetch[f] = "error"
  <2>1. errors' = Inc(errors) /\ bad' = bad
    BY <1>3 DEF Count
  <2> QED
    BY <1>1, <1>2, <2>1 DEF Inc, ReportAddsUp
<1>4. CASE fetch[f] = "bad"
  <2>1. errors' = errors /\ bad' = Inc(bad)
    BY <1>4 DEF Count
  <2> QED
    BY <1>1, <1>2, <2>1 DEF Inc, ReportAddsUp
<1>5. CASE fetch[f] \notin {"error", "bad"}
  <2>1. errors' = errors /\ bad' = bad
    BY <1>5 DEF Count
  <2> QED
    BY <1>1, <1>2, <2>1 DEF Inc, ReportAddsUp
<1> QED
  BY <1>3, <1>4, <1>5

\* What the test reports adds up, for any number of clients and requests and
\* wherever the counters stop: it is inductive with the types.
THEOREM ReportCorrect == Spec => []ReportAddsUp
<1>1. Init => ReportAddsUp
  <2> SUFFICES ASSUME Init PROVE ReportAddsUp
    OBVIOUS
  <2> QED
    BY DEF Init, ReportAddsUp
<1>2. TypeOK /\ ReportAddsUp /\ [Next]_vars => ReportAddsUp'
  <2> SUFFICES ASSUME TypeOK, ReportAddsUp, [Next]_vars PROVE ReportAddsUp'
    OBVIOUS
  <2>1. ASSUME NEW f \in Fetchers, Receive(f) PROVE ReportAddsUp'
    BY <2>1, CountAdds DEF Receive
  <2>2. ASSUME UNCHANGED counters PROVE ReportAddsUp'
    BY <2>2 DEF counters, ReportAddsUp
  <2>3. ASSUME NEW f \in Fetchers, Dispatch(f) \/ Fetch(f) PROVE UNCHANGED counters
    BY <2>3 DEF Dispatch, Fetch
  <2>4. ASSUME \/ Start \/ Interrupted \/ Complete \/ EndOfBody \/ Tick \/ Interrupt
               \/ Stall \/ Resume \/ UNCHANGED vars
        PROVE UNCHANGED counters
    BY <2>4 DEF Start, Unreadable, Fill, Interrupted, Complete, EndOfBody, Tick, Interrupt, Stall, Resume, vars
  <2> QED
    BY <2>1, <2>2, <2>3, <2>4 DEF Next, SendCase, ReceiveCase, Terminated
<1> QED
  BY <1>1, <1>2, LoadTypeCorrect, PTL DEF Spec
-----------------------------------------------------------------------------
(* The closed loop.                                                        *)

Out == {holds[f] : f \in Busy}
Phase == IF main = "start" THEN "idle" ELSE IF Started THEN "running" ELSE "ended"

\* What moves the loop: one request goes out or comes back.
LEMMA OutOnDispatch ==
  ASSUME TypeOK, LoadInv, NEW f \in Fetchers, Dispatch(f)
  PROVE  /\ Head(pending) \in Requests /\ Head(pending) \notin Out
         /\ Out' = Out \cup {Head(pending)}
<1> DEFINE r == Head(pending)
<1>1. /\ pending \in Seq(Requests) /\ pending # <<>> /\ NoRepeat(pending)
      /\ holds[f] = None /\ Started
  BY DEF TypeOK, LoadInv, BusyInv, RequestsConserved, Dispatch, Started, NoRepeat
<1>2. r \in Requests /\ r \in Elements(pending)
  BY <1>1, ElementsTail
<1>3. \A g \in Busy : holds[g] \notin Elements(pending)
  BY <1>1 DEF LoadInv, RequestsConserved
<1>4. holds'[f] = r /\ \A g \in Fetchers \ {f} : holds'[g] = holds[g]
  BY DEF Dispatch, TypeOK
<1>5. Busy' = Busy \cup {f} /\ f \notin Busy
  BY <1>1, <1>2, <1>4, NotARequest DEF Busy
<1>6. Out' = Out \cup {r}
  BY <1>4, <1>5 DEF Out, Busy
<1> QED
  BY <1>2, <1>3, <1>6 DEF Out

LEMMA OutOnReceive ==
  ASSUME TypeOK, LoadInv, NEW f \in Fetchers, Receive(f)
  PROVE  /\ holds[f] \in Requests /\ holds[f] \in Out
         /\ Out' = Out \ {holds[f]}
<1>1. holds[f] # None /\ holds[f] \in Requests /\ f \in Busy /\ Started
  BY DEF TypeOK, LoadInv, BusyInv, Receive, Started, Busy
<1>2. \A g, h \in Busy : holds[g] = holds[h] => g = h
  BY <1>1 DEF LoadInv, RequestsConserved
<1>3. holds'[f] = None /\ \A g \in Fetchers \ {f} : holds'[g] = holds[g]
  BY DEF Receive, TypeOK
<1>4. Busy' = Busy \ {f}
  BY <1>1, <1>3 DEF Busy
<1>5. Out' = Out \ {holds[f]}
  BY <1>1, <1>2, <1>3, <1>4 DEF Out, Busy
<1> QED
  BY <1>1, <1>5 DEF Out

LEMMA OutElsewhere ==
  ASSUME \/ Start \/ Interrupted \/ Complete \/ EndOfBody \/ Tick \/ Interrupt \/ Stall \/ Resume
         \/ (\E f \in Fetchers : Fetch(f)) \/ UNCHANGED vars
  PROVE  Out' = Out /\ UNCHANGED <<hits, errors, bad>>
<1>1. holds' = holds /\ UNCHANGED <<hits, errors, bad>>
  BY DEF Start, Unreadable, Fill, Interrupted, Complete, EndOfBody, Tick, Interrupt, Stall, Resume, Fetch, vars,
         fetchers, counters
<1> QED
  BY <1>1 DEF Out, Busy

\* Fetchers with different requests are a client each for what they have.
LEMMA ClientForEach ==
  ASSUME NEW B \in SUBSET Fetchers, NEW h, \A f, g \in B : h[f] = h[g] => f = g
  PROVE  Loop!OneClientEach({h[f] : f \in B})
<1> DEFINE S == {h[f] : f \in B}
           of == [r \in S |-> CHOOSE f \in B : h[f] = r]
<1>1. ASSUME NEW r \in S PROVE of[r] \in B /\ h[of[r]] = r
  OBVIOUS
<1>2. of \in [S -> Fetchers]
  BY <1>1
<1>3. \A r, q \in S : of[r] = of[q] => r = q
  BY <1>1
<1> HIDE DEF of
<1> QED
  BY <1>2, <1>3 DEF Loop!OneClientEach

LEMMA PhaseElsewhere ==
  ASSUME TypeOK,
         \/ Start \/ Interrupted \/ Complete \/ EndOfBody \/ Tick \/ Interrupt \/ Stall \/ Resume
         \/ (\E f \in Fetchers : Fetch(f)) \/ UNCHANGED vars
  PROVE  \/ Phase' = Phase
         \/ Phase = "idle" /\ Phase' = "running"
         \/ Phase # "ended" /\ Phase' = "ended"
<1>1. \/ main' = main
      \/ main = "start" /\ main' \in {"select", "returned"}
      \/ Started /\ main' \in {"select", "body", "stalled", "returned"}
  BY DEF Start, Unreadable, Fill, Interrupted, Complete, EndOfBody, Tick, Interrupt, Stall, Resume, Fetch, vars,
         Return, Started
<1> QED
  BY <1>1 DEF Phase, Started

LEMMA LoopStep ==
  ASSUME TypeOK, LoadInv, LoadInv', [Next]_vars
  PROVE  [Loop!Next]_(Loop!vars)
<1> USE DEF Phase, Out
<1>1. ASSUME NEW f \in Fetchers, Dispatch(f) PROVE Loop!Next
  <2>1. PICK r \in Requests : r \notin Out /\ Out' = Out \cup {r}
    BY <1>1, OutOnDispatch
  <2>2. main = "select" /\ main' = main /\ UNCHANGED <<hits, errors, bad>>
    BY <1>1 DEF Dispatch, counters
  <2>3. Phase = "running" /\ Phase' = Phase /\ Started'
    BY <2>2 DEF Started
  <2>4. Loop!OneClientEach(Out')
    <3>1. Busy' \subseteq Fetchers /\ \A f1, f2 \in Busy' : holds'[f1] = holds'[f2] => f1 = f2
      BY <2>3 DEF LoadInv, RequestsConserved, Busy
    <3> HIDE DEF Out
    <3>2. Loop!OneClientEach({holds'[f1] : f1 \in Busy'})
      BY <3>1, ClientForEach
    <3> QED
      BY <3>2 DEF Out
  <2>5. Loop!OneClientEach(Out \cup {r})
    BY <2>1, <2>4
  <2>6. Loop!Send(r)
    BY <2>1, <2>2, <2>3, <2>5 DEF Loop!Send
  <2> QED
    BY <2>1, <2>6 DEF Loop!Next
<1>2. ASSUME NEW f \in Fetchers, Receive(f) PROVE Loop!Next
  <2>1. PICK r \in Requests : r \in Out /\ Out' = Out \ {r}
    BY <1>2, OutOnReceive
  <2>2. Phase = "running" /\ Phase' = Phase
    BY <1>2 DEF Receive, Started
  <2>3. /\ hits' = Loop!Up(hits)
        /\ \/ UNCHANGED <<errors, bad>>
           \/ errors' = Loop!Up(errors) /\ UNCHANGED bad
           \/ bad' = Loop!Up(bad) /\ UNCHANGED errors
    BY <1>2 DEF Receive, Count, Inc, Loop!Up
  <2>4. Loop!Return(r)
    BY <2>1, <2>2, <2>3 DEF Loop!Return
  <2> QED
    BY <2>1, <2>4 DEF Loop!Next
<1>3. ASSUME \/ Start \/ Interrupted \/ Complete \/ EndOfBody \/ Tick \/ Interrupt \/ Stall \/ Resume
             \/ (\E f \in Fetchers : Fetch(f)) \/ UNCHANGED vars
      PROVE  [Loop!Next]_(Loop!vars)
  <2>1. Out' = Out /\ UNCHANGED <<hits, errors, bad>>
    BY <1>3, OutElsewhere
  <2>2. \/ Phase' = Phase
        \/ Phase = "idle" /\ Phase' = "running"
        \/ Phase # "ended" /\ Phase' = "ended"
    BY <1>3, PhaseElsewhere
  <2> QED
    BY <2>1, <2>2 DEF Loop!Next, Loop!Begin, Loop!End, Loop!vars
<1> QED
  BY <1>1, <1>2, <1>3 DEF Next, SendCase, ReceiveCase, Terminated

\* The load test is a closed loop, for any number of clients and requests:
\* every step of the select, of a fetcher or of a server is one of its steps.
THEOREM ImplementsLoop == Spec => ImplementsClosedLoop
<1>1. Init => Loop!Init
  <2> SUFFICES ASSUME Init PROVE Loop!Init
    OBVIOUS
  <2>1. Busy = {}
    BY DEF Init, Busy
  <2> QED
    BY <2>1 DEF Init, Loop!Init
<1>2. (TypeOK /\ LoadInv) /\ (TypeOK /\ LoadInv)' /\ [Next]_vars => [Loop!Next]_(Loop!vars)
  BY LoopStep
<1> QED
  BY <1>1, <1>2, LoadCorrect, PTL DEF Spec, ImplementsClosedLoop, Loop!Spec

\* While the test goes on the main loop and the fetchers never all wait: one
\* has a request, or there is a request to send and every fetcher waits for
\* one.
WorkInv ==
  Started =>
    \/ \E f \in Fetchers : fetch[f] # "idle"
    \/ pending # <<>> /\ \A f \in Fetchers : fetch[f] = "idle"

\* Run returns at once when the file has no requests.
FileNotEmpty == Started => Nrequests # 0

LEMMA NotEmpty == Spec => []FileNotEmpty
<1>1. Init => FileNotEmpty
  BY DEF Init, FileNotEmpty, Started
<1>2. FileNotEmpty /\ [Next]_vars => FileNotEmpty'
  <2> SUFFICES ASSUME [Next]_vars, Started', ~Started PROVE Nrequests # 0
    BY DEF FileNotEmpty
  <2>1. Start
    BY DEF Next, vars, Started, Interrupted, Complete, SendCase, Dispatch, ReceiveCase, Receive,
           EndOfBody, Fetch, Tick, Interrupt, Stall, Resume, Terminated, Return
  <2> QED
    BY <2>1 DEF Start, Unreadable, Fill, Return, Started
<1> QED
  BY <1>1, <1>2, PTL DEF Spec

\* The load never runs dry, for any number of clients (one at least) and
\* requests.  It is what EveryRequestRuns needs of every state.
THEOREM NeverOutOfWork == ASSUME Clients # 0 PROVE Spec => []WorkInv
<1>1. TypeOK /\ LoadInv /\ FileNotEmpty => WorkInv
  <2> SUFFICES ASSUME TypeOK, LoadInv, FileNotEmpty, Started, \A f \in Fetchers : fetch[f] = "idle"
               PROVE  pending # <<>>
    BY DEF WorkInv
  <2>1. Busy = {}
    BY DEF LoadInv, BusyInv, Busy
  <2>2. Elements(pending) = Requests
    BY <2>1 DEF LoadInv, RequestsConserved
  <2>3. Requests # {}
    <3>1. Clients \in Nat \ {0} /\ Nrequests \in Nat \ {0}
      BY ConstantsAssumption DEF ConstantsAssumption, FileNotEmpty
    <3>2. <<1, 1>> \in Requests
      BY <3>1 DEF Requests, Fetchers
    <3> QED
      BY <3>2
  <2> QED
    BY <2>2, <2>3 DEF Elements
<1> QED
  BY <1>1, LoadCorrect, NotEmpty, PTL
=============================================================================
