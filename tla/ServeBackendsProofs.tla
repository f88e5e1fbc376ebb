------------------------ MODULE ServeBackendsProofs ------------------------
(***************************************************************************)
(* Theorems about ServeBackends, for any traffic types, any number of      *)
(* backends and attempts, and any set of faults.                           *)
(***************************************************************************)
EXTENDS ServeBackends, FiniteSetTheorems, TLAPS

-----------------------------------------------------------------------------
(* Sizes.                                                                  *)

LEMMA ProductNat == ASSUME NEW m \in Nat, NEW n \in Nat PROVE m * n \in Nat
  BY SMT

\* There are Total backends.
LEMMA BackendsSize ==
  /\ IsFiniteSet(Backends)
  /\ Cardinality(Backends) = Total
  /\ Total \in Nat
<1>1. /\ IsFiniteSet(0 .. Nbackends - 1)
      /\ Cardinality(0 .. Nbackends - 1) = Nbackends
  BY FS_Interval, ConstantsAssumption DEF ConstantsAssumption
<1>2. Cardinality(TrafficTypes) \in Nat
  BY FS_CardinalityType, ConstantsAssumption DEF ConstantsAssumption
<1>3. Total \in Nat
  BY <1>2, ProductNat, ConstantsAssumption DEF ConstantsAssumption, Total
<1> QED
  BY <1>1, <1>3, FS_Product, ConstantsAssumption DEF ConstantsAssumption, Backends, Total

LEMMA RequestsFinite == IsFiniteSet(Requests)
<1>1. IsFiniteSet(1 .. Retries)
  BY FS_Interval, ConstantsAssumption DEF ConstantsAssumption
<1> QED
  BY <1>1, BackendsSize, FS_Product DEF Requests

-----------------------------------------------------------------------------
(* Type correctness.                                                       *)

LEMMA InitTypeOK == Init => TypeOK
<1> SUFFICES ASSUME Init PROVE TypeOK
  OBVIOUS
<1>1. MainTypeOK
  BY DEF Init, MainTypeOK, Statuses
<1>2. GroupTypeOK
  BY DEF Init, GroupTypeOK
<1>3. HandlerTypeOK
  BY BackendsSize DEF Init, HandlerTypeOK
<1>4. BackendTypeOK
  BY ConstantsAssumption DEF ConstantsAssumption, Init, BackendTypeOK
<1> QED
  BY <1>1, <1>2, <1>3, <1>4 DEF TypeOK

\* What an action leaves alone keeps its type.
LEMMA Frames ==
  /\ MainTypeOK /\ UNCHANGED <<main, status, routes>> => MainTypeOK'
  /\ GroupTypeOK /\ UNCHANGED group => GroupTypeOK'
  /\ HandlerTypeOK /\ UNCHANGED handler => HandlerTypeOK'
  /\ BackendTypeOK /\ UNCHANGED backend => BackendTypeOK'
<1>1. MainTypeOK /\ UNCHANGED <<main, status, routes>> => MainTypeOK'
  BY DEF MainTypeOK
<1>2. GroupTypeOK /\ UNCHANGED group => GroupTypeOK'
  BY DEF GroupTypeOK, group
<1>3. HandlerTypeOK /\ UNCHANGED handler => HandlerTypeOK'
  BY DEF HandlerTypeOK, handler
<1>4. BackendTypeOK /\ UNCHANGED backend => BackendTypeOK'
  BY DEF BackendTypeOK, backend
<1> QED
  BY <1>1, <1>2, <1>3, <1>4

LEMMA MainStepTypeOK == TypeOK /\ MainStep => TypeOK'
<1> SUFFICES ASSUME TypeOK, MainStep PROVE TypeOK'
  OBVIOUS
<1> USE DEF TypeOK
<1>1. CASE Prepare
  <2>1. MainTypeOK'
    BY <1>1 DEF Prepare, MainTypeOK, Return, Statuses
  <2> QED
    BY <1>1, <2>1, Frames DEF Prepare
<1>2. ASSUME NEW b \in Backends, SpawnBackend(b) PROVE TypeOK'
  <2>1. MainTypeOK'
    BY <1>2 DEF SpawnBackend, MainTypeOK, Return, Statuses
  <2>2. BackendTypeOK'
    BY <1>2 DEF SpawnBackend, BackendTypeOK
  <2> QED
    BY <1>2, <2>1, <2>2, Frames DEF SpawnBackend
<1>3. CASE AllSpawned
  <2>1. MainTypeOK'
    BY <1>3 DEF AllSpawned, MainTypeOK
  <2> QED
    BY <1>3, <2>1, Frames DEF AllSpawned
<1>4. CASE SelectReady
  <2>1. MainTypeOK'
    BY <1>4 DEF SelectReady, MainTypeOK
  <2>2. HandlerTypeOK'
    BY <1>4 DEF SelectReady, HandlerTypeOK
  <2> QED
    BY <1>4, <2>1, <2>2, Frames DEF SelectReady
<1>5. CASE SelectDone \/ SelectTimeout
  <2>1. MainTypeOK'
    BY <1>5 DEF SelectDone, SelectTimeout, MainTypeOK, Return, Statuses
  <2> QED
    BY <1>5, <2>1, Frames DEF SelectDone, SelectTimeout
<1>6. CASE HandleCerts \/ HandleBackends
  <2>1. MainTypeOK'
    BY <1>6 DEF HandleCerts, HandleBackends, MainTypeOK
  <2> QED
    BY <1>6, <2>1, Frames DEF HandleCerts, HandleBackends
<1>7. CASE Wait
  <2>1. MainTypeOK'
    BY <1>7 DEF Wait, MainTypeOK, GroupTypeOK, Return, Statuses
  <2> QED
    BY <1>7, <2>1, Frames DEF Wait
<1> QED
  BY <1>1, <1>2, <1>3, <1>4, <1>5, <1>6, <1>7 DEF MainStep

LEMMA GroupStepTypeOK == TypeOK /\ (Watch \/ ServerStep \/ CloserStep) => TypeOK'
<1> SUFFICES ASSUME TypeOK, Watch \/ ServerStep \/ CloserStep PROVE TypeOK'
  OBVIOUS
<1> USE DEF TypeOK
<1>1. CASE Watch
  <2>1. GroupTypeOK'
    BY <1>1 DEF Watch, GroupTypeOK, Fail, Errors
  <2> QED
    BY <1>1, <2>1, Frames DEF Watch
<1>2. CASE Listen
  <2>1. GroupTypeOK'
    BY <1>2 DEF Listen, GroupTypeOK, Fail, Errors
  <2> QED
    BY <1>2, <2>1, Frames DEF Listen
<1>3. CASE ServerClosed
  <2>1. GroupTypeOK'
    BY <1>3 DEF ServerClosed, GroupTypeOK
  <2> QED
    BY <1>3, <2>1, Frames DEF ServerClosed
<1>4. CASE CloserStep
  <2>1. GroupTypeOK'
    BY <1>4 DEF CloserStep, BeginShutdown, EndShutdown, GroupTypeOK, Fail, Errors
  <2> QED
    BY <1>4, <2>1, Frames DEF CloserStep, BeginShutdown, EndShutdown
<1> QED
  BY <1>1, <1>2, <1>3, <1>4 DEF ServerStep

LEMMA RegisterTypeOK == ASSUME TypeOK, NEW r \in Requests, Register(r) PROVE TypeOK'
<1>1. HandlerTypeOK'
  <2> USE DEF TypeOK, HandlerTypeOK
  <2>1. CASE Full /\ Reject(r)
    BY <2>1 DEF Reject
  <2>2. CASE DecodeFails(r)
    BY <2>2 DEF DecodeFails
  <2>3. CASE ~Full /\ Count(r)
    <3>1. r[1] \in Backends
      BY DEF Requests
    <3>2. registered + 1 \in 0 .. Total
      BY <2>3, BackendsSize DEF Full
    <3> QED
      BY <2>3, <3>1, <3>2 DEF Count, Store
  <2> QED
    BY <2>1, <2>2, <2>3 DEF Register
<1> QED
  BY <1>1, Frames DEF Register, TypeOK

\* The attempt a backend is about to make is one it may make.
LEMMA NextAttempt ==
  ASSUME NEW b \in Backends, BackendTypeOK, attempt[b] < Retries
  PROVE  /\ attempt[b] + 1 \in 1 .. Retries
         /\ <<b, attempt[b] + 1>> \in Requests
<1>1. attempt[b] \in 0 .. Retries
  BY DEF BackendTypeOK
<1>2. attempt[b] + 1 \in 1 .. Retries
  BY <1>1, ConstantsAssumption DEF ConstantsAssumption
<1> QED
  BY <1>2 DEF Requests

LEMMA ExitTypeOK ==
  ASSUME TypeOK, NEW b \in Backends, NEW how \in Endings, Exit(b, how)
  PROVE  /\ MainTypeOK'
         /\ GroupTypeOK'
         /\ child' \in [Backends -> {"unborn", "listen", "dial", "await", "wait"} \cup Endings]
<1>1. MainTypeOK'
  BY Frames DEF TypeOK, Exit
<1>2. GroupTypeOK'
  BY DEF TypeOK, GroupTypeOK, Exit, Notified, Up
<1>3. child' \in [Backends -> {"unborn", "listen", "dial", "await", "wait"} \cup Endings]
  BY DEF TypeOK, BackendTypeOK, Exit
<1> QED
  BY <1>1, <1>2, <1>3

LEMMA GotoTypeOK ==
  ASSUME TypeOK, NEW b \in Backends, NEW where \in {"dial", "await", "wait"}, Goto(b, where)
  PROVE  /\ MainTypeOK'
         /\ GroupTypeOK'
         /\ child' \in [Backends -> {"unborn", "listen", "dial", "await", "wait"} \cup Endings]
<1>1. MainTypeOK' /\ GroupTypeOK'
  BY Frames DEF TypeOK, Goto
<1>2. child' \in [Backends -> {"unborn", "listen", "dial", "await", "wait"} \cup Endings]
  BY DEF TypeOK, BackendTypeOK, Goto
<1> QED
  BY <1>1, <1>2

LEMMA ChildStepTypeOK ==
  ASSUME TypeOK, NEW b \in Backends, ChildStep(b)
  PROVE  TypeOK'
<1> DEFINE C == [Backends -> {"unborn", "listen", "dial", "await", "wait"} \cup Endings]
<1>1. /\ MainTypeOK' /\ GroupTypeOK'
      /\ child' \in C
  <2>1. (\E how \in Endings : Exit(b, how)) \/ (\E where \in {"dial", "await", "wait"} : Goto(b, where))
    BY DEF ChildStep, ChildListen, Dial, Refused, GiveUp, Answered, ChildWait, Endings
  <2> QED
    BY <2>1, ExitTypeOK, GotoTypeOK
<1>2. HandlerTypeOK'
  <2>1. CASE Dial(b)
    BY <2>1, NextAttempt DEF Dial, TypeOK, HandlerTypeOK
  <2>2. CASE UNCHANGED handler
    BY <2>2, Frames DEF TypeOK
  <2> QED
    BY <2>1, <2>2 DEF ChildStep, ChildListen, Refused, GiveUp, Answered, ChildWait
<1>3. BackendTypeOK'
  <2> USE <1>1 DEF TypeOK, BackendTypeOK
  <2>1. CASE Dial(b)
    <3>1. attempt[b] + 1 \in 0 .. Retries
      BY <2>1, ConstantsAssumption DEF ConstantsAssumption, Dial
    <3> QED
      BY <2>1, <3>1 DEF Dial
  <2>2. CASE ChildListen(b)
    BY <2>2 DEF ChildListen
  <2>3. CASE UNCHANGED <<serve, attempt, term>>
    BY <2>3
  <2> QED
    BY <2>1, <2>2, <2>3 DEF ChildStep, Refused, GiveUp, Answered, ChildWait
<1> QED
  BY <1>1, <1>2, <1>3 DEF TypeOK

LEMMA ServeTypeOK ==
  ASSUME TypeOK, NEW b \in Backends, ServeStep(b) \/ DeathSignal(b)
  PROVE  TypeOK'
<1>1. BackendTypeOK'
  BY DEF TypeOK, BackendTypeOK, ServeStep, ChildServe, ChildShutdown, DeathSignal
<1> QED
  BY <1>1, Frames DEF TypeOK, ServeStep, ChildServe, ChildShutdown, DeathSignal

LEMMA EnvironmentTypeOK == TypeOK /\ Environment => TypeOK'
<1> SUFFICES ASSUME TypeOK, Environment PROVE TypeOK'
  OBVIOUS
<1> USE DEF TypeOK
<1>1. CASE Interrupt
  <2>1. GroupTypeOK'
    BY <1>1 DEF Interrupt, GroupTypeOK
  <2> QED
    BY <1>1, <2>1, Frames DEF Interrupt
<1>2. CASE Kill
  <2>1. MainTypeOK'
    BY <1>2 DEF Kill, Return, MainTypeOK, Statuses
  <2> QED
    BY <1>2, <2>1, Frames DEF Kill
<1>3. ASSUME NEW b \in Backends, Signal(b) PROVE TypeOK'
  <2>1. BackendTypeOK'
    BY <1>3 DEF Signal, BackendTypeOK
  <2> QED
    BY <1>3, <2>1, Frames DEF Signal
<1>4. ASSUME NEW b \in Backends, Crash(b) PROVE TypeOK'
  <2>1. BackendTypeOK'
    BY <1>4, ExitTypeOK DEF Crash, BackendTypeOK, Endings
  <2> QED
    BY <1>4, <2>1, ExitTypeOK, Frames DEF Crash, Endings
<1> QED
  BY <1>1, <1>2, <1>3, <1>4 DEF Environment

LEMMA StutterTypeOK == TypeOK /\ UNCHANGED vars => TypeOK'
  BY Frames DEF TypeOK, vars

\* Every variable keeps its type; in particular backendsRegistered never
\* exceeds the number of backends, however often they retry.
THEOREM TypeCorrect == Spec => []TypeOK
<1>1. Init => TypeOK
  BY InitTypeOK
<1>2. TypeOK /\ [Next]_vars => TypeOK'
  BY MainStepTypeOK, GroupStepTypeOK, RegisterTypeOK, ChildStepTypeOK, ServeTypeOK,
     EnvironmentTypeOK, StutterTypeOK
  DEF Next, Terminated
<1> QED
  BY <1>1, <1>2, PTL DEF Spec

-----------------------------------------------------------------------------
(* Registration.                                                           *)

LEMMA NotARequest == NoRequest \notin Requests
  BY DEF NoRequest, Requests

LEMMA CountedFinite == IsFiniteSet(Counted) /\ Cardinality(Counted) \in Nat
<1>1. Counted \in SUBSET Requests
  BY DEF Counted
<1>2. IsFiniteSet(Counted)
  BY <1>1, RequestsFinite, FS_Subset
<1> QED
  BY <1>2, FS_CardinalityType

LEMMA CurrentRequest ==
  ASSUME NEW b \in Backends, BackendTypeOK, attempt[b] > 0
  PROVE  Current(b) \in Requests
<1>1. attempt[b] \in 0 .. Retries
  BY DEF BackendTypeOK
<1>2. attempt[b] \in 1 .. Retries
  BY <1>1, ConstantsAssumption DEF ConstantsAssumption
<1> QED
  BY <1>2 DEF Current, Requests

LEMMA InitRegistration == Init => RegistrationInv
<1> SUFFICES ASSUME Init PROVE RegistrationInv
  OBVIOUS
<1>1. Counted = {}
  BY DEF Init, Counted
<1>2. RegisteredCountsRequests
  BY <1>1, FS_EmptySet DEF Init, RegisteredCountsRequests
<1>3. BegunInv
  BY DEF Init, BegunInv, Requests
<1>4. SenderInv
  BY NotARequest DEF Init, SenderInv
<1>5. SelectInv /\ ToldInv
  BY DEF Init, SelectInv, ToldInv
<1> QED
  BY <1>2, <1>3, <1>4, <1>5 DEF RegistrationInv

\* Only the handlers, the select and a backend's first look at its answer
\* touch what the invariant speaks of.
LEMMA RegistrationFrame ==
  ASSUME RegistrationInv, UNCHANGED handler, UNCHANGED attempt,
         main' \in {"mux", "wait"} => main \in {"mux", "wait"},
         \A b \in Backends : /\ child'[b] \in {"await", "wait"} => child'[b] = child[b]
                             /\ child'[b] = "denied" => child[b] = "denied"
  PROVE  RegistrationInv'
<1> USE DEF RegistrationInv, handler
<1>1. Counted' = Counted
  BY DEF Counted
<1>2. RegisteredCountsRequests'
  BY <1>1 DEF RegisteredCountsRequests
<1>3. BegunInv' /\ SenderInv'
  BY DEF BegunInv, SenderInv
<1>4. SelectInv'
  BY DEF SelectInv
<1>5. ToldInv'
  BY DEF ToldInv, Current
<1> QED
  BY <1>2, <1>3, <1>4, <1>5

LEMMA SelectReadyRegistration ==
  ASSUME TypeOK, RegistrationInv, SelectReady
  PROVE  RegistrationInv'
<1> USE DEF RegistrationInv
<1>1. PICK r \in Requests : req[r] = "sending" /\ req' = [req EXCEPT ![r] = "ok"]
  BY DEF SelectReady
<1>2. /\ req \in [Requests -> {"none", "queued", "sending", "ok", "bad", "lost"}]
      /\ lock = r /\ registered = Total
  BY <1>1 DEF SenderInv, TypeOK, HandlerTypeOK
<1>3. /\ lock' = NoRequest /\ main' = "mux"
      /\ UNCHANGED <<registered, bound, child, attempt>>
  BY DEF SelectReady, backend
<1>4. RegisteredCountsRequests'
  <2>1. Counted' = Counted
    BY <1>1, <1>2 DEF Counted
  <2> QED
    BY <1>3, <2>1 DEF RegisteredCountsRequests
<1>5. BegunInv'
  BY <1>1, <1>2, <1>3 DEF BegunInv
<1>6. SenderInv'
  <2>1. \A s \in Requests : req'[s] # "sending"
    BY <1>1, <1>2 DEF SenderInv
  <2> QED
    BY <1>1, <1>2, <1>3, <2>1, NotARequest, BackendsSize DEF SenderInv
<1>7. SelectInv'
  BY <1>2, <1>3, BackendsSize DEF SelectInv, Total
<1>8. ToldInv'
  BY <1>1, <1>2, <1>3, CurrentRequest DEF ToldInv, Current, TypeOK
<1> QED
  BY <1>4, <1>5, <1>6, <1>7, <1>8

LEMMA RegisterRegistration ==
  ASSUME TypeOK, RegistrationInv, NEW r \in Requests, Register(r)
  PROVE  RegistrationInv'
<1> USE DEF RegistrationInv
<1>1. /\ req \in [Requests -> {"none", "queued", "sending", "ok", "bad", "lost"}]
      /\ registered \in 0 .. Total
      /\ req[r] = "queued" /\ lock = NoRequest
      /\ UNCHANGED <<main, child, attempt>>
  BY DEF TypeOK, HandlerTypeOK, Register, backend
<1>2. \A s \in Requests : req[s] # "sending"
  BY <1>1, NotARequest DEF SenderInv
<1>3. ASSUME NEW told \in {"ok", "sending", "bad", "lost"}, req' = [req EXCEPT ![r] = told]
      PROVE  /\ BegunInv'
             /\ ToldInv'
  <2>1. BegunInv'
    BY <1>1, <1>3 DEF BegunInv
  <2>2. ToldInv'
    BY <1>1, <1>3, CurrentRequest DEF ToldInv, Current, TypeOK
  <2> QED
    BY <2>1, <2>2
<1>4. ASSUME NEW told \in {"bad", "lost"}, req' = [req EXCEPT ![r] = told],
             UNCHANGED <<lock, registered, bound>>, told = "bad" => registered = Total
      PROVE  RegisteredCountsRequests' /\ SenderInv' /\ SelectInv'
  <2>1. Counted' = Counted
    BY <1>1, <1>4 DEF Counted
  <2>2. RegisteredCountsRequests'
    BY <1>4, <2>1 DEF RegisteredCountsRequests
  <2>3. SenderInv'
    BY <1>1, <1>2, <1>4, NotARequest DEF SenderInv
  <2>4. SelectInv'
    BY <1>1, <1>4 DEF SelectInv
  <2> QED
    BY <2>2, <2>3, <2>4
<1>5. CASE Full /\ Reject(r)
  BY <1>3, <1>4, <1>5 DEF Full, Reject
<1>6. CASE DecodeFails(r)
  BY <1>3, <1>4, <1>6 DEF DecodeFails
<1>7. CASE ~Full /\ Count(r)
  <2>1. /\ bound' = bound \cup {r[1]}
        /\ registered' = registered + 1
        /\ req' = [req EXCEPT ![r] = IF registered' = Total THEN "sending" ELSE "ok"]
        /\ lock' = IF registered' = Total THEN r ELSE NoRequest
        /\ registered # Total
    BY <1>7 DEF Full, Count, Store, Ready
  <2>2. BegunInv' /\ ToldInv'
    BY <1>3, <2>1
  <2>3. Counted' = Counted \cup {r} /\ r \notin Counted
    BY <1>1, <2>1 DEF Counted
  <2>4. Cardinality(Counted') = Cardinality(Counted) + 1
    BY <2>3, CountedFinite, FS_AddElement
  <2>5. {s[1] : s \in Counted'} = {s[1] : s \in Counted} \cup {r[1]}
    BY <2>3
  <2>6. RegisteredCountsRequests'
    BY <2>1, <2>4, <2>5 DEF RegisteredCountsRequests
  <2>7. SenderInv'
    <3>1. \A s \in Requests : req[s] # "bad"
      BY <2>1 DEF SenderInv
    <3> QED
      BY <1>1, <1>2, <2>1, <3>1, NotARequest DEF SenderInv
  <2>8. SelectInv'
    BY <1>1, <2>1 DEF SelectInv
  <2> QED
    BY <2>2, <2>6, <2>7, <2>8
<1> QED
  BY <1>5, <1>6, <1>7 DEF Register

LEMMA DialRegistration ==
  ASSUME TypeOK, RegistrationInv, NEW b \in Backends, Dial(b)
  PROVE  RegistrationInv'
<1> USE DEF RegistrationInv
<1> DEFINE r == <<b, attempt[b] + 1>>
<1>1. PICK s \in {"queued", "lost"} : req' = [req EXCEPT ![r] = s]
  BY DEF Dial
<1>2. /\ req \in [Requests -> {"none", "queued", "sending", "ok", "bad", "lost"}]
      /\ attempt \in [Backends -> 0 .. Retries]
      /\ child \in [Backends -> {"unborn", "listen", "dial", "await", "wait"} \cup Endings]
  BY DEF TypeOK, HandlerTypeOK, BackendTypeOK
<1>3. /\ r \in Requests /\ attempt[b] + 1 \in 1 .. Retries
  BY NextAttempt DEF Dial, TypeOK
<1>4. /\ attempt' = [attempt EXCEPT ![b] = @ + 1]
      /\ child' = [child EXCEPT ![b] = "await"]
      /\ UNCHANGED <<main, lock, registered, bound>>
  BY DEF Dial, Goto
<1>5. req[r] = "none"
  BY <1>2, <1>3 DEF BegunInv
<1>6. RegisteredCountsRequests'
  <2>1. Counted' = Counted
    BY <1>1, <1>2, <1>3, <1>5 DEF Counted
  <2> QED
    BY <1>4, <2>1 DEF RegisteredCountsRequests
<1>7. BegunInv'
  <2> SUFFICES ASSUME NEW t \in Requests PROVE req'[t] = "none" <=> t[2] > attempt'[t[1]]
    BY DEF BegunInv
  <2>1. t[1] \in Backends /\ t[2] \in 1 .. Retries /\ t = <<t[1], t[2]>>
    BY DEF Requests
  <2>2. CASE t = r
    BY <1>1, <1>2, <1>3, <1>4, <2>2
  <2>3. CASE t # r /\ t[1] = b
    BY <1>1, <1>2, <1>3, <1>4, <2>1, <2>3 DEF BegunInv
  <2>4. CASE t[1] # b
    BY <1>1, <1>2, <1>3, <1>4, <2>1, <2>4 DEF BegunInv
  <2> QED
    BY <2>2, <2>3, <2>4
<1>8. SenderInv'
  BY <1>1, <1>2, <1>3, <1>4, <1>5 DEF SenderInv, Total
<1>9. SelectInv'
  BY <1>4 DEF SelectInv
<1>10. ToldInv'
  <2> SUFFICES ASSUME NEW c \in Backends
               PROVE  /\ child'[c] \in {"await", "wait"} => attempt'[c] > 0
                      /\ child'[c] = "wait" => req'[<<c, attempt'[c]>>] = "ok"
                      /\ child'[c] = "denied" => \E t \in Requests : req'[t] = "bad"
    BY DEF ToldInv, Current
  <2>1. CASE c = b
    BY <1>2, <1>3, <1>4, <2>1
  <2>2. CASE c # b
    <3>1. child'[c] = child[c] /\ attempt'[c] = attempt[c]
      BY <1>2, <1>4, <2>2
    <3>2. child[c] = "wait" => req'[<<c, attempt[c]>>] = req[<<c, attempt[c]>>]
      BY <1>1, <1>2, <2>2
    <3>3. ASSUME NEW t \in Requests, req[t] = "bad" PROVE req'[t] = "bad"
      BY <1>1, <1>2, <1>5, <3>3
    <3> QED
      BY <3>1, <3>2, <3>3 DEF ToldInv, Current
  <2> QED
    BY <2>1, <2>2
<1> QED
  BY <1>6, <1>7, <1>8, <1>9, <1>10

LEMMA AnsweredRegistration ==
  ASSUME TypeOK, RegistrationInv, NEW b \in Backends, Answered(b)
  PROVE  RegistrationInv'
<1> USE DEF RegistrationInv
<1>1. UNCHANGED <<main, lock, registered, bound, req, attempt>>
  BY DEF Answered, handler, Exit, Goto
<1>2. /\ RegisteredCountsRequests' /\ BegunInv' /\ SenderInv' /\ SelectInv'
  <2>1. Counted' = Counted
    BY <1>1 DEF Counted
  <2> QED
    BY <1>1, <2>1 DEF RegisteredCountsRequests, BegunInv, SenderInv, SelectInv
<1>3. ToldInv'
  <2>1. /\ child \in [Backends -> {"unborn", "listen", "dial", "await", "wait"} \cup Endings]
        /\ attempt[b] > 0 /\ Current(b) \in Requests
    BY CurrentRequest DEF TypeOK, BackendTypeOK, ToldInv, Answered
  <2>2. CASE req[Current(b)] = "ok" /\ Goto(b, "wait")
    BY <1>1, <2>1, <2>2 DEF ToldInv, Current, Goto
  <2>3. CASE req[Current(b)] = "bad" /\ Exit(b, "denied")
    BY <1>1, <2>1, <2>3 DEF ToldInv, Current, Exit
  <2>4. CASE Exit(b, "unread")
    BY <1>1, <2>1, <2>4 DEF ToldInv, Current, Exit
  <2> QED
    BY <2>2, <2>3, <2>4 DEF Answered
<1> QED
  BY <1>2, <1>3

\* A step of a backend that neither dials nor has an answer.
LEMMA OtherRegistration ==
  ASSUME TypeOK, RegistrationInv, NEW b \in Backends,
         \/ ChildListen(b) \/ Refused(b) \/ GiveUp(b) \/ ChildWait(b)
         \/ ServeStep(b) \/ DeathSignal(b) \/ Signal(b) \/ Crash(b)
  PROVE  RegistrationInv'
<1>1. UNCHANGED <<handler, attempt, main>>
  BY DEF ChildListen, Refused, GiveUp, ChildWait, ServeStep, ChildServe, ChildShutdown,
         DeathSignal, Signal, Crash, Exit, Goto
<1>2. \/ UNCHANGED child
      \/ \E where \in {"dial", "unbound", "refused", "exhausted", "stopped", "crashed"} :
           child' = [child EXCEPT ![b] = where]
  BY DEF ChildListen, Refused, GiveUp, ChildWait, ServeStep, ChildServe, ChildShutdown,
         DeathSignal, Signal, Crash, Exit, Goto
<1>3. child \in [Backends -> {"unborn", "listen", "dial", "await", "wait"} \cup Endings]
  BY DEF TypeOK, BackendTypeOK
<1>4. \A c \in Backends : /\ child'[c] \in {"await", "wait"} => child'[c] = child[c]
                          /\ child'[c] = "denied" => child[c] = "denied"
  BY <1>2, <1>3
<1> QED
  BY <1>1, <1>4, RegistrationFrame

LEMMA MainStepRegistration ==
  ASSUME TypeOK, RegistrationInv, MainStep
  PROVE  RegistrationInv'
<1>1. CASE SelectReady
  BY <1>1, SelectReadyRegistration
<1>2. ASSUME NEW b \in Backends, SpawnBackend(b) PROVE RegistrationInv'
  <2>1. /\ UNCHANGED <<handler, attempt>>
        /\ main' \in {"mux", "wait"} => main \in {"mux", "wait"}
    BY <1>2 DEF SpawnBackend, Return
  <2>2. \A c \in Backends : /\ child'[c] \in {"await", "wait"} => child'[c] = child[c]
                            /\ child'[c] = "denied" => child[c] = "denied"
    BY <1>2 DEF SpawnBackend, TypeOK, BackendTypeOK
  <2> QED
    BY <2>1, <2>2, RegistrationFrame
<1>3. CASE Prepare \/ AllSpawned \/ SelectDone \/ SelectTimeout \/ HandleCerts \/ HandleBackends \/ Wait
  <2>1. /\ UNCHANGED <<handler, backend>>
        /\ main' \in {"mux", "wait"} => main \in {"mux", "wait"}
    BY <1>3 DEF Prepare, AllSpawned, SelectDone, SelectTimeout, HandleCerts, HandleBackends,
                Wait, Return
  <2> QED
    BY <2>1, RegistrationFrame DEF backend
<1> QED
  BY <1>1, <1>2, <1>3 DEF MainStep

LEMMA QuietRegistration ==
  ASSUME TypeOK, RegistrationInv,
         Watch \/ ServerStep \/ CloserStep \/ Interrupt \/ Kill \/ UNCHANGED vars
  PROVE  RegistrationInv'
<1>1. /\ UNCHANGED <<handler, backend>>
      /\ main' \in {"mux", "wait"} => main \in {"mux", "wait"}
  BY DEF Watch, ServerStep, Listen, ServerClosed, CloserStep, BeginShutdown, EndShutdown,
         Interrupt, Kill, Return, vars
<1> QED
  BY <1>1, RegistrationFrame DEF backend

\* Whatever is late, lost or repeated: count, names, lock and answers agree, the
\* lock is held by the one handler that sends, and Run leaves the select only by it.
THEOREM RegistrationCorrect == Spec => []RegistrationInv
<1>1. Init => RegistrationInv
  BY InitRegistration
<1>2. TypeOK /\ RegistrationInv /\ [Next]_vars => RegistrationInv'
  <2> SUFFICES ASSUME TypeOK, RegistrationInv, [Next]_vars PROVE RegistrationInv'
    OBVIOUS
  <2>1. ASSUME NEW b \in Backends, ChildStep(b) PROVE RegistrationInv'
    BY <2>1, DialRegistration, AnsweredRegistration, OtherRegistration DEF ChildStep
  <2>2. CASE Environment
    BY <2>2, QuietRegistration, OtherRegistration DEF Environment
  <2> QED
    BY <2>1, <2>2, MainStepRegistration, QuietRegistration, RegisterRegistration,
       OtherRegistration DEF Next, Terminated
<1> QED
  BY <1>1, <1>2, TypeCorrect, PTL DEF Spec

LEMMA CountedRequest ==
  ASSUME NEW r \in Counted
  PROVE  r \in Requests /\ r[1] \in Backends /\ r[2] \in 1 .. Retries /\ r = <<r[1], r[2]>>
  BY DEF Counted, Requests

\* As many requests as backends were counted, so if no backend was counted
\* twice each was counted.
LEMMA CompleteCount ==
  ASSUME TypeOK, RegistrationInv, registered = Total, ~CountedTwice
  PROVE  bound = Backends
<1> DEFINE f == [r \in Counted |-> r[1]]
<1>1. Cardinality(Counted) = Cardinality(Backends)
  BY BackendsSize DEF RegistrationInv, RegisteredCountsRequests
<1>2. f \in Injection(Counted, Backends)
  <2>1. f \in [Counted -> Backends]
    BY CountedRequest
  <2>2. \A r, s \in Counted : f[r] = f[s] => r = s
    BY DEF CountedTwice
  <2> QED
    BY <2>1, <2>2 DEF Injection, IsInjective
<1>3. f \in Surjection(Counted, Backends)
  BY <1>1, <1>2, BackendsSize, FS_Injection
<1>4. \A b \in Backends : \E r \in Counted : r[1] = b
  BY <1>3 DEF Surjection
<1> QED
  BY <1>4, CountedRequest DEF RegistrationInv, RegisteredCountsRequests

\* What boundBackends and backendsRegistered hold is what the handlers did.
THEOREM CountCorrect == Spec => []RegisteredCountsRequests
<1>1. RegistrationInv => RegisteredCountsRequests
  BY DEF RegistrationInv
<1> QED
  BY <1>1, RegistrationCorrect, PTL

\* /backends, which panics at a missing name, is published complete unless a
\* backend was counted twice.
THEOREM PublishedComplete == Spec => []MissingOnlyByRetry
<1>1. TypeOK /\ RegistrationInv => MissingOnlyByRetry
  BY CompleteCount DEF MissingOnlyByRetry, RegistrationInv, SelectInv
<1> QED
  BY <1>1, TypeCorrect, RegistrationCorrect, PTL

\* Nobody is told "unexpected registration" unless somebody retried.
THEOREM DenialNeedsRetry == Spec => []NoDenialWithoutRetry
<1>1. TypeOK /\ RegistrationInv => NoDenialWithoutRetry
  <2> SUFFICES ASSUME TypeOK, RegistrationInv,
                      NEW b \in Backends, child[b] = "denied",
                      \A c \in Backends : ~(attempt[c] > 1)
               PROVE  FALSE
    BY DEF NoDenialWithoutRetry
  <2>1. PICK r \in Requests : req[r] = "bad"
    BY DEF RegistrationInv, ToldInv
  <2>2. registered = Total
    BY <2>1 DEF RegistrationInv, SenderInv
  <2>3. \A s \in Requests : req[s] # "none" => s[1] \in Backends /\ s = <<s[1], 1>>
    <3> TAKE s \in Requests
    <3>1. s[1] \in Backends /\ s[2] \in 1 .. Retries /\ s = <<s[1], s[2]>>
      BY DEF Requests
    <3>2. attempt[s[1]] \in 0 .. Retries /\ ~(attempt[s[1]] > 1)
      BY <3>1 DEF TypeOK, BackendTypeOK
    <3>3. req[s] # "none" => ~(s[2] > attempt[s[1]])
      BY DEF RegistrationInv, BegunInv
    <3> QED
      BY <3>1, <3>2, <3>3, ConstantsAssumption DEF ConstantsAssumption
  <2>4. \A s \in Counted : s = <<s[1], 1>>
    BY <2>3 DEF Counted
  <2>5. ~CountedTwice
    BY <2>4 DEF CountedTwice
  <2>6. r[1] \in bound
    BY <2>1, <2>2, <2>3, <2>5, CompleteCount
  <2>7. PICK s \in Counted : s[1] = r[1]
    BY <2>6 DEF RegistrationInv, RegisteredCountsRequests
  <2>8. s = r
    BY <2>1, <2>3, <2>4, <2>7
  <2> QED
    BY <2>1, <2>8 DEF Counted
<1> QED
  BY <1>1, TypeCorrect, RegistrationCorrect, PTL

\* Nobody is left in the send to backendsReady once it has been received from.
THEOREM NobodyLeftSending == Spec => []NoLateSender
<1>1. RegistrationInv => NoLateSender
  BY NotARequest DEF RegistrationInv, SelectInv, SenderInv, NoLateSender
<1> QED
  BY <1>1, RegistrationCorrect, PTL

\* A backend that serves its registration as done is in boundBackends.
AcknowledgedIsBound == \A b \in Backends : child[b] = "wait" => b \in bound

\* What a backend was told about its registration is true.
THEOREM AcknowledgementTrue == Spec => []AcknowledgedIsBound
<1>1. TypeOK /\ RegistrationInv => AcknowledgedIsBound
  <2> SUFFICES ASSUME TypeOK, RegistrationInv, NEW b \in Backends, child[b] = "wait"
               PROVE  b \in bound
    BY DEF AcknowledgedIsBound
  <2>1. attempt[b] > 0 /\ req[Current(b)] = "ok"
    BY DEF RegistrationInv, ToldInv
  <2>2. Current(b) \in Requests
    BY <2>1, CurrentRequest DEF TypeOK
  <2>3. Current(b) \in Counted /\ Current(b)[1] = b
    BY <2>1, <2>2 DEF Counted, Current
  <2> QED
    BY <2>3 DEF RegistrationInv, RegisteredCountsRequests
<1> QED
  BY <1>1, TypeCorrect, RegistrationCorrect, PTL

-----------------------------------------------------------------------------
(* Errors.                                                                 *)

LEMMA CancelStep == CancelInv /\ TypeOK /\ [Next]_vars => CancelInv'
<1> SUFFICES ASSUME CancelInv, TypeOK, [Next]_vars PROVE CancelInv'
  OBVIOUS
<1> USE DEF CancelInv
<1>1. CASE UNCHANGED <<closer, groupErr, gDone, interrupted>>
  BY <1>1
<1>2. CASE Watch
  <2>1. UNCHANGED <<closer, interrupted>>
    BY <1>2 DEF Watch
  <2>2. CASE Fail("a backend died")
    <3>1. groupErr' # NoError
      BY <2>2 DEF Fail, NoError
    <3> QED
      BY <2>2, <3>1 DEF Fail
  <2>3. CASE UNCHANGED <<groupErr, gDone>>
    BY <1>1, <2>1, <2>3
  <2> QED
    BY <1>2, <2>2, <2>3 DEF Watch
<1>3. CASE Listen
  <2>1. UNCHANGED <<closer, interrupted>>
    BY <1>3 DEF Listen
  <2>2. CASE Fail("listen failed")
    <3>1. groupErr' # NoError
      BY <2>2 DEF Fail, NoError
    <3> QED
      BY <2>2, <3>1 DEF Fail
  <2>3. CASE UNCHANGED <<groupErr, gDone>>
    BY <1>1, <2>1, <2>3
  <2> QED
    BY <1>3, <2>2, <2>3 DEF Listen
<1>4. CASE BeginShutdown \/ EndShutdown
  BY <1>4 DEF BeginShutdown, EndShutdown, Fail, NoError
<1>5. CASE Interrupt
  BY <1>5 DEF Interrupt
<1>6. CASE MainStep
  BY <1>6, <1>1 DEF MainStep, Prepare, SpawnBackend, AllSpawned, SelectReady, SelectDone,
                    SelectTimeout, HandleCerts, HandleBackends, Wait, group
<1>7. ASSUME NEW b \in Backends, \/ ChildStep(b) \/ ServeStep(b) \/ DeathSignal(b)
                                 \/ Signal(b) \/ Crash(b)
      PROVE  CancelInv'
  BY <1>7, <1>1 DEF ChildStep, ChildListen, Dial, Refused, GiveUp, Answered, ChildWait, ServeStep,
                    ChildServe, ChildShutdown, DeathSignal, Signal, Crash, Exit, Goto, group
<1>8. CASE ServerClosed \/ Kill \/ (\E r \in Requests : Register(r)) \/ UNCHANGED vars
  BY <1>8, <1>1 DEF ServerClosed, Kill, Register, vars, group
<1> QED
  BY <1>2, <1>3, <1>4, <1>5, <1>6, <1>7, <1>8
  DEF Next, ServerStep, CloserStep, Environment, Terminated

\* Run returns without an error after /backends was published only when it
\* was interrupted.
THEOREM ErrorsReported == Spec => ErrorReported
<1>1. Init => CancelInv
  BY DEF Init, CancelInv
<1>2. CancelInv /\ TypeOK /\ [Next]_vars
        => [main = "wait" /\ main' = "returned" /\ status' = NoError => interrupted]_vars
  <2> SUFFICES ASSUME CancelInv, TypeOK, Next, main = "wait", main' = "returned", status' = NoError
               PROVE  interrupted
    OBVIOUS
  <2>1. ~UNCHANGED main
    OBVIOUS
  <2>2. CASE Wait
    BY <2>2 DEF Wait, Return, CancelInv
  <2>3. CASE Kill
    BY <2>3 DEF Kill, Return, NoError
  <2>4. CASE MainStep /\ ~Wait
    BY <2>4 DEF MainStep, Prepare, SpawnBackend, AllSpawned, SelectReady, SelectDone,
                SelectTimeout, HandleCerts, HandleBackends
  <2>5. ~(Watch \/ ServerStep \/ CloserStep \/ Interrupt \/ UNCHANGED vars
            \/ \E r \in Requests : Register(r))
    BY <2>1 DEF Watch, ServerStep, Listen, ServerClosed, CloserStep, BeginShutdown, EndShutdown,
                Interrupt, Register, vars
  <2>6. \A b \in Backends : ~(ChildStep(b) \/ ServeStep(b) \/ DeathSignal(b) \/ Signal(b) \/ Crash(b))
    BY <2>1 DEF ChildStep, ChildListen, Dial, Refused, GiveUp, Answered, ChildWait, ServeStep,
                ChildServe, ChildShutdown, DeathSignal, Signal, Crash, Exit, Goto
  <2> QED
    BY <2>2, <2>3, <2>4, <2>5, <2>6 DEF Next, Environment, Terminated
<1> QED
  BY <1>1, <1>2, CancelStep, TypeCorrect, PTL DEF Spec, ErrorReported

-----------------------------------------------------------------------------
(* Endings.                                                                *)

\* What the fairness of the goroutines works on: the death of a backend is in
\* the SIGCHLD context for the watcher to see, an interrupt is in the group's,
\* and no member of the group returns and leaves the others uncancelled.
ReleaseInv ==
  /\ Up /\ (\E b \in Backends : child[b] \in Endings) => chld
  /\ interrupted => gDone
  /\ watcher = "returned" \/ server = "returned" \/ closer # "waiting" => gDone

LEMMA ReleaseGroup ==
  ASSUME ReleaseInv, Watch \/ ServerStep \/ CloserStep \/ Interrupt
  PROVE  ReleaseInv'
<1>1. UNCHANGED <<main, chld, child>>
  BY DEF Watch, ServerStep, Listen, ServerClosed, CloserStep, BeginShutdown, EndShutdown,
         Interrupt, backend
<1>2. gDone => gDone'
  BY DEF Watch, ServerStep, Listen, ServerClosed, CloserStep, BeginShutdown, EndShutdown,
         Interrupt, Fail
<1>3. interrupted' => gDone'
  BY <1>2 DEF ReleaseInv, Watch, ServerStep, Listen, ServerClosed, CloserStep, BeginShutdown,
              EndShutdown, Interrupt
<1>4. watcher' = "returned" \/ server' = "returned" \/ closer' # "waiting" => gDone'
  <2>1. CASE Watch
    BY <1>2, <2>1 DEF ReleaseInv, Watch, Fail
  <2>2. CASE Listen
    BY <1>2, <2>2 DEF ReleaseInv, Listen, Fail
  <2>3. CASE ServerClosed \/ BeginShutdown \/ EndShutdown \/ Interrupt
    BY <1>2, <2>3 DEF ReleaseInv, ServerClosed, BeginShutdown, EndShutdown, Interrupt
  <2> QED
    BY <2>1, <2>2, <2>3 DEF ServerStep, CloserStep
<1> QED
  BY <1>1, <1>3, <1>4 DEF ReleaseInv, Up

LEMMA ReleaseMain ==
  ASSUME TypeOK, ReleaseInv, MainStep \/ Kill
  PROVE  ReleaseInv'
<1>1. UNCHANGED group /\ (Up' => Up)
  BY DEF MainStep, Prepare, SpawnBackend, AllSpawned, SelectReady, SelectDone, SelectTimeout,
         HandleCerts, HandleBackends, Wait, Kill, Up
<1>2. ASSUME NEW b \in Backends, child'[b] \in Endings PROVE child[b] \in Endings
  <2>1. UNCHANGED child \/ \E c \in Backends : child' = [child EXCEPT ![c] = "listen"]
    BY DEF MainStep, Prepare, SpawnBackend, AllSpawned, SelectReady, SelectDone, SelectTimeout,
           HandleCerts, HandleBackends, Wait, Kill, backend
  <2> QED
    BY <1>2, <2>1 DEF TypeOK, BackendTypeOK, Endings
<1> QED
  BY <1>1, <1>2 DEF ReleaseInv, group

LEMMA ReleaseBackend ==
  ASSUME TypeOK, ReleaseInv, NEW b \in Backends,
         ChildStep(b) \/ ServeStep(b) \/ DeathSignal(b) \/ Signal(b) \/ Crash(b)
  PROVE  ReleaseInv'
<1>1. UNCHANGED <<main, watcher, server, closer, gDone, interrupted>>
  BY DEF ChildStep, ChildListen, Dial, Refused, GiveUp, Answered, ChildWait, ServeStep,
         ChildServe, ChildShutdown, DeathSignal, Signal, Crash, Exit, Goto, group
<1>2. CASE \E how \in Endings : Exit(b, how)
  BY <1>1, <1>2 DEF Exit, Notified, Up, ReleaseInv
<1>3. CASE UNCHANGED chld /\ \/ UNCHANGED child
                             \/ \E where \in {"dial", "await", "wait"} :
                                  child' = [child EXCEPT ![b] = where]
  <2>1. ASSUME NEW c \in Backends, child'[c] \in Endings PROVE child[c] \in Endings
    BY <1>3, <2>1 DEF TypeOK, BackendTypeOK, Endings
  <2> QED
    BY <1>1, <1>3, <2>1 DEF ReleaseInv, Up
<1> QED
  BY <1>2, <1>3 DEF ChildStep, ChildListen, Dial, Refused, GiveUp, Answered, ChildWait, ServeStep,
                    ChildServe, ChildShutdown, DeathSignal, Signal, Crash, Goto, group, Endings

\* No death is missed, whenever it comes, and none of the three goroutines that
\* g.Wait waits for can be left waiting for a cancellation that nobody makes.
THEOREM NobodyLeftWaiting == Spec => []ReleaseInv
<1>1. Init => ReleaseInv
  BY DEF Init, ReleaseInv, Endings
<1>2. TypeOK /\ ReleaseInv /\ [Next]_vars => ReleaseInv'
  <2> SUFFICES ASSUME TypeOK, ReleaseInv, [Next]_vars PROVE ReleaseInv'
    OBVIOUS
  <2>1. CASE UNCHANGED vars
    BY <2>1 DEF vars, group, backend, ReleaseInv, Up
  <2>2. ASSUME NEW r \in Requests, Register(r) PROVE ReleaseInv'
    BY <2>2 DEF Register, group, backend, ReleaseInv, Up
  <2> QED
    BY <2>1, <2>2, ReleaseGroup, ReleaseMain, ReleaseBackend DEF Next, Environment, Terminated
<1> QED
  BY <1>1, <1>2, TypeCorrect, PTL DEF Spec

-----------------------------------------------------------------------------
(* Instances that never publish.                                           *)

Unasked ==
  /\ \A r \in Requests : req[r] = "none"
  /\ main \notin {"mux", "wait"}

\* With no backends (--nbackends=0), or with another --port than the one the
\* backends are started with, nothing is ever registered or published: Run can
\* only end by its timer, an error, an interrupt or a death.
THEOREM NeverPublished ==
  ASSUME Total = 0 \/ ChildPort # Port
  PROVE  Spec => [](main \notin {"mux", "wait"} /\ bound = {})
<1>1. Init => Unasked
  BY DEF Init, Unasked
<1>2. ~\E b \in Backends : Dial(b)
  <2>1. CASE Total = 0
    BY <2>1, BackendsSize, FS_EmptySet
  <2>2. CASE ChildPort # Port
    BY <2>2 DEF Dial
  <2> QED
    BY <2>1, <2>2
<1>3. Unasked /\ [Next]_vars => Unasked'
  <2> SUFFICES ASSUME Unasked, [Next]_vars PROVE Unasked'
    OBVIOUS
  <2> USE DEF Unasked
  <2>1. ~SelectReady /\ \A r \in Requests : ~Register(r)
    BY DEF SelectReady, Register
  <2>2. CASE MainStep
    BY <2>1, <2>2 DEF MainStep, Prepare, SpawnBackend, AllSpawned, SelectDone, SelectTimeout,
                      HandleCerts, HandleBackends, Wait, Return, handler
  <2>3. CASE Watch \/ ServerStep \/ CloserStep \/ Interrupt \/ Kill \/ UNCHANGED vars
    BY <2>3 DEF Watch, ServerStep, Listen, ServerClosed, CloserStep, BeginShutdown, EndShutdown,
                Interrupt, Kill, Return, vars, handler
  <2>4. ASSUME NEW b \in Backends,
               ChildStep(b) \/ ServeStep(b) \/ DeathSignal(b) \/ Signal(b) \/ Crash(b)
        PROVE  Unasked'
    BY <1>2, <2>4 DEF ChildStep, ChildListen, Refused, GiveUp, Answered, ChildWait, ServeStep,
                      ChildServe, ChildShutdown, DeathSignal, Signal, Crash, Exit, Goto, handler
  <2> QED
    BY <2>1, <2>2, <2>3, <2>4 DEF Next, Environment, Terminated
<1>4. Unasked /\ RegistrationInv => main \notin {"mux", "wait"} /\ bound = {}
  BY DEF Unasked, RegistrationInv, RegisteredCountsRequests, Counted
<1> QED
  BY <1>1, <1>3, <1>4, RegistrationCorrect, PTL DEF Spec

-----------------------------------------------------------------------------
(* ServeBackends implements Registration.                                  *)

LEMMA PhaseSame == UNCHANGED main => UNCHANGED Phase
  BY DEF Phase

LEMMA ToldSame == UNCHANGED child => UNCHANGED <<Confirmed, Denied>>
  BY DEF Confirmed, Denied

\* A step that moves no backend and does not touch the list.
LEMMA QuietMaps ==
  ASSUME UNCHANGED <<registered, bound, child>>,
         UNCHANGED Phase \/ (Phase # "ended" /\ Phase' = "ended")
  PROVE  [G!Next]_(G!registration)
<1>1. CASE UNCHANGED Phase
  BY <1>1, ToldSame DEF G!registration, G!told
<1>2. CASE Phase # "ended" /\ Phase' = "ended"
  <2>1. G!End
    BY <1>2, ToldSame DEF G!End, G!told
  <2> QED
    BY <2>1 DEF G!Next
<1> QED
  BY <1>1, <1>2

\* A backend that moves leaves Confirmed if it was there, unless it was told
\* something about its registration.
LEMMA MoveMaps ==
  ASSUME TypeOK, NEW b \in Backends, NEW where, where \notin {"wait", "denied"},
         child[b] # "denied", child' = [child EXCEPT ![b] = where],
         UNCHANGED <<main, registered, bound>>
  PROVE  [G!Next]_(G!registration)
<1>1. Confirmed' = Confirmed \ {b} /\ Denied' = Denied
  BY DEF Confirmed, Denied, TypeOK, BackendTypeOK
<1>2. CASE b \in Confirmed
  <2>1. G!Leave(b)
    BY <1>1, <1>2, PhaseSame DEF G!Leave
  <2> QED
    BY <2>1 DEF G!Next
<1>3. CASE b \notin Confirmed
  BY <1>1, <1>3, PhaseSame DEF G!registration, G!told
<1> QED
  BY <1>2, <1>3

LEMMA MainStepMaps ==
  ASSUME TypeOK, RegistrationInv, MainStep
  PROVE  [G!Next]_(G!registration)
<1>1. CASE SelectReady
  <2>1. registered = Total
    BY <1>1 DEF SelectReady, RegistrationInv, SenderInv
  <2>2. /\ Phase = "gathering" /\ Phase' = "published"
        /\ UNCHANGED <<registered, bound, child>>
    BY <1>1 DEF SelectReady, Phase, backend
  <2>3. G!Publish
    BY <2>1, <2>2, ToldSame DEF G!Publish, G!told
  <2> QED
    BY <2>3 DEF G!Next
<1>2. ASSUME NEW b \in Backends, SpawnBackend(b) PROVE [G!Next]_(G!registration)
  <2>1. CASE child' = [child EXCEPT ![b] = "listen"] /\ UNCHANGED main
    BY <1>2, <2>1, MoveMaps DEF SpawnBackend, NextToSpawn, Spawned, handler
  <2>2. CASE Return("setup failed") /\ UNCHANGED child
    BY <1>2, <2>2, QuietMaps DEF SpawnBackend, Return, handler, Phase
  <2> QED
    BY <1>2, <2>1, <2>2 DEF SpawnBackend
<1>3. CASE Prepare \/ AllSpawned \/ SelectDone \/ SelectTimeout \/ HandleCerts \/ HandleBackends \/ Wait
  <2>1. UNCHANGED <<registered, bound, child>>
    BY <1>3 DEF Prepare, AllSpawned, SelectDone, SelectTimeout, HandleCerts, HandleBackends,
                Wait, handler, backend
  <2>2. UNCHANGED Phase \/ (Phase # "ended" /\ Phase' = "ended")
    BY <1>3 DEF Prepare, AllSpawned, SelectDone, SelectTimeout, HandleCerts, HandleBackends,
                Wait, Return, Phase
  <2> QED
    BY <2>1, <2>2, QuietMaps
<1> QED
  BY <1>1, <1>2, <1>3 DEF MainStep

LEMMA RegisterMaps ==
  ASSUME TypeOK, NEW r \in Requests, Register(r)
  PROVE  [G!Next]_(G!registration)
<1>1. Phase # "ended" /\ UNCHANGED <<main, child>>
  BY DEF Register, backend, Up, Phase
<1>2. CASE UNCHANGED <<registered, bound>>
  BY <1>1, <1>2, PhaseSame, QuietMaps
<1>3. CASE ~Full /\ Count(r)
  <2>1. r[1] \in Backends
    BY DEF Requests
  <2>2. registered < Total
    BY <1>3, BackendsSize DEF Full, TypeOK, HandlerTypeOK
  <2>3. G!Join(r[1])
    BY <1>1, <1>3, <2>2, PhaseSame, ToldSame DEF Count, Store, G!Join, G!told
  <2> QED
    BY <2>1, <2>3 DEF G!Next
<1> QED
  BY <1>2, <1>3 DEF Register, Reject, DecodeFails

LEMMA AnsweredMaps ==
  ASSUME TypeOK, RegistrationInv, NEW b \in Backends, Answered(b)
  PROVE  [G!Next]_(G!registration)
<1>1. /\ UNCHANGED <<main, registered, bound>>
      /\ child[b] = "await" /\ Current(b) \in Requests /\ Current(b)[1] = b
  BY CurrentRequest DEF Answered, Exit, Goto, handler, TypeOK, RegistrationInv, ToldInv, Current
<1>2. CASE req[Current(b)] = "ok" /\ Goto(b, "wait")
  <2>1. b \in bound
    BY <1>1, <1>2 DEF RegistrationInv, RegisteredCountsRequests, Counted
  <2>2. Confirmed' = Confirmed \cup {b} /\ Denied' = Denied /\ b \notin Denied
    BY <1>1, <1>2 DEF Confirmed, Denied, Goto, TypeOK, BackendTypeOK
  <2>3. G!Confirm(b)
    BY <1>1, <2>1, <2>2, PhaseSame DEF G!Confirm
  <2> QED
    BY <2>3 DEF G!Next
<1>3. CASE req[Current(b)] = "bad" /\ Exit(b, "denied")
  <2>1. registered = Total
    BY <1>1, <1>3 DEF RegistrationInv, SenderInv
  <2>2. Confirmed' = Confirmed /\ Denied' = Denied \cup {b} /\ b \notin Confirmed
    BY <1>1, <1>3 DEF Confirmed, Denied, Exit, TypeOK, BackendTypeOK
  <2>3. G!Deny(b)
    BY <1>1, <2>1, <2>2, PhaseSame DEF G!Deny
  <2> QED
    BY <2>3 DEF G!Next
<1>4. CASE Exit(b, "unread")
  BY <1>1, <1>4, MoveMaps DEF Exit
<1> QED
  BY <1>2, <1>3, <1>4 DEF Answered

LEMMA BackendMaps ==
  ASSUME TypeOK, NEW b \in Backends,
         \/ ChildListen(b) \/ Dial(b) \/ Refused(b) \/ GiveUp(b) \/ ChildWait(b)
         \/ ServeStep(b) \/ DeathSignal(b) \/ Signal(b) \/ Crash(b)
  PROVE  [G!Next]_(G!registration)
<1>1. UNCHANGED <<main, registered, bound>> /\ child[b] # "denied"
  BY DEF ChildListen, Dial, Refused, GiveUp, ChildWait, ServeStep, ChildServe, ChildShutdown,
         DeathSignal, Signal, Crash, Exit, Goto, handler, Alive, Endings
<1>2. CASE UNCHANGED child
  BY <1>1, <1>2, PhaseSame, QuietMaps
<1>3. CASE \E where \in {"dial", "await", "unbound", "refused", "exhausted", "stopped", "crashed"} :
             child' = [child EXCEPT ![b] = where]
  BY <1>1, <1>3, MoveMaps
<1> QED
  BY <1>2, <1>3 DEF ChildListen, Dial, Refused, GiveUp, ChildWait, ServeStep, ChildServe,
                    ChildShutdown, DeathSignal, Signal, Crash, Exit, Goto

LEMMA ElsewhereMaps ==
  ASSUME Watch \/ ServerStep \/ CloserStep \/ Interrupt \/ Kill \/ UNCHANGED vars
  PROVE  [G!Next]_(G!registration)
<1>1. UNCHANGED <<registered, bound, child>>
  BY DEF Watch, ServerStep, Listen, ServerClosed, CloserStep, BeginShutdown, EndShutdown,
         Interrupt, Kill, vars, handler, backend
<1>2. UNCHANGED Phase \/ (Phase # "ended" /\ Phase' = "ended")
  BY DEF Watch, ServerStep, Listen, ServerClosed, CloserStep, BeginShutdown, EndShutdown,
         Interrupt, Kill, Return, vars, Up, Phase
<1> QED
  BY <1>1, <1>2, QuietMaps

LEMMA NextMaps ==
  ASSUME TypeOK, RegistrationInv, [Next]_vars
  PROVE  [G!Next]_(G!registration)
<1>1. ASSUME NEW b \in Backends, ChildStep(b) PROVE [G!Next]_(G!registration)
  BY <1>1, AnsweredMaps, BackendMaps DEF ChildStep
<1>2. CASE Environment
  BY <1>2, ElsewhereMaps, BackendMaps DEF Environment
<1> QED
  BY <1>1, <1>2, MainStepMaps, ElsewhereMaps, RegisterMaps, BackendMaps DEF Next, Terminated

LEMMA InitMaps == Init => G!Init
  BY DEF Init, G!Init, Phase, Confirmed, Denied

\* With any number of attempts, each of which may be late, lost or repeated,
\* every step of the parent and of its backends is one of Registration, or none.
THEOREM ImplementsAtLeastOnce == Spec => ImplementsRegistration
<1>1. TypeOK /\ RegistrationInv /\ [Next]_vars => [G!Next]_(G!registration)
  BY NextMaps
<1> QED
  BY <1>1, InitMaps, TypeCorrect, RegistrationCorrect, PTL
  DEF Spec, ImplementsRegistration, G!Spec

\* No handler of /register stores a name once Run has left the select, so that
\* the handler of /backends, which does not take the lock, always reads the
\* same list.
THEOREM PublishedIsFinal ==
  Spec => [][(main \in {"mux", "wait"}) => UNCHANGED <<registered, bound>>]_vars
<1>1. TypeOK /\ RegistrationInv /\ [Next]_vars
        => [(main \in {"mux", "wait"}) => UNCHANGED <<registered, bound>>]_vars
  <2> SUFFICES ASSUME TypeOK, RegistrationInv, [Next]_vars, main \in {"mux", "wait"}
               PROVE  UNCHANGED <<registered, bound>>
    OBVIOUS
  <2>1. registered = Total
    BY DEF RegistrationInv, SelectInv
  <2>2. \A b \in Backends : ~G!Join(b)
    BY <2>1, BackendsSize DEF G!Join
  <2>3. [G!Next]_(G!registration)
    BY NextMaps
  <2> QED
    BY <2>2, <2>3 DEF G!Next, G!registration, G!Confirm, G!Deny, G!Leave, G!Publish, G!End
<1> QED
  BY <1>1, TypeCorrect, RegistrationCorrect, PTL DEF Spec

-----------------------------------------------------------------------------
(* ServeBackends implements Rendezvous when every backend has one attempt. *)

LEMMA OneAttempt == ASSUME Retries = 1 PROVE ~CountedTwice
<1>1. \A r \in Counted : r = <<r[1], 1>>
  BY CountedRequest
<1> QED
  BY <1>1 DEF CountedTwice

\* Then the count is that of the names.
OnePlaceInv == registered = Cardinality(bound)

LEMMA OnePlaceEach ==
  ASSUME Retries = 1, TypeOK, RegistrationInv
  PROVE  OnePlaceInv
<1> DEFINE f == [r \in Counted |-> r[1]]
<1>1. bound = {r[1] : r \in Counted}
  BY DEF RegistrationInv, RegisteredCountsRequests
<1>2. f \in Bijection(Counted, bound)
  <2>1. f \in [Counted -> bound]
    BY <1>1
  <2>2. \A r, s \in Counted : f[r] = f[s] => r = s
    BY OneAttempt DEF CountedTwice
  <2>3. \A b \in bound : \E r \in Counted : f[r] = b
    BY <1>1
  <2> QED
    BY <2>1, <2>2, <2>3 DEF Bijection, Injection, Surjection, IsInjective
<1>3. Cardinality(bound) = Cardinality(Counted)
  BY <1>2, CountedFinite, FS_Bijection DEF ExistsBijection
<1> QED
  BY <1>3 DEF OnePlaceInv, RegistrationInv, RegisteredCountsRequests

\* A step of Registration in which nobody takes a second place.
LEMMA OnceMaps ==
  ASSUME Retries = 1, TypeOK, RegistrationInv, [Next]_vars, OnePlaceInv, OnePlaceInv'
  PROVE  [R!Next]_(R!rendezvous)
<1>1. CASE UNCHANGED G!registration
  BY <1>1 DEF G!registration, G!told, R!rendezvous
<1>2. ASSUME NEW b \in Backends, G!Join(b) PROVE [R!Next]_(R!rendezvous)
  <2>1. /\ registered' = registered + 1 /\ bound' = bound \cup {b}
        /\ registered < Total /\ Phase # "ended"
        /\ UNCHANGED <<Phase, Confirmed>>
    BY <1>2 DEF G!Join, G!told
  <2>2. b \notin bound
    <3>1. registered \in Nat
      BY BackendsSize DEF TypeOK, HandlerTypeOK
    <3>2. b \in bound => bound' = bound
      BY <2>1
    <3>3. b \in bound => registered' = registered
      BY <3>2 DEF OnePlaceInv
    <3> QED
      BY <2>1, <3>1, <3>3
  <2>3. Phase = "gathering"
    BY <2>1, BackendsSize DEF Phase, RegistrationInv, SelectInv
  <2>4. R!Join(b)
    BY <2>1, <2>2, <2>3 DEF R!Join
  <2> QED
    BY <2>4 DEF R!Next
<1>3. ASSUME NEW b \in Backends, G!Confirm(b) \/ G!Deny(b) \/ G!Leave(b)
      PROVE  [R!Next]_(R!rendezvous)
  BY <1>3 DEF G!Confirm, G!Deny, G!Leave, R!Next, R!Confirm, R!Leave, R!rendezvous
<1>4. CASE G!Publish
  <2>1. bound = Backends
    BY <1>4, CompleteCount, OneAttempt DEF G!Publish
  <2>2. R!Publish
    BY <1>4, <2>1 DEF G!Publish, G!told, R!Publish
  <2> QED
    BY <2>2 DEF R!Next
<1>5. CASE G!End
  BY <1>5 DEF G!End, G!told, R!Next, R!End
<1> QED
  BY <1>1, <1>2, <1>3, <1>4, <1>5, NextMaps DEF G!Next

\* With one attempt per backend the list that is published is complete, and
\* a backend that relies on its registration is on it.
THEOREM Implements ==
  ASSUME Retries = 1
  PROVE  Spec => ImplementsRendezvous
<1>1. Init => R!Init
  BY DEF Init, R!Init, Phase, Confirmed
<1>2. TypeOK /\ RegistrationInv => OnePlaceInv
  BY OnePlaceEach
<1>3. TypeOK /\ RegistrationInv /\ [Next]_vars /\ OnePlaceInv /\ OnePlaceInv'
      => [R!Next]_(R!rendezvous)
  BY OnceMaps
<1> QED
  BY <1>1, <1>2, <1>3, TypeCorrect, RegistrationCorrect, PTL
  DEF Spec, ImplementsRendezvous, R!Spec
=============================================================================
