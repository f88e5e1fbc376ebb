-------------------------- MODULE SyncEnvoyProofs --------------------------
(***************************************************************************)
(* Theorems about SyncEnvoy, for any number of streams, nodes and breaks.  *)
(***************************************************************************)
EXTENDS SyncEnvoy, TLAPS

Flows == {"none", "request", "asked", "open", "ready", "append", "send", "response"}

\* What a step does to one flow and what it leaves alone.
LEMMA MoveOne ==
  ASSUME TypeOK, NEW s \in Streams, NEW t \in Types, NEW where \in Flows,
         Move(s, t, where)
  PROVE  /\ flow' \in [Streams -> [Types -> Flows]]
         /\ flow'[s][t] = where
         /\ \A r \in Streams, u \in Types :
              (r # s \/ u # t) => flow'[r][u] = flow[r][u]
         /\ \A r \in Streams : r # s => flow'[r] = flow[r]
  BY DEF TypeOK, Move, Flows

\* A stream that closes leaves nothing behind.
LEMMA CloseOne ==
  ASSUME TypeOK, NEW s \in Streams, CloseStream(s)
  PROVE  /\ flow' \in [Streams -> [Types -> Flows]]
         /\ \A u \in Types : flow'[s][u] = "none"
         /\ flow'[s] = Quiet
         /\ \A r \in Streams : r # s => flow'[r] = flow[r]
         /\ up' \subseteq Streams
         /\ \A r \in Streams : r # s => (r \in up' <=> r \in up)
  BY DEF TypeOK, CloseStream, Quiet, Flows

-----------------------------------------------------------------------------
(* Types.                                                                  *)

LEMMA InitType == Init => TypeOK
<1> SUFFICES ASSUME Init PROVE TypeOK
  OBVIOUS
<1>1. flow \in [Streams -> [Types -> Flows]]
  BY DEF Init, Quiet, Flows
<1>2. have \in [Streams -> [Types -> {"old", "new"}]]
  BY DEF Init
<1>3. read \in [Streams -> SUBSET Types] /\ breaks \in 0 .. MaxBreaks
  BY ConstantsAssumption DEF Init
<1> QED
  BY <1>1, <1>2, <1>3 DEF Init, TypeOK, Flows, Unnotified

LEMMA RunType ==
  ASSUME TypeOK, MainStep \/ ManagerStep \/ Serve \/ WatcherStep \/ Interrupt
  PROVE  TypeOK'
<1>1. CASE SetSnapshot
  <2>1. flow' \in [Streams -> [Types -> Flows]]
    BY <1>1 DEF TypeOK, SetSnapshot, Flows
  <2> QED
    BY <1>1, <2>1 DEF TypeOK, SetSnapshot, Flows, Endings, signal, callback
<1>7. CASE FetchBackends \/ FetchCertificates \/ WriteCertificates
  BY <1>7 DEF TypeOK, FetchBackends, FetchCertificates, WriteCertificates, Errand, Unnotified,
              Endings, signal, callback, stream
<1>2. CASE Start \/ Connected \/ Sync
  BY <1>2 DEF TypeOK, Start, Connected, Sync, Endings, signal, callback, stream
<1>4. CASE ChooseNode
  BY <1>4 DEF TypeOK, ChooseNode, Endings, signal, callback, stream
<1>3. CASE ManagerStep \/ Serve
  BY <1>3 DEF TypeOK, ManagerStep, Listen, GracefulStop, Serve, Endings, run, signal, callback, stream
<1>5. CASE FirstSignal \/ SecondSignal
  BY <1>5 DEF TypeOK, FirstSignal, SecondSignal, Endings, run, callback, stream
<1>6. CASE Interrupt
  BY <1>6 DEF TypeOK, Interrupt, Notified, run, callback, stream
<1> QED
  BY <1>1, <1>2, <1>3, <1>4, <1>5, <1>6, <1>7 DEF MainStep, WatcherStep

LEMMA StreamType ==
  ASSUME TypeOK, NEW s \in Streams,
         StreamStep(s)
  PROVE  TypeOK'
<1> USE ConstantsAssumption
<1>1. ASSUME NEW t \in Types,
             OnStreamRequest(s, t) \/ OnStreamResponse(s, t) \/ Send(s, t) \/ Ask(s, t) \/ Reject(s, t)
      PROVE  TypeOK'
  <2>1. \E where \in Flows : Move(s, t, where)
    BY <1>1 DEF OnStreamRequest, OnStreamResponse, Send, Ask, Reject, Flows
  <2>2. flow' \in [Streams -> [Types -> Flows]]
    BY <2>1, MoveOne
  <2> QED
    BY <1>1, <2>2 DEF TypeOK, OnStreamRequest, OnStreamResponse, BeginAppend, Send, Ask, Reject, Flows,
                      run, signal, callback
<1>2. ASSUME NEW t \in Types, AppendResponse(s, t) PROVE TypeOK'
  <2>1. Move(s, t, "send") /\ "send" \in Flows
    BY <1>2 DEF AppendResponse, Flows
  <2>2. flow' \in [Streams -> [Types -> Flows]]
    BY <2>1, MoveOne
  <2>3. recorded' \subseteq Types /\ read' \in [Streams -> SUBSET Types]
    BY <1>2 DEF TypeOK, AppendResponse, Appended
  <2> QED
    BY <1>2, <2>2, <2>3 DEF TypeOK, AppendResponse, Flows, run, signal
<1>3. ASSUME NEW t \in Types, CreateWatch(s, t) PROVE TypeOK'
  <2>1. \E where \in Flows : Move(s, t, where)
    BY <1>3 DEF CreateWatch, Flows
  <2>2. flow' \in [Streams -> [Types -> Flows]]
    BY <2>1, MoveOne
  <2>3. NodeOf[s] \in Nodes
    OBVIOUS
  <2> QED
    BY <1>3, <2>2, <2>3 DEF TypeOK, CreateWatch, Flows, run, signal, callback
<1>4. ASSUME NEW t \in Types, Accept(s, t) PROVE TypeOK'
  <2>1. Move(s, t, "request") /\ "request" \in Flows
    BY <1>4 DEF Accept, Flows
  <2>2. flow' \in [Streams -> [Types -> Flows]]
    BY <2>1, MoveOne
  <2>3. have' \in [Streams -> [Types -> {"old", "new"}]]
    BY <1>4 DEF TypeOK, Accept
  <2> QED
    BY <1>4, <2>2, <2>3 DEF TypeOK, Accept, Flows, run, signal, callback
<1>5. CASE ContextDone(s) \/ Break(s)
  <2>1. CloseStream(s)
    BY <1>5 DEF ContextDone, Break
  <2>2. flow' \in [Streams -> [Types -> Flows]] /\ up' \subseteq Streams
    BY <2>1, CloseOne
  <2> QED
    BY <1>5, <2>2 DEF TypeOK, ContextDone, Break, Flows, run, signal, callback
<1>6. CASE Open(s)
  BY <1>6 DEF TypeOK, Open, run, signal, callback
<1> QED
  BY <1>1, <1>2, <1>3, <1>4, <1>5, <1>6 DEF StreamStep, AskAny, Work, Take

\* Every variable keeps its type; no signal is kept beside another and the
\* node that Run chooses is one the cache knows.
THEOREM SyncTypeCorrect == Spec => []TypeOK
<1>1. TypeOK /\ [Next]_vars => TypeOK'
  <2> SUFFICES ASSUME TypeOK, [Next]_vars PROVE TypeOK'
    OBVIOUS
  <2>1. CASE UNCHANGED vars
    BY <2>1 DEF TypeOK, vars, run, signal, callback, stream
  <2> QED
    BY <2>1, RunType, StreamType DEF Next, Terminated
<1> QED
  BY <1>1, InitType, PTL DEF Spec

-----------------------------------------------------------------------------
(* Watches, and who is served.                                             *)

Working == {"asked", "append", "send"}

LEMMA InitSync == Init => SyncInv
  BY DEF Init, SyncInv, StreamInv, ChosenInv, NoForgottenWatch, OnlyChosenServed, Quiet

\* A flow is moved by the goroutine of its stream, which is then the only one
\* that may be at work, or by the Envoy, to a request.
LEMMA MoveStream ==
  ASSUME TypeOK, StreamInv, NEW s \in Streams, NEW t \in Types, NEW where \in Flows,
         Move(s, t, where), s \in up, up' = up,
         where \in Working => ~Busy(s) \/ flow[s][t] \in Working
  PROVE  StreamInv'
<1>1. ASSUME NEW r \in Streams, NEW u \in Types, NEW v \in Types,
             flow'[r][u] \in Working, flow'[r][v] \in Working
      PROVE  u = v
  <2>1. CASE r = s
    <3>1. \A w \in Types : w # t => flow'[s][w] = flow[s][w]
      BY MoveOne
    <3>2. flow'[s][t] = where
      BY MoveOne
    <3>3. CASE where \in Working /\ ~Busy(s)
      BY <1>1, <2>1, <3>1, <3>3 DEF Busy, Working
    <3>4. CASE where \in Working /\ flow[s][t] \in Working
      BY <1>1, <2>1, <3>1, <3>4 DEF StreamInv, Working
    <3>5. CASE where \notin Working
      BY <1>1, <2>1, <3>1, <3>2, <3>5 DEF StreamInv, Working
    <3> QED
      BY <3>3, <3>4, <3>5
  <2>2. CASE r # s
    BY <1>1, <2>2, MoveOne DEF StreamInv, Working
  <2> QED
    BY <2>1, <2>2
<1>2. ASSUME NEW r \in Streams, r \notin up' PROVE flow'[r] = Quiet
  BY <1>2, MoveOne DEF StreamInv
<1> QED
  BY <1>1, <1>2 DEF StreamInv, Working

LEMMA AtWork ==
  ASSUME StreamInv, NEW s \in Streams, NEW t \in Types, flow[s][t] # "none"
  PROVE  s \in up
  BY DEF StreamInv, Quiet

LEMMA RunSync ==
  ASSUME TypeOK, SyncInv, MainStep \/ ManagerStep \/ Serve \/ WatcherStep \/ Interrupt
  PROVE  SyncInv'
<1>1. CASE SetSnapshot
  <2>1. CASE UNCHANGED <<flow, snapshot>>
    BY <1>1, <2>1 DEF SetSnapshot, SyncInv, StreamInv, ChosenInv, NoForgottenWatch,
                      OnlyChosenServed, Endings, Quiet
  <2>2. CASE snapshot' = TRUE /\ main' = "sync"
    <3>1. /\ \A s \in Streams, t \in Types :
               flow'[s][t] = IF Outdated(s, t) THEN "ready" ELSE flow[s][t]
          /\ \A s \in Streams : flow'[s] = [t \in Types |->
               IF Outdated(s, t) THEN "ready" ELSE flow[s][t]]
          /\ UNCHANGED <<up, have, nodeId>>
          /\ snapshot = FALSE
      BY <1>1, <2>2 DEF SetSnapshot, TypeOK, SyncInv, ChosenInv, Endings
    <3>2. StreamInv'
      <4>1. ASSUME NEW s \in Streams, NEW t \in Types, NEW u \in Types,
                   flow'[s][t] \in Working, flow'[s][u] \in Working
            PROVE  t = u
        BY <3>1, <4>1 DEF SyncInv, StreamInv, Working
      <4>2. ASSUME NEW s \in Streams, s \notin up' PROVE flow'[s] = Quiet
        <5>1. flow[s] = Quiet
          BY <3>1, <4>2 DEF SyncInv, StreamInv
        <5>2. \A t \in Types : ~Outdated(s, t)
          BY <5>1 DEF Outdated, Quiet
        <5> QED
          BY <3>1, <5>1, <5>2 DEF Quiet
      <4> QED
        BY <4>1, <4>2 DEF StreamInv, Working
    <3>3. NoForgottenWatch'
      BY <3>1 DEF NoForgottenWatch, Outdated, TypeOK
    <3>4. OnlyChosenServed'
      BY <2>2, <3>1 DEF SyncInv, OnlyChosenServed, Outdated
    <3> QED
      BY <2>2, <3>2, <3>3, <3>4 DEF SyncInv, ChosenInv
  <2> QED
    BY <1>1, <2>1, <2>2 DEF SetSnapshot
<1>2. CASE ChooseNode
  <2>1. snapshot = FALSE
    BY <1>2 DEF ChooseNode, TypeOK, SyncInv, ChosenInv, Endings
  <2> QED
    BY <1>2, <2>1 DEF ChooseNode, SyncInv, StreamInv, ChosenInv, NoForgottenWatch,
                      OnlyChosenServed, Endings, Quiet, stream
<1>3. CASE \/ FetchBackends \/ FetchCertificates \/ WriteCertificates \/ Start
           \/ Connected \/ Sync \/ ManagerStep \/ Serve \/ WatcherStep \/ Interrupt
  <2>1. /\ UNCHANGED <<nodeId, snapshot, up, flow, have>>
        /\ main' = main \/ main' \in Endings \/ main \in Unnotified \cup {"start", "connect"}
    <3>1. CASE FetchBackends \/ FetchCertificates \/ WriteCertificates \/ Start
      BY <3>1 DEF FetchBackends, FetchCertificates, WriteCertificates, Errand, Start,
                  Unnotified, stream
    <3>2. CASE Connected \/ Sync \/ ManagerStep \/ Serve
      BY <3>2 DEF Connected, Sync, ManagerStep, Listen, GracefulStop, Serve, Endings, stream
    <3>3. CASE WatcherStep \/ Interrupt
      BY <3>3 DEF WatcherStep, FirstSignal, SecondSignal, Interrupt, Endings, run, stream
    <3> QED
      BY <1>3, <3>1, <3>2, <3>3
  <2> QED
    BY <1>3, <2>1 DEF SyncInv, StreamInv, ChosenInv, NoForgottenWatch, OnlyChosenServed, Endings,
                      Quiet, Unnotified
<1> QED
  BY <1>1, <1>2, <1>3 DEF MainStep

LEMMA StreamSync ==
  ASSUME TypeOK, SyncInv, NEW s \in Streams,
         StreamStep(s)
  PROVE  SyncInv'
<1>0. UNCHANGED <<main, nodeId, snapshot>>
  BY DEF StreamStep, AskAny, Work, Take, OnStreamRequest, CreateWatch, OnStreamResponse, AppendResponse, Send,
         ContextDone, Open, Ask, Accept, Reject, Break, run
<1>1. ChosenInv'
  BY <1>0 DEF SyncInv, ChosenInv
<1>2. ASSUME NEW t \in Types,
             \/ OnStreamRequest(s, t) \/ CreateWatch(s, t) \/ OnStreamResponse(s, t)
             \/ AppendResponse(s, t) \/ Send(s, t) \/ Ask(s, t) \/ Reject(s, t)
      PROVE  SyncInv'
  <2>1. UNCHANGED <<up, have>>
    BY <1>2 DEF OnStreamRequest, CreateWatch, OnStreamResponse, AppendResponse, Send, Ask, Reject
  <2>2. PICK where \in Flows :
          /\ Move(s, t, where)
          /\ s \in up
          /\ where \in Working => ~Busy(s) \/ flow[s][t] \in Working
          /\ where = "open" => UpToDate(s, t)
          /\ where = "ready" => ~UpToDate(s, t)
          /\ where \in {"append", "send", "response"} =>
               flow[s][t] \in {"ready", "append", "send"}
    <3>1. CASE OnStreamRequest(s, t) \/ OnStreamResponse(s, t)
      BY <3>1 DEF OnStreamRequest, OnStreamResponse, Selecting, Working, Flows
    <3>2. CASE CreateWatch(s, t) \/ AppendResponse(s, t) \/ Send(s, t)
      <4>1. s \in up
        BY <3>2, AtWork DEF CreateWatch, AppendResponse, Send, SyncInv
      <4> QED
        BY <3>2, <4>1 DEF CreateWatch, AppendResponse, Send, Working, Flows
    <3>3. CASE Ask(s, t)
      BY <3>3 DEF Ask, Working, Flows
    <3>4. CASE Reject(s, t)
      <4>1. s \in up
        BY <3>4, AtWork DEF Reject, SyncInv
      <4> QED
        BY <3>4, <4>1 DEF Reject, Working, Flows
    <3> QED
      BY <1>2, <3>1, <3>2, <3>3, <3>4
  <2>3. StreamInv'
    BY <2>1, <2>2, MoveStream DEF SyncInv
  <2>4. /\ flow'[s][t] = where
        /\ \A r \in Streams, u \in Types : (r # s \/ u # t) => flow'[r][u] = flow[r][u]
    BY <2>2, MoveOne
  <2>5. NoForgottenWatch'
    BY <1>0, <2>1, <2>2, <2>4 DEF SyncInv, NoForgottenWatch, UpToDate
  <2>6. OnlyChosenServed'
    BY <1>0, <2>1, <2>2, <2>4 DEF SyncInv, OnlyChosenServed, UpToDate
  <2> QED
    BY <1>1, <2>3, <2>5, <2>6 DEF SyncInv
<1>3. ASSUME NEW t \in Types, Accept(s, t) PROVE SyncInv'
  <2>1. Move(s, t, "request") /\ "request" \in Flows /\ "request" \notin Working
    BY <1>3 DEF Accept, Flows, Working
  <2>2. s \in up /\ up' = up
    BY <1>3, AtWork DEF Accept, SyncInv
  <2>3. StreamInv'
    BY <2>1, <2>2, MoveStream DEF SyncInv
  <2>4. /\ flow'[s][t] = "request"
        /\ \A r \in Streams, u \in Types : (r # s \/ u # t) => flow'[r][u] = flow[r][u]
    BY <2>1, MoveOne
  <2>5. /\ have'[s][t] = "new"
        /\ \A r \in Streams, u \in Types : (r # s \/ u # t) => have'[r][u] = have[r][u]
    BY <1>3 DEF Accept, TypeOK
  <2>6. NoForgottenWatch'
    BY <1>0, <2>4, <2>5 DEF SyncInv, NoForgottenWatch
  <2>7. OnlyChosenServed'
    BY <1>0, <1>3, <2>4, <2>5 DEF SyncInv, OnlyChosenServed, Accept
  <2> QED
    BY <1>1, <2>3, <2>6, <2>7 DEF SyncInv
<1>4. CASE ContextDone(s) \/ Break(s)
  <2>1. CloseStream(s) /\ have' = have
    BY <1>4 DEF ContextDone, Break
  <2>2. /\ \A u \in Types : flow'[s][u] = "none"
        /\ flow'[s] = Quiet
        /\ \A r \in Streams : r # s => flow'[r] = flow[r] /\ (r \in up' <=> r \in up)
    BY <2>1, CloseOne
  <2> QED
    BY <1>0, <1>1, <2>1, <2>2 DEF SyncInv, StreamInv, NoForgottenWatch, OnlyChosenServed
<1>5. CASE Open(s)
  BY <1>0, <1>1, <1>5 DEF Open, SyncInv, StreamInv, NoForgottenWatch, OnlyChosenServed, Quiet
<1> QED
  BY <1>2, <1>3, <1>4, <1>5 DEF StreamStep, AskAny, Work, Take

\* The inductive invariant, of which the two theorems below are parts.
THEOREM SyncCorrect == Spec => []SyncInv
<1>1. TypeOK /\ SyncInv /\ [Next]_vars => SyncInv'
  <2> SUFFICES ASSUME TypeOK, SyncInv, [Next]_vars PROVE SyncInv'
    OBVIOUS
  <2>1. CASE UNCHANGED vars
    BY <2>1 DEF SyncInv, StreamInv, ChosenInv, NoForgottenWatch, OnlyChosenServed, Quiet,
                vars, run, stream
  <2> QED
    BY <2>1, RunSync, StreamSync DEF Next, Terminated
<1> QED
  BY <1>1, InitSync, SyncTypeCorrect, PTL DEF Spec

\* A watch is never left behind: whichever of CreateWatch and SetSnapshot
\* comes first, the outdated watch of the chosen node is answered.
THEOREM NothingForgotten == Spec => []NoForgottenWatch
<1>1. SyncInv => NoForgottenWatch
  BY DEF SyncInv
<1> QED
  BY <1>1, SyncCorrect, PTL

\* Nobody but the chosen node is configured.
THEOREM ChosenOnly == Spec => []OnlyChosenServed
<1>1. SyncInv => OnlyChosenServed
  BY DEF SyncInv
<1> QED
  BY <1>1, SyncCorrect, PTL

-----------------------------------------------------------------------------
(* The slice of responses.                                                 *)

LEMMA OverlapKept == ASSUME overlapped, [Next]_vars PROVE overlapped'
<1>1. ASSUME NEW s \in Streams, StreamStep(s) PROVE overlapped'
  BY <1>1 DEF StreamStep, AskAny, Work, Take, OnStreamRequest, CreateWatch, OnStreamResponse,
     BeginAppend, AppendResponse, Send, ContextDone, Open, Ask, Accept, Reject, Break, callback
<1>2. CASE MainStep
  BY <1>2 DEF MainStep, FetchBackends, FetchCertificates, WriteCertificates, Errand, Start,
     Connected, ChooseNode, SetSnapshot, Sync, callback
<1>3. CASE ManagerStep \/ Serve \/ WatcherStep \/ Interrupt \/ UNCHANGED vars
  BY <1>3 DEF ManagerStep, Listen, GracefulStop, Serve, WatcherStep, FirstSignal, SecondSignal,
     Interrupt, callback, vars
<1> QED
  BY <1>1, <1>2, <1>3 DEF Next, Terminated

LEMMA AppendStep ==
  ASSUME TypeOK, SyncInv, AppendInv, ~overlapped', [Next]_vars
  PROVE  AppendInv'
<1>0. /\ \A r, s \in Streams, t, u \in Types :
           flow[r][t] = "append" /\ flow[s][u] = "append" => r = s
      /\ \A s \in Streams, t \in Types : flow[s][t] = "append" => read[s] = recorded
      /\ \A s \in Streams, t \in Types :
           flow[s][t] \in {"send", "response"} \/ have[s][t] = "new" => t \in recorded
  BY DEF AppendInv, Appending, Unrecorded
<1>s. ASSUME /\ \A r, s \in Streams, t, u \in Types :
                  flow'[r][t] = "append" /\ flow'[s][u] = "append" => r = s
             /\ \A s \in Streams, t \in Types : flow'[s][t] = "append" => read'[s] = recorded'
             /\ \A s \in Streams, t \in Types :
                  flow'[s][t] \in {"send", "response"} \/ have'[s][t] = "new" => t \in recorded'
      PROVE  AppendInv'
  BY <1>s DEF AppendInv, Appending, Unrecorded
<1>1. ASSUME NEW s \in Streams, NEW t \in Types, AppendResponse(s, t) PROVE AppendInv'
  <2>1. /\ Move(s, t, "send") /\ "send" \in Flows
        /\ recorded' = recorded \cup {t}
        /\ have' = have
    BY <1>0, <1>1 DEF AppendResponse, Appended, Flows
  <2>2. /\ flow'[s][t] = "send"
        /\ \A r \in Streams, u \in Types : (r # s \/ u # t) => flow'[r][u] = flow[r][u]
    BY <2>1, MoveOne
  <2>3. \A r \in Streams, u \in Types : flow'[r][u] # "append"
    BY <1>0, <1>1, <2>2 DEF AppendResponse, SyncInv, StreamInv
  <2> QED
    BY <1>0, <1>s, <2>1, <2>2, <2>3
<1>2. ASSUME NEW s \in Streams, NEW t \in Types, OnStreamResponse(s, t) PROVE AppendInv'
  <2>1. /\ Move(s, t, "append") /\ "append" \in Flows
        /\ UNCHANGED <<recorded, have>>
        /\ read'[s] = recorded
        /\ \A r \in Streams : r # s => read'[r] = read[r]
    BY <1>2 DEF OnStreamResponse, BeginAppend, TypeOK, Flows
  <2>2. /\ flow'[s][t] = "append"
        /\ \A r \in Streams, u \in Types : (r # s \/ u # t) => flow'[r][u] = flow[r][u]
    BY <2>1, MoveOne
  <2>3. \A r \in Streams, u \in Types : flow[r][u] # "append"
    BY <1>2 DEF OnStreamResponse, BeginAppend, Appending
  <2> QED
    BY <1>0, <1>s, <2>1, <2>2, <2>3
<1>3. ASSUME NEW s \in Streams, NEW t \in Types,
             \/ OnStreamRequest(s, t) \/ CreateWatch(s, t) \/ Send(s, t)
             \/ Ask(s, t) \/ Reject(s, t)
      PROVE  AppendInv'
  <2>1. UNCHANGED <<recorded, read, have>>
    BY <1>3 DEF OnStreamRequest, CreateWatch, Send, Ask, Reject, callback
  <2>2. PICK where \in Flows :
          /\ Move(s, t, where)
          /\ where \in {"append", "send", "response"} => where = "response" /\ flow[s][t] = "send"
    BY <1>3 DEF OnStreamRequest, CreateWatch, Send, Ask, Reject, Flows
  <2>3. /\ flow'[s][t] = where
        /\ \A r \in Streams, u \in Types : (r # s \/ u # t) => flow'[r][u] = flow[r][u]
    BY <2>2, MoveOne
  <2> QED
    BY <1>0, <1>s, <2>1, <2>2, <2>3
<1>4. ASSUME NEW s \in Streams, NEW t \in Types, Accept(s, t) PROVE AppendInv'
  <2>1. /\ Move(s, t, "request") /\ "request" \in Flows
        /\ UNCHANGED <<recorded, read>> /\ t \in recorded
        /\ \A r \in Streams, u \in Types : (r # s \/ u # t) => have'[r][u] = have[r][u]
    BY <1>0, <1>4 DEF Accept, TypeOK, Flows, callback
  <2>2. /\ flow'[s][t] = "request"
        /\ \A r \in Streams, u \in Types : (r # s \/ u # t) => flow'[r][u] = flow[r][u]
    BY <2>1, MoveOne
  <2> QED
    BY <1>0, <1>s, <2>1, <2>2
<1>5. ASSUME NEW s \in Streams, ContextDone(s) \/ Break(s) PROVE AppendInv'
  <2>1. CloseStream(s) /\ UNCHANGED <<recorded, read, have>>
    BY <1>5 DEF ContextDone, Break, callback
  <2>2. /\ \A u \in Types : flow'[s][u] = "none"
        /\ \A r \in Streams : r # s => flow'[r] = flow[r]
    BY <2>1, CloseOne
  <2> QED
    BY <1>0, <1>s, <2>1, <2>2
<1>6. CASE SetSnapshot
  <2>1. /\ \A s \in Streams, t \in Types : flow'[s][t] = flow[s][t] \/ flow'[s][t] = "ready"
        /\ UNCHANGED <<recorded, read, have>>
    BY <1>6 DEF SetSnapshot, TypeOK, callback
  <2> QED
    BY <1>0, <1>s, <2>1
<1>7. ASSUME UNCHANGED <<recorded, read, flow, have>> PROVE AppendInv'
  BY <1>0, <1>s, <1>7
<1>8. CASE \/ FetchBackends \/ FetchCertificates \/ WriteCertificates \/ Start
           \/ Connected \/ ChooseNode \/ Sync \/ ManagerStep \/ Serve
           \/ WatcherStep \/ Interrupt \/ UNCHANGED vars \/ \E s \in Streams : Open(s)
  BY <1>7, <1>8 DEF FetchBackends, FetchCertificates, WriteCertificates, Errand, Start,
     Connected, ChooseNode, Sync, ManagerStep, Listen, GracefulStop, Serve, WatcherStep,
     FirstSignal, SecondSignal, Interrupt, Open, vars, run, callback, stream
<1> QED
  BY <1>1, <1>2, <1>3, <1>4, <1>5, <1>6, <1>8
     DEF Next, MainStep, StreamStep, AskAny, Work, Take, Terminated

LEMMA AppendCorrect == Spec => [](overlapped \/ AppendInv)
<1>1. Init => AppendInv
  BY DEF Init, AppendInv, Appending, Unrecorded, Quiet
<1>2. TypeOK /\ SyncInv /\ (overlapped \/ AppendInv) /\ [Next]_vars
      => (overlapped \/ AppendInv)'
  BY AppendStep, OverlapKept
<1> QED
  BY <1>1, <1>2, SyncTypeCorrect, SyncCorrect, PTL DEF Spec

\* cb.Responses is appended to by every stream, without a lock.  Whatever node
\* ids the streams carry, no response that was sent is missing from it unless
\* two appends were in progress at once.
THEOREM NothingUnrecorded == Spec => []LossNeedsOverlap
<1>1. overlapped \/ AppendInv => LossNeedsOverlap
  BY DEF AppendInv, LossNeedsOverlap
<1> QED
  BY <1>1, AppendCorrect, PTL

\* While Run polls for a type, no open stream of the chosen node has it lying
\* in the cache, where only another snapshot would move it.
PollInv ==
  \A s \in Streams, t \in Types :
    snapshot /\ NodeOf[s] = nodeId /\ t \notin recorded => flow[s][t] # "open"

\* The polling of Run is not in vain unless appends overlapped: what it waits
\* for is on its way on every stream that asked for it.  This is what SyncEnds
\* needs of every state.
THEOREM NeverPollsInVain == Spec => [](overlapped \/ PollInv)
<1>1. NoForgottenWatch /\ (overlapped \/ AppendInv) => overlapped \/ PollInv
  BY DEF NoForgottenWatch, AppendInv, Unrecorded, PollInv
<1> QED
  BY <1>1, NothingForgotten, AppendCorrect, PTL

\* No two streams that may be open together belong to one node.
Distinct == \A r, s \in Streams : NodeOf[r] = NodeOf[s] => r = s

\* Appends overlap only when two streams carry one node id: only the streams
\* of the chosen node ever append.
THEOREM OverlapNeedsSharedId == ASSUME Distinct PROVE Spec => []~overlapped
<1>1. Init => ~overlapped
  BY DEF Init
<1>2. SyncInv /\ ~overlapped /\ [Next]_vars => ~overlapped'
  <2> SUFFICES ASSUME SyncInv, ~overlapped, [Next]_vars PROVE ~overlapped'
    OBVIOUS
  <2>1. ASSUME NEW s \in Streams, NEW t \in Types, OnStreamResponse(s, t) PROVE ~overlapped'
    <3>1. flow[s][t] = "ready" /\ ~Busy(s)
      BY <2>1 DEF OnStreamResponse, Selecting
    <3>2. \A r \in Streams : Appending(r) => r = s
      BY <3>1 DEF SyncInv, OnlyChosenServed, Appending, Distinct
    <3>3. ~Appending(s)
      BY <3>1 DEF Busy, Appending
    <3> QED
      BY <2>1, <3>2, <3>3 DEF OnStreamResponse, BeginAppend
  <2>2. CASE overlapped' = overlapped
    BY <2>2
  <2>3. ASSUME NEW s \in Streams, StreamStep(s), \A t \in Types : ~OnStreamResponse(s, t)
        PROVE  overlapped' = overlapped
    BY <2>3 DEF StreamStep, AskAny, Work, Take, OnStreamRequest, CreateWatch, AppendResponse,
       Send, ContextDone, Open, Ask, Accept, Reject, Break, callback
  <2>4. ASSUME MainStep PROVE overlapped' = overlapped
    BY <2>4 DEF MainStep, FetchBackends, FetchCertificates, WriteCertificates, Errand, Start,
       Connected, ChooseNode, SetSnapshot, Sync, callback
  <2>5. ASSUME ManagerStep \/ Serve \/ WatcherStep \/ Interrupt \/ UNCHANGED vars
        PROVE  overlapped' = overlapped
    BY <2>5 DEF ManagerStep, Listen, GracefulStop, Serve, WatcherStep, FirstSignal,
       SecondSignal, Interrupt, callback, vars
  <2> QED
    BY <2>1, <2>2, <2>3, <2>4, <2>5 DEF Next, Terminated
<1> QED
  BY <1>1, <1>2, SyncCorrect, PTL DEF Spec

-----------------------------------------------------------------------------
(* The promise of the control plane.                                       *)

\* The choice is made once, between the first request and the snapshot.
ChoiceInv ==
  /\ main \in Unnotified \cup {"start", "connect", "status"} => nodeId = NoNode
  /\ main \in {"set", "sync"} => nodeId # NoNode
  /\ main = "sync" => snapshot

LEMMA ChoiceStep ==
  ASSUME TypeOK, ChoiceInv, [Next]_vars
  PROVE  ChoiceInv'
<1>1. CASE FetchBackends \/ FetchCertificates \/ WriteCertificates \/ Start \/ Connected
  BY <1>1 DEF ChoiceInv, FetchBackends, FetchCertificates, WriteCertificates, Errand, Start,
              Connected, Unnotified
<1>2. CASE ChooseNode
  BY <1>2, NoNodeAssumption DEF ChoiceInv, ChooseNode, TypeOK, Unnotified
<1>3. CASE SetSnapshot
  BY <1>3 DEF ChoiceInv, SetSnapshot, Unnotified
<1>4. ASSUME UNCHANGED <<nodeId, snapshot>>, main' = main \/ main' \in Endings
      PROVE  ChoiceInv'
  BY <1>4 DEF ChoiceInv, Endings, Unnotified
<1>5. CASE Sync \/ ManagerStep \/ Serve \/ WatcherStep \/ Interrupt \/ UNCHANGED vars
  BY <1>4, <1>5 DEF Sync, ManagerStep, Listen, GracefulStop, Serve, WatcherStep, FirstSignal, SecondSignal,
                    Interrupt, Endings, vars, run
<1>6. ASSUME NEW s \in Streams,
             StreamStep(s)
      PROVE  ChoiceInv'
  BY <1>4, <1>6 DEF StreamStep, AskAny, Work, Take, OnStreamRequest, CreateWatch, OnStreamResponse,
     AppendResponse, Send, ContextDone, Open, Ask, Accept, Reject, Break, run
<1> QED
  BY <1>1, <1>2, <1>3, <1>5, <1>6 DEF Next, MainStep, Terminated

\* The node is chosen once, from those that asked, before anything is made
\* for it, and stays chosen.
LEMMA ChoiceCorrect == Spec => []ChoiceInv
<1>1. Init => ChoiceInv
  BY DEF Init, ChoiceInv, Unnotified
<1>2. TypeOK /\ ChoiceInv /\ [Next]_vars => ChoiceInv'
  BY ChoiceStep
<1> QED
  BY <1>1, <1>2, SyncTypeCorrect, PTL DEF Spec

Stage == IF main = "done" THEN "done"
         ELSE IF Ended THEN "failed"
         ELSE IF snapshot THEN "configured" ELSE "open"
Running == {p \in Streams \X Types : have[p[1]][p[2]] = "new"}

PromiseInv == TypeOK /\ SyncInv /\ AppendInv /\ ChoiceInv

\* A node that asks, the choice of one, its configuration, and the end.
LEMMA RunPromises ==
  ASSUME PromiseInv, MainStep
  PROVE  [Provision!Next]_(Provision!vars)
<1> USE DEF Stage, Running
<1>1. CASE ChooseNode
  <2>1. /\ main = "status" /\ nodeId = NoNode /\ snapshot = FALSE
        /\ UNCHANGED <<snapshot, known, recorded, have>>
    BY <1>1 DEF ChooseNode, PromiseInv, ChoiceInv, SyncInv, ChosenInv, TypeOK, Endings,
                callback, stream
  <2>2. Stage = "open"
    BY <2>1 DEF Ended, Endings
  <2>3. CASE main' = "panic" /\ nodeId' = nodeId
    <3>1. Provision!Fail
      BY <2>1, <2>2, <2>3 DEF Provision!Fail, Provision!Going, Ended, Endings
    <3> QED
      BY <3>1 DEF Provision!Next
  <2>4. CASE nodeId' \in known /\ main' = "set"
    <3>1. PICK n \in Nodes : n \in known /\ nodeId' = n
      BY <2>4 DEF PromiseInv, TypeOK
    <3>2. Stage' = "open"
      BY <2>1, <2>4 DEF Ended, Endings
    <3>3. Provision!Choose(n)
      BY <2>1, <2>2, <3>1, <3>2 DEF Provision!Choose
    <3> QED
      BY <3>1, <3>3 DEF Provision!Next
  <2> QED
    BY <1>1, <2>3, <2>4 DEF ChooseNode
<1>2. CASE SetSnapshot
  <2>1. /\ main = "set" /\ nodeId # NoNode /\ snapshot = FALSE
        /\ UNCHANGED <<nodeId, known, recorded, have>>
    BY <1>2 DEF SetSnapshot, PromiseInv, ChoiceInv, SyncInv, ChosenInv, TypeOK, Endings, callback
  <2>2. Stage = "open"
    BY <2>1 DEF Ended, Endings
  <2>3. CASE snapshot' = TRUE /\ main' = "sync"
    <3>1. Stage' = "configured"
      BY <2>3 DEF Ended, Endings
    <3>2. Provision!Configure
      BY <2>1, <2>2, <3>1 DEF Provision!Configure
    <3> QED
      BY <3>2 DEF Provision!Next
  <2>4. CASE main' = "error"
    <3>1. Provision!Fail
      BY <2>1, <2>2, <2>4 DEF Provision!Fail, Provision!Going, Ended, Endings
    <3> QED
      BY <3>1 DEF Provision!Next
  <2> QED
    BY <1>2, <2>3, <2>4 DEF SetSnapshot
<1>3. CASE Sync
  <2>1. /\ main = "sync" /\ snapshot = TRUE
        /\ UNCHANGED <<nodeId, known, recorded, have>>
    BY <1>3 DEF Sync, PromiseInv, ChoiceInv, TypeOK, callback, stream
  <2>2. Stage = "configured"
    BY <2>1 DEF Ended, Endings
  <2>3. CASE recorded = Types /\ main' = "done"
    <3>1. Provision!Succeed
      BY <2>1, <2>2, <2>3 DEF Provision!Succeed
    <3> QED
      BY <3>1 DEF Provision!Next
  <2>4. CASE main' = "panic"
    <3>1. Provision!Fail
      BY <2>1, <2>2, <2>4 DEF Provision!Fail, Provision!Going, Ended, Endings
    <3> QED
      BY <3>1 DEF Provision!Next
  <2> QED
    BY <1>3, <2>3, <2>4 DEF Sync, AllResponsesSent
<1>4. CASE FetchBackends \/ FetchCertificates \/ WriteCertificates \/ Start \/ Connected
  <2>1. /\ ~Ended /\ main' # "done"
        /\ Ended' => main' = "error"
        /\ UNCHANGED <<nodeId, snapshot, known, recorded, have>>
    BY <1>4 DEF FetchBackends, FetchCertificates, WriteCertificates, Errand, Start, Connected,
                Ended, Endings, callback, stream
  <2>2. CASE Ended'
    <3>1. Provision!Fail
      BY <2>1, <2>2 DEF Provision!Fail, Provision!Going, Ended, Endings
    <3> QED
      BY <3>1 DEF Provision!Next
  <2>3. CASE ~Ended'
    BY <2>1, <2>3 DEF Provision!vars, Ended, Endings
  <2> QED
    BY <2>2, <2>3
<1> QED
  BY <1>1, <1>2, <1>3, <1>4 DEF MainStep

LEMMA OthersPromise ==
  ASSUME PromiseInv, ManagerStep \/ Serve \/ WatcherStep \/ Interrupt
  PROVE  [Provision!Next]_(Provision!vars)
<1>1. /\ ~Ended /\ main' # "done"
      /\ UNCHANGED <<nodeId, snapshot, known, recorded, have>>
  BY DEF ManagerStep, Listen, GracefulStop, Serve, WatcherStep, FirstSignal, SecondSignal, Interrupt,
         Ended, Endings, run, callback, stream
<1>2. Stage \in {"open", "configured"} /\ Running' = Running
  BY <1>1 DEF Stage, Running, Ended, Endings
<1>3. CASE Ended'
  <2>1. Stage' = "failed"
    BY <1>1, <1>3 DEF Stage
  <2>2. Provision!Fail
    BY <1>1, <1>2, <2>1 DEF Provision!Fail, Provision!Going, Stage, Running
  <2> QED
    BY <2>2 DEF Provision!Next
<1>4. CASE ~Ended'
  <2>1. Stage' = Stage
    BY <1>1, <1>4 DEF Stage, Ended, Endings
  <2> QED
    BY <1>1, <1>2, <2>1 DEF Provision!vars, Stage, Running
<1> QED
  BY <1>3, <1>4

\* On a stream: a node asks, a type is handed out, an Envoy runs it.
LEMMA StreamPromises ==
  ASSUME PromiseInv, NEW s \in Streams,
         StreamStep(s)
  PROVE  [Provision!Next]_(Provision!vars)
<1> USE DEF Stage, Running
<1>0. ~Ended /\ UNCHANGED <<main, nodeId, snapshot>>
  BY DEF StreamStep, AskAny, Work, Take, OnStreamRequest, CreateWatch, OnStreamResponse, AppendResponse, Send,
         ContextDone, Open, Ask, Accept, Reject, Break, Selecting, run
<1>1. Stage' = Stage /\ Stage = IF snapshot THEN "configured" ELSE "open"
  BY <1>0 DEF Ended, Endings
<1>2. ASSUME NEW t \in Types, CreateWatch(s, t) PROVE Provision!Next
  <2>1. UNCHANGED <<recorded, have>> /\ known' = known \cup {NodeOf[s]}
    BY <1>2 DEF CreateWatch, callback
  <2>2. Provision!Ask(NodeOf[s])
    BY <1>0, <1>1, <2>1 DEF Provision!Ask, Provision!Going
  <2>3. NodeOf[s] \in Nodes
    BY ConstantsAssumption DEF ConstantsAssumption
  <2> QED
    BY <2>2, <2>3 DEF Provision!Next
<1>3. ASSUME NEW t \in Types, AppendResponse(s, t) PROVE Provision!Next
  <2>1. UNCHANGED <<known, have>> /\ recorded' = recorded \cup {t} /\ snapshot
    BY <1>3 DEF AppendResponse, Appended, PromiseInv, AppendInv, Appending, SyncInv, OnlyChosenServed
  <2>2. Provision!HandOut(t)
    BY <1>0, <1>1, <2>1 DEF Provision!HandOut
  <2> QED
    BY <2>2 DEF Provision!Next
<1>4. ASSUME NEW t \in Types, Accept(s, t) PROVE Provision!Next
  <2>1. /\ UNCHANGED <<known, recorded>>
        /\ snapshot /\ NodeOf[s] = nodeId /\ t \in recorded
    BY <1>4 DEF Accept, PromiseInv, AppendInv, Unrecorded, SyncInv, OnlyChosenServed, callback
  <2>2. Running' = Running \cup {<<s, t>>}
    <3>1. /\ have'[s][t] = "new"
          /\ \A r \in Streams, u \in Types : (r # s \/ u # t) => have'[r][u] = have[r][u]
      BY <1>4 DEF Accept, PromiseInv, TypeOK
    <3> QED
      BY <3>1
  <2>3. Provision!Run(s, t)
    BY <1>0, <1>1, <2>1, <2>2 DEF Provision!Run
  <2> QED
    BY <2>3 DEF Provision!Next
<1>5. ASSUME UNCHANGED <<known, recorded, have>> PROVE UNCHANGED Provision!vars
  BY <1>0, <1>1, <1>5 DEF Provision!vars
<1>6. ASSUME NEW t \in Types,
             \/ OnStreamRequest(s, t) \/ OnStreamResponse(s, t) \/ Send(s, t)
             \/ Ask(s, t) \/ Reject(s, t)
      PROVE  UNCHANGED <<known, recorded, have>>
  BY <1>6 DEF OnStreamRequest, OnStreamResponse, Send, Ask, Reject, callback
<1>7. ASSUME ContextDone(s) \/ Open(s) \/ Break(s) PROVE UNCHANGED <<known, recorded, have>>
  BY <1>7 DEF ContextDone, Open, Break, callback
<1> QED
  BY <1>2, <1>3, <1>4, <1>5, <1>6, <1>7 DEF StreamStep, AskAny, Work, Take

\* The control plane keeps its promise, for any streams, nodes and breaks, as
\* long as no two appends to cb.Responses are in progress at once, when one may
\* undo the other.
THEOREM KeepsPromise == Spec /\ []~overlapped => ImplementsProvisioning
<1>1. Init => Provision!Init
  <2> SUFFICES ASSUME Init PROVE Provision!Init
    OBVIOUS
  <2>1. \A p \in Streams \X Types : have[p[1]][p[2]] = "old"
    BY DEF Init
  <2> QED
    BY <2>1 DEF Init, Provision!Init, Ended, Endings
<1>2. PromiseInv /\ [Next]_vars => [Provision!Next]_(Provision!vars)
  <2> SUFFICES ASSUME PromiseInv, [Next]_vars PROVE [Provision!Next]_(Provision!vars)
    OBVIOUS
  <2>1. CASE UNCHANGED vars
    BY <2>1 DEF vars, run, callback, stream, Provision!vars, Ended
  <2> QED
    BY <2>1, RunPromises, OthersPromise, StreamPromises DEF Next, Terminated
<1>3. Spec /\ []~overlapped => []PromiseInv
  BY SyncTypeCorrect, SyncCorrect, AppendCorrect, ChoiceCorrect, PTL DEF PromiseInv
<1> QED
  BY <1>1, <1>2, <1>3, PTL DEF Spec, ImplementsProvisioning, Provision!Spec

\* So it always does when no two streams carry the same node id.
COROLLARY PromiseToDistinct == ASSUME Distinct PROVE Spec => ImplementsProvisioning
  BY KeepsPromise, OverlapNeedsSharedId, PTL
=============================================================================
