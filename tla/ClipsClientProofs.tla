------------------------- MODULE ClipsClientProofs -------------------------
(* Theorems about the client library, for any callers and any bounds.      *)
EXTENDS ClipsClient, TLAPS

-----------------------------------------------------------------------------
(* Ids and messages.                                                       *)

\* The next id is an id: the counter wraps within its type.
LEMMA NextIdInIds == \A i \in Ids : (i + 1) % IdSpace \in Ids
  BY BoundsAssumption DEF Ids

\* What the server sends has the type of a message.
LEMMA MessageTypes ==
    /\ Blank \in Messages /\ Text \in Messages
    /\ \A n \in Nat : Report(n) \in Messages
    /\ \A rq \in Requests, ok \in BOOLEAN, n \in Nat : Response(rq, ok, n) \in Messages
  BY BoundsAssumption
     DEF Blank, Text, Report, Response, Messages, Requests, Ids, CommandIdNone
-----------------------------------------------------------------------------
(* Type correctness.                                                       *)

\* The steps of a caller keep the types.
LEMMA CallerTypes ==
    ASSUME TypeOK, NEW c \in Callers,
           CallerStep(c) \/ SpuriousWakeup(c) \/ \E w \in BOOLEAN : Call(c, w)
    PROVE  TypeOK'
<1> USE DEF shared, calls, link, world
<1>1. CASE \E w \in BOOLEAN : Call(c, w)
  <2>1. PICK w \in BOOLEAN : Call(c, w)
    BY <1>1
  <2>2. call' \in [Callers -> Nat] /\ watch' \in [Callers -> BOOLEAN] /\ issued' \in Nat
    BY <2>1 DEF Call, TypeOK
  <2>3. pc' \in [Callers -> CallerSteps] /\ outcome' \in [Callers -> Outcomes]
    BY <2>1 DEF Call, TypeOK, Goto, Return, CallerSteps, Outcomes
  <2> QED
    BY <2>1, <2>2, <2>3 DEF Call, TypeOK
<1>2. CASE LoadId(c)
  BY <1>2, NextIdInIds DEF LoadId, TypeOK, Goto, CallerSteps
<1>3. CASE StoreId(c)
  BY <1>3 DEF StoreId, TypeOK, Goto, CallerSteps
<1>4. CASE SendToNull(c)
  BY <1>4 DEF SendToNull, TypeOK
<1>5. CASE SendThrows(c)
  BY <1>5 DEF SendThrows, TypeOK, Goto, Return, CallerSteps, Outcomes
<1>6. CASE Send(c)
  <2>1. [id |-> cmdId[c], call |-> call[c], watch |-> watch[c]] \in Requests
    BY DEF TypeOK, Requests
  <2>2. c2s' \in Seq(Requests)
    BY <1>6, <2>1 DEF Send, TypeOK
  <2> QED
    BY <1>6, <2>2 DEF Send, TypeOK, Goto, CallerSteps
<1>7. CASE Register(c)
  BY <1>7 DEF Register, TypeOK, Goto, CallerSteps, WithoutId
<1>8. CASE AwaitBlocks(c)
  BY <1>8 DEF AwaitBlocks, TypeOK, Goto, CallerSteps
<1>9. CASE AwaitAborted(c)
  BY <1>9 DEF AwaitAborted, TypeOK, Goto, Return, CallerSteps, Outcomes
<1>10. CASE AwaitAnswered(c)
  BY <1>10 DEF AwaitAnswered, TypeOK, Goto, Return, CallerSteps, Outcomes, WithoutId
<1>11. CASE SpuriousWakeup(c)
  BY <1>11 DEF SpuriousWakeup, TypeOK, Goto, CallerSteps
<1> QED
  BY <1>1, <1>2, <1>3, <1>4, <1>5, <1>6, <1>7, <1>8, <1>9, <1>10, <1>11 DEF CallerStep

\* The steps of the owner keep the types.
LEMMA OwnerTypes ==
    ASSUME TypeOK, Connect \/ Disconnect \/ OwnerStep
    PROVE  TypeOK'
<1> USE DEF shared, calls, link, world, OwnerSteps, ServiceSteps
<1>1. CASE Connect
  BY <1>1 DEF Connect, TypeOK
<1>2. CASE Disconnect
  BY <1>2 DEF Disconnect, TypeOK
<1>3. CASE ConnectFails
  BY <1>3 DEF ConnectFails, TypeOK
<1>4. CASE ConnectSucceeds
  BY <1>4 DEF ConnectSucceeds, TypeOK
<1>5. CASE StartService
  BY <1>5 DEF StartService, TypeOK
<1>6. CASE OwnerAborts
  BY <1>6 DEF OwnerAborts, TypeOK, ClearPending
<1>7. CASE OwnerReleases
  BY <1>7 DEF OwnerReleases, TypeOK, ReleaseAll, NotifyAll, CallerSteps
<1>8. CASE OwnerStopsService
  BY <1>8 DEF OwnerStopsService, TypeOK, StopService
<1>9. CASE OwnerJoins
  BY <1>9 DEF OwnerJoins, TypeOK
<1>10. CASE OwnerDropsSocket
  BY <1>10 DEF OwnerDropsSocket, TypeOK
<1>11. CASE KeepThread
  BY <1>11 DEF KeepThread, TypeOK
<1> QED
  BY <1>1, <1>2, <1>3, <1>4, <1>5, <1>6, <1>7, <1>8, <1>9, <1>10, <1>11 DEF OwnerStep

\* The steps of the service thread keep the types.
LEMMA ServiceTypes ==
    ASSUME TypeOK, ServiceStep
    PROVE  TypeOK'
<1> USE DEF shared, calls, link, world, ServiceSteps
<1>1. CASE ServiceExits
  BY <1>1 DEF ServiceExits, TypeOK
<1>2. CASE HandleEvent
  <2>1. Head(s2c) \in Messages /\ Tail(s2c) \in Seq(Messages)
    BY <1>2 DEF HandleEvent, TypeOK, Reading
  <2>2. clipsStatus' \in Nat
    BY <1>2, <2>1 DEF HandleEvent, TypeOK, Messages
  <2> QED
    BY <1>2, <2>1, <2>2 DEF HandleEvent, TypeOK
<1>3. CASE TakeResponse
  <2>1. Head(s2c) \in Messages /\ Tail(s2c) \in Seq(Messages)
    BY <1>3 DEF TakeResponse, TypeOK, Reading
  <2> QED
    BY <1>3, <2>1 DEF TakeResponse, TypeOK
<1>4. CASE StoreResponse
  <2>1. replies' \subseteq Messages
    BY <1>4 DEF StoreResponse, TypeOK, WithoutId
  <2> QED
    BY <1>4, <2>1, MessageTypes DEF StoreResponse, TypeOK
<1>5. CASE NotifyCallers
  BY <1>5 DEF NotifyCallers, TypeOK, NotifyAll, CallerSteps
<1>6. CASE Rearm
  BY <1>6 DEF Rearm, TypeOK
<1>7. CASE ReadFails
  BY <1>7 DEF ReadFails, TypeOK
<1>8. CASE ServiceAborts
  BY <1>8 DEF ServiceAborts, TypeOK, ClearPending
<1>9. CASE ServiceReleases
  BY <1>9 DEF ServiceReleases, TypeOK, ReleaseAll, NotifyAll, CallerSteps
<1>10. CASE ServiceStopsService
  BY <1>10 DEF ServiceStopsService, TypeOK, StopService
<1>11. CASE ServiceJoinsItself
  BY <1>11 DEF ServiceJoinsItself, TypeOK
<1>12. CASE LoseStep
  BY <1>12 DEF LoseStep, TypeOK
<1>13. CASE ServiceFindsNoThread
  BY <1>13 DEF ServiceFindsNoThread, TypeOK
<1>14. CASE ServiceDropsSocket
  BY <1>14 DEF ServiceDropsSocket, TypeOK
<1> QED
  BY <1>1, <1>2, <1>3, <1>4, <1>5, <1>6, <1>7, <1>8, <1>9, <1>10, <1>11, <1>12, <1>13,
     <1>14 DEF ServiceStep

\* The counters of the server's messages stay numbers.
LEMMA CountTypes ==
    ASSUME TypeOK, NEW kind \in Unasked, NEW asked \in BOOLEAN, Counts(kind, asked)
    PROVE  published' \in Nat /\ unasked' \in Nat
  BY DEF TypeOK, Counts

\* What the server sends on its own is none or one of three messages.
LEMMA SaidTypes ==
    ASSUME NEW kind \in Unasked, published' \in Nat
    PROVE  /\ Says(kind) \in Seq(Messages)
           /\ Says(kind) \in {<<>>, <<Text>>, <<Report(published')>>}
  BY MessageTypes DEF Says, Unasked

\* A prefix of a sequence of messages is one.
LEMMA PrefixIsSeq ==
    ASSUME NEW q \in Seq(Messages), NEW n \in 0 .. Len(q)
    PROVE  /\ SubSeq(q, 1, n) \in Seq(Messages)
           /\ Len(SubSeq(q, 1, n)) = n
           /\ \A i \in 1 .. n : SubSeq(q, 1, n)[i] = q[i]
  OBVIOUS

\* The steps of the server keep the types.
LEMMA ServerTypes ==
    ASSUME TypeOK, ServerAnswers \/ ServerStep
    PROVE  TypeOK'
<1> USE DEF shared, calls, link, world
<1>1. CASE ServerAnswers
  <2>1. Head(c2s) \in Requests /\ Tail(c2s) \in Seq(Requests)
    BY <1>1 DEF ServerAnswers, TypeOK
  <2>2. PICK ok \in BOOLEAN, first \in Unasked :
            /\ Counts(first, Head(c2s).watch)
            /\ s2c' = s2c \o Says(first) \o
                      <<Response(Head(c2s), ok, IF Head(c2s).watch THEN published' ELSE 0)>>
            /\ executed' = IF ok THEN executed \cup {Head(c2s).call} ELSE executed
    BY <1>1 DEF ServerAnswers
  <2>3. published' \in Nat /\ unasked' \in Nat
    BY <2>1, <2>2, CountTypes DEF Requests
  <2>4. executed' \subseteq Nat
    BY <2>1, <2>2 DEF TypeOK, Requests
  <2>5. Response(Head(c2s), ok, IF Head(c2s).watch THEN published' ELSE 0) \in Messages
    BY <2>1, <2>3, MessageTypes
  <2>6. s2c' \in Seq(Messages)
    BY <2>2, <2>3, <2>5, SaidTypes DEF TypeOK
  <2> QED
    BY <1>1, <2>1, <2>3, <2>4, <2>6 DEF ServerAnswers, TypeOK
<1>2. CASE ServerSpeaks
  <2>1. PICK kind \in Unasked : Counts(kind, FALSE) /\ s2c' = s2c \o Says(kind)
    BY <1>2 DEF ServerSpeaks
  <2>2. published' \in Nat /\ unasked' \in Nat
    BY <2>1, CountTypes
  <2>3. s2c' \in Seq(Messages)
    BY <2>1, <2>2, SaidTypes DEF TypeOK
  <2> QED
    BY <1>2, <2>2, <2>3 DEF ServerSpeaks, TypeOK
<1>3. CASE ServerCloses
  <2>1. PICK kind \in Unasked :
            /\ Counts(kind, FALSE)
            /\ \E n \in 0 .. Len(s2c \o Says(kind)) : s2c' = SubSeq(s2c \o Says(kind), 1, n)
    BY <1>3 DEF ServerCloses
  <2>2. published' \in Nat /\ unasked' \in Nat
    BY <2>1, CountTypes
  <2>3. s2c \o Says(kind) \in Seq(Messages)
    BY <2>1, <2>2, SaidTypes DEF TypeOK
  <2>4. s2c' \in Seq(Messages)
    BY <2>1, <2>3, PrefixIsSeq
  <2> QED
    BY <1>3, <2>2, <2>4 DEF ServerCloses, TypeOK
<1> QED
  BY <1>1, <1>2, <1>3 DEF ServerStep

\* Every variable keeps its type: an id fits its 32 bits, what is stored and
\* returned is a message, every thread is at a step of its code.
THEOREM TypeCorrect == Spec => []TypeOK
<1>1. Init => TypeOK
  <2> SUFFICES ASSUME Init PROVE TypeOK
    OBVIOUS
  <2>1. 0 \in Ids
    BY BoundsAssumption DEF Ids
  <2>2. pc \in [Callers -> CallerSteps] /\ outcome \in [Callers -> Outcomes]
    BY DEF Init, CallerSteps, Outcomes
  <2>3. own \in OwnerSteps /\ svc \in ServiceSteps
    BY DEF Init, OwnerSteps, ServiceSteps
  <2>4. c2s \in Seq(Requests) /\ s2c \in Seq(Messages)
    BY DEF Init
  <2> QED
    BY <2>1, <2>2, <2>3, <2>4, MessageTypes DEF Init, TypeOK
<1>2. TypeOK /\ [Next]_vars => TypeOK'
  <2> SUFFICES ASSUME TypeOK, [Next]_vars PROVE TypeOK'
    OBVIOUS
  <2>1. CASE UNCHANGED vars
    BY <2>1 DEF TypeOK, vars, shared, calls, link, world
  <2>2. CASE Next
    BY <2>2, CallerTypes, OwnerTypes, ServiceTypes, ServerTypes DEF Next
  <2> QED
    BY <2>1, <2>2
<1> QED
  BY <1>1, <1>2, PTL DEF Spec

-----------------------------------------------------------------------------
(* The socket outlives its reader.  The strengthening says where connect() *)
(* is when it replaces the socket and the thread, which is what            *)
(* ReaderHasSocket rests on.                                               *)

Quiet == svc \in {"none", "exited"}

ReaderInv ==
    /\ own = "connecting" => socketPtr = "new"
    /\ own = "start" => socketPtr = "connected" /\ Quiet
    /\ ReaderHasSocket

\* The steps of the owner keep ReaderInv.
LEMMA OwnerKeepsReader ==
    ASSUME TypeOK, ReaderInv, Connect \/ Disconnect \/ OwnerStep
    PROVE  ReaderInv'
<1> USE DEF shared, calls, link, world, ReaderInv, ReaderHasSocket, Quiet
<1>1. CASE Connect
  BY <1>1 DEF Connect
<1>2. CASE Disconnect
  BY <1>2 DEF Disconnect
<1>3. CASE ConnectFails
  BY <1>3 DEF ConnectFails
<1>4. CASE ConnectSucceeds
  BY <1>4 DEF ConnectSucceeds
<1>5. CASE StartService
  BY <1>5 DEF StartService
<1>6. CASE OwnerAborts
  BY <1>6 DEF OwnerAborts, ClearPending
<1>7. CASE OwnerReleases
  BY <1>7 DEF OwnerReleases, ReleaseAll
<1>8. CASE OwnerStopsService
  BY <1>8 DEF OwnerStopsService, StopService
<1>9. CASE OwnerJoins
  BY <1>9 DEF OwnerJoins
<1>10. CASE OwnerDropsSocket
  BY <1>10 DEF OwnerDropsSocket
<1>11. CASE KeepThread
  BY <1>11 DEF KeepThread
<1> QED
  BY <1>1, <1>2, <1>3, <1>4, <1>5, <1>6, <1>7, <1>8, <1>9, <1>10, <1>11 DEF OwnerStep
\* The service thread keeps ReaderInv: it only moves when it is not quiet.
LEMMA ServiceKeepsReader ==
    ASSUME TypeOK, ReaderInv, ServiceStep
    PROVE  ReaderInv'
<1> USE DEF shared, calls, link, world, ReaderInv, ReaderHasSocket, Quiet
<1>1. CASE ServiceExits
  BY <1>1 DEF ServiceExits
<1>2. CASE HandleEvent
  BY <1>2 DEF HandleEvent, Reading
<1>3. CASE TakeResponse
  BY <1>3 DEF TakeResponse, Reading
<1>4. CASE StoreResponse
  BY <1>4 DEF StoreResponse
<1>5. CASE NotifyCallers
  BY <1>5 DEF NotifyCallers
<1>6. CASE Rearm
  BY <1>6 DEF Rearm
<1>7. CASE ReadFails
  BY <1>7 DEF ReadFails
<1>8. CASE ServiceAborts
  BY <1>8 DEF ServiceAborts, ClearPending
<1>9. CASE ServiceReleases
  BY <1>9 DEF ServiceReleases, ReleaseAll
<1>10. CASE ServiceStopsService
  BY <1>10 DEF ServiceStopsService, StopService
<1>11. CASE ServiceJoinsItself
  BY <1>11 DEF ServiceJoinsItself
<1>12. CASE LoseStep
  BY <1>12 DEF LoseStep
<1>13. CASE ServiceFindsNoThread
  BY <1>13 DEF ServiceFindsNoThread
<1>14. CASE ServiceDropsSocket
  BY <1>14 DEF ServiceDropsSocket
<1> QED
  BY <1>1, <1>2, <1>3, <1>4, <1>5, <1>6, <1>7, <1>8, <1>9, <1>10, <1>11, <1>12, <1>13,
     <1>14 DEF ServiceStep
\* ReaderInv is an invariant: callers and the server leave the socket, the
\* owner and the service thread alone.
LEMMA ReaderInvariant == Spec => []ReaderInv
<1>1. Init => ReaderInv
  BY DEF Init, ReaderInv, ReaderHasSocket, Quiet
<1>2. TypeOK /\ ReaderInv /\ [Next]_vars => ReaderInv'
  <2> SUFFICES ASSUME TypeOK, ReaderInv, [Next]_vars PROVE ReaderInv'
    OBVIOUS
  <2> USE DEF shared, calls, link, world
  <2>1. CASE UNCHANGED vars
    BY <2>1 DEF ReaderInv, ReaderHasSocket, Quiet, vars
  <2>2. CASE \E c \in Callers :
                CallerStep(c) \/ SpuriousWakeup(c) \/ \E w \in BOOLEAN : Call(c, w)
    <3>1. UNCHANGED <<socketPtr, own, svc>>
      BY <2>2 DEF CallerStep, Call, LoadId, StoreId, SendToNull, SendThrows, Send, Register,
                  AwaitBlocks, AwaitAborted, AwaitAnswered, SpuriousWakeup
    <3> QED
      BY <3>1 DEF ReaderInv, ReaderHasSocket, Quiet
  <2>3. CASE ServerAnswers \/ ServerStep
    <3>1. UNCHANGED <<socketPtr, own, svc>>
      BY <2>3 DEF ServerAnswers, ServerStep, ServerSpeaks, ServerCloses
    <3> QED
      BY <3>1 DEF ReaderInv, ReaderHasSocket, Quiet
  <2> QED
    BY <2>1, <2>2, <2>3, OwnerKeepsReader, ServiceKeepsReader DEF Next
<1> QED
  BY <1>1, <1>2, TypeCorrect, PTL DEF Spec

\* The socket is never null, new or failed, and the disconnected handlers never
\* run, while the service thread may still run a handler of its own.
THEOREM ReaderSafe == Spec => []ReaderHasSocket
<1>1. ReaderInv => ReaderHasSocket
  BY DEF ReaderInv
<1> QED
  BY <1>1, ReaderInvariant, PTL

-----------------------------------------------------------------------------
(* No wakeup is lost.  NoLostWakeup is inductive by itself: the entry of a *)
(* sleeping caller changes only in a step after which the thread that      *)
(* changed it is about to notify, or in a step of another caller that      *)
(* makes or finds the entry as it was.                                     *)

\* The steps of a caller keep NoLostWakeup.
LEMMA CallerWakeups ==
    ASSUME TypeOK, NoLostWakeup, NEW c \in Callers,
           CallerStep(c) \/ SpuriousWakeup(c) \/ \E w \in BOOLEAN : Call(c, w)
    PROVE  NoLostWakeup'
<1> USE DEF shared, calls, link, world, NoLostWakeup, HasResponseArrived
<1>1. CASE \E w \in BOOLEAN : Call(c, w)
  BY <1>1 DEF Call, TypeOK, Goto, Return
<1>2. CASE LoadId(c)
  BY <1>2 DEF LoadId, TypeOK, Goto
<1>3. CASE StoreId(c)
  BY <1>3 DEF StoreId, TypeOK, Goto
<1>4. CASE SendToNull(c)
  BY <1>4 DEF SendToNull, TypeOK
<1>5. CASE SendThrows(c)
  BY <1>5 DEF SendThrows, TypeOK, Goto, Return
<1>6. CASE Send(c)
  BY <1>6 DEF Send, TypeOK, Goto
<1>7. CASE Register(c)
  BY <1>7 DEF Register, TypeOK, Goto, WithoutId
<1>8. CASE AwaitBlocks(c)
  BY <1>8 DEF AwaitBlocks, TypeOK, Goto
<1>9. CASE AwaitAborted(c)
  BY <1>9 DEF AwaitAborted, TypeOK, Goto, Return
<1>10. CASE AwaitAnswered(c)
  BY <1>10 DEF AwaitAnswered, TypeOK, Goto, Return, WithoutId
<1>11. CASE SpuriousWakeup(c)
  BY <1>11 DEF SpuriousWakeup, TypeOK, Goto
<1> QED
  BY <1>1, <1>2, <1>3, <1>4, <1>5, <1>6, <1>7, <1>8, <1>9, <1>10, <1>11 DEF CallerStep

\* The steps of the owner keep NoLostWakeup.
LEMMA OwnerWakeups ==
    ASSUME TypeOK, ReaderInv, NoLostWakeup, Connect \/ Disconnect \/ OwnerStep
    PROVE  NoLostWakeup'
<1> USE DEF shared, calls, link, world, NoLostWakeup, HasResponseArrived
<1>1. CASE Connect
  BY <1>1 DEF Connect
<1>2. CASE Disconnect
  BY <1>2 DEF Disconnect
<1>3. CASE ConnectFails
  BY <1>3 DEF ConnectFails
<1>4. CASE ConnectSucceeds
  BY <1>4 DEF ConnectSucceeds
<1>5. CASE StartService
  \* the thread that is replaced is done: it was not about to notify
  BY <1>5 DEF StartService, ReaderInv, Quiet
<1>6. CASE OwnerAborts
  BY <1>6 DEF OwnerAborts, ClearPending
<1>7. CASE OwnerReleases
  BY <1>7 DEF OwnerReleases, ReleaseAll, NotifyAll, TypeOK
<1>8. CASE OwnerStopsService
  BY <1>8 DEF OwnerStopsService, StopService
<1>9. CASE OwnerJoins
  BY <1>9 DEF OwnerJoins
<1>10. CASE OwnerDropsSocket
  BY <1>10 DEF OwnerDropsSocket
<1>11. CASE KeepThread
  BY <1>11 DEF KeepThread
<1> QED
  BY <1>1, <1>2, <1>3, <1>4, <1>5, <1>6, <1>7, <1>8, <1>9, <1>10, <1>11 DEF OwnerStep

\* The steps of the service thread keep NoLostWakeup.
LEMMA ServiceWakeups ==
    ASSUME TypeOK, NoLostWakeup, ServiceStep
    PROVE  NoLostWakeup'
<1> USE DEF shared, calls, link, world, NoLostWakeup, HasResponseArrived
<1>1. CASE ServiceExits
  BY <1>1 DEF ServiceExits
<1>2. CASE HandleEvent
  BY <1>2 DEF HandleEvent, Reading
<1>3. CASE TakeResponse
  BY <1>3 DEF TakeResponse, Reading
<1>4. CASE StoreResponse
  BY <1>4 DEF StoreResponse, WithoutId, TypeOK
<1>5. CASE NotifyCallers
  BY <1>5 DEF NotifyCallers, NotifyAll, TypeOK
<1>6. CASE Rearm
  BY <1>6 DEF Rearm
<1>7. CASE ReadFails
  BY <1>7 DEF ReadFails
<1>8. CASE ServiceAborts
  BY <1>8 DEF ServiceAborts, ClearPending
<1>9. CASE ServiceReleases
  BY <1>9 DEF ServiceReleases, ReleaseAll, NotifyAll, TypeOK
<1>10. CASE ServiceStopsService
  BY <1>10 DEF ServiceStopsService, StopService
<1>11. CASE ServiceJoinsItself
  BY <1>11 DEF ServiceJoinsItself
<1>12. CASE LoseStep
  BY <1>12 DEF LoseStep
<1>13. CASE ServiceFindsNoThread
  BY <1>13 DEF ServiceFindsNoThread
<1>14. CASE ServiceDropsSocket
  BY <1>14 DEF ServiceDropsSocket
<1> QED
  BY <1>1, <1>2, <1>3, <1>4, <1>5, <1>6, <1>7, <1>8, <1>9, <1>10, <1>11, <1>12, <1>13,
     <1>14 DEF ServiceStep

\* The correctness of the condition variable: a caller sleeps although its
\* response is there, or its call was aborted, only while the notify_all that
\* wakes it is still to come.
THEOREM WakeupsKept == Spec => []NoLostWakeup
<1>1. Init => NoLostWakeup
  BY DEF Init, NoLostWakeup
<1>2. TypeOK /\ ReaderInv /\ NoLostWakeup /\ [Next]_vars => NoLostWakeup'
  <2> SUFFICES ASSUME TypeOK, ReaderInv, NoLostWakeup, [Next]_vars PROVE NoLostWakeup'
    OBVIOUS
  <2>1. CASE UNCHANGED vars
    BY <2>1 DEF NoLostWakeup, HasResponseArrived, vars, shared, calls
  <2>2. CASE ServerAnswers \/ ServerStep
    <3>1. UNCHANGED <<pc, cmdId, pendingCommands, replies, own, svc>>
      BY <2>2 DEF ServerAnswers, ServerStep, ServerSpeaks, ServerCloses,
                  shared, calls
    <3> QED
      BY <3>1 DEF NoLostWakeup, HasResponseArrived
  <2> QED
    BY <2>1, <2>2, CallerWakeups, OwnerWakeups, ServiceWakeups DEF Next
<1> QED
  BY <1>1, <1>2, TypeCorrect, ReaderInvariant, PTL DEF Spec

-----------------------------------------------------------------------------
(* Success is the server's.  A successful response names a call that was   *)
(* executed wherever it is: in the stream, in the hands of the service     *)
(* thread, in the map; and a call in progress has no outcome yet.          *)

Truthful(m, done) == m.kind # "text" /\ m.id # CommandIdNone /\ m.ok => m.call \in done

\* What the client has taken from the stream and not yet returned.
Inside ==
    /\ svc = "store" => (held.ok => held.call \in executed)
    /\ \A r \in replies : r.ok => r.call \in executed

SuccessInv ==
    /\ \A i \in 1 .. Len(s2c) : Truthful(s2c[i], executed)
    /\ Inside
    /\ \A c \in Callers : pc[c] # "idle" => outcome[c] = "none"
    /\ SuccessIsExecuted

\* The steps of a caller keep SuccessInv.
LEMMA CallerKeepsSuccess ==
    ASSUME TypeOK, SuccessInv, NEW c \in Callers,
           CallerStep(c) \/ SpuriousWakeup(c) \/ \E w \in BOOLEAN : Call(c, w)
    PROVE  SuccessInv'
<1> USE DEF shared, calls, link, world, SuccessInv, SuccessIsExecuted, Inside, TypeOK
<1>1. CASE \E w \in BOOLEAN : Call(c, w)
  <2>1. UNCHANGED <<s2c, svc, held, replies, executed, cmdId, got>>
    BY <1>1 DEF Call
  <2>2. /\ pc' = [pc EXCEPT ![c] = "idle"] \/ pc' = [pc EXCEPT ![c] = "number"]
        /\ \/ outcome' = [outcome EXCEPT ![c] = "unsent"]
           \/ outcome' = [outcome EXCEPT ![c] = "none"]
        /\ pc' = [pc EXCEPT ![c] = "number"] => outcome' = [outcome EXCEPT ![c] = "none"]
    BY <1>1 DEF Call, Goto, Return
  <2> QED
    BY <2>1, <2>2
<1>2. CASE LoadId(c)
  BY <1>2 DEF LoadId, Goto
<1>3. CASE StoreId(c)
  BY <1>3 DEF StoreId, Goto
<1>4. CASE SendToNull(c)
  BY <1>4 DEF SendToNull
<1>5. CASE SendThrows(c)
  BY <1>5 DEF SendThrows, Goto, Return
<1>6. CASE Send(c)
  BY <1>6 DEF Send, Goto
<1>7. CASE Register(c)
  BY <1>7 DEF Register, Goto, WithoutId
<1>8. CASE AwaitBlocks(c)
  BY <1>8 DEF AwaitBlocks, Goto
<1>9. CASE AwaitAborted(c)
  BY <1>9 DEF AwaitAborted, Goto, Return
<1>10. CASE AwaitAnswered(c)
  <2>1. PICK r \in replies : /\ r.id = cmdId[c]
                             /\ got' = [got EXCEPT ![c] = r]
                             /\ Return(c, IF r.ok THEN "ok" ELSE "failed")
    BY <1>10 DEF AwaitAnswered
  <2>2. SuccessIsExecuted'
    BY <1>10, <2>1 DEF AwaitAnswered, Return, Goto
  <2>3. Inside'
    BY <1>10 DEF AwaitAnswered, WithoutId
  <2>4. \A d \in Callers : pc'[d] # "idle" => outcome'[d] = "none"
    BY <2>1 DEF Return, Goto
  <2> QED
    BY <1>10, <2>2, <2>3, <2>4 DEF AwaitAnswered
<1>11. CASE SpuriousWakeup(c)
  BY <1>11 DEF SpuriousWakeup, Goto
<1> QED
  BY <1>1, <1>2, <1>3, <1>4, <1>5, <1>6, <1>7, <1>8, <1>9, <1>10, <1>11 DEF CallerStep

\* The steps of the owner keep SuccessInv.
LEMMA OwnerKeepsSuccess ==
    ASSUME TypeOK, ReaderInv, SuccessInv, Connect \/ Disconnect \/ OwnerStep
    PROVE  SuccessInv'
<1> USE DEF shared, calls, link, world, SuccessInv, SuccessIsExecuted, Inside, TypeOK
<1>1. CASE Connect
  BY <1>1 DEF Connect
<1>2. CASE Disconnect
  BY <1>2 DEF Disconnect
<1>3. CASE ConnectFails
  BY <1>3 DEF ConnectFails
<1>4. CASE ConnectSucceeds
  BY <1>4 DEF ConnectSucceeds
<1>5. CASE StartService
  BY <1>5 DEF StartService
<1>6. CASE OwnerAborts
  BY <1>6 DEF OwnerAborts, ClearPending
<1>7. CASE OwnerReleases
  BY <1>7 DEF OwnerReleases, ReleaseAll, NotifyAll
<1>8. CASE OwnerStopsService
  BY <1>8 DEF OwnerStopsService, StopService
<1>9. CASE OwnerJoins
  BY <1>9 DEF OwnerJoins
<1>10. CASE OwnerDropsSocket
  BY <1>10 DEF OwnerDropsSocket
<1>11. CASE KeepThread
  BY <1>11 DEF KeepThread
<1> QED
  BY <1>1, <1>2, <1>3, <1>4, <1>5, <1>6, <1>7, <1>8, <1>9, <1>10, <1>11 DEF OwnerStep

\* The steps of the service thread keep SuccessInv.
LEMMA ServiceKeepsSuccess ==
    ASSUME TypeOK, SuccessInv, ServiceStep
    PROVE  SuccessInv'
<1> USE DEF shared, calls, link, world, SuccessInv, SuccessIsExecuted, Inside, TypeOK
<1>1. CASE ServiceExits
  BY <1>1 DEF ServiceExits
<1>2. CASE HandleEvent
  <2>1. \A i \in 1 .. Len(Tail(s2c)) : Tail(s2c)[i] = s2c[i + 1] /\ i + 1 \in 1 .. Len(s2c)
    BY <1>2 DEF HandleEvent, Reading
  <2> QED
    BY <1>2, <2>1 DEF HandleEvent
<1>3. CASE TakeResponse
  <2>1. \A i \in 1 .. Len(Tail(s2c)) : Tail(s2c)[i] = s2c[i + 1] /\ i + 1 \in 1 .. Len(s2c)
    BY <1>3 DEF TakeResponse, Reading
  <2>2. Truthful(Head(s2c), executed)
    BY <1>3 DEF TakeResponse, Reading
  <2>3. held'.ok => held'.call \in executed
    BY <1>3, <2>2 DEF TakeResponse, Truthful, IsReport
  <2> QED
    BY <1>3, <2>1, <2>3 DEF TakeResponse
<1>4. CASE StoreResponse
  BY <1>4 DEF StoreResponse, WithoutId
<1>5. CASE NotifyCallers
  BY <1>5 DEF NotifyCallers, NotifyAll
<1>6. CASE Rearm
  BY <1>6 DEF Rearm
<1>7. CASE ReadFails
  BY <1>7 DEF ReadFails
<1>8. CASE ServiceAborts
  BY <1>8 DEF ServiceAborts, ClearPending
<1>9. CASE ServiceReleases
  BY <1>9 DEF ServiceReleases, ReleaseAll, NotifyAll
<1>10. CASE ServiceStopsService
  BY <1>10 DEF ServiceStopsService, StopService
<1>11. CASE ServiceJoinsItself
  BY <1>11 DEF ServiceJoinsItself
<1>12. CASE LoseStep
  BY <1>12 DEF LoseStep
<1>13. CASE ServiceFindsNoThread
  BY <1>13 DEF ServiceFindsNoThread
<1>14. CASE ServiceDropsSocket
  BY <1>14 DEF ServiceDropsSocket
<1> QED
  BY <1>1, <1>2, <1>3, <1>4, <1>5, <1>6, <1>7, <1>8, <1>9, <1>10, <1>11, <1>12, <1>13,
     <1>14 DEF ServiceStep

\* What the server sends on its own is not a response.
LEMMA SaidGood ==
    ASSUME NEW kind \in Unasked, published' \in Nat
    PROVE  /\ Says(kind) \in Seq(Messages)
           /\ \A i \in 1 .. Len(Says(kind)) : Truthful(Says(kind)[i], executed')
<1>1. Truthful(Text, executed') /\ Truthful(Report(published'), executed')
  BY DEF Truthful, Text, Blank, Report
<1> QED
  BY <1>1, SaidTypes

\* What is said of every message of two sequences is true of both together.
LEMMA ConcatIn ==
    ASSUME NEW G, NEW s \in Seq(Messages), NEW t \in Seq(Messages),
           \A i \in 1 .. Len(s) : s[i] \in G, \A i \in 1 .. Len(t) : t[i] \in G
    PROVE  s \o t \in Seq(Messages) /\ \A i \in 1 .. Len(s \o t) : (s \o t)[i] \in G
<1>1. s \o t \in Seq(Messages) /\ Len(s \o t) = Len(s) + Len(t)
  OBVIOUS
<1>2. ASSUME NEW i \in 1 .. Len(s \o t) PROVE (s \o t)[i] \in G
  <2>1. CASE i \in 1 .. Len(s)
    BY <2>1
  <2>2. CASE i \notin 1 .. Len(s)
    <3>1. i - Len(s) \in 1 .. Len(t) /\ (s \o t)[i] = t[i - Len(s)]
      BY <1>1, <2>2
    <3> QED
      BY <3>1
  <2> QED
    BY <2>1, <2>2
<1> QED
  BY <1>1, <1>2

\* The steps of the server keep SuccessInv: executed only grows, and a
\* successful response is sent after the execution.
LEMMA ServerKeepsSuccess ==
    ASSUME TypeOK, SuccessInv, ServerAnswers \/ ServerStep
    PROVE  SuccessInv'
<1> USE DEF shared, calls, link, world, SuccessInv, SuccessIsExecuted, Inside, TypeOK
<1> DEFINE Good(m) == Truthful(m, executed')
<1>1. CASE ServerAnswers
  <2>1. Head(c2s) \in Requests
    BY <1>1 DEF ServerAnswers
  <2>2. PICK ok \in BOOLEAN, first \in Unasked :
            /\ Counts(first, Head(c2s).watch)
            /\ s2c' = s2c \o Says(first) \o
                      <<Response(Head(c2s), ok, IF Head(c2s).watch THEN published' ELSE 0)>>
            /\ executed' = IF ok THEN executed \cup {Head(c2s).call} ELSE executed
    BY <1>1 DEF ServerAnswers
  <2> DEFINE rsp == Response(Head(c2s), ok, IF Head(c2s).watch THEN published' ELSE 0)
  <2>3. published' \in Nat
    BY <2>1, <2>2, CountTypes DEF Requests
  <2>4. rsp \in Messages
    BY <2>1, <2>3, MessageTypes
  <2>5. Good(rsp)
    BY <2>2 DEF Truthful, Response
  <2>6. /\ Says(first) \in Seq(Messages)
        /\ \A i \in 1 .. Len(Says(first)) : Good(Says(first)[i])
    BY <2>3, SaidGood
  <2>7. \A i \in 1 .. Len(s2c) : Good(s2c[i])
    BY <2>2 DEF Truthful
  <2>8. s2c' = s2c \o Says(first) \o <<rsp>>
    BY <2>2
  <2> HIDE DEF rsp, Good
  <2> DEFINE said == s2c \o Says(first)
  <2>9. said \in Seq(Messages) /\ \A i \in 1 .. Len(said) : Good(said[i])
    <3> DEFINE G == {m \in Messages : Good(m)}
    <3>1. /\ s2c \in Seq(Messages)
          /\ \A i \in 1 .. Len(s2c) : s2c[i] \in G
      BY <2>7
    <3>2. \A i \in 1 .. Len(Says(first)) : Says(first)[i] \in G
      BY <2>6
    <3> HIDE DEF G
    <3>3. said \in Seq(Messages) /\ \A i \in 1 .. Len(said) : said[i] \in G
      BY <2>6, <3>1, <3>2, ConcatIn
    <3> QED
      BY <3>3 DEF G
  <2>10. s2c' = said \o <<rsp>>
    BY <2>8
  <2> HIDE DEF said
  <2>11. \A i \in 1 .. Len(s2c') : \/ i \in 1 .. Len(said) /\ s2c'[i] = said[i]
                                  \/ s2c'[i] = rsp
    BY <2>4, <2>9, <2>10
  <2>12. \A i \in 1 .. Len(s2c') : Good(s2c'[i])
    BY <2>5, <2>9, <2>11
  <2> QED
    BY <1>1, <2>2, <2>12 DEF ServerAnswers, Good
<1>2. CASE ServerSpeaks
  <2>1. PICK kind \in Unasked : Counts(kind, FALSE) /\ s2c' = s2c \o Says(kind)
    BY <1>2 DEF ServerSpeaks
  <2>2. published' \in Nat
    BY <2>1, CountTypes
  <2>3. /\ Says(kind) \in Seq(Messages)
        /\ \A i \in 1 .. Len(Says(kind)) : Good(Says(kind)[i])
    BY <2>2, SaidGood
  <2>4. \A i \in 1 .. Len(s2c) : Good(s2c[i])
    BY <1>2 DEF ServerSpeaks
  <2> HIDE DEF Good
  <2>5. \A i \in 1 .. Len(s2c') : Good(s2c'[i])
    BY <2>1, <2>3, <2>4
  <2> QED
    BY <1>2, <2>5 DEF ServerSpeaks, Good
<1>3. CASE ServerCloses
  <2>1. PICK kind \in Unasked :
            /\ Counts(kind, FALSE)
            /\ \E n \in 0 .. Len(s2c \o Says(kind)) : s2c' = SubSeq(s2c \o Says(kind), 1, n)
    BY <1>3 DEF ServerCloses
  <2>2. published' \in Nat
    BY <2>1, CountTypes
  <2>3. /\ Says(kind) \in Seq(Messages)
        /\ \A i \in 1 .. Len(Says(kind)) : Good(Says(kind)[i])
    BY <2>2, SaidGood
  <2>4. \A i \in 1 .. Len(s2c) : Good(s2c[i])
    BY <1>3 DEF ServerCloses
  <2> HIDE DEF Good
  <2>5. /\ s2c \o Says(kind) \in Seq(Messages)
        /\ \A i \in 1 .. Len(s2c \o Says(kind)) : Good((s2c \o Says(kind))[i])
    BY <2>3, <2>4
  <2>6. \A i \in 1 .. Len(s2c') : Good(s2c'[i])
    BY <2>1, <2>5, PrefixIsSeq
  <2> QED
    BY <1>3, <2>6 DEF ServerCloses, Good
<1> QED
  BY <1>1, <1>2, <1>3 DEF ServerStep

\* SuccessInv is an invariant, for any number of callers.
LEMMA SuccessInvariant == Spec => []SuccessInv
<1>1. Init => SuccessInv
  BY DEF Init, SuccessInv, SuccessIsExecuted, Inside
<1>2. TypeOK /\ ReaderInv /\ SuccessInv /\ [Next]_vars => SuccessInv'
  <2> SUFFICES ASSUME TypeOK, ReaderInv, SuccessInv, [Next]_vars PROVE SuccessInv'
    OBVIOUS
  <2>1. CASE UNCHANGED vars
    BY <2>1 DEF SuccessInv, SuccessIsExecuted, Inside, vars, shared, calls, link, world
  <2> QED
    BY <2>1, CallerKeepsSuccess, OwnerKeepsSuccess, ServiceKeepsSuccess, ServerKeepsSuccess
       DEF Next
<1> QED
  BY <1>1, <1>2, TypeCorrect, ReaderInvariant, PTL DEF Spec

\* A call that returns true got a response with its own id to a request that
\* the server executed with success.
THEOREM SuccessSafe == Spec => []SuccessIsExecuted
<1>1. SuccessInv => SuccessIsExecuted
  BY DEF SuccessInv
<1> QED
  BY <1>1, SuccessInvariant, PTL

-----------------------------------------------------------------------------
(* The status a "watch" waits for.  A stream carries its reports in the    *)
(* order they were made, all later than the one the client has taken over, *)
(* and the response to a "watch" behind the report made for it; so when    *)
(* the response is taken from the stream that report, or a later one, is   *)
(* in force.  Any number of callers may share the connection.              *)

\* base is the report taken over, made the number of reports the server made.
Reported(q, base, made) ==
    /\ \A i \in 1 .. Len(q) : q[i].kind = "status" =>
          /\ q[i].id = CommandIdNone /\ q[i].ok
          /\ base <= q[i].report /\ q[i].report <= made
    /\ \A i, j \in 1 .. Len(q) :
          i < j /\ q[i].kind = "status" /\ q[j].kind = "status" => q[i].report <= q[j].report
    /\ \A j \in 1 .. Len(q) : q[j].kind = "response" =>
          \/ q[j].report <= base
          \/ \E i \in 1 .. (j - 1) : q[i].kind = "status" /\ q[j].report <= q[i].report

WatchInv ==
    /\ clipsStatus <= published
    /\ Reported(s2c, clipsStatus, published)
    /\ held.report <= clipsStatus
    /\ \A r \in replies : r.report <= clipsStatus
    /\ \A c \in Callers : got[c].report <= clipsStatus

\* A stream may lose its end.
LEMMA PrefixReported ==
    ASSUME NEW q \in Seq(Messages), NEW base \in Nat, NEW made \in Nat,
           Reported(q, base, made), NEW n \in 0 .. Len(q)
    PROVE  Reported(SubSeq(q, 1, n), base, made)
<1> DEFINE p == SubSeq(q, 1, n)
<1>1. Len(p) = n /\ (\A i \in 1 .. n : p[i] = q[i]) /\ Len(q) \in Nat /\ n \in Nat
  BY PrefixIsSeq
<1>2. \A i \in 1 .. n : i \in 1 .. Len(q)
  BY <1>1
<1> HIDE DEF p
<1>3. \A j \in 1 .. n : \A i \in 1 .. (j - 1) : i \in 1 .. n
  BY <1>1
<1>4. ASSUME NEW j \in 1 .. n, p[j].kind = "response"
      PROVE  \/ p[j].report <= base
             \/ \E i \in 1 .. (j - 1) : p[i].kind = "status" /\ p[j].report <= p[i].report
  <2>1. p[j] = q[j] /\ j \in 1 .. Len(q)
    BY <1>1, <1>2
  <2>2. CASE q[j].report <= base
    BY <2>1, <2>2
  <2>3. CASE \E i \in 1 .. (j - 1) : q[i].kind = "status" /\ q[j].report <= q[i].report
    BY <1>1, <1>3, <2>1, <2>3
  <2> QED
    BY <1>4, <2>1, <2>2, <2>3 DEF Reported
<1>5. Reported(p, base, made)
  BY <1>1, <1>2, <1>4 DEF Reported
<1> QED
  BY <1>5 DEF p

\* A message may be sent that is no report and answers no later one than the
\* stream carries.
LEMMA AppendReported ==
    ASSUME NEW q \in Seq(Messages), NEW base \in Nat, NEW made \in Nat,
           Reported(q, base, made), NEW m \in Messages, m.kind # "status",
           m.kind = "response" =>
             \/ m.report <= base
             \/ \E i \in 1 .. Len(q) : q[i].kind = "status" /\ m.report <= q[i].report
    PROVE  Reported(Append(q, m), base, made)
<1> DEFINE p == Append(q, m)
<1>1. /\ Len(p) = Len(q) + 1 /\ Len(q) \in Nat /\ p[Len(q) + 1] = m
      /\ \A i \in 1 .. Len(q) : p[i] = q[i]
  OBVIOUS
<1> HIDE DEF p
<1>2. \A i \in 1 .. Len(p) : i \in 1 .. Len(q) \/ i = Len(q) + 1
  BY <1>1
<1>3. \A i \in 1 .. Len(p) : p[i].kind = "status" => i \in 1 .. Len(q) /\ p[i] = q[i]
  BY <1>1, <1>2
<1>4. ASSUME NEW j \in 1 .. Len(p), p[j].kind = "response"
      PROVE  \/ p[j].report <= base
             \/ \E i \in 1 .. (j - 1) : p[i].kind = "status" /\ p[j].report <= p[i].report
  <2>1. CASE j \in 1 .. Len(q)
    <3>1. \A i \in 1 .. (j - 1) : p[i] = q[i]
      BY <1>1, <2>1
    <3>2. p[j] = q[j]
      BY <1>1, <2>1
    <3> QED
      BY <1>4, <2>1, <3>1, <3>2 DEF Reported
  <2>2. CASE j = Len(q) + 1
    <3>1. 1 .. (j - 1) = 1 .. Len(q) /\ p[j] = m
      BY <1>1, <2>2
    <3> QED
      BY <1>1, <1>4, <3>1
  <2> QED
    BY <1>2, <2>1, <2>2
<1>5. Reported(p, base, made)
  BY <1>3, <1>4 DEF Reported
<1> QED
  BY <1>5 DEF p

\* The server may make a further report.
LEMMA ReportReported ==
    ASSUME NEW q \in Seq(Messages), NEW base \in Nat, NEW made \in Nat,
           Reported(q, base, made), base <= made
    PROVE  /\ Reported(Append(q, Report(made + 1)), base, made + 1)
           /\ LET p == Append(q, Report(made + 1)) IN
                 /\ p \in Seq(Messages) /\ Len(q) + 1 \in 1 .. Len(p)
                 /\ p[Len(q) + 1].kind = "status" /\ p[Len(q) + 1].report = made + 1
<1> DEFINE m == Report(made + 1)
           p == Append(q, m)
<1>1. m \in Messages /\ m.kind = "status" /\ m.id = CommandIdNone /\ m.ok
        /\ m.report = made + 1
  BY MessageTypes DEF Report
<1> HIDE DEF m
<1>2. /\ Len(p) = Len(q) + 1 /\ Len(q) \in Nat /\ p[Len(q) + 1] = m
      /\ \A i \in 1 .. Len(q) : p[i] = q[i]
      /\ p \in Seq(Messages)
  BY <1>1
<1> HIDE DEF p
<1>3. \A i \in 1 .. Len(p) : i \in 1 .. Len(q) \/ i = Len(q) + 1
  BY <1>2
<1>4. \A i \in 1 .. Len(q) : q[i].report \in Nat
  <2>1. \A i \in 1 .. Len(q) : q[i] \in Messages
    OBVIOUS
  <2> QED
    BY <2>1 DEF Messages
<1>5. ASSUME NEW i \in 1 .. Len(p), p[i].kind = "status"
      PROVE  /\ p[i].id = CommandIdNone /\ p[i].ok
             /\ base <= p[i].report /\ p[i].report <= made + 1
  <2>1. CASE i \in 1 .. Len(q)
    <3>1. /\ q[i].id = CommandIdNone /\ q[i].ok
          /\ base <= q[i].report /\ q[i].report <= made
      BY <1>2, <1>5, <2>1 DEF Reported
    <3> QED
      BY <1>2, <1>4, <2>1, <3>1
  <2>2. CASE i = Len(q) + 1
    BY <1>1, <1>2, <2>2
  <2> QED
    BY <1>3, <2>1, <2>2
<1>6. ASSUME NEW i \in 1 .. Len(p), NEW j \in 1 .. Len(p),
             i < j, p[i].kind = "status", p[j].kind = "status"
      PROVE  p[i].report <= p[j].report
  <2>1. i \in 1 .. Len(q) /\ p[i] = q[i]
    BY <1>2, <1>6
  <2>2. CASE j \in 1 .. Len(q)
    BY <1>2, <1>6, <2>1, <2>2 DEF Reported
  <2>3. CASE j = Len(q) + 1
    <3>1. q[i].report <= made /\ q[i].report \in Nat
      BY <1>4, <1>6, <2>1 DEF Reported
    <3> QED
      BY <1>1, <1>2, <2>1, <2>3, <3>1
  <2> QED
    BY <1>3, <2>2, <2>3
<1>7. ASSUME NEW j \in 1 .. Len(p), p[j].kind = "response"
      PROVE  \/ p[j].report <= base
             \/ \E i \in 1 .. (j - 1) : p[i].kind = "status" /\ p[j].report <= p[i].report
  <2>1. j \in 1 .. Len(q) /\ p[j] = q[j]
    BY <1>1, <1>2, <1>3, <1>7
  <2>2. \A i \in 1 .. (j - 1) : p[i] = q[i]
    BY <1>2, <2>1
  <2> QED
    BY <1>7, <2>1, <2>2 DEF Reported
<1>8. Reported(p, base, made + 1)
  BY <1>5, <1>6, <1>7 DEF Reported
<1>9. Len(q) + 1 \in 1 .. Len(p)
  BY <1>2
<1> QED
  BY <1>1, <1>2, <1>8, <1>9 DEF p, m

\* What the server says on its own is carried in order, too, and a report it
\* makes is in the stream.
LEMMA SaysReported ==
    ASSUME TypeOK, WatchInv, NEW kind \in Unasked, NEW asked \in BOOLEAN,
           Counts(kind, asked)
    PROVE  LET said == s2c \o Says(kind) IN
             /\ said \in Seq(Messages)
             /\ Reported(said, clipsStatus, published')
             /\ published' \in Nat /\ published <= published'
             /\ kind = "report" =>
                  \E i \in 1 .. Len(said) : said[i].kind = "status" /\ published' <= said[i].report
<1>1. /\ s2c \in Seq(Messages) /\ clipsStatus \in Nat /\ published \in Nat
      /\ Reported(s2c, clipsStatus, published) /\ clipsStatus <= published
  BY DEF TypeOK, WatchInv
<1> DEFINE said == s2c \o Says(kind)
<1>2. CASE kind = "nothing"
  <2>1. said = s2c /\ published' = published /\ kind # "report"
    BY <1>1, <1>2 DEF Says, Counts
  <2> HIDE DEF said
  <2>2. /\ said \in Seq(Messages) /\ Reported(said, clipsStatus, published')
        /\ published' \in Nat /\ published <= published'
    BY <1>1, <2>1
  <2> QED
    BY <2>1, <2>2 DEF said
<1>3. CASE kind = "text"
  <2>1. said = Append(s2c, Text) /\ published' = published /\ kind # "report"
    BY <1>1, <1>3, MessageTypes DEF Says, Counts
  <2>2. Text \in Messages /\ Text.kind = "text"
    BY MessageTypes DEF Text, Blank
  <2>3. Reported(Append(s2c, Text), clipsStatus, published)
    BY <1>1, <2>2, AppendReported
  <2>4. Append(s2c, Text) \in Seq(Messages)
    BY <1>1, <2>2
  <2> HIDE DEF said
  <2>5. /\ said \in Seq(Messages) /\ Reported(said, clipsStatus, published')
        /\ published' \in Nat /\ published <= published'
    BY <1>1, <2>1, <2>3, <2>4
  <2> QED
    BY <2>1, <2>5 DEF said
<1>4. CASE kind = "report"
  <2> DEFINE m == Report(published + 1)
  <2>1. published' = published + 1 /\ Says(kind) = <<m>> /\ m \in Messages
    BY <1>1, <1>4, MessageTypes DEF Says, Counts
  <2>2. said = Append(s2c, m)
    BY <1>1, <2>1
  <2> HIDE DEF m, said
  <2>3. Reported(Append(s2c, m), clipsStatus, published + 1)
    BY <1>1, ReportReported DEF m
  <2>4. /\ Append(s2c, m) \in Seq(Messages) /\ Len(s2c) + 1 \in 1 .. Len(Append(s2c, m))
        /\ Append(s2c, m)[Len(s2c) + 1].kind = "status"
        /\ Append(s2c, m)[Len(s2c) + 1].report = published + 1
    BY <1>1, ReportReported DEF m
  <2>5. published' \in Nat /\ published <= published' /\ published' <= published + 1
    BY <1>1, <2>1
  <2>6. \E i \in 1 .. Len(said) : said[i].kind = "status" /\ published' <= said[i].report
    BY <2>2, <2>4, <2>5
  <2>7. said \in Seq(Messages) /\ Reported(said, clipsStatus, published')
    BY <2>1, <2>2, <2>3, <2>4
  <2> QED
    BY <2>5, <2>6, <2>7 DEF said
<1> QED
  BY <1>2, <1>3, <1>4 DEF Unasked

\* The steps of the server keep WatchInv.
LEMMA ServerKeepsWatch ==
    ASSUME TypeOK, WatchInv, ServerAnswers \/ ServerStep
    PROVE  WatchInv'
<1> USE DEF shared, calls
<1>1. UNCHANGED <<clipsStatus, held, replies, got>> /\ clipsStatus \in Nat /\ published \in Nat
  BY DEF ServerAnswers, ServerStep, ServerSpeaks, ServerCloses, TypeOK
<1>2. SUFFICES published' \in Nat /\ published <= published'
                 /\ Reported(s2c', clipsStatus, published')
  BY <1>1 DEF WatchInv
<1>3. CASE ServerAnswers
  <2> DEFINE rq == Head(c2s)
  <2>1. rq \in Requests /\ rq.watch \in BOOLEAN
    <3>1. Head(c2s) \in Requests
      BY <1>3 DEF ServerAnswers, TypeOK
    <3> QED
      BY <3>1 DEF Requests
  <2>2. PICK ok \in BOOLEAN, first \in Unasked :
            /\ rq.watch => ok /\ first = "report"
            /\ Counts(first, rq.watch)
            /\ s2c' = s2c \o Says(first) \o
                      <<Response(rq, ok, IF rq.watch THEN published' ELSE 0)>>
    BY <1>3 DEF ServerAnswers
  <2> DEFINE said == s2c \o Says(first)
             rsp == Response(rq, ok, IF rq.watch THEN published' ELSE 0)
  <2> HIDE DEF rq
  <2>3. /\ said \in Seq(Messages) /\ Reported(said, clipsStatus, published')
        /\ published' \in Nat /\ published <= published'
        /\ first = "report" =>
             \E i \in 1 .. Len(said) : said[i].kind = "status" /\ published' <= said[i].report
    BY <2>1, <2>2, SaysReported
  <2>4. rsp \in Messages /\ rsp.kind = "response"
          /\ rsp.report = IF rq.watch THEN published' ELSE 0
    BY <2>1, <2>3, MessageTypes DEF Response
  <2>5. s2c' = said \o <<rsp>>
    BY <2>2
  <2> HIDE DEF said, rsp
  <2>6. s2c' = Append(said, rsp)
    BY <2>3, <2>4, <2>5
  <2>7. \/ rsp.report <= clipsStatus
        \/ \E i \in 1 .. Len(said) : said[i].kind = "status" /\ rsp.report <= said[i].report
    BY <1>1, <2>1, <2>2, <2>3, <2>4
  <2>8. Reported(Append(said, rsp), clipsStatus, published')
    BY <1>1, <2>3, <2>4, <2>7, AppendReported
  <2> QED
    BY <2>3, <2>6, <2>8
<1>4. CASE ServerSpeaks
  <2>1. PICK kind \in Unasked : Counts(kind, FALSE) /\ s2c' = s2c \o Says(kind)
    BY <1>4 DEF ServerSpeaks
  <2> QED
    BY <2>1, SaysReported
<1>5. CASE ServerCloses
  <2>1. PICK kind \in Unasked :
            /\ Counts(kind, FALSE)
            /\ \E n \in 0 .. Len(s2c \o Says(kind)) : s2c' = SubSeq(s2c \o Says(kind), 1, n)
    BY <1>5 DEF ServerCloses
  <2>2. /\ s2c \o Says(kind) \in Seq(Messages)
        /\ Reported(s2c \o Says(kind), clipsStatus, published')
        /\ published' \in Nat /\ published <= published'
    BY <2>1, SaysReported
  <2> QED
    BY <1>1, <2>1, <2>2, PrefixReported
<1> QED
  BY <1>3, <1>4, <1>5 DEF ServerStep

\* Taking the oldest message off a stream: the report at its head becomes the
\* one in force, and a response at its head asks for nothing later.
LEMMA TakeReported ==
    ASSUME NEW q \in Seq(Messages), q # <<>>, NEW base \in Nat, NEW made \in Nat,
           Reported(q, base, made), base <= made
    PROVE  LET base2 == IF Head(q).kind = "status" THEN Head(q).report ELSE base IN
             /\ Reported(Tail(q), base2, made)
             /\ base2 \in Nat /\ base <= base2 /\ base2 <= made
             /\ Head(q).kind = "status" => Head(q).id = CommandIdNone /\ Head(q).ok
             /\ Head(q).kind = "response" => Head(q).report <= base
<1> DEFINE t == Tail(q)
           h == Head(q)
           base2 == IF h.kind = "status" THEN h.report ELSE base
<1>1. /\ Len(q) \in Nat /\ Len(q) >= 1 /\ Len(t) = Len(q) - 1 /\ h = q[1]
      /\ \A i \in 1 .. Len(t) : t[i] = q[i + 1] /\ i + 1 \in 1 .. Len(q)
  OBVIOUS
<1>2. 1 \in 1 .. Len(q)
  BY <1>1
<1>3. \A i \in 1 .. Len(q) : q[i].report \in Nat
  <2>1. \A i \in 1 .. Len(q) : q[i] \in Messages
    OBVIOUS
  <2> QED
    BY <2>1 DEF Messages
<1> HIDE DEF t, h
<1>4. /\ h.kind = "status" => /\ h.id = CommandIdNone /\ h.ok
                              /\ base <= h.report /\ h.report <= made
      /\ h.kind = "response" => h.report <= base
  BY <1>1, <1>2 DEF Reported
<1>5. base2 \in Nat /\ base <= base2 /\ base2 <= made
  BY <1>1, <1>2, <1>3, <1>4
<1>6. ASSUME NEW i \in 1 .. Len(t), t[i].kind = "status"
      PROVE  /\ t[i].id = CommandIdNone /\ t[i].ok
             /\ base2 <= t[i].report /\ t[i].report <= made
  <2>1. t[i] = q[i + 1] /\ i + 1 \in 1 .. Len(q) /\ 1 < i + 1
    BY <1>1
  <2>2. h.kind = "status" => h.report <= t[i].report
    BY <1>1, <1>2, <1>6, <2>1 DEF Reported
  <2> QED
    BY <1>6, <2>1, <2>2 DEF Reported
<1>7. ASSUME NEW i \in 1 .. Len(t), NEW j \in 1 .. Len(t),
             i < j, t[i].kind = "status", t[j].kind = "status"
      PROVE  t[i].report <= t[j].report
  <2>1. i + 1 < j + 1
    BY <1>1, <1>7
  <2> QED
    BY <1>1, <1>7, <2>1 DEF Reported
<1>8. ASSUME NEW j \in 1 .. Len(t), t[j].kind = "response"
      PROVE  \/ t[j].report <= base2
             \/ \E i \in 1 .. (j - 1) : t[i].kind = "status" /\ t[j].report <= t[i].report
  <2>1. t[j] = q[j + 1] /\ j + 1 \in 1 .. Len(q) /\ q[j + 1].report \in Nat
    BY <1>1, <1>3
  <2>2. CASE q[j + 1].report <= base
    BY <1>5, <2>1, <2>2
  <2>3. CASE \E i \in 1 .. ((j + 1) - 1) : q[i].kind = "status" /\ q[j + 1].report <= q[i].report
    <3>1. PICK i \in 1 .. ((j + 1) - 1) : q[i].kind = "status" /\ q[j + 1].report <= q[i].report
      BY <2>3
    <3>2. CASE i = 1
      BY <1>1, <2>1, <3>1, <3>2
    <3>3. CASE i # 1
      <4>1. i - 1 \in 1 .. (j - 1) /\ i - 1 \in 1 .. Len(t) /\ (i - 1) + 1 = i
        BY <1>1, <3>1, <3>3
      <4>2. t[i - 1] = q[i]
        BY <1>1, <4>1
      <4> QED
        BY <2>1, <3>1, <4>1, <4>2
    <3> QED
      BY <3>2, <3>3
  <2> QED
    BY <1>8, <2>1, <2>2, <2>3 DEF Reported
<1>9. Reported(t, base2, made)
  BY <1>6, <1>7, <1>8 DEF Reported
<1> QED
  BY <1>4, <1>5, <1>9 DEF t, h

\* The service thread keeps WatchInv.
LEMMA ServiceKeepsWatch ==
    ASSUME TypeOK, WatchInv, ServiceStep
    PROVE  WatchInv'
<1> USE DEF shared, calls, link, world
<1>1. /\ s2c \in Seq(Messages) /\ clipsStatus \in Nat /\ published \in Nat
      /\ Reported(s2c, clipsStatus, published) /\ clipsStatus <= published
  BY DEF TypeOK, WatchInv
<1> DEFINE h == Head(s2c)
           now == IF h.kind = "status" THEN h.report ELSE clipsStatus
<1>2. ASSUME s2c # <<>>
      PROVE  /\ Reported(Tail(s2c), now, published)
             /\ now \in Nat /\ clipsStatus <= now /\ now <= published
             /\ h.kind = "status" => h.id = CommandIdNone /\ h.ok
             /\ h.kind = "response" => h.report <= clipsStatus
             /\ h \in Messages
  BY <1>1, <1>2, TakeReported
<1>3. /\ held.report \in Nat
      /\ \A r \in replies : r.report \in Nat
      /\ \A c \in Callers : got[c].report \in Nat
  BY DEF TypeOK, Messages
<1>4. CASE HandleEvent
  <2>1. /\ s2c # <<>> /\ s2c' = Tail(s2c)
        /\ clipsStatus' = IF h.kind = "status" /\ h.ok THEN h.report ELSE clipsStatus
        /\ UNCHANGED <<replies, got, held, published>>
    BY <1>4 DEF HandleEvent, Reading
  <2>2. clipsStatus' = now
    BY <1>2, <2>1
  <2> HIDE DEF now, h
  <2> QED
    BY <1>1, <1>2, <1>3, <2>1, <2>2 DEF WatchInv
<1>5. CASE TakeResponse
  <2>1. /\ s2c # <<>> /\ s2c' = Tail(s2c) /\ held' = h
        /\ h.kind # "text" /\ ~IsReport(h)
        /\ UNCHANGED <<replies, got, clipsStatus, published>>
    BY <1>5 DEF TakeResponse, Reading
  <2>2. h.kind = "response"
    BY <1>2, <2>1 DEF Messages, IsReport
  <2>3. now = clipsStatus /\ h.report <= clipsStatus
    BY <1>2, <2>1, <2>2
  <2> QED
    BY <1>1, <1>2, <2>1, <2>3 DEF WatchInv
<1>6. CASE StoreResponse
  <2>1. UNCHANGED <<s2c, got, clipsStatus, published>> /\ held' = Blank
    BY <1>6 DEF StoreResponse
  <2>2. replies' \subseteq replies \cup {held}
    BY <1>6 DEF StoreResponse, WithoutId
  <2>3. held'.report = 0
    BY <2>1 DEF Blank
  <2> QED
    BY <1>1, <2>1, <2>2, <2>3 DEF WatchInv
<1>7. ASSUME UNCHANGED <<s2c, got, clipsStatus, published, held>>, replies' \subseteq replies
      PROVE  WatchInv'
  BY <1>7 DEF WatchInv
<1>8. CASE ServiceAborts
  BY <1>7, <1>8 DEF ServiceAborts, ClearPending
<1>9. CASE ServiceExits \/ NotifyCallers \/ Rearm \/ LoseStep \/ ReadFails \/ ServiceReleases
             \/ ServiceStopsService \/ ServiceJoinsItself \/ ServiceFindsNoThread
  BY <1>7, <1>9 DEF ServiceExits, NotifyCallers, Rearm, LoseStep, ReadFails, ServiceReleases,
                    ReleaseAll, ServiceStopsService, StopService, ServiceJoinsItself,
                    ServiceFindsNoThread
<1>10. CASE ServiceDropsSocket
  <2>1. /\ UNCHANGED <<got, clipsStatus, published, held, replies>>
        /\ s2c' = <<>>
    BY <1>10 DEF ServiceDropsSocket
  <2>2. Reported(<<>>, clipsStatus, published)
    <3>1. \A i \in 1 .. Len(<<>>) : FALSE
      OBVIOUS
    <3> QED
      BY <3>1 DEF Reported
  <2> QED
    BY <2>1, <2>2 DEF WatchInv
<1> QED
  BY <1>4, <1>5, <1>6, <1>8, <1>9, <1>10 DEF ServiceStep

\* The owner and the callers keep WatchInv: they take no message from the
\* stream and only return replies that are there.
LEMMA OthersKeepWatch ==
    ASSUME TypeOK, WatchInv,
           \/ Connect \/ Disconnect \/ OwnerStep
           \/ \E c \in Callers :
                 CallerStep(c) \/ SpuriousWakeup(c) \/ \E w \in BOOLEAN : Call(c, w)
    PROVE  WatchInv'
<1> USE DEF shared, calls, link, world
<1>1. ASSUME UNCHANGED <<got, clipsStatus, published, held>>, replies' \subseteq replies,
             s2c' = s2c \/ s2c' = <<>>
      PROVE  WatchInv'
  <2>1. Reported(<<>>, clipsStatus, published)
    <3>1. \A i \in 1 .. Len(<<>>) : FALSE
      OBVIOUS
    <3> QED
      BY <3>1 DEF Reported
  <2> QED
    BY <1>1, <2>1 DEF WatchInv
<1>2. CASE Connect \/ Disconnect \/ OwnerStep
  BY <1>1, <1>2 DEF OwnerStep, Connect, Disconnect, ConnectFails, ConnectSucceeds, StartService,
                    OwnerAborts, ClearPending, OwnerReleases, ReleaseAll, OwnerStopsService,
                    StopService, OwnerJoins, OwnerDropsSocket, KeepThread
<1>3. ASSUME NEW c \in Callers, AwaitAnswered(c) PROVE WatchInv'
  <2>1. PICK r \in replies : got' = [got EXCEPT ![c] = r]
    BY <1>3 DEF AwaitAnswered
  <2>2. UNCHANGED <<clipsStatus, published, held, s2c>> /\ replies' \subseteq replies
    BY <1>3 DEF AwaitAnswered, WithoutId
  <2>3. \A d \in Callers : got'[d] = got[d] \/ got'[d] = r
    BY <2>1 DEF TypeOK
  <2> QED
    BY <2>2, <2>3 DEF WatchInv
<1>4. ASSUME NEW c \in Callers,
             CallerStep(c) \/ SpuriousWakeup(c) \/ \E w \in BOOLEAN : Call(c, w),
             ~AwaitAnswered(c)
      PROVE  WatchInv'
  BY <1>1, <1>4 DEF CallerStep, Call, LoadId, StoreId, SendToNull, SendThrows, Send, Register,
                    WithoutId, AwaitBlocks, AwaitAborted, SpuriousWakeup
<1> QED
  BY <1>2, <1>3, <1>4 DEF CallerStep

\* WatchInv is an invariant.
LEMMA WatchInvariant == Spec => []WatchInv
<1>1. ASSUME Init PROVE WatchInv
  <2>1. Reported(<<>>, 0, 0)
    <3>1. \A i \in 1 .. Len(<<>>) : FALSE
      OBVIOUS
    <3> QED
      BY <3>1 DEF Reported
  <2>2. Blank.report = 0
    BY DEF Blank
  <2> QED
    BY <1>1, <2>1, <2>2 DEF Init, WatchInv
<1>2. TypeOK /\ WatchInv /\ [Next]_vars => WatchInv'
  <2> SUFFICES ASSUME TypeOK, WatchInv, [Next]_vars PROVE WatchInv'
    OBVIOUS
  <2>1. CASE UNCHANGED vars
    BY <2>1 DEF WatchInv, vars, shared, calls, link, world
  <2> QED
    BY <2>1, OthersKeepWatch, ServiceKeepsWatch, ServerKeepsWatch DEF Next
<1> QED
  BY <1>1, <1>2, TypeCorrect, PTL DEF Spec

\* When a "watch" has returned, the report that the server made for it, or a
\* later one, is what getWatches shows: for any number of callers.
THEOREM WatchSafe == Spec => []WatchSeesItsReport
<1>1. TypeOK /\ WatchInv => WatchSeesItsReport
  BY DEF TypeOK, Messages, WatchInv, WatchSeesItsReport
<1> QED
  BY <1>1, TypeCorrect, WatchInvariant, PTL

-----------------------------------------------------------------------------
(* One caller thread.  What follows is not true of several: two callers    *)
(* may draw the same id (LoadId and StoreId are two steps), and then one   *)
(* takes the entry or the reply of the other.                              *)

OneCaller == \A c, d \in Callers : c = d

\* A caller in awaitResponse whose entry is missing had it cleared under it.
AbortInv ==
    /\ \A c \in Callers :
          pc[c] \in {"await", "waiting"} /\ cmdId[c] \notin pendingCommands => c \in cleared
    /\ AbortedByDisconnect

\* The steps of the caller keep AbortInv.
LEMMA CallerKeepsAbort ==
    ASSUME OneCaller, TypeOK, AbortInv, NEW c \in Callers,
           CallerStep(c) \/ SpuriousWakeup(c) \/ \E w \in BOOLEAN : Call(c, w)
    PROVE  AbortInv'
<1> USE DEF shared, calls, link, world, AbortInv, AbortedByDisconnect, OneCaller, TypeOK
<1>1. CASE \E w \in BOOLEAN : Call(c, w)
  <2>1. UNCHANGED <<pendingCommands, cmdId>> /\ pc'[c] \in {"idle", "number"}
          /\ outcome'[c] \in {"unsent", "none"}
    BY <1>1 DEF Call, Goto, Return
  <2> QED
    BY <2>1
<1>2. CASE LoadId(c)
  BY <1>2 DEF LoadId, Goto
<1>3. CASE StoreId(c)
  BY <1>3 DEF StoreId, Goto
<1>4. CASE SendToNull(c)
  BY <1>4 DEF SendToNull
<1>5. CASE SendThrows(c)
  BY <1>5 DEF SendThrows, Goto, Return
<1>6. CASE Send(c)
  BY <1>6 DEF Send, Goto
<1>7. CASE Register(c)
  BY <1>7 DEF Register, Goto
<1>8. CASE AwaitBlocks(c)
  BY <1>8 DEF AwaitBlocks, Goto
<1>9. CASE AwaitAborted(c)
  BY <1>9 DEF AwaitAborted, Goto, Return
<1>10. CASE AwaitAnswered(c)
  <2>1. pc'[c] = "idle" /\ outcome'[c] \in {"ok", "failed"}
    BY <1>10 DEF AwaitAnswered, Goto, Return
  <2> QED
    BY <2>1
<1>11. CASE SpuriousWakeup(c)
  BY <1>11 DEF SpuriousWakeup, Goto
<1> QED
  BY <1>1, <1>2, <1>3, <1>4, <1>5, <1>6, <1>7, <1>8, <1>9, <1>10, <1>11 DEF CallerStep

\* The other threads take an entry out of the map only by clearing it, which
\* marks every caller that is in a call.
LEMMA OthersKeepAbort ==
    ASSUME TypeOK, AbortInv,
           Connect \/ Disconnect \/ OwnerStep \/ ServiceStep \/ ServerAnswers \/ ServerStep
    PROVE  AbortInv'
<1> USE DEF shared, calls, link, world, AbortInv, AbortedByDisconnect, TypeOK
<1>1. ASSUME UNCHANGED <<pc, cmdId, outcome, pendingCommands, cleared>> PROVE AbortInv'
  BY <1>1
<1>2. CASE OwnerAborts \/ ServiceAborts
  <2>1. /\ UNCHANGED <<pc, cmdId, outcome>>
        /\ cleared' = cleared \cup {c \in Callers : pc[c] # "idle"}
    BY <1>2 DEF OwnerAborts, ServiceAborts, ClearPending
  <2> QED
    BY <2>1
<1>3. CASE OwnerReleases \/ ServiceReleases \/ NotifyCallers
  <2>1. /\ UNCHANGED <<cmdId, outcome, pendingCommands, cleared>>
        /\ pc' = [c \in Callers |-> IF pc[c] = "waiting" THEN "await" ELSE pc[c]]
    BY <1>3 DEF OwnerReleases, ServiceReleases, NotifyCallers, ReleaseAll, NotifyAll
  <2> QED
    BY <2>1
<1>4. CASE Connect \/ Disconnect \/ ConnectFails \/ ConnectSucceeds \/ StartService
             \/ KeepThread \/ OwnerStopsService \/ OwnerJoins \/ OwnerDropsSocket
  BY <1>1, <1>4 DEF Connect, Disconnect, ConnectFails, ConnectSucceeds, StartService,
                    KeepThread, OwnerStopsService, StopService, OwnerJoins, OwnerDropsSocket
<1>5. CASE ServiceExits \/ HandleEvent \/ TakeResponse \/ StoreResponse \/ Rearm \/ LoseStep
             \/ ReadFails \/ ServiceStopsService \/ ServiceJoinsItself \/ ServiceFindsNoThread
             \/ ServiceDropsSocket
  BY <1>1, <1>5 DEF ServiceExits, HandleEvent, TakeResponse, StoreResponse, Rearm, LoseStep,
                    ReadFails, ServiceStopsService, StopService, ServiceJoinsItself,
                    ServiceFindsNoThread, ServiceDropsSocket
<1>6. CASE ServerAnswers \/ ServerStep
  BY <1>1, <1>6 DEF ServerAnswers, ServerStep, ServerSpeaks, ServerCloses
<1> QED
  BY <1>2, <1>3, <1>4, <1>5, <1>6 DEF OwnerStep, ServiceStep

\* With one caller thread a call is given up only because a disconnect cleared
\* the map while it was in progress.
THEOREM AbortSafe ==
    ASSUME OneCaller
    PROVE  Spec => []AbortedByDisconnect
<1>1. Init => AbortInv
  BY DEF Init, AbortInv, AbortedByDisconnect
<1>2. TypeOK /\ AbortInv /\ [Next]_vars => AbortInv'
  <2> SUFFICES ASSUME TypeOK, AbortInv, [Next]_vars PROVE AbortInv'
    OBVIOUS
  <2>1. CASE UNCHANGED vars
    BY <2>1 DEF AbortInv, AbortedByDisconnect, vars, shared, calls
  <2> QED
    BY <2>1, CallerKeepsAbort, OthersKeepAbort DEF Next
<1>3. AbortInv => AbortedByDisconnect
  BY DEF AbortInv
<1> QED
  BY <1>1, <1>2, <1>3, TypeCorrect, PTL DEF Spec

-----------------------------------------------------------------------------
(* One caller thread whose ids have not come round.  The id of a call is   *)
(* then larger than every id that is still on its way, in the stream, in   *)
(* the hands of the service thread or in the map, so that a response with  *)
(* this id answers this call.  The ids come round after 2^32 calls: a      *)
(* response that was never taken over could then have the id of a new call.*)

FewCalls == MaxCalls < IdSpace

\* What the client takes for the response to a call: on its way, in the hands
\* of the service thread, in the map.
IsAnswer(m) == m.kind # "text" /\ m.id # CommandIdNone

Answers ==
    {m \in {s2c[i] : i \in 1 .. Len(s2c)} : IsAnswer(m)}
      \cup {m \in {held} : svc = "store"} \cup replies

Unsent == {"number", "bump", "send"}
Sent == {"register", "await", "waiting"}

\* The ids of the one caller, by where it is.
Numbered ==
    /\ issued <= MaxCalls
    /\ \A c \in Callers :
          /\ call[c] = issued
          /\ lastCommandId <= issued
          /\ pc[c] \in {"number", "bump"} => lastCommandId < issued
          /\ pc[c] = "bump" => cmdId[c] = lastCommandId + 1
          /\ pc[c] \in {"send"} \cup Sent => cmdId[c] = lastCommandId

\* A request or an answer is of a call that was sent, and one with the id of
\* the call in progress is of this call.
Recent(x) ==
    /\ x.id <= lastCommandId /\ x.call <= issued
    /\ \A c \in Callers :
          /\ pc[c] = "send" => x.id < lastCommandId
          /\ pc[c] \in Unsent => x.call < issued
          /\ pc[c] \in Sent /\ x.id = cmdId[c] => x.call = call[c]

\* The calls are in order: executed or answered before requested.
Sequenced ==
    /\ \A i, j \in 1 .. Len(c2s) : i < j => c2s[i].call < c2s[j].call
    /\ \A i \in 1 .. Len(c2s) : Recent(c2s[i])
    /\ \A m \in Answers : Recent(m)
    /\ \A m \in Answers, i \in 1 .. Len(c2s) : m.call < c2s[i].call
    /\ \A m \in Answers : ~m.ok => m.call \notin executed
    /\ \A n \in executed :
          /\ n <= issued
          /\ \A c \in Callers : pc[c] \in Unsent => n < issued
          /\ \A i \in 1 .. Len(c2s) : n < c2s[i].call

CallInv == Numbered /\ Sequenced

\* The types that the order of ids and calls rests on.
LEMMA TrafficTypes ==
    ASSUME TypeOK
    PROVE  /\ lastCommandId \in Nat /\ issued \in Nat /\ executed \subseteq Nat
           /\ \A c \in Callers : cmdId[c] \in Nat /\ call[c] \in Nat
           /\ \A i \in 1 .. Len(c2s) : c2s[i].id \in Nat /\ c2s[i].call \in Nat
           /\ \A m \in Answers : m.id \in Nat /\ m.call \in Nat /\ m.ok \in BOOLEAN
<1>1. Ids \subseteq Nat
  BY BoundsAssumption DEF Ids
<1>2. \A i \in 1 .. Len(c2s) : c2s[i] \in Requests
  BY DEF TypeOK
<1>3. \A m \in Answers : m \in Messages
  BY DEF TypeOK, Answers
<1> QED
  BY <1>1, <1>2, <1>3 DEF TypeOK, Requests, Messages

\* Steps that start no call, number none, send nothing and answer nothing keep
\* the order.
LEMMA CalmKeepsCalls ==
    ASSUME CallInv, UNCHANGED <<issued, call, cmdId, lastCommandId, executed>>,
           \A c \in Callers :
              \/ pc'[c] = pc[c] \/ pc'[c] = "idle" \/ (pc[c] \in Sent /\ pc'[c] \in Sent),
           Answers' \subseteq Answers, c2s' = c2s \/ c2s' = <<>>
    PROVE  CallInv'
<1>1. Numbered'
  BY DEF CallInv, Numbered, Sent
<1>2. \A x : Recent(x) => Recent(x)'
  BY DEF Recent, Unsent, Sent
<1>3. \A i \in 1 .. Len(c2s') : i \in 1 .. Len(c2s) /\ c2s'[i] = c2s[i]
  <2>1. \A i \in 1 .. Len(<<>>) : FALSE
    OBVIOUS
  <2> QED
    BY <2>1
<1>4. \A n \in executed : \A c \in Callers : pc'[c] \in Unsent => n < issued
  BY DEF CallInv, Sequenced, Unsent, Sent
<1>5. Sequenced'
  BY <1>2, <1>3, <1>4 DEF CallInv, Sequenced, Recent
<1> QED
  BY <1>1, <1>5 DEF CallInv

\* What the steps of the owner and the service thread do to the answers: they
\* pass them on or drop them.
LEMMA ThreadsPassAnswers ==
    ASSUME TypeOK, Connect \/ Disconnect \/ OwnerStep \/ ServiceStep
    PROVE  /\ UNCHANGED <<issued, call, cmdId, lastCommandId, executed, outcome>>
           /\ \A c \in Callers : pc'[c] = pc[c] \/ (pc[c] \in Sent /\ pc'[c] \in Sent)
           /\ Answers' \subseteq Answers
           /\ c2s' = c2s \/ c2s' = <<>>
<1> USE DEF shared, calls, link, world
<1>1. UNCHANGED <<issued, call, cmdId, lastCommandId, executed, outcome>>
  BY DEF OwnerStep, ServiceStep, Connect, Disconnect, ConnectFails, ConnectSucceeds,
         StartService, OwnerAborts, OwnerReleases, OwnerStopsService, OwnerJoins,
         OwnerDropsSocket, ServiceExits, HandleEvent, TakeResponse, StoreResponse,
         NotifyCallers, Rearm, ReadFails, ServiceAborts, ServiceReleases,
         ServiceStopsService, ServiceJoinsItself, ServiceFindsNoThread, ServiceDropsSocket,
         KeepThread, LoseStep, ClearPending, ReleaseAll, StopService
<1>2. c2s' = c2s \/ c2s' = <<>>
  BY DEF OwnerStep, ServiceStep, Connect, Disconnect, ConnectFails, ConnectSucceeds,
         StartService, OwnerAborts, OwnerReleases, OwnerStopsService, OwnerJoins,
         OwnerDropsSocket, ServiceExits, HandleEvent, TakeResponse, StoreResponse,
         NotifyCallers, Rearm, ReadFails, ServiceAborts, ServiceReleases,
         ServiceStopsService, ServiceJoinsItself, ServiceFindsNoThread, ServiceDropsSocket,
         KeepThread, LoseStep, ClearPending, ReleaseAll, StopService
<1>3. \A c \in Callers : pc'[c] = pc[c] \/ (pc[c] \in Sent /\ pc'[c] \in Sent)
  <2>1. \/ pc' = pc
        \/ pc' = [c \in Callers |-> IF pc[c] = "waiting" THEN "await" ELSE pc[c]]
    BY DEF OwnerStep, ServiceStep, Connect, Disconnect, ConnectFails, ConnectSucceeds,
           StartService, OwnerAborts, OwnerReleases, OwnerStopsService, OwnerJoins,
           OwnerDropsSocket, ServiceExits, HandleEvent, TakeResponse, StoreResponse,
           NotifyCallers, Rearm, ReadFails, ServiceAborts, ServiceReleases,
           ServiceStopsService, ServiceJoinsItself, ServiceFindsNoThread, ServiceDropsSocket,
           KeepThread, LoseStep, ClearPending, ReleaseAll, StopService,
           NotifyAll
  <2> QED
    BY <2>1 DEF Sent
<1> SUFFICES Answers' \subseteq Answers
  BY <1>1, <1>2, <1>3
<1>0. \A m : /\ m \in Answers <=>
                   \/ \E i \in 1 .. Len(s2c) : m = s2c[i] /\ IsAnswer(m)
                   \/ m = held /\ svc = "store"
                   \/ m \in replies
             /\ m \in Answers' <=>
                   \/ \E i \in 1 .. Len(s2c') : m = s2c'[i] /\ IsAnswer(m)
                   \/ m = held' /\ svc' = "store"
                   \/ m \in replies'
  BY DEF Answers, IsAnswer
<1>4. ASSUME s2c' = s2c \/ s2c' = <<>>, svc' # "store" \/ (svc' = svc /\ held' = held),
             replies' \subseteq replies
      PROVE  Answers' \subseteq Answers
  <2>1. \A i \in 1 .. Len(<<>>) : FALSE
    OBVIOUS
  <2> QED
    BY <1>0, <1>4, <2>1
<1>5. CASE Connect \/ Disconnect \/ OwnerStep
  <2>1. s2c' = s2c \/ s2c' = <<>>
    BY <1>5 DEF OwnerStep, Connect, Disconnect, ConnectFails, ConnectSucceeds, StartService,
                OwnerAborts, OwnerReleases, OwnerStopsService, OwnerJoins, OwnerDropsSocket,
                KeepThread, ClearPending, ReleaseAll, StopService
  <2>2. svc' # "store" \/ (svc' = svc /\ held' = held)
    BY <1>5 DEF OwnerStep, Connect, Disconnect, ConnectFails, ConnectSucceeds, StartService,
                OwnerAborts, OwnerReleases, OwnerStopsService, OwnerJoins, OwnerDropsSocket,
                KeepThread, ClearPending, ReleaseAll, StopService
  <2>3. replies' \subseteq replies
    BY <1>5 DEF OwnerStep, Connect, Disconnect, ConnectFails, ConnectSucceeds, StartService,
                OwnerAborts, OwnerReleases, OwnerStopsService, OwnerJoins, OwnerDropsSocket,
                KeepThread, ClearPending, ReleaseAll, StopService
  <2> QED
    BY <1>4, <2>1, <2>2, <2>3
<1>6. CASE ServiceExits \/ NotifyCallers \/ Rearm \/ LoseStep \/ ReadFails \/ ServiceAborts
             \/ ServiceReleases \/ ServiceStopsService \/ ServiceJoinsItself
             \/ ServiceFindsNoThread \/ ServiceDropsSocket
  <2>1. /\ s2c' = s2c \/ s2c' = <<>>
        /\ replies' \subseteq replies
        /\ svc' # "store" \/ (svc' = svc /\ held' = held)
    BY <1>6 DEF ServiceExits, NotifyCallers, Rearm, LoseStep, ReadFails, ServiceAborts,
                ClearPending, ServiceReleases, ReleaseAll, ServiceStopsService, StopService,
                ServiceJoinsItself, ServiceFindsNoThread, ServiceDropsSocket
  <2> QED
    BY <1>4, <2>1
<1>7. ASSUME Reading
      PROVE  /\ \A i \in 1 .. Len(Tail(s2c)) : i + 1 \in 1 .. Len(s2c) /\ Tail(s2c)[i] = s2c[i + 1]
             /\ 1 \in 1 .. Len(s2c) /\ Head(s2c) = s2c[1]
  BY <1>7 DEF Reading, TypeOK
<1>8. CASE HandleEvent
  <2>1. Reading /\ s2c' = Tail(s2c) /\ replies' = replies /\ svc' = "more"
    BY <1>8 DEF HandleEvent
  <2> QED
    BY <1>0, <1>7, <2>1
<1>9. CASE TakeResponse
  <2>1. /\ Reading /\ s2c' = Tail(s2c) /\ replies' = replies /\ held' = Head(s2c)
        /\ IsAnswer(Head(s2c))
    BY <1>9 DEF TakeResponse, IsAnswer, IsReport
  <2> QED
    BY <1>0, <1>7, <2>1
<1>10. CASE StoreResponse
  <2>1. /\ s2c' = s2c /\ svc = "store" /\ svc' # "store" /\ replies' \subseteq replies \cup {held}
    BY <1>10 DEF StoreResponse, WithoutId
  <2> QED
    BY <1>0, <2>1
<1> QED
  BY <1>1, <1>2, <1>3, <1>5, <1>6, <1>8, <1>9, <1>10 DEF ServiceStep

\* The id counter does not come round.
LEMMA NoWrap ==
    ASSUME TypeOK, FewCalls, NEW i \in Nat, i < issued, issued <= MaxCalls
    PROVE  (i + 1) % IdSpace = i + 1
<1>1. i + 1 \in Nat /\ i + 1 < IdSpace /\ IdSpace \in Nat \ {0}
  BY BoundsAssumption DEF FewCalls, TypeOK
<1> QED
  BY <1>1

\* What a caller does to the answers: it takes one out of the map at most.
LEMMA CallerPassesAnswers ==
    ASSUME TypeOK, NEW c \in Callers,
           CallerStep(c) \/ SpuriousWakeup(c) \/ \E w \in BOOLEAN : Call(c, w)
    PROVE  Answers' \subseteq Answers /\ executed' = executed
<1> USE DEF shared, calls, link, world
<1>1. UNCHANGED <<s2c, svc, held, executed>>
  BY DEF CallerStep, Call, LoadId, StoreId, SendToNull, SendThrows, Send, Register,
         AwaitBlocks, AwaitAborted, AwaitAnswered, SpuriousWakeup
<1>2. replies' \subseteq replies
  BY DEF CallerStep, Call, LoadId, StoreId, SendToNull, SendThrows, Send, Register,
         WithoutId, AwaitBlocks, AwaitAborted, AwaitAnswered, SpuriousWakeup
<1> QED
  BY <1>1, <1>2 DEF Answers, IsAnswer

\* The steps of the one caller keep the order of its calls.
LEMMA CallerKeepsCalls ==
    ASSUME OneCaller, FewCalls, TypeOK, CallInv, NEW c \in Callers,
           CallerStep(c) \/ SpuriousWakeup(c) \/ \E w \in BOOLEAN : Call(c, w)
    PROVE  CallInv'
<1> USE DEF shared, calls, link, world
<1>1. \A d \in Callers : d = c
  BY DEF OneCaller
<1>2. /\ pc \in [Callers -> CallerSteps] /\ cmdId \in [Callers -> Ids]
      /\ call \in [Callers -> Nat] /\ issued \in Nat /\ lastCommandId \in Nat
      /\ cmdId[c] \in Nat
  BY TrafficTypes DEF TypeOK
<1>3. Answers' \subseteq Answers /\ executed' = executed
  BY CallerPassesAnswers
<1>4. \A x : Recent(x) <=>
        /\ x.id <= lastCommandId /\ x.call <= issued
        /\ pc[c] = "send" => x.id < lastCommandId
        /\ pc[c] \in Unsent => x.call < issued
        /\ pc[c] \in Sent /\ x.id = cmdId[c] => x.call = call[c]
  BY <1>1 DEF Recent
<1>5. \A x : Recent(x)' <=>
        /\ x.id <= lastCommandId' /\ x.call <= issued'
        /\ pc'[c] = "send" => x.id < lastCommandId'
        /\ pc'[c] \in Unsent => x.call < issued'
        /\ pc'[c] \in Sent /\ x.id = cmdId'[c] => x.call = call'[c]
  BY <1>1 DEF Recent
<1>6. /\ \A i \in 1 .. Len(c2s) : c2s[i].id \in Nat /\ c2s[i].call \in Nat /\ Recent(c2s[i])
      /\ \A m \in Answers : m.id \in Nat /\ m.call \in Nat /\ Recent(m)
      /\ executed \subseteq Nat
  BY TrafficTypes DEF CallInv, Sequenced
\* The calls that were sent are the same, and none is asked about anew.
<1>7. ASSUME c2s' = c2s, issued <= issued', issued' \in Nat,
             \A x : x.id \in Nat /\ x.call \in Nat /\ Recent(x) => Recent(x)',
             pc'[c] \in Unsent => pc[c] \in Unsent \/ issued < issued'
      PROVE  Sequenced'
  <2>1. \A n \in executed : n <= issued' /\ (pc'[c] \in Unsent => n < issued')
    BY <1>1, <1>2, <1>6, <1>7 DEF CallInv, Sequenced
  <2> QED
    BY <1>1, <1>3, <1>6, <1>7, <2>1 DEF CallInv, Sequenced
<1>8. CASE \E w \in BOOLEAN : Call(c, w)
  <2>1. /\ issued' = issued + 1 /\ issued < MaxCalls /\ call'[c] = issued + 1
        /\ pc'[c] \in {"idle", "number"}
        /\ UNCHANGED <<lastCommandId, cmdId, c2s>>
    BY <1>2, <1>8 DEF Call, Goto, Return
  <2>2. Numbered'
    BY <1>1, <1>2, <2>1, BoundsAssumption DEF CallInv, Numbered, Sent
  <2>3. Sequenced'
    BY <1>2, <1>4, <1>5, <1>7, <2>1 DEF Unsent, Sent
  <2> QED
    BY <2>2, <2>3 DEF CallInv
<1>9. CASE LoadId(c)
  <2>1. /\ pc[c] = "number" /\ pc'[c] = "bump" /\ cmdId'[c] = (lastCommandId + 1) % IdSpace
        /\ UNCHANGED <<lastCommandId, issued, call, c2s>>
    BY <1>2, <1>9 DEF LoadId, Goto
  <2>2. lastCommandId < issued /\ issued <= MaxCalls
    BY <2>1 DEF CallInv, Numbered
  <2>3. cmdId'[c] = lastCommandId + 1
    BY <1>2, <2>1, <2>2, NoWrap
  <2>4. Numbered'
    BY <1>1, <1>2, <2>1, <2>2, <2>3 DEF CallInv, Numbered, Sent
  <2>5. Sequenced'
    BY <1>2, <1>4, <1>5, <1>7, <2>1 DEF Unsent, Sent
  <2> QED
    BY <2>4, <2>5 DEF CallInv
<1>10. CASE StoreId(c)
  <2>1. /\ pc[c] = "bump" /\ pc'[c] = "send" /\ lastCommandId' = cmdId[c]
        /\ UNCHANGED <<cmdId, issued, call, c2s>>
    BY <1>2, <1>10 DEF StoreId, Goto
  <2>2. lastCommandId < issued /\ cmdId[c] = lastCommandId + 1
    BY <2>1 DEF CallInv, Numbered
  <2>3. Numbered'
    BY <1>1, <1>2, <2>1, <2>2 DEF CallInv, Numbered, Sent
  <2>4. Sequenced'
    BY <1>2, <1>4, <1>5, <1>7, <2>1, <2>2 DEF Unsent, Sent
  <2> QED
    BY <2>3, <2>4 DEF CallInv
<1>11. CASE Send(c)
  <2> PICK rq \in Requests : rq = [id |-> cmdId[c], call |-> call[c], watch |-> watch[c]]
    BY DEF TypeOK, Requests
  <2>1. /\ pc[c] = "send" /\ pc'[c] = "register"
        /\ c2s' = c2s \/ c2s' = Append(c2s, rq)
        /\ UNCHANGED <<cmdId, issued, call, lastCommandId>>
    BY <1>2, <1>11 DEF Send, Goto
  <2>2. cmdId[c] = lastCommandId /\ call[c] = issued
    BY <2>1 DEF CallInv, Numbered
  <2>3. Numbered'
    BY <1>1, <1>2, <2>1, <2>2 DEF CallInv, Numbered, Sent
  <2>4. \A x : x.id \in Nat /\ x.call \in Nat /\ Recent(x) => Recent(x)'
    BY <1>2, <1>4, <1>5, <2>1, <2>2 DEF Unsent, Sent
  <2>5. CASE c2s' = c2s
    <3>1. Sequenced'
      BY <1>2, <1>7, <2>1, <2>4, <2>5 DEF Unsent
    <3> QED
      BY <2>3, <3>1 DEF CallInv
  <2>6. CASE c2s' = Append(c2s, rq)
    <3>1. rq.id = cmdId[c] /\ rq.call = call[c]
      OBVIOUS
    <3>2. c2s \in Seq(Requests)
      BY DEF TypeOK
    <3>3. /\ Len(c2s') = Len(c2s) + 1 /\ Len(c2s) \in Nat
          /\ \A i \in 1 .. Len(c2s) : c2s'[i] = c2s[i]
          /\ c2s'[Len(c2s) + 1] = rq
      BY <2>6, <3>1, <3>2
    <3>4. \A i \in 1 .. Len(c2s') : i \in 1 .. Len(c2s) \/ i = Len(c2s) + 1
      BY <3>3
    <3>5. Recent(rq)'
      BY <1>2, <1>5, <2>1, <2>2, <3>1 DEF Unsent, Sent
    <3>6. \A i \in 1 .. Len(c2s') : \A x : x = c2s'[i] => Recent(x)'
      BY <1>6, <2>4, <3>3, <3>4, <3>5
    <3>7. \A m \in Answers' : Recent(m)'
      BY <1>3, <1>6, <2>4
    <3>8. /\ \A i \in 1 .. Len(c2s) : c2s[i].call < rq.call
          /\ \A m \in Answers : m.call < rq.call
          /\ \A n \in executed : n < rq.call /\ n <= issued
      BY <1>4, <1>6, <2>1, <2>2, <3>1 DEF Unsent, CallInv, Sequenced
    <3>9. \A i, j \in 1 .. Len(c2s') : i < j => c2s'[i].call < c2s'[j].call
      <4> SUFFICES ASSUME NEW i \in 1 .. Len(c2s'), NEW j \in 1 .. Len(c2s'), i < j
                   PROVE  c2s'[i].call < c2s'[j].call
        OBVIOUS
      <4>1. i \in 1 .. Len(c2s)
        BY <3>3, <3>4
      <4>2. CASE j \in 1 .. Len(c2s)
        BY <3>3, <4>1, <4>2 DEF CallInv, Sequenced
      <4>3. CASE j = Len(c2s) + 1
        BY <3>3, <3>8, <4>1, <4>3
      <4> QED
        BY <3>4, <4>2, <4>3
    <3>10. \A m \in Answers', i \in 1 .. Len(c2s') : m.call < c2s'[i].call
      BY <1>3, <3>3, <3>4, <3>8 DEF CallInv, Sequenced
    <3>11. \A n \in executed, i \in 1 .. Len(c2s') : n < c2s'[i].call
      BY <3>3, <3>4, <3>8 DEF CallInv, Sequenced
    <3>12. \A m \in Answers' : ~m.ok => m.call \notin executed'
      BY <1>3 DEF CallInv, Sequenced
    <3>13. \A n \in executed' : n <= issued' /\ \A d \in Callers : pc'[d] \notin Unsent
      BY <1>1, <1>3, <2>1, <3>8 DEF Unsent
    <3>14. Sequenced'
      BY <1>3, <3>6, <3>7, <3>9, <3>10, <3>11, <3>12, <3>13 DEF Sequenced
    <3> QED
      BY <2>3, <3>14 DEF CallInv
  <2> QED
    BY <2>1, <2>5, <2>6
<1>12. CASE SendToNull(c) \/ SendThrows(c) \/ Register(c) \/ AwaitBlocks(c) \/ AwaitAborted(c)
              \/ AwaitAnswered(c) \/ SpuriousWakeup(c)
  <2>1. UNCHANGED <<issued, call, cmdId, lastCommandId, executed, c2s>>
    BY <1>12 DEF SendToNull, SendThrows, Register, AwaitBlocks, AwaitAborted, AwaitAnswered,
                 SpuriousWakeup
  <2>2. pc'[c] = pc[c] \/ pc'[c] = "idle" \/ (pc[c] \in Sent /\ pc'[c] \in Sent)
    BY <1>2, <1>12 DEF SendToNull, SendThrows, Register, AwaitBlocks, AwaitAborted,
                       AwaitAnswered, SpuriousWakeup, Goto, Return, Sent
  <2> QED
    BY <1>1, <1>3, <2>1, <2>2, CalmKeepsCalls
<1> QED
  BY <1>8, <1>9, <1>10, <1>11, <1>12 DEF CallerStep

\* What the server says on its own is no answer.
LEMMA SaysNoAnswer ==
    ASSUME TypeOK, NEW kind \in Unasked, published' \in Nat
    PROVE  LET said == s2c \o Says(kind) IN
             /\ said \in Seq(Messages)
             /\ \A i \in 1 .. Len(said) : IsAnswer(said[i]) => said[i] \in Answers
<1> DEFINE G == {m \in Messages : IsAnswer(m) => m \in Answers}
           said == s2c \o Says(kind)
<1>1. s2c \in Seq(Messages) /\ Says(kind) \in Seq(Messages)
        /\ Says(kind) \in {<<>>, <<Text>>, <<Report(published')>>}
  BY SaidTypes DEF TypeOK
<1>2. \A i \in 1 .. Len(s2c) : s2c[i] \in G
  BY <1>1 DEF Answers
<1>3. Text \in G /\ Report(published') \in G
  BY MessageTypes DEF IsAnswer, Text, Blank, Report
<1>4. \A i \in 1 .. Len(Says(kind)) : Says(kind)[i] \in G
  <2> HIDE DEF G
  <2> QED
    BY <1>1, <1>3
<1> HIDE DEF G
<1>5. said \in Seq(Messages) /\ \A i \in 1 .. Len(said) : said[i] \in G
  BY <1>1, <1>2, <1>4, ConcatIn
<1> HIDE DEF said
<1>6. \A i \in 1 .. Len(said) : IsAnswer(said[i]) => said[i] \in Answers
  BY <1>5 DEF G
<1> QED
  BY <1>5, <1>6 DEF said

\* What ServerAnswers adds to the answers is the response to the oldest request.
LEMMA AnswerGiven ==
    ASSUME TypeOK, ServerAnswers
    PROVE  \E rsp \in Messages :
             /\ Answers' \subseteq Answers \cup {rsp}
             /\ rsp.id = c2s[1].id /\ rsp.call = c2s[1].call
             /\ executed' = IF rsp.ok THEN executed \cup {c2s[1].call} ELSE executed
             /\ UNCHANGED <<shared, calls>> /\ issued' = issued
             /\ 1 \in 1 .. Len(c2s) /\ Len(c2s') = Len(c2s) - 1 /\ Len(c2s) \in Nat
             /\ \A i \in 1 .. Len(c2s') : i + 1 \in 1 .. Len(c2s) /\ c2s'[i] = c2s[i + 1]
<1> DEFINE rq == Head(c2s)
<1>1. /\ c2s \in Seq(Requests) /\ c2s # <<>> /\ c2s' = Tail(c2s)
      /\ UNCHANGED <<shared, calls, svc, held, issued>>
  BY DEF ServerAnswers, TypeOK
<1>2. rq \in Requests /\ rq = c2s[1] /\ 1 \in 1 .. Len(c2s) /\ Len(c2s) \in Nat
        /\ Len(c2s') = Len(c2s) - 1
        /\ \A i \in 1 .. Len(c2s') : i + 1 \in 1 .. Len(c2s) /\ c2s'[i] = c2s[i + 1]
  BY <1>1
<1>3. PICK ok \in BOOLEAN, first \in Unasked :
          /\ Counts(first, rq.watch)
          /\ s2c' = s2c \o Says(first) \o
                    <<Response(rq, ok, IF rq.watch THEN published' ELSE 0)>>
          /\ executed' = IF ok THEN executed \cup {rq.call} ELSE executed
  BY DEF ServerAnswers
<1> HIDE DEF rq
<1>4. rq.watch \in BOOLEAN
  BY <1>2 DEF Requests
<1>5. published' \in Nat
  BY <1>3, <1>4, CountTypes
<1> DEFINE rsp == Response(rq, ok, IF rq.watch THEN published' ELSE 0)
           said == s2c \o Says(first)
<1>6. rsp \in Messages /\ rsp.id = rq.id /\ rsp.call = rq.call /\ rsp.ok = ok
  BY <1>2, <1>4, <1>5, MessageTypes DEF Response
<1>7. said \in Seq(Messages) /\ \A i \in 1 .. Len(said) : IsAnswer(said[i]) => said[i] \in Answers
  BY <1>5, SaysNoAnswer
<1>8. s2c' = said \o <<rsp>>
  BY <1>3
<1> HIDE DEF rsp, said
<1>9. \A i \in 1 .. Len(s2c') : \/ i \in 1 .. Len(said) /\ s2c'[i] = said[i]
                                \/ s2c'[i] = rsp
  BY <1>6, <1>7, <1>8
<1>10. replies' = replies
  BY <1>1 DEF shared
<1>11. Answers' \subseteq Answers \cup {rsp}
  <2> SUFFICES ASSUME NEW m \in Answers' PROVE m \in Answers \cup {rsp}
    OBVIOUS
  <2>1. \/ \E i \in 1 .. Len(s2c') : m = s2c'[i] /\ IsAnswer(m)
        \/ m = held' /\ svc' = "store"
        \/ m \in replies'
    BY DEF Answers, IsAnswer
  <2>2. CASE \E i \in 1 .. Len(s2c') : m = s2c'[i] /\ IsAnswer(m)
    BY <1>7, <1>9, <2>2
  <2>3. CASE (m = held' /\ svc' = "store") \/ m \in replies'
    BY <1>1, <1>10, <2>3 DEF Answers
  <2> QED
    BY <2>1, <2>2, <2>3
<1> QED
  BY <1>1, <1>2, <1>3, <1>6, <1>11

\* The steps of the server keep the order of the calls: it answers the oldest
\* request, which is later than all it executed and answered before.
LEMMA ServerKeepsCalls ==
    ASSUME TypeOK, CallInv, ServerAnswers \/ ServerStep
    PROVE  CallInv'
<1> USE DEF shared, calls, link, world
<1>1. CASE ServerAnswers
  <2>1. PICK rsp \in Messages :
             /\ Answers' \subseteq Answers \cup {rsp}
             /\ rsp.id = c2s[1].id /\ rsp.call = c2s[1].call
             /\ executed' = IF rsp.ok THEN executed \cup {c2s[1].call} ELSE executed
             /\ UNCHANGED <<shared, calls>> /\ issued' = issued
             /\ 1 \in 1 .. Len(c2s) /\ Len(c2s') = Len(c2s) - 1 /\ Len(c2s) \in Nat
             /\ \A i \in 1 .. Len(c2s') : i + 1 \in 1 .. Len(c2s) /\ c2s'[i] = c2s[i + 1]
    BY <1>1, AnswerGiven
  <2>2. UNCHANGED <<pc, cmdId, call, lastCommandId, issued>>
    BY <2>1
  <2>3. Numbered'
    BY <2>2 DEF CallInv, Numbered
  <2>4. \A x : Recent(x)' <=> Recent(x)
    BY <2>2 DEF Recent
  <2>5. Recent(rsp)
    BY <2>1 DEF CallInv, Sequenced, Recent
  <2>6. \A i \in 1 .. Len(c2s') : c2s[1].call < c2s'[i].call /\ c2s[1].call \in Nat
    <3>1. \A i \in 1 .. Len(c2s') : 1 < i + 1
      BY <2>1
    <3> QED
      BY <2>1, <3>1, TrafficTypes DEF CallInv, Sequenced
  <2>7. \A i, j \in 1 .. Len(c2s') : i < j => c2s'[i].call < c2s'[j].call
    <3>1. \A i, j \in 1 .. Len(c2s') : i < j => i + 1 < j + 1
      BY <2>1
    <3> QED
      BY <2>1, <3>1 DEF CallInv, Sequenced
  <2>8. \A i \in 1 .. Len(c2s') : Recent(c2s'[i])
    BY <2>1 DEF CallInv, Sequenced
  <2>9. \A m \in Answers' : Recent(m)
    BY <2>1, <2>5 DEF CallInv, Sequenced
  <2>10. \A m \in Answers', i \in 1 .. Len(c2s') : m.call < c2s'[i].call
    BY <2>1, <2>6 DEF CallInv, Sequenced
  <2>11. \A m \in Answers' : ~m.ok => m.call \notin executed'
    <3>1. \A n \in executed : n < c2s[1].call /\ n \in Nat
      BY <2>1, TrafficTypes DEF CallInv, Sequenced
    <3>2. \A m \in Answers : m.call < c2s[1].call /\ m.call \in Nat
      BY <2>1, TrafficTypes DEF CallInv, Sequenced
    <3>3. c2s[1].call \in Nat
      BY <2>1, TrafficTypes
    <3> QED
      BY <2>1, <3>1, <3>2, <3>3 DEF CallInv, Sequenced
  <2>12. \A n \in executed' :
           /\ n <= issued
           /\ \A c \in Callers : pc[c] \in Unsent => n < issued
           /\ \A i \in 1 .. Len(c2s') : n < c2s'[i].call
    <3> SUFFICES ASSUME NEW n \in executed'
                 PROVE  /\ n <= issued
                        /\ \A c \in Callers : pc[c] \in Unsent => n < issued
                        /\ \A i \in 1 .. Len(c2s') : n < c2s'[i].call
      OBVIOUS
    <3>1. CASE n = c2s[1].call
      BY <2>1, <2>6, <3>1 DEF CallInv, Sequenced, Recent
    <3>2. CASE n \in executed
      BY <2>1, <3>2 DEF CallInv, Sequenced
    <3> QED
      BY <2>1, <3>1, <3>2
  <2>13. Sequenced'
    BY <2>2, <2>4, <2>7, <2>8, <2>9, <2>10, <2>11, <2>12 DEF Sequenced
  <2> QED
    BY <2>3, <2>13 DEF CallInv
<1>2. ASSUME NEW kind \in Unasked, Counts(kind, FALSE),
             \/ s2c' = s2c \o Says(kind)
             \/ \E n \in 0 .. Len(s2c \o Says(kind)) : s2c' = SubSeq(s2c \o Says(kind), 1, n),
             UNCHANGED <<svc, held, replies>>
      PROVE  Answers' \subseteq Answers
  <2> DEFINE said == s2c \o Says(kind)
  <2>1. published' \in Nat
    BY <1>2, CountTypes
  <2>2. /\ said \in Seq(Messages)
        /\ \A i \in 1 .. Len(said) : IsAnswer(said[i]) => said[i] \in Answers
    BY <2>1, SaysNoAnswer
  <2> HIDE DEF said
  <2>3. \A i \in 1 .. Len(s2c') : i \in 1 .. Len(said) /\ s2c'[i] = said[i]
    <3>1. CASE s2c' = said
      BY <3>1
    <3>2. CASE \E n \in 0 .. Len(said) : s2c' = SubSeq(said, 1, n)
      BY <2>2, <3>2, PrefixIsSeq
    <3> QED
      BY <1>2, <3>1, <3>2 DEF said
  <2>4. \A m \in Answers' : \/ \E i \in 1 .. Len(s2c') : m = s2c'[i] /\ IsAnswer(m)
                            \/ m = held' /\ svc' = "store"
                            \/ m \in replies'
    BY DEF Answers, IsAnswer
  <2>5. \A m : (m = held /\ svc = "store") \/ m \in replies => m \in Answers
    BY DEF Answers
  <2> QED
    BY <1>2, <2>2, <2>3, <2>4, <2>5
<1>3. CASE ServerSpeaks
  <2>1. /\ UNCHANGED <<issued, call, cmdId, lastCommandId, executed, pc, c2s, svc, held, replies>>
        /\ \E kind \in Unasked : Counts(kind, FALSE) /\ s2c' = s2c \o Says(kind)
    BY <1>3 DEF ServerSpeaks
  <2>2. Answers' \subseteq Answers
    BY <1>2, <2>1
  <2> QED
    BY <2>1, <2>2, CalmKeepsCalls
<1>4. CASE ServerCloses
  <2>1. /\ UNCHANGED <<issued, call, cmdId, lastCommandId, executed, pc, svc, held, replies>>
        /\ c2s' = <<>>
        /\ \E kind \in Unasked :
              /\ Counts(kind, FALSE)
              /\ \E n \in 0 .. Len(s2c \o Says(kind)) : s2c' = SubSeq(s2c \o Says(kind), 1, n)
    BY <1>4 DEF ServerCloses
  <2>2. Answers' \subseteq Answers
    BY <1>2, <2>1
  <2> QED
    BY <2>1, <2>2, CalmKeepsCalls
<1> QED
  BY <1>1, <1>3, <1>4 DEF ServerStep

\* The calls of one caller are in order as long as its ids have not come round.
LEMMA CallInvariant ==
    ASSUME OneCaller, FewCalls
    PROVE  Spec => []CallInv
<1>1. ASSUME Init PROVE CallInv
  <2>1. Answers = {}
    <3>1. \A i \in 1 .. Len(<<>>) : FALSE
      OBVIOUS
    <3> QED
      BY <1>1, <3>1 DEF Init, Answers
  <2>2. \A i \in 1 .. Len(c2s) : FALSE
    BY <1>1 DEF Init
  <2>3. Numbered
    BY <1>1, BoundsAssumption DEF Init, Numbered, Sent
  <2> QED
    BY <1>1, <2>1, <2>2, <2>3 DEF Init, CallInv, Sequenced
<1>2. TypeOK /\ CallInv /\ [Next]_vars => CallInv'
  <2> SUFFICES ASSUME TypeOK, CallInv, [Next]_vars PROVE CallInv'
    OBVIOUS
  <2>1. CASE UNCHANGED vars
    <3>1. UNCHANGED <<issued, call, cmdId, lastCommandId, executed, pc, c2s, s2c, svc, held, replies>>
      BY <2>1 DEF vars, shared, calls, link, world
    <3>2. Answers' = Answers
      BY <3>1 DEF Answers, IsAnswer
    <3> QED
      BY <3>1, <3>2, CalmKeepsCalls
  <2>2. CASE Connect \/ Disconnect \/ OwnerStep \/ ServiceStep
    <3>1. /\ UNCHANGED <<issued, call, cmdId, lastCommandId, executed>>
          /\ \A c \in Callers : pc'[c] = pc[c] \/ (pc[c] \in Sent /\ pc'[c] \in Sent)
          /\ Answers' \subseteq Answers
          /\ c2s' = c2s \/ c2s' = <<>>
      BY <2>2, ThreadsPassAnswers
    <3> QED
      BY <3>1, CalmKeepsCalls
  <2> QED
    BY <2>1, <2>2, CallerKeepsCalls, ServerKeepsCalls DEF Next
<1> QED
  BY <1>1, <1>2, TypeCorrect, PTL DEF Spec

\* The reply that a call returns answers the request of that very call, not one
\* of an earlier call that was given up, also across a reconnection.
THEOREM AnswersOwn ==
    ASSUME OneCaller, FewCalls
    PROVE  Spec => []OwnAnswer
<1> USE DEF shared, calls, link, world
<1>1. Init => OwnAnswer
  BY DEF Init, OwnAnswer
<1>2. TypeOK /\ CallInv /\ OwnAnswer /\ [Next]_vars => OwnAnswer'
  <2> SUFFICES ASSUME TypeOK, CallInv, OwnAnswer, [Next]_vars PROVE OwnAnswer'
    OBVIOUS
  <2>1. ASSUME NEW c \in Callers, AwaitAnswered(c) PROVE OwnAnswer'
    <3>1. PICK r \in replies : r.id = cmdId[c] /\ got' = [got EXCEPT ![c] = r]
      BY <2>1 DEF AwaitAnswered
    <3>2. pc[c] = "await" /\ call' = call
            /\ \A d \in Callers : d # c => outcome'[d] = outcome[d] /\ got'[d] = got[d]
      BY <2>1, <3>1 DEF AwaitAnswered, Return, Goto, TypeOK
    <3>3. Recent(r)
      BY DEF CallInv, Sequenced, Answers
    <3>4. got'[c].call = call[c]
      BY <3>1, <3>2, <3>3 DEF Recent, Sent, TypeOK
    <3> QED
      BY <3>2, <3>4 DEF OwnAnswer
  <2>2. ASSUME NEW c \in Callers, NEW w \in BOOLEAN, Call(c, w) PROVE OwnAnswer'
    <3>1. outcome'[c] \in {"unsent", "none"} /\ got' = got
            /\ \A d \in Callers : d # c => outcome'[d] = outcome[d] /\ call'[d] = call[d]
      BY <2>2 DEF Call, Return, Goto, TypeOK
    <3> QED
      BY <3>1 DEF OwnAnswer
  <2>3. ASSUME NEW c \in Callers, SendThrows(c) \/ AwaitAborted(c) PROVE OwnAnswer'
    <3>1. outcome'[c] \in {"threw", "aborted"} /\ got' = got /\ call' = call
            /\ \A d \in Callers : d # c => outcome'[d] = outcome[d]
      BY <2>3 DEF SendThrows, AwaitAborted, Return, Goto, TypeOK
    <3> QED
      BY <3>1 DEF OwnAnswer
  <2>4. ASSUME UNCHANGED <<outcome, got, call>> PROVE OwnAnswer'
    BY <2>4 DEF OwnAnswer
  <2>5. ASSUME NEW c \in Callers,
               \/ LoadId(c) \/ StoreId(c) \/ SendToNull(c) \/ Send(c) \/ Register(c)
               \/ AwaitBlocks(c) \/ SpuriousWakeup(c)
        PROVE  UNCHANGED <<outcome, got, call>>
    BY <2>5 DEF LoadId, StoreId, SendToNull, Send, Register, AwaitBlocks, SpuriousWakeup
  <2>6. ASSUME Connect \/ Disconnect \/ OwnerStep \/ ServiceStep
        PROVE  UNCHANGED <<outcome, got, call>>
    BY <2>6 DEF OwnerStep, ServiceStep, Connect, Disconnect, ConnectFails, ConnectSucceeds,
         StartService, OwnerAborts, OwnerReleases, OwnerStopsService, OwnerJoins,
         OwnerDropsSocket, ServiceExits, HandleEvent, TakeResponse, StoreResponse,
         NotifyCallers, Rearm, ReadFails, ServiceAborts, ServiceReleases,
         ServiceStopsService, ServiceJoinsItself, ServiceFindsNoThread, ServiceDropsSocket,
         KeepThread, LoseStep, ClearPending, ReleaseAll, StopService
  <2>7. ASSUME ServerAnswers \/ ServerStep \/ UNCHANGED vars
        PROVE  UNCHANGED <<outcome, got, call>>
    BY <2>7 DEF ServerAnswers, ServerStep, ServerSpeaks, ServerCloses, vars
  <2> QED
    BY <2>1, <2>2, <2>3, <2>4, <2>5, <2>6, <2>7 DEF Next, CallerStep
<1> QED
  BY <1>1, <1>2, TypeCorrect, CallInvariant, PTL DEF Spec
-----------------------------------------------------------------------------
(* The library implements RemoteCalls.                                     *)

\* The substitutions of Contract: calls that may still be executed, and how
\* the last call of every caller ended.
OpenCalls ==
    {c2s[i].call : i \in DOMAIN c2s} \cup
    {call[c] : c \in {d \in Callers : pc[d] \in {"number", "bump", "send"}}}

Results ==
    [c \in Callers |->
       IF pc[c] # "idle" THEN "none"
       ELSE CASE outcome[c] \in {"unsent", "threw"} -> "refused"
              [] outcome[c] = "aborted" -> "unknown"
              [] outcome[c] = "none" -> "ok"
              [] OTHER -> outcome[c]]

\* What a step has to do to the substitutions to be one of the contract.
LEMMA StartOfContract ==
    ASSUME issued = 0, OpenCalls = {}, executed = {}, call = [c \in Callers |-> 0],
           Results = [c \in Callers |-> "ok"]
    PROVE  Contract!Init
BY DEF Contract!Init, OpenCalls, Results

\* Calls that are lost with the connection, or nothing.
LEMMA LostCalls ==
    ASSUME OpenCalls' \subseteq OpenCalls, UNCHANGED <<issued, call, Results, executed>>
    PROVE  Contract!Next
BY DEF Contract!Next, Contract!Lose, OpenCalls, Results

\* A call that begins, or is refused at once.
LEMMA CallBegun ==
    ASSUME NEW c \in Callers, Results[c] # "none", issued' = issued + 1,
           call' = [call EXCEPT ![c] = issued + 1], executed' = executed,
           \/ /\ Results' = [Results EXCEPT ![c] = "none"]
              /\ OpenCalls' = OpenCalls \cup {issued + 1}
           \/ Results' = [Results EXCEPT ![c] = "refused"] /\ OpenCalls' = OpenCalls
    PROVE  Contract!Next
<1>1. Contract!Begin(c) \/ Contract!Refuse(c)
  BY DEF Contract!Begin, Contract!Refuse, Contract!Begins, OpenCalls, Results
<1> QED
  BY <1>1 DEF Contract!Next

\* A call that is executed.
LEMMA CallExecuted ==
    ASSUME NEW n \in OpenCalls, OpenCalls' = OpenCalls \ {n}, executed' = executed \cup {n},
           UNCHANGED <<issued, call, Results>>
    PROVE  Contract!Next
BY DEF Contract!Next, Contract!Execute, OpenCalls, Results

\* A call that returns.
LEMMA CallReturned ==
    ASSUME NEW c \in Callers, Results[c] = "none",
           NEW r \in {"ok", "failed", "refused", "unknown"},
           r = "ok" => call[c] \in executed,
           r = "failed" => call[c] \notin OpenCalls \cup executed,
           r = "refused" => call[c] \in OpenCalls,
           OpenCalls' = IF r = "refused" THEN OpenCalls \ {call[c]} ELSE OpenCalls,
           Results' = [Results EXCEPT ![c] = r],
           UNCHANGED <<issued, call, executed>>
    PROVE  Contract!Next
<1>1. Contract!Return(c)
  BY DEF Contract!Return, OpenCalls, Results
<1> QED
  BY <1>1 DEF Contract!Next

\* What the open calls are, before and after a step.
LEMMA OpenCallsAre ==
    ASSUME TypeOK, TypeOK'
    PROVE  /\ \A n : n \in OpenCalls <=> \/ \E i \in 1 .. Len(c2s) : n = c2s[i].call
                                         \/ \E c \in Callers : pc[c] \in Unsent /\ n = call[c]
           /\ \A n : n \in OpenCalls' <=> \/ \E i \in 1 .. Len(c2s') : n = c2s'[i].call
                                          \/ \E c \in Callers : pc'[c] \in Unsent /\ n = call'[c]
<1>1. DOMAIN c2s = 1 .. Len(c2s) /\ DOMAIN c2s' = 1 .. Len(c2s')
  BY DEF TypeOK
<1> QED
  BY <1>1 DEF OpenCalls, Unsent

\* A step that begins no call, sends no new one, executes none and ends none
\* does nothing that the contract sees, or loses calls.
LEMMA CalmIsLost ==
    ASSUME TypeOK, TypeOK', UNCHANGED <<issued, call, executed, outcome>>,
           \A c \in Callers : /\ pc'[c] = "idle" <=> pc[c] = "idle"
                              /\ pc'[c] \in Unsent => pc[c] \in Unsent,
           \A i \in 1 .. Len(c2s') : c2s'[i].call \in OpenCalls
    PROVE  Contract!Next
<1>1. Results' = Results
  BY DEF Results
<1>2. OpenCalls' \subseteq OpenCalls
  BY OpenCallsAre
<1> QED
  BY <1>1, <1>2, LostCalls

\* Sets are the same when their elements are.
LEMMA SameSet == ASSUME NEW A, NEW B, \A n : n \in A <=> n \in B PROVE A = B
  OBVIOUS

\* The requests on their way are open.
LEMMA RequestsAreOpen ==
    ASSUME TypeOK, TypeOK', c2s' = c2s \/ c2s' = <<>>
    PROVE  \A i \in 1 .. Len(c2s') : c2s'[i].call \in OpenCalls
<1>1. \A i \in 1 .. Len(<<>>) : FALSE
  OBVIOUS
<1> QED
  BY <1>1, OpenCallsAre

\* The steps of the one caller are steps of the contract.
LEMMA CallerKeepsContract ==
    ASSUME OneCaller, TypeOK, TypeOK', SuccessInv, CallInv, NEW c \in Callers,
           CallerStep(c) \/ SpuriousWakeup(c) \/ \E w \in BOOLEAN : Call(c, w)
    PROVE  Contract!Next
<1> USE DEF shared, calls, link, world
<1>1. \A d \in Callers : d = c
  BY DEF OneCaller
<1>2. /\ pc \in [Callers -> CallerSteps] /\ outcome \in [Callers -> Outcomes]
      /\ call \in [Callers -> Nat] /\ issued \in Nat /\ c2s \in Seq(Requests)
  BY DEF TypeOK
<1>3. \A n : n \in OpenCalls <=> \/ \E i \in 1 .. Len(c2s) : n = c2s[i].call
                                 \/ pc[c] \in Unsent /\ n = call[c]
  BY <1>1, OpenCallsAre
<1>4. \A n : n \in OpenCalls' <=> \/ \E i \in 1 .. Len(c2s') : n = c2s'[i].call
                                  \/ pc'[c] \in Unsent /\ n = call'[c]
  BY <1>1, OpenCallsAre
<1>5. pc[c] # "idle" => Results[c] = "none"
  BY DEF Results
<1>6. \A r : (pc'[c] = "idle" /\ outcome'[c] \in Outcomes /\
              r = CASE outcome'[c] \in {"unsent", "threw"} -> "refused"
                    [] outcome'[c] = "aborted" -> "unknown"
                    [] outcome'[c] = "none" -> "ok"
                    [] OTHER -> outcome'[c]) => Results' = [Results EXCEPT ![c] = r]
  BY <1>1 DEF Results
<1>7. call[c] = issued
  BY DEF CallInv, Numbered
<1>8. CASE \E w \in BOOLEAN : Call(c, w)
  <2>1. /\ pc[c] = "idle" /\ issued' = issued + 1 /\ call' = [call EXCEPT ![c] = issued + 1]
        /\ UNCHANGED <<executed, c2s>>
        /\ \/ pc'[c] = "idle" /\ outcome'[c] = "unsent"
           \/ pc'[c] = "number"
    BY <1>2, <1>8 DEF Call, Goto, Return
  <2>2. Results[c] # "none"
    BY <1>2, <2>1 DEF Results, Outcomes
  <2>3. call'[c] = issued + 1
    BY <1>2, <2>1
  <2>4. CASE pc'[c] = "number"
    <3>1. Results' = [Results EXCEPT ![c] = "none"]
      BY <1>1, <2>4 DEF Results
    <3>2. OpenCalls' = OpenCalls \cup {issued + 1}
      BY <1>3, <1>4, <2>1, <2>3, <2>4 DEF Unsent
    <3> QED
      BY <2>1, <2>2, <3>1, <3>2, CallBegun
  <2>5. CASE pc'[c] = "idle" /\ outcome'[c] = "unsent"
    <3>1. Results' = [Results EXCEPT ![c] = "refused"]
      BY <1>6, <2>5 DEF Outcomes
    <3>2. OpenCalls' = OpenCalls
      <4>1. \A n : n \in OpenCalls' <=> n \in OpenCalls
        BY <1>3, <1>4, <2>1, <2>5 DEF Unsent
      <4> QED
        BY <4>1, SameSet
    <3> QED
      BY <2>1, <2>2, <3>1, <3>2, CallBegun
  <2> QED
    BY <2>1, <2>4, <2>5
<1>9. CASE LoadId(c) \/ StoreId(c) \/ SendToNull(c) \/ Register(c) \/ AwaitBlocks(c)
             \/ SpuriousWakeup(c)
  <2>1. UNCHANGED <<issued, call, executed, outcome, c2s>>
    BY <1>9 DEF LoadId, StoreId, SendToNull, Register, AwaitBlocks, SpuriousWakeup
  <2>2. pc'[c] = "idle" <=> pc[c] = "idle"
    BY <1>2, <1>9 DEF LoadId, StoreId, SendToNull, Register, AwaitBlocks, SpuriousWakeup, Goto
  <2>3. pc'[c] \in Unsent => pc[c] \in Unsent
    BY <1>2, <1>9 DEF LoadId, StoreId, SendToNull, Register, AwaitBlocks, SpuriousWakeup, Goto,
                      Unsent
  <2> QED
    BY <1>1, <2>1, <2>2, <2>3, RequestsAreOpen, CalmIsLost
<1>10. CASE Send(c)
  <2> PICK rq \in Requests : rq = [id |-> cmdId[c], call |-> call[c], watch |-> watch[c]]
    BY DEF TypeOK, Requests
  <2>1. /\ pc[c] = "send" /\ pc'[c] = "register"
        /\ c2s' = c2s \/ c2s' = Append(c2s, rq)
        /\ UNCHANGED <<issued, call, executed, outcome>>
    BY <1>2, <1>10 DEF Send, Goto
  <2>2. \A i \in 1 .. Len(c2s') : \/ i \in 1 .. Len(c2s) /\ c2s'[i] = c2s[i]
                                  \/ c2s'[i] = rq
    BY <1>2, <2>1
  <2>3. rq.call = call[c] /\ pc[c] \in Unsent
    BY <2>1 DEF Unsent
  <2>4. \A i \in 1 .. Len(c2s') : c2s'[i].call \in OpenCalls
    BY <1>3, <2>2, <2>3
  <2>5. pc'[c] \notin Unsent
    BY <2>1 DEF Unsent
  <2> QED
    BY <1>1, <2>1, <2>4, <2>5, CalmIsLost
<1>11. CASE SendThrows(c)
  <2>1. /\ pc[c] = "send" /\ pc'[c] = "idle" /\ outcome'[c] = "threw"
        /\ UNCHANGED <<issued, call, executed, c2s>>
    BY <1>2, <1>11 DEF SendThrows, Goto, Return
  <2>2. \A i \in 1 .. Len(c2s) : c2s[i].call < issued
    BY <2>1 DEF CallInv, Sequenced, Recent, Unsent
  <2>3. call[c] \in OpenCalls
    BY <1>3, <2>1 DEF Unsent
  <2>4. OpenCalls' = OpenCalls \ {call[c]}
    <3>1. \A i \in 1 .. Len(c2s) : c2s[i].call # call[c]
      BY <1>2, <1>7, <2>2, TrafficTypes
    <3> QED
      BY <1>3, <1>4, <2>1, <3>1 DEF Unsent
  <2>5. Results' = [Results EXCEPT ![c] = "refused"]
    BY <1>6, <2>1 DEF Outcomes
  <2> QED
    BY <1>5, <2>1, <2>3, <2>4, <2>5, CallReturned
<1>12. CASE AwaitAborted(c)
  <2>1. /\ pc[c] = "await" /\ pc'[c] = "idle" /\ outcome'[c] = "aborted"
        /\ UNCHANGED <<issued, call, executed, c2s>>
    BY <1>2, <1>12 DEF AwaitAborted, Goto, Return
  <2>2. OpenCalls' = OpenCalls
    <3>1. \A n : n \in OpenCalls' <=> n \in OpenCalls
      BY <1>3, <1>4, <2>1 DEF Unsent
    <3> QED
      BY <3>1, SameSet
  <2>3. Results' = [Results EXCEPT ![c] = "unknown"]
    BY <1>6, <2>1 DEF Outcomes
  <2> QED
    BY <1>5, <2>1, <2>2, <2>3, CallReturned
<1>13. CASE AwaitAnswered(c)
  <2>1. PICK r \in replies : r.id = cmdId[c] /\ Return(c, IF r.ok THEN "ok" ELSE "failed")
    BY <1>13 DEF AwaitAnswered
  <2>2. /\ pc[c] = "await" /\ pc'[c] = "idle"
        /\ outcome'[c] = IF r.ok THEN "ok" ELSE "failed"
        /\ UNCHANGED <<issued, call, executed, c2s>>
    BY <1>2, <1>13, <2>1 DEF AwaitAnswered, Goto, Return
  <2>3. r \in Answers
    BY DEF Answers
  <2>4. r.call = call[c]
    BY <2>1, <2>2, <2>3 DEF CallInv, Sequenced, Recent, Sent
  <2>5. OpenCalls' = OpenCalls
    <3>1. \A n : n \in OpenCalls' <=> n \in OpenCalls
      BY <1>3, <1>4, <2>2 DEF Unsent
    <3> QED
      BY <3>1, SameSet
  <2>6. r.ok => call[c] \in executed
    BY <2>4 DEF SuccessInv, Inside
  <2>7. ~r.ok => call[c] \notin OpenCalls \cup executed
    <3>1. \A i \in 1 .. Len(c2s) : r.call < c2s[i].call /\ r.call \in Nat /\ c2s[i].call \in Nat
      BY <2>3, TrafficTypes DEF CallInv, Sequenced
    <3>2. \A i \in 1 .. Len(c2s) : call[c] # c2s[i].call
      BY <2>4, <3>1
    <3>3. ~r.ok => r.call \notin executed
      BY <2>3 DEF CallInv, Sequenced
    <3> QED
      BY <1>3, <2>2, <2>4, <3>2, <3>3 DEF Unsent
  <2>8. Results' = [Results EXCEPT ![c] = IF r.ok THEN "ok" ELSE "failed"]
    BY <1>6, <2>2 DEF Outcomes
  <2>9. CASE r.ok
    <3>1. Results' = [Results EXCEPT ![c] = "ok"]
      BY <2>8, <2>9
    <3> QED
      BY <1>5, <2>2, <2>5, <2>6, <2>9, <3>1, CallReturned
  <2>10. CASE ~r.ok
    <3>1. Results' = [Results EXCEPT ![c] = "failed"]
      BY <2>8, <2>10
    <3> QED
      BY <1>5, <2>2, <2>5, <2>7, <2>10, <3>1, CallReturned
  <2> QED
    BY <2>9, <2>10
<1> QED
  BY <1>8, <1>9, <1>10, <1>11, <1>12, <1>13 DEF CallerStep

\* The steps of the server are steps of the contract: it executes the oldest
\* request, or answers it without success, and no request comes twice.
LEMMA ServerKeepsContract ==
    ASSUME TypeOK, TypeOK', CallInv, ServerAnswers \/ ServerStep
    PROVE  Contract!Next
<1> USE DEF shared, calls, link, world
<1>1. CASE ServerAnswers
  <2>1. PICK rsp \in Messages :
             /\ Answers' \subseteq Answers \cup {rsp}
             /\ rsp.id = c2s[1].id /\ rsp.call = c2s[1].call
             /\ executed' = IF rsp.ok THEN executed \cup {c2s[1].call} ELSE executed
             /\ UNCHANGED <<shared, calls>> /\ issued' = issued
             /\ 1 \in 1 .. Len(c2s) /\ Len(c2s') = Len(c2s) - 1 /\ Len(c2s) \in Nat
             /\ \A i \in 1 .. Len(c2s') : i + 1 \in 1 .. Len(c2s) /\ c2s'[i] = c2s[i + 1]
    BY <1>1, AnswerGiven
  <2>2. \A i \in 1 .. Len(c2s') : c2s'[i].call \in OpenCalls
    BY <2>1, OpenCallsAre
  <2>3. CASE ~rsp.ok
    BY <2>1, <2>2, <2>3, CalmIsLost
  <2>4. CASE rsp.ok
    <3>1. c2s[1].call \in OpenCalls
      BY <2>1, OpenCallsAre
    <3>2. \A i \in 1 .. Len(c2s') : c2s'[i].call # c2s[1].call
      <4>1. \A i \in 1 .. Len(c2s') : 1 < i + 1
        BY <2>1
      <4>2. \A i \in 1 .. Len(c2s') : c2s[1].call < c2s'[i].call
        BY <2>1, <4>1 DEF CallInv, Sequenced
      <4> QED
        BY <2>1, <4>2, TrafficTypes
    <3>3. \A c \in Callers : pc[c] \in Unsent => call[c] # c2s[1].call
      <4>1. \A c \in Callers : pc[c] \in Unsent => c2s[1].call < issued /\ call[c] = issued
        BY <2>1 DEF CallInv, Sequenced, Recent, Numbered
      <4> QED
        BY <2>1, <4>1, TrafficTypes
    <3>4. \A i \in 1 .. Len(c2s) : i = 1 \/ (i - 1 \in 1 .. Len(c2s') /\ c2s'[i - 1] = c2s[i])
      BY <2>1
    <3>5. UNCHANGED <<pc, call, outcome>>
      BY <2>1
    <3>6. OpenCalls' = OpenCalls \ {c2s[1].call}
      BY <2>1, <3>2, <3>3, <3>4, <3>5, OpenCallsAre
    <3>7. Results' = Results
      BY <3>5 DEF Results
    <3> QED
      BY <2>1, <2>4, <3>1, <3>5, <3>6, <3>7, CallExecuted
  <2> QED
    BY <2>3, <2>4
<1>2. CASE ServerStep
  <2>1. /\ UNCHANGED <<issued, call, executed, outcome, pc>>
        /\ c2s' = c2s \/ c2s' = <<>>
    BY <1>2 DEF ServerStep, ServerSpeaks, ServerCloses
  <2> QED
    BY <2>1, RequestsAreOpen, CalmIsLost
<1> QED
  BY <1>1, <1>2

\* The library keeps the contract that the caller relies on (RemoteCalls): a
\* call is executed at most once, ok and failed are the truth about that very
\* call, and one that was refused or threw is never executed later.
THEOREM ContractKept ==
    ASSUME OneCaller, FewCalls
    PROVE  Spec => KeepsContract
<1>1. ASSUME Init PROVE Contract!Init
  <2>1. \A i \in DOMAIN <<>> : FALSE
    OBVIOUS
  <2>2. OpenCalls = {}
    BY <1>1, <2>1 DEF Init, OpenCalls
  <2>3. Results = [c \in Callers |-> "ok"]
    BY <1>1 DEF Init, Results
  <2> QED
    BY <1>1, <2>2, <2>3, StartOfContract DEF Init
<1>2. TypeOK /\ TypeOK' /\ SuccessInv /\ CallInv /\ [Next]_vars
        => Contract!Next
  <2> SUFFICES ASSUME TypeOK, TypeOK', SuccessInv, CallInv, [Next]_vars
               PROVE  Contract!Next
    OBVIOUS
  <2>1. CASE UNCHANGED vars
    <3>1. UNCHANGED <<issued, call, executed, outcome, pc, c2s>>
      BY <2>1 DEF vars, calls, link, world
    <3> QED
      BY <3>1, RequestsAreOpen, CalmIsLost
  <2>2. CASE Connect \/ Disconnect \/ OwnerStep \/ ServiceStep
    <3>1. /\ UNCHANGED <<issued, call, executed, outcome>>
          /\ \A c \in Callers : pc'[c] = pc[c] \/ (pc[c] \in Sent /\ pc'[c] \in Sent)
          /\ c2s' = c2s \/ c2s' = <<>>
      BY <2>2, ThreadsPassAnswers
    <3>2. \A c \in Callers : /\ pc'[c] = "idle" <=> pc[c] = "idle"
                             /\ pc'[c] \in Unsent => pc[c] \in Unsent
      BY <3>1 DEF Sent, Unsent
    <3> QED
      BY <3>1, <3>2, RequestsAreOpen, CalmIsLost
  <2> QED
    BY <2>1, <2>2, CallerKeepsContract, ServerKeepsContract DEF Next
<1> QED
  BY <1>1, <1>2, TypeCorrect, SuccessInvariant, CallInvariant,
     PTL DEF Spec, KeepsContract, Contract!Spec
=============================================================================
