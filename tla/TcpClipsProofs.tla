--------------------------- MODULE TcpClipsProofs --------------------------
(* Theorems about the library, the server and other programs together: for *)
(* any number of callers, connections, other programs and messages.        *)
EXTENDS TcpClips, ClipsServerProofs

-----------------------------------------------------------------------------
(* Types of what the library and its connections hold.                     *)

LibraryTypes ==
    /\ attempts \in 0 .. MaxConnects
    /\ socketPtr \in {"null", "new", "failed", "connected"}
    /\ lastCommandId \in C!Ids
    /\ cmdId \in [Callers -> C!Ids]
    /\ call \in [Callers -> Nat]
    /\ watch \in [Callers -> BOOLEAN]
    /\ issued \in Nat /\ published \in Nat /\ unasked \in 0 .. MaxUnasked /\ clipsStatus \in Nat
    /\ s2c \in Seq(C!Messages)
    /\ reqs \in [Connections -> Seq(C!Requests)]

(* Where the socket of the library and the connections are: the latest one *)
(* is the only one that may be open, and it is while the library has it.   *)
Places ==
    /\ own = "connecting" => socketPtr = "new" /\ attempts \in Connections
    /\ Connected => attempts \in Connections /\ conn[attempts] # "off"
    /\ \A k \in Connections :
          /\ k > attempts => conn[k] = "off"
          /\ alive /\ conn[k] = "open" => k = attempts /\ Connected
    /\ \A e \in Endpoints : conn[e] = "off" => session[e] = "none"

\* The library sends what it was asked for, and commands only.
Asked ==
    \A k \in Connections :
        /\ Len(reqs[k]) = Len(sent[k])
        /\ \A n \in 1 .. Len(sent[k]) :
              /\ sent[k][n] \notin {"show", "fact"}
              /\ reqs[k][n].watch <=> sent[k][n] = "toggle"

LEMMA Numbers ==
    /\ IdSpace \in Nat /\ IdSpace > 0 /\ C!Ids \subseteq Nat
    /\ 0 \in C!Ids /\ C!CommandIdNone \in C!Ids
    /\ \A n \in Nat : n % IdSpace \in C!Ids
    /\ MaxConnects \in Nat /\ Connections \subseteq Endpoints /\ Connections \subseteq Nat
<1>1. IdSpace \in Nat /\ IdSpace > 0
  BY SystemAssumption
<1>2. \A n \in Nat : n % IdSpace \in 0 .. IdSpace - 1
  BY <1>1
<1> QED
  BY <1>1, <1>2, SystemAssumption DEF C!Ids, C!CommandIdNone, Connections

\* What a step of a calling thread leaves alone.
LEMMA CallerMoves ==
    ASSUME LibraryTypes, NEW c \in Callers, Caller(c)
    PROVE  /\ UNCHANGED <<vars, reqs, executed, socketPtr, attempts, own, clipsStatus, s2c,
                          published, unasked>>
           /\ lastCommandId' \in C!Ids /\ cmdId' \in [Callers -> C!Ids] /\ issued' \in Nat
           /\ call' \in [Callers -> Nat] /\ watch' \in [Callers -> BOOLEAN]
<1> USE DEF ServerStays, SameSocket, C!shared, C!calls, C!link, C!world, LibraryTypes
<1>1. /\ UNCHANGED <<vars, reqs, executed, socketPtr, attempts>>
  BY DEF Caller
<1>2. CASE C!LoadId(c)
  <2>1. (lastCommandId + 1) % IdSpace \in C!Ids
    BY Numbers
  <2> QED
    BY <1>1, <1>2, <2>1 DEF C!LoadId
<1>3. CASE C!StoreId(c)
  BY <1>1, <1>3 DEF C!StoreId
<1>4. CASE C!SendToNull(c) \/ C!SendThrows(c) \/ C!Register(c)
  BY <1>1, <1>4 DEF C!SendToNull, C!SendThrows, C!Register
<1>5. CASE C!AwaitBlocks(c) \/ C!AwaitAborted(c) \/ C!AwaitAnswered(c) \/ C!SpuriousWakeup(c)
  BY <1>1, <1>5 DEF C!AwaitBlocks, C!AwaitAborted, C!AwaitAnswered, C!SpuriousWakeup
<1>6. CASE \E w \in BOOLEAN : C!Call(c, w)
  BY <1>1, <1>6 DEF C!Call
<1> QED
  BY <1>2, <1>3, <1>4, <1>5, <1>6 DEF Caller

\* What a step of the owner alone does: it begins to connect, or fails to.
LEMMA OwnerMoves ==
    ASSUME Owner
    PROVE  /\ UNCHANGED <<vars, reqs, executed, lastCommandId, cmdId, call, watch, issued,
                          clipsStatus, s2c, published, unasked>>
           /\ \/ /\ socketPtr = "null" /\ socketPtr' = "new" /\ own' = "connecting"
                 /\ attempts < MaxConnects /\ attempts' = attempts + 1
              \/ /\ own = "connecting" /\ socketPtr' = "failed" /\ own' = "idle"
                 /\ attempts' = attempts
              \/ UNCHANGED <<socketPtr, attempts>> /\ own' # "connecting"
<1> USE DEF ServerStays, SameSocket, C!shared, C!calls, C!link, C!world
<1>1. /\ UNCHANGED <<vars, reqs, executed>>
  BY DEF Owner
<1>2. CASE C!Connect
  BY <1>1, <1>2 DEF C!Connect
<1>3. CASE C!ConnectFails
  BY <1>1, <1>3 DEF C!ConnectFails
<1>4. CASE SameSocket /\ (C!StartService \/ C!KeepThread \/ (socketPtr # "null" /\ C!Disconnect)
                          \/ C!OwnerJoins)
  BY <1>1, <1>4 DEF C!StartService, C!KeepThread, C!Disconnect, C!OwnerJoins
<1>5. CASE SameSocket /\ (C!OwnerAborts \/ C!OwnerReleases \/ C!OwnerStopsService)
  BY <1>1, <1>5 DEF C!OwnerAborts, C!OwnerReleases, C!OwnerStopsService, C!ClearPending,
                    C!ReleaseAll, C!StopService
<1> QED
  BY <1>2, <1>3, <1>4, <1>5 DEF Owner

\* What a step of the service thread does: it may take the next message.
LEMMA ServiceMoves ==
    ASSUME ServiceThread
    PROVE  /\ UNCHANGED <<vars, reqs, executed, socketPtr, attempts, own, lastCommandId, cmdId,
                          call, watch, issued, published, unasked>>
           /\ \/ UNCHANGED <<s2c, clipsStatus>>
              \/ /\ s2c # <<>> /\ s2c' = Tail(s2c)
                 /\ \/ clipsStatus' = IF Head(s2c).kind = "status" /\ Head(s2c).ok
                                      THEN Head(s2c).report ELSE clipsStatus
                    \/ Head(s2c).id # C!CommandIdNone /\ clipsStatus' = clipsStatus
<1> USE DEF ServerStays, SameSocket, C!shared, C!calls, C!link, C!world
<1>1. /\ UNCHANGED <<vars, reqs, executed, socketPtr, attempts>>
  BY DEF ServiceThread
<1>2. CASE C!HandleEvent \/ C!TakeResponse
  BY <1>1, <1>2 DEF C!HandleEvent, C!TakeResponse, C!Reading, C!IsReport
<1>3. CASE \/ C!StoreResponse \/ C!NotifyCallers \/ C!Rearm \/ C!LoseStep \/ C!ReadFails
           \/ C!ServiceExits \/ C!ServiceFindsNoThread
  BY <1>1, <1>3 DEF C!StoreResponse, C!NotifyCallers, C!Rearm, C!LoseStep, C!ReadFails,
                    C!ServiceExits, C!ServiceFindsNoThread
<1>4. CASE C!ServiceAborts \/ C!ServiceReleases \/ C!ServiceStopsService \/ C!ServiceJoinsItself
  BY <1>1, <1>4 DEF C!ServiceAborts, C!ServiceReleases, C!ServiceStopsService, C!ServiceJoinsItself,
                    C!ClearPending, C!ReleaseAll, C!StopService
<1> QED
  BY <1>2, <1>3, <1>4 DEF ServiceThread

\* What a step that touches the connection leaves alone in the library.
LEMMA SendMoves ==
    ASSUME NEW c \in Callers, Send(c)
    PROVE  /\ UNCHANGED <<socketPtr, attempts, own, executed, lastCommandId, cmdId, call, watch,
                          issued, clipsStatus, s2c, published, unasked>>
           /\ Connected
           /\ IF LinkUp
              THEN /\ \E op \in Asks(watch[c]) : ClientSends(attempts, op)
                   /\ reqs' = [reqs EXCEPT ![attempts] = Append(@, RequestOf(c))]
              ELSE UNCHANGED <<vars, reqs>>
  BY DEF Send, Sends, SameSocket, C!Send, C!shared, C!calls, C!link, C!world

LEMMA ConnectsMoves ==
    ASSUME Connects
    PROVE  /\ UNCHANGED <<attempts, reqs, executed, lastCommandId, cmdId, call, watch, issued,
                          clipsStatus, published, unasked>>
           /\ ClientConnects(attempts)
           /\ own = "connecting" /\ own' = "start" /\ socketPtr' = "connected" /\ s2c' = <<>>
  BY DEF Connects, Opens, C!ConnectSucceeds, C!calls, C!world

LEMMA DropsMoves ==
    ASSUME Drops
    PROVE  /\ UNCHANGED <<attempts, reqs, executed, lastCommandId, cmdId, call, watch, issued,
                          clipsStatus, published, unasked>>
           /\ IF LinkUp THEN ClientCloses(attempts) \/ ClientResets(attempts)
              ELSE UNCHANGED vars
           /\ own' = "idle" \/ (own' = own /\ Connected)
           /\ socketPtr' = "null" /\ s2c' = <<>>
  BY DEF Drops, Closes, C!OwnerDropsSocket, C!ServiceDropsSocket, C!calls, C!world

\* What the server and the network do leaves the library as it is.
ServerMoves == ParseAndAnswer \/ ServerAlone \/ ConnectionLost

LEMMA LibraryMoves ==
    ASSUME ServerMoves
    PROVE  /\ clientAlive /\ UNCHANGED <<library, reqs>>
           /\ \/ ServerStep /\ Hears
              \/ LinkUp /\ ClientResets(attempts) /\ UNCHANGED <<executed, hears>>
  BY DEF ServerMoves, ParseAndAnswer, ServerAlone, ConnectionLost, LibraryStays, ServerStep

\* Seen from the server, every step is one of its own or of its remote ends.
LEMMA ServerSteps ==
    ASSUME LibraryTypes, Places, [SystemNext]_system
    PROVE  [Next]_vars
<1>1. CASE ServerMoves
  <2>1. CASE ServerStep
    BY <2>1 DEF Next
  <2>2. CASE LinkUp /\ ClientResets(attempts)
    BY <2>2, Numbers DEF LinkUp, Places, Next, ClientStep
  <2> QED
    BY <1>1, <2>1, <2>2, LibraryMoves
<1>2. ASSUME NEW c \in Callers, Send(c) PROVE [Next]_vars
  <2>1. \A w \in BOOLEAN : Asks(w) \subseteq Operations
    BY SystemAssumption DEF Asks
  <2>2. attempts \in Endpoints /\ watch[c] \in BOOLEAN
    BY <1>2, SendMoves, Numbers DEF Places, LibraryTypes
  <2> QED
    BY <1>2, <2>1, <2>2, SendMoves DEF Next, ClientStep
<1>3. CASE Connects
  BY <1>3, ConnectsMoves, Numbers DEF Places, Next, ClientStep
<1>4. CASE Drops
  <2>1. LinkUp => attempts \in Endpoints
    BY Numbers DEF LinkUp, Places
  <2> QED
    BY <1>4, <2>1, DropsMoves DEF Next, ClientStep
<1>5. CASE (\E c \in Callers : Caller(c)) \/ Owner \/ ServiceThread
  BY <1>5 DEF Caller, Owner, ServiceThread, ServerStays
<1>6. CASE UNCHANGED system
  BY <1>6 DEF system
<1> QED
  BY <1>1, <1>2, <1>3, <1>4, <1>5, <1>6 DEF SystemNext, ServerMoves

-----------------------------------------------------------------------------
(* What is known of the server holds of it here, although others have      *)
(* connected before.                                                       *)

ServerInv == TypeOK /\ OrderInv /\ AckInv /\ Unused /\ NothingLost /\ StatusTold

\* Short sequences.
LEMMA NoElement ==
    ASSUME NEW D, NEW s, s = <<>>
    PROVE  s \in Seq(D) /\ Len(s) = 0 /\ DOMAIN s = {} /\ 1 .. Len(s) = {}
<1>1. Len(s) = 0 /\ s \in Seq(D) /\ DOMAIN s = {}
  OBVIOUS
<1>2. 1 .. 0 = {}
  OBVIOUS
<1> QED
  BY <1>1, <1>2

LEMMA OneElement ==
    ASSUME NEW D, NEW x \in D, NEW s, s = <<x>>
    PROVE  s \in Seq(D) /\ Len(s) = 1 /\ s[1] = x /\ DOMAIN s = {1} /\ 1 .. Len(s) = {1}
<1>1. Len(s) = 1 /\ s \in Seq(D) /\ s[1] = x /\ DOMAIN s = 1 .. 1
  OBVIOUS
<1>2. 1 .. 1 = {1}
  OBVIOUS
<1> QED
  BY <1>1, <1>2

LEMMA ServerInvInit ==
    ASSUME SystemInit
    PROVE  ServerInv
<1> DEFINE First(e) == [src |-> e, n |-> 1, op |-> sent[e][1]]
<1>1. ASSUME NEW e \in Endpoints, e \in Connections
      PROVE  /\ sent[e] = <<>> /\ inbox[e] = <<>> /\ outbox[e] = <<>>
             /\ conn[e] = "off" /\ session[e] = "none"
  <2>1. sent[e] = <<>> /\ outbox[e] = <<>> /\ conn[e] = "off" /\ session[e] = "none"
    BY <1>1 DEF SystemInit, Others
  <2>2. inbox[e] = [n \in {} |-> [src |-> e, n |-> n, op |-> sent[e][n]]]
    BY <2>1 DEF SystemInit
  <2>3. inbox[e] = <<>>
    BY <2>2
  <2> QED
    BY <2>1, <2>3
<1>2. ASSUME NEW e \in Endpoints, e \notin Connections
      PROVE  /\ Len(sent[e]) = 1 /\ sent[e][1] \in Operations /\ sent[e] \in Seq(Operations)
             /\ inbox[e] = <<First(e)>>
             /\ outbox[e] = <<StatusMessage>> /\ conn[e] = "open" /\ session[e] = "live"
  <2>1. sent[e] # <<>> /\ outbox[e] = <<StatusMessage>> /\ conn[e] = "open" /\ session[e] = "live"
    BY <1>2 DEF SystemInit, Others
  <2>2. PICK op \in Operations : sent[e] = <<op>>
    BY <2>1, SystemAssumption DEF SystemInit
  <2>3. Len(sent[e]) = 1 /\ sent[e][1] = op /\ DOMAIN sent[e] = 1 .. 1 /\ sent[e] \in Seq(Operations)
    BY <2>2
  <2>4. inbox[e] = [n \in 1 .. 1 |-> [src |-> e, n |-> n, op |-> sent[e][n]]]
    BY <2>3 DEF SystemInit
  <2>5. inbox[e] = <<First(e)>>
    BY <2>4
  <2> QED
    BY <2>1, <2>3, <2>5
<1> HIDE DEF First
<1>3. ASSUME NEW e \in Endpoints
      PROVE  /\ Len(sent[e]) \in {0, 1} /\ Len(inbox[e]) = Len(sent[e]) /\ Len(outbox[e]) <= 1
             /\ \A i \in 1 .. Len(inbox[e]) : i = 1 /\ inbox[e][i] = First(e)
             /\ \A i \in 1 .. Len(outbox[e]) : outbox[e][i] = StatusMessage
             /\ conn[e] = "off" => Len(sent[e]) = 0
             /\ sent[e] \in Seq(Operations) /\ inbox[e] \in Seq(Received)
             /\ outbox[e] \in Seq(Sendable)
  <2>1. CASE e \in Connections
    <3>1. sent[e] \in Seq(Operations) /\ Len(sent[e]) = 0
      BY <1>1, <2>1, NoElement
    <3>2. inbox[e] \in Seq(Received) /\ Len(inbox[e]) = 0 /\ 1 .. Len(inbox[e]) = {}
      BY <1>1, <2>1, NoElement
    <3>3. outbox[e] \in Seq(Sendable) /\ Len(outbox[e]) = 0 /\ 1 .. Len(outbox[e]) = {}
      BY <1>1, <2>1, NoElement
    <3> QED
      BY <3>1, <3>2, <3>3
  <2>2. CASE e \notin Connections
    <3>1. First(e) \in Received /\ StatusMessage \in Sendable
      BY <1>2, <2>2 DEF First, Received, StatusMessage, Sendable
    <3>2. /\ inbox[e] \in Seq(Received) /\ Len(inbox[e]) = 1 /\ inbox[e][1] = First(e)
          /\ 1 .. Len(inbox[e]) = {1}
      BY <1>2, <2>2, <3>1, OneElement
    <3>3. /\ outbox[e] \in Seq(Sendable) /\ Len(outbox[e]) = 1 /\ outbox[e][1] = StatusMessage
          /\ 1 .. Len(outbox[e]) = {1}
      BY <1>2, <2>2, <3>1, OneElement
    <3> QED
      BY <1>2, <2>2, <3>2, <3>3
  <2> QED
    BY <2>1, <2>2
<1>4. /\ alive = TRUE /\ queue = <<>> /\ mode = "poll" /\ watching = FALSE /\ clppath \in Paths
      /\ silent = FALSE /\ capturing = FALSE
      /\ told = [e \in Endpoints |-> CurrentStatus]
      /\ CurrentStatus = [watching |-> watching, path |-> clppath]
  BY DEF SystemInit, CurrentStatus
<1>5. TypeOK
  <2>1. CurrentStatus \in Status
    BY <1>4 DEF Status
  <2>2. /\ session \in [Endpoints -> {"none", "live", "gone"}]
        /\ conn \in [Endpoints -> {"off", "open", "closed", "reset"}]
        /\ inbox \in [Endpoints -> Seq(Received)] /\ outbox \in [Endpoints -> Seq(Sendable)]
        /\ sent \in [Endpoints -> Seq(Operations)]
    BY <1>3 DEF SystemInit
  <2>3. queue \in Seq(Received)
    BY <1>4
  <2> QED
    BY <1>4, <2>1, <2>2, <2>3 DEF TypeOK
<1>6. Len(queue) = 0 /\ \A i \in 1 .. 0 : FALSE
  BY <1>4
<1>7. StatusMessage.kind # "ack"
  BY DEF StatusMessage
<1>8. OrderInv
  <2>1. ASSUME NEW e \in Endpoints PROVE InboxOrder(e) /\ Answered(e, outbox[e], queue)
    <3>1. Increasing(inbox[e])
      BY <1>3 DEF Increasing
    <3>2. Before(queue, inbox[e]) /\ Answered(e, outbox[e], queue)
      BY <1>6 DEF Before, Answered
    <3>3. Answered(e, outbox[e], inbox[e])
      BY <1>3, <1>7 DEF Answered
    <3>4. ASSUME NEW i \in 1 .. Len(inbox[e])
          PROVE  Genuine(inbox[e][i], sent) /\ inbox[e][i].src = e
      <4>1. i = 1 /\ inbox[e][i] = First(e) /\ Len(sent[e]) = 1
        BY <1>3
      <4> QED
        BY <4>1 DEF First, Genuine
    <3> QED
      BY <3>1, <3>2, <3>3, <3>4 DEF InboxOrder
  <2>2. Increasing(queue) /\ \A i \in 1 .. Len(queue) : Genuine(queue[i], sent)
    BY <1>6 DEF Increasing
  <2> QED
    BY <2>1, <2>2 DEF OrderInv
<1>9. AckInv
  BY <1>3, <1>7 DEF AckInv
<1>10. Unused /\ StatusTold
  BY <1>3, <1>4 DEF Unused, StatusTold, clients
<1>11. NothingLost
  <2> SUFFICES ASSUME NEW e \in Endpoints, NEW n \in DOMAIN sent[e]
               PROVE  Waits(inbox[e], e, n)
    BY DEF NothingLost
  <2>1. Len(sent[e]) = 1 /\ n = 1 /\ Len(inbox[e]) = 1 /\ DOMAIN inbox[e] = 1 .. 1
    <3>1. DOMAIN sent[e] = 1 .. Len(sent[e]) /\ DOMAIN inbox[e] = 1 .. Len(inbox[e])
      BY <1>3
    <3>2. Len(sent[e]) \in {0, 1} /\ Len(inbox[e]) = Len(sent[e])
      BY <1>3
    <3>3. Len(sent[e]) = 1
      BY <3>1, <3>2
    <3> QED
      BY <3>1, <3>2, <3>3
  <2>2. inbox[e][1] = First(e)
    BY <1>3, <2>1
  <2> QED
    BY <2>1, <2>2 DEF First, Waits
<1> QED
  BY <1>5, <1>8, <1>9, <1>10, <1>11 DEF ServerInv

LEMMA ServerInvStep ==
    ASSUME LibraryTypes, Places, ServerInv, [SystemNext]_system
    PROVE  ServerInv'
  BY ServerSteps, StepTypes, StepKeepsOrder, StepKeepsUnused, StepLosesNothing, StepTells
     DEF ServerInv

-----------------------------------------------------------------------------
(* What the library hears of a step of the server.                         *)

\* What the server writes before, or without, an acknowledgement.
Spoken(kind) ==
    IF kind = "nothing" THEN <<>> ELSE IF kind = "text" THEN <<Text>> ELSE <<StatusMessage>>

LEMMA SpokenTypes ==
    ASSUME NEW kind \in C!Unasked
    PROVE  /\ Spoken(kind) \in Seq(Sendable)
           /\ DOMAIN Spoken(kind) = IF kind = "nothing" THEN {} ELSE {1}
           /\ Len(Spoken(kind)) = IF kind = "nothing" THEN 0 ELSE 1
           /\ kind # "nothing" =>
                  Spoken(kind)[1] = IF kind = "text" THEN Text ELSE StatusMessage
<1>1. CASE kind = "nothing"
  <2>1. Spoken(kind) = <<>>
    BY <1>1 DEF Spoken
  <2> QED
    BY <1>1, <2>1, NoElement
<1>2. CASE kind = "text"
  <2>1. Spoken(kind) = <<Text>>
    BY <1>2 DEF Spoken
  <2> QED
    BY <1>2, <2>1, OneElement, SendableTypes
<1>3. CASE kind = "report"
  <2>1. Spoken(kind) = <<StatusMessage>>
    BY <1>3 DEF Spoken
  <2> QED
    BY <1>3, <2>1, OneElement, SendableTypes
<1> QED
  BY <1>1, <1>2, <1>3 DEF C!Unasked

\* The end of what was written to the library.
LEMMA WrittenIs ==
    ASSUME attempts \in Connections, NEW s \in Seq(Sendable),
    outbox[attempts] \in Seq(Sendable),
           outbox'[attempts] = outbox[attempts] \o s
    PROVE  Written = s
<1> DEFINE old == outbox[attempts]
           n == Len(old)
           w == SubSeq(old \o s, n + 1, Len(old \o s))
<1>1. /\ n \in Nat /\ Len(s) \in Nat /\ Len(old \o s) = n + Len(s)
      /\ old \o s \in Seq(Sendable)
      /\ \A i \in 1 .. Len(s) : (old \o s)[n + i] = s[i]
  OBVIOUS
<1>2. Len(w) = Len(s) /\ w \in Seq(Sendable)
  BY <1>1
<1>3. \A i \in 1 .. Len(s) : w[i] = s[i]
  <2> SUFFICES ASSUME NEW i \in 1 .. Len(s) PROVE w[i] = s[i]
    OBVIOUS
  <2>1. w[i] = (old \o s)[n + 1 + i - 1] /\ n + 1 + i - 1 = n + i
    BY <1>1
  <2> QED
    BY <1>1, <2>1
<1>4. Written = w
  <2>1. attempts # 0
    BY SystemAssumption DEF Connections
  <2> QED
    BY <2>1 DEF Written
<1> HIDE DEF w
<1>5. w = s
  BY <1>2, <1>3, SeqEqual
<1> QED
  BY <1>4, <1>5

LEMMA HeardAssociates ==
    \A s, t, u \in Seq(C!Messages) : s \o (t \o u) = s \o t \o u
  OBVIOUS

LEMMA PublishedCounts ==
    ASSUME LibraryTypes, NEW kind, NEW asked, C!Counts(kind, asked)
    PROVE  published' \in Nat /\ unasked' \in 0 .. MaxUnasked
  BY SystemAssumption DEF LibraryTypes, C!Counts

LEMMA SaidTypes ==
    ASSUME LibraryTypes, NEW kind \in C!Unasked, NEW asked, C!Counts(kind, asked)
    PROVE  /\ C!Says(kind) \in Seq(C!Messages)
           /\ Len(C!Says(kind)) = IF kind = "nothing" THEN 0 ELSE 1
           /\ kind # "nothing" =>
                 C!Says(kind)[1] = IF kind = "text" THEN C!Text ELSE C!Report(published')
<1>1. C!Text \in C!Messages
  BY Numbers DEF C!Text, C!Blank, C!Messages
<1>2. C!Report(published') \in C!Messages
  BY Numbers, PublishedCounts DEF C!Report, C!Messages
<1>3. CASE kind = "nothing"
  <2>1. C!Says(kind) = <<>>
    BY <1>3 DEF C!Says
  <2> QED
    BY <1>3, <2>1, NoElement
<1>4. CASE kind # "nothing"
  <2> DEFINE m == IF kind = "text" THEN C!Text ELSE C!Report(published')
  <2>1. C!Says(kind) = <<m>> /\ m \in C!Messages
    BY <1>1, <1>2, <1>4 DEF C!Says
  <2> HIDE DEF m
  <2>2. /\ C!Says(kind) \in Seq(C!Messages) /\ Len(C!Says(kind)) = 1
        /\ C!Says(kind)[1] = m
    BY <2>1, OneElement
  <2> QED
    BY <1>4, <2>2 DEF m
<1> QED
  BY <1>3, <1>4

LEMMA SeenAs ==
    ASSUME NEW n
    PROVE  Seen(Text, n) = C!Text /\ Seen(StatusMessage, n) = C!Report(n)
<1>1. IsReport(Text) = FALSE /\ Text.kind = "text"
  BY DEF IsReport, Text
<1>2. IsReport(StatusMessage) = TRUE /\ StatusMessage.kind = "status"
  BY DEF IsReport, StatusMessage
<1>3. Seen(Text, n) = C!Text
  BY <1>1 DEF Seen, C!Text, C!Blank
<1>4. Seen(StatusMessage, n) = C!Report(n)
  BY <1>2 DEF Seen, C!Report, C!CommandIdNone
<1> QED
  BY <1>3, <1>4

\* A report, a text, or nothing is heard and counted as such.
LEMMA HearsSpoken ==
    ASSUME LibraryTypes, Hears, NEW kind \in C!Unasked, Written = Spoken(kind)
    PROVE  C!Counts(kind, FALSE) /\ s2c' = s2c \o C!Says(kind)
<1>1. /\ DOMAIN Written = IF kind = "nothing" THEN {} ELSE {1}
      /\ kind # "nothing" => Written[1] = IF kind = "text" THEN Text ELSE StatusMessage
  BY SpokenTypes
<1>2. /\ Writes(IsReport) <=> kind = "report"
      /\ Writes(IsUnbidden) <=> kind # "nothing"
      /\ ~Writes(IsWatchAck)
  BY <1>1 DEF Writes, IsReport, IsUnbidden, IsWatchAck, Text, StatusMessage, C!Unasked
<1>3. C!Counts(kind, FALSE)
  BY <1>2 DEF Hears, C!Counts
<1>4. [i \in DOMAIN Written |-> Seen(Written[i], published')] = C!Says(kind)
  <2>1. CASE kind = "nothing"
    BY <1>1, <2>1 DEF C!Says
  <2>2. CASE kind = "text"
    <3>1. Seen(Written[1], published') = C!Text
      BY <1>1, <2>2, SeenAs
    <3> QED
      BY <1>1, <2>2, <3>1 DEF C!Says
  <2>3. CASE kind = "report"
    <3>1. Seen(Written[1], published') = C!Report(published')
      BY <1>1, <2>3, SeenAs
    <3> QED
      BY <1>1, <2>3, <3>1 DEF C!Says
  <2> QED
    BY <2>1, <2>2, <2>3 DEF C!Unasked
<1> QED
  BY <1>3, <1>4 DEF Hears

\* An acknowledgement is heard as the response to its request.
LEMMA HearsAnswer ==
    ASSUME LibraryTypes, Hears, attempts \in Connections, NEW kind \in C!Unasked,
           NEW n \in 1 .. Len(reqs[attempts]),
           Written = Spoken(kind) \o <<Ack(n)>>,
           reqs[attempts][n].watch => kind = "report"
    PROVE  LET rq == reqs[attempts][n] IN
           /\ C!Counts(kind, rq.watch)
           /\ s2c' = s2c \o C!Says(kind) \o
                <<C!Response(rq, rq.call \in executed', IF rq.watch THEN published' ELSE 0)>>
<1> DEFINE rq == reqs[attempts][n]
           said == C!Says(kind)
           answer == C!Response(rq, rq.call \in executed', IF rq.watch THEN published' ELSE 0)
           heard == [i \in DOMAIN Written |-> Seen(Written[i], published')]
<1>1. /\ Spoken(kind) \in Seq(Sendable)
      /\ Len(Spoken(kind)) = IF kind = "nothing" THEN 0 ELSE 1
      /\ kind # "nothing" => Spoken(kind)[1] = IF kind = "text" THEN Text ELSE StatusMessage
  BY SpokenTypes
<1>2. n \in Nat /\ Ack(n) \in Sendable
  BY SendableTypes
<1>3. /\ DOMAIN Written = IF kind = "nothing" THEN {1} ELSE {1, 2}
      /\ Written[Len(Spoken(kind)) + 1] = Ack(n)
      /\ kind # "nothing" => Written[1] = IF kind = "text" THEN Text ELSE StatusMessage
  <2> DEFINE s == Spoken(kind)
  <2> HIDE DEF s
  <2>1. /\ DOMAIN (s \o <<Ack(n)>>) = 1 .. Len(s) + 1
        /\ (s \o <<Ack(n)>>)[Len(s) + 1] = Ack(n)
        /\ Len(s) = 1 => (s \o <<Ack(n)>>)[1] = s[1]
    BY <1>1, <1>2 DEF s
  <2>2. 1 .. 0 + 1 = {1} /\ 1 .. 1 + 1 = {1, 2}
    OBVIOUS
  <2> QED
    BY <1>1, <2>1, <2>2 DEF s
<1>4. /\ Writes(IsReport) <=> kind = "report"
      /\ Writes(IsUnbidden) <=> kind # "nothing"
      /\ Writes(IsWatchAck) <=> rq.watch
  BY <1>1, <1>3 DEF Writes, IsReport, IsUnbidden, IsWatchAck, Text, StatusMessage, Ack, C!Unasked
<1>5. C!Counts(kind, rq.watch)
  BY <1>4 DEF Hears, C!Counts
<1>6. Seen(Ack(n), published') = answer
  BY DEF Seen, Ack, C!Response
<1>7. heard = said \o <<answer>>
  <2> HIDE DEF rq, answer
  <2>1. CASE kind = "nothing"
    <3>1. heard = [i \in {1} |-> answer]
      BY <1>1, <1>3, <1>6, <2>1
    <3>2. said = <<>>
      BY <2>1 DEF C!Says
    <3> QED
      BY <3>1, <3>2
  <2>2. CASE kind # "nothing"
    <3> DEFINE first == IF kind = "text" THEN C!Text ELSE C!Report(published')
    <3>1. Seen(Written[1], published') = first
      BY <1>3, <2>2, SeenAs
    <3>2. said = <<first>>
      BY <2>2 DEF C!Says
    <3> HIDE DEF first, said
    <3>3. heard = [i \in {1, 2} |-> IF i = 1 THEN first ELSE answer]
      BY <1>1, <1>3, <1>6, <2>2, <3>1
    <3>4. {1, 2} = 1 .. 2
      OBVIOUS
    <3>5. heard = <<first, answer>>
      BY <3>3, <3>4
    <3> QED
      BY <3>2, <3>5
  <2> QED
    BY <2>1, <2>2
<1>8. s2c \in Seq(C!Messages) /\ said \in Seq(C!Messages) /\ <<answer>> \in Seq(C!Messages)
  <2>1. answer \in C!Messages
    <3>1. rq \in C!Requests
      BY DEF LibraryTypes
    <3> HIDE DEF rq
    <3>2. rq.id \in C!Ids /\ rq.call \in Nat
      BY <3>1 DEF C!Requests
    <3>3. (IF rq.watch THEN published' ELSE 0) \in Nat
      BY <1>5, PublishedCounts
    <3> QED
      BY <3>2, <3>3 DEF C!Response, C!Messages
  <2> QED
    BY <1>5, <2>1, SaidTypes DEF LibraryTypes
<1>9. s2c' = s2c \o (said \o <<answer>>)
  BY <1>7 DEF Hears
<1> QED
  BY <1>5, <1>8, <1>9, HeardAssociates

-----------------------------------------------------------------------------
(* What a step of the server writes to the library.                        *)

LEMMA ServerKeeps ==
    ServerStep => alive /\ UNCHANGED <<conn, sent>>
<1> USE DEF server, network, Crash, Polling, Parsing
<1>1. ASSUME NEW e \in Endpoints, Accept(e) \/ AcceptThrows(e) \/ Receive(e) \/ ReadFails(e)
      PROVE  alive /\ UNCHANGED <<conn, sent>>
  BY <1>1 DEF Accept, AcceptThrows, Receive, ReadFails
<1>2. PollReturns \/ Sleep \/ Parse \/ ParseThrows => alive /\ UNCHANGED <<conn, sent>>
  BY DEF PollReturns, Sleep, Parse, ParseThrows
<1>3. AcknowledgeNobody \/ RunThrows \/ PrintOverflows \/ EngineExits => alive /\ UNCHANGED <<conn, sent>>
  BY DEF AcknowledgeNobody, RunThrows, PrintOverflows, EngineExits, EndsInCLIPS
<1> QED
  BY <1>1, <1>2, <1>3 DEF ServerStep

LEMMA DeliverWrites ==
    ASSUME TypeOK, attempts \in Connections, NEW b \in [Endpoints -> Seq(Sendable)], Deliver(b)
    PROVE  Written = IF Broken(attempts) THEN <<>> ELSE b[attempts]
<1>1. attempts \in Endpoints
  BY Numbers
<1>2. outbox[attempts] \in Seq(Sendable) /\ b[attempts] \in Seq(Sendable) /\ <<>> \in Seq(Sendable)
  BY <1>1 DEF TypeOK
<1>3. outbox[attempts] = outbox[attempts] \o <<>>
  BY <1>2
<1>4. outbox'[attempts] =
        outbox[attempts] \o (IF Broken(attempts) THEN <<>> ELSE b[attempts])
  BY <1>1, <1>3 DEF Deliver
<1> QED
  BY <1>2, <1>4, WrittenIs

LEMMA NothingWritten ==
    ASSUME TypeOK, attempts \in Connections, outbox' = outbox
    PROVE  Written = <<>>
<1>1. outbox[attempts] \in Seq(Sendable)
  BY Numbers DEF TypeOK
<1>2. outbox[attempts] = outbox[attempts] \o <<>> /\ <<>> \in Seq(Sendable)
  BY <1>1
<1> QED
  BY <1>1, <1>2, WrittenIs

\* What a batch holds for the library.
LEMMA BatchSpoken ==
    ASSUME NEW b \in Batches, NEW e \in Endpoints
    PROVE  \E kind \in C!Unasked : b[e] = Spoken(kind)
  BY BatchTypes DEF Spoken, C!Unasked

\* Only a client is sent a report, a text or an acknowledgement.
LEMMA OutsiderUnheard ==
    ASSUME TypeOK, NEW e \in Endpoints, e \notin clients
    PROVE  \A b \in Batches : b[e] = <<>>
  BY DEF Batches, RuleOutput, ToAll, ToOne, Nothing

\* What the library hears of a step of the server: perhaps a report or a text
\* first, perhaps then the acknowledgement of its command.
Heard(kind) ==
    \/ /\ Written = Spoken(kind) /\ Quietly(attempts)
       /\ ~(Parse /\ Head(queue).src = attempts /\ LinkUp)
    \/ /\ Written = Spoken(kind) \o <<Ack(Head(queue).n)>>
       /\ Parse /\ Head(queue).src = attempts /\ LinkUp
       /\ IsCommand(Head(queue).op) /\ Acknowledged(Head(queue))
       /\ Head(queue).op = "toggle" => kind = "report"

LEMMA LinkUpIs ==
    ASSUME TypeOK, Places, alive, attempts \in Connections
    PROVE  LinkUp <=> conn[attempts] = "open"
  BY DEF Places, LinkUp

\* The batch of a step of the server: it holds something for clients only.
LEMMA ServerBatch ==
    ASSUME TypeOK, ServerStep, outbox' # outbox
    PROVE  \E b \in [Endpoints -> Seq(Sendable)] :
              /\ Deliver(b)
              /\ \A e \in Endpoints : e \notin clients => b[e] = <<>> \/ Accept(e)
<1> DEFINE Goal == \E b \in [Endpoints -> Seq(Sendable)] :
                      /\ Deliver(b)
                      /\ \A e \in Endpoints : e \notin clients => b[e] = <<>> \/ Accept(e)
<1> USE DEF server, network
<1>1. ASSUME NEW d \in Endpoints, Accept(d) PROVE Goal
  <2> DEFINE b == ToAll(clients \cup {d}, StatusMessage)
  <2>1. b \in [Endpoints -> Seq(Sendable)] /\ Deliver(b)
    BY <1>1, BatchTypes DEF Accept
  <2>2. \A e \in Endpoints : e \notin clients => b[e] = <<>> \/ Accept(e)
    BY <1>1 DEF ToAll
  <2> HIDE DEF b
  <2> QED
    BY <2>1, <2>2
<1>2. ASSUME AcknowledgeNobody \/ PrintOverflows \/ EngineExits PROVE Goal
  <2>1. PICK b \in Batches : Deliver(b)
    BY <1>2, RuleOutputTypes DEF AcknowledgeNobody, PrintOverflows, EngineExits, EndsInCLIPS
  <2> QED
    BY <2>1, BatchTypes, OutsiderUnheard
<1>3. ASSUME Parse PROVE Goal
  <2> DEFINE m == Head(queue)
  <2>1. m \in Received
    BY <1>3, QueueTypes DEF Parse
  <2>2. PICK b \in Batches : Deliver(Then(b, Acknowledgement(m)))
    BY <1>3 DEF Parse
  <2>3. IsCommand(m.op) => m.src \in clients
    BY <1>3, <2>1 DEF Parse, Received, clients
  <2> HIDE DEF m
  <2>4. /\ b \in [Endpoints -> Seq(Sendable)]
        /\ Acknowledgement(m) \in [Endpoints -> Seq(Sendable)]
    BY <2>1, BatchTypes
  <2>5. ASSUME NEW e \in Endpoints, e \notin clients PROVE Then(b, Acknowledgement(m))[e] = <<>>
    <3>1. Acknowledgement(m)[e] = <<>>
      BY <2>3, <2>5 DEF Acknowledgement, ToOne, Nothing
    <3>2. b[e] = <<>>
      BY <2>5, OutsiderUnheard
    <3> QED
      BY <3>1, <3>2 DEF Then
  <2> QED
    BY <2>2, <2>4, <2>5, ThenTypes
<1>4. ASSUME NEW d \in Endpoints, AcceptThrows(d) \/ Receive(d) \/ ReadFails(d)
      PROVE  outbox' = outbox
  BY <1>4 DEF AcceptThrows, Crash, Receive, ReadFails
<1>5. ASSUME PollReturns \/ Sleep \/ ParseThrows \/ RunThrows PROVE outbox' = outbox
  BY <1>5 DEF PollReturns, Sleep, ParseThrows, RunThrows
<1> QED
  BY <1>1, <1>2, <1>3, <1>4, <1>5 DEF ServerStep

\* While the connection is not there, the library hears nothing.
LEMMA Unheard ==
    ASSUME LibraryTypes, Places, TypeOK, ServerStep, ~LinkUp
    PROVE  Written = <<>>
<1>1. CASE attempts = 0
  BY <1>1 DEF Written
<1>2. CASE attempts \in Connections /\ outbox' = outbox
  BY <1>2, NothingWritten
<1>3. CASE attempts \in Connections /\ outbox' # outbox
  <2>1. PICK b \in [Endpoints -> Seq(Sendable)] :
              /\ Deliver(b)
              /\ \A e \in Endpoints : e \notin clients => b[e] = <<>> \/ Accept(e)
    BY <1>3, ServerBatch
  <2>2. attempts \in Endpoints /\ conn[attempts] \in {"off", "closed", "reset"}
    BY <1>3, Numbers, ServerKeeps, LinkUpIs DEF TypeOK
  <2>3. Written = IF Broken(attempts) THEN <<>> ELSE b[attempts]
    BY <1>3, <2>1, DeliverWrites
  <2>4. ~Broken(attempts) => attempts \notin clients /\ ~Accept(attempts)
    BY <2>2 DEF Broken, Places, clients, Accept
  <2> QED
    BY <2>1, <2>2, <2>3, <2>4
<1> QED
  BY <1>1, <1>2, <1>3, SystemAssumption DEF LibraryTypes, Connections

LEMMA Broadcast ==
    ASSUME NEW cs, NEW e \in Endpoints
    PROVE  ToAll(cs, StatusMessage)[e] = IF e \in cs THEN Spoken("report") ELSE Spoken("nothing")
  BY DEF ToAll, Spoken

\* The library is told when its connection is accepted.
LEMMA AcceptHeard ==
    ASSUME LibraryTypes, Places, TypeOK, LinkUp, NEW d \in Endpoints, Accept(d)
    PROVE  \E kind \in C!Unasked :
              /\ Written = Spoken(kind)
              /\ session'[attempts] = "live" => session[attempts] = "live" \/ kind = "report"
<1> DEFINE b == ToAll(clients \cup {d}, StatusMessage)
<1>1. attempts \in Connections /\ attempts \in Endpoints /\ ~Broken(attempts)
  BY Numbers DEF LinkUp, Places, Broken
<1>2. b \in [Endpoints -> Seq(Sendable)] /\ Deliver(b)
  BY BatchTypes DEF Accept
<1>3. b[attempts] = IF attempts \in clients \cup {d} THEN Spoken("report") ELSE Spoken("nothing")
  BY <1>1, Broadcast
<1> HIDE DEF b
<1>4. Written = b[attempts]
  BY <1>1, <1>2, DeliverWrites
<1>5. session'[attempts] = "live" => session[attempts] = "live" \/ attempts = d
  BY <1>1 DEF Accept, TypeOK
<1>6. CASE attempts \in clients \cup {d}
  <2>1. Written = Spoken("report") /\ "report" \in C!Unasked
    BY <1>3, <1>4, <1>6 DEF C!Unasked
  <2> QED
    BY <2>1
<1>7. CASE attempts \notin clients \cup {d}
  <2>1. Written = Spoken("nothing") /\ "nothing" \in C!Unasked
    BY <1>3, <1>4, <1>7 DEF C!Unasked
  <2> QED
    BY <1>5, <1>7, <2>1
<1> QED
  BY <1>6, <1>7

\* What the library sends is a command.
LEMMA OwnCommand ==
    ASSUME TypeOK, OrderInv, Asked, Parsing, Head(queue).src \in Connections
    PROVE  LET m == Head(queue) IN
           /\ IsCommand(m.op) /\ m.n \in 1 .. Len(reqs[m.src])
           /\ reqs[m.src][m.n].watch <=> m.op = "toggle"
<1> DEFINE m == Head(queue)
<1>1. Genuine(m, sent)
  <2>1. 1 \in 1 .. Len(queue) /\ m = queue[1]
    BY TailOfQueue
  <2> QED
    BY <2>1 DEF OrderInv
<1> HIDE DEF m
<1>2. m.src \in Connections
  BY DEF m
<1> QED
  BY <1>1, <1>2 DEF Genuine, Asked, IsCommand, m

LEMMA ParseHeard ==
    ASSUME LibraryTypes, Places, Asked, TypeOK, OrderInv, LinkUp, Parse
    PROVE  \E kind \in C!Unasked : Heard(kind)
<1> DEFINE m == Head(queue)
<1>1. attempts \in Connections /\ attempts \in Endpoints /\ ~Broken(attempts)
  BY Numbers DEF LinkUp, Places, Broken
<1>2. PICK b \in Batches : Handle(m.op, b) /\ Deliver(Then(b, Acknowledgement(m)))
  BY DEF Parse
<1>3. PICK kind \in C!Unasked : b[attempts] = Spoken(kind)
  BY <1>1, BatchSpoken
<1>4. m \in Received /\ Parsing
  BY QueueTypes DEF Parse
<1>5. b \in [Endpoints -> Seq(Sendable)] /\ Acknowledgement(m) \in [Endpoints -> Seq(Sendable)]
  BY <1>4, BatchTypes
<1>6. Written = b[attempts] \o Acknowledgement(m)[attempts]
  <2>1. Then(b, Acknowledgement(m)) \in [Endpoints -> Seq(Sendable)]
    BY <1>5, ThenTypes
  <2>2. Written = Then(b, Acknowledgement(m))[attempts]
    BY <1>1, <1>2, <2>1, DeliverWrites
  <2> QED
    BY <1>1, <2>2 DEF Then
<1>7. CASE m.src = attempts
  <2>1. IsCommand(m.op)
    BY <1>1, <1>4, <1>7, OwnCommand
  <2>2. Acknowledgement(m)[attempts] = <<Ack(m.n)>>
    BY <1>1, <1>7, <2>1 DEF Acknowledgement, ToOne
  <2>3. Acknowledged(m)
    BY <1>1, <1>7, <2>1, ParseWrites
  <2>4. m.op = "toggle" => kind = "report"
    <3> SUFFICES ASSUME m.op = "toggle" PROVE kind = "report"
      OBVIOUS
    <3>1. Watch(m.op, b)
      BY <1>2 DEF Handle, Path, Evaluate, Query, NoEffect
    <3>2. attempts \in clients
      BY <1>1, <1>7, <2>1 DEF Parse, clients
    <3>3. b[attempts] = <<StatusMessage>>
      BY <1>1, <3>1, <3>2 DEF Watch, PublishStatus, ToAll
    <3>4. Spoken("text") # <<StatusMessage>> /\ Spoken("nothing") # <<StatusMessage>>
      BY DEF Spoken, Text, StatusMessage
    <3> QED
      BY <1>3, <3>3, <3>4 DEF C!Unasked
  <2> QED
    BY <1>3, <1>6, <1>7, <2>1, <2>2, <2>3, <2>4 DEF Heard
<1>8. CASE m.src # attempts
  <2>1. Acknowledgement(m)[attempts] = <<>>
    BY <1>1, <1>8 DEF Acknowledgement, ToOne, Nothing
  <2>2. b[attempts] \o <<>> = b[attempts]
    <3>1. b[attempts] \in Seq(Sendable)
      BY <1>1, <1>5
    <3> QED
      BY <3>1
  <2>3. Written = b[attempts]
    BY <1>6, <2>1, <2>2
  <2>4. Quietly(attempts)
    BY <1>1, <1>8, ParseWrites
  <2> QED
    BY <1>3, <1>8, <2>3, <2>4 DEF Heard
<1> QED
  BY <1>7, <1>8

LEMMA ServerHeard ==
    ASSUME LibraryTypes, Places, Asked, TypeOK, OrderInv, LinkUp, ServerStep
    PROVE  \E kind \in C!Unasked :
              /\ Heard(kind)
              /\ alive' /\ session'[attempts] = "live" =>
                    session[attempts] = "live" \/ kind = "report"
<1> USE DEF server, network
<1>1. attempts \in Connections /\ attempts \in Endpoints
  BY Numbers DEF LinkUp, Places
<1>2. CASE Parse
  BY <1>2, ParseHeard DEF Parse
<1>3. ~Parse => Quietly(attempts)
  BY <1>1, OthersQuiet
<1>4. ASSUME NEW d \in Endpoints, Accept(d), ~Parse
      PROVE  \E kind \in C!Unasked :
              /\ Heard(kind)
              /\ session'[attempts] = "live" => session[attempts] = "live" \/ kind = "report"
  BY <1>3, <1>4, AcceptHeard DEF Heard
<1>5. ASSUME AcknowledgeNobody \/ PrintOverflows \/ EngineExits, ~Parse
      PROVE  ~alive' /\ \E kind \in C!Unasked : Heard(kind)
  <2>1. PICK b \in Batches : Deliver(b)
    BY <1>5, RuleOutputTypes DEF AcknowledgeNobody, PrintOverflows, EngineExits, EndsInCLIPS
  <2>2. PICK kind \in C!Unasked : b[attempts] = Spoken(kind)
    BY <1>1, BatchSpoken
  <2>3. Written = Spoken(kind)
    BY <1>1, <2>1, <2>2, BatchTypes, DeliverWrites DEF LinkUp, Broken
  <2> QED
    BY <1>3, <1>5, <2>3 DEF Heard, AcknowledgeNobody, PrintOverflows, EngineExits, EndsInCLIPS
<1>6. ASSUME outbox' = outbox, ~Parse PROVE Heard("nothing") /\ "nothing" \in C!Unasked
  <2>1. Written = Spoken("nothing")
    BY <1>1, <1>6, NothingWritten DEF Spoken
  <2> QED
    BY <1>3, <1>6, <2>1 DEF Heard, C!Unasked
<1>7. ASSUME NEW d \in Endpoints, AcceptThrows(d) \/ Receive(d) \/ ReadFails(d), ~Parse
      PROVE  /\ outbox' = outbox
             /\ alive' /\ session'[attempts] = "live" => session[attempts] = "live"
  BY <1>1, <1>7 DEF AcceptThrows, Crash, Receive, ReadFails, TypeOK
<1>8. ASSUME PollReturns \/ Sleep \/ ParseThrows \/ RunThrows
      PROVE  outbox' = outbox /\ session' = session
  BY <1>8 DEF PollReturns, Sleep, ParseThrows, RunThrows
<1> QED
  BY <1>2, <1>4, <1>5, <1>6, <1>7, <1>8 DEF ServerStep

-----------------------------------------------------------------------------
(* The invariant of the whole: types, places, and that the requests of the *)
(* library are answered one after the other.                               *)

\* The first requests of the connection are answered, and no other.
AnswerPrefix ==
    LinkUp => \E h \in 0 .. Len(reqs[attempts]) : AckedCommands(attempts) = 1 .. h

SystemInv == LibraryTypes /\ Places /\ Asked /\ AnswerPrefix /\ ServerInv

LEMMA SystemInvInit == SystemInit => SystemInv
<1> SUFFICES ASSUME SystemInit PROVE SystemInv
  OBVIOUS
<1>1. ServerInv
  BY ServerInvInit
<1>2. /\ socketPtr = "null" /\ attempts = 0 /\ lastCommandId = 0 /\ issued = 0 /\ published = 0
      /\ unasked = 0 /\ clipsStatus = 0 /\ s2c = <<>> /\ own = "idle"
      /\ cmdId = [c \in Callers |-> 0] /\ call = [c \in Callers |-> 0]
      /\ watch = [c \in Callers |-> FALSE]
  BY DEF SystemInit, C!Init
<1>3. reqs = [k \in Connections |-> <<>>]
  BY DEF SystemInit
<1>4. ASSUME NEW k \in Connections
      PROVE  k \in Nat /\ k > 0 /\ conn[k] = "off" /\ session[k] = "none" /\ sent[k] = <<>>
             /\ reqs[k] \in Seq(C!Requests) /\ Len(reqs[k]) = 0 /\ Len(sent[k]) = 0
             /\ 1 .. Len(sent[k]) = {}
  <2>1. k \in Endpoints /\ k \notin Others /\ k \in Nat /\ k > 0
    BY Numbers DEF Others, Connections
  <2>2. reqs[k] = <<>> /\ sent[k] = <<>> /\ conn[k] = "off" /\ session[k] = "none"
    BY <1>3, <2>1 DEF SystemInit
  <2> QED
    BY <2>1, <2>2, NoElement
<1>5. LibraryTypes
  <2>1. s2c \in Seq(C!Messages) /\ reqs \in [Connections -> Seq(C!Requests)]
    BY <1>2, <1>3, NoElement
  <2> QED
    BY <1>2, <2>1, Numbers, SystemAssumption DEF LibraryTypes
<1>6. Places
  <2>1. \A e \in Endpoints : conn[e] = "off" => session[e] = "none"
    BY DEF SystemInit
  <2> QED
    BY <1>2, <1>4, <2>1 DEF Places, Connected
<1>7. Asked /\ AnswerPrefix
  BY <1>2, <1>4 DEF Asked, AnswerPrefix, LinkUp, Connected
<1> QED
  BY <1>1, <1>5, <1>6, <1>7 DEF SystemInv

\* The request that the server handles, and how its response will be seen.
Handled == reqs[attempts][Head(queue).n]
ResponseTo(rq) == C!Response(rq, rq.call \in executed', IF rq.watch THEN published' ELSE 0)

\* Without a connection the library hears nothing.  With one, what it hears is
\* what ClipsClient expects: a report or a text, or the response to a request
\* of its own.
SaysUnasked(kind) ==
    /\ C!Counts(kind, FALSE) /\ s2c' = s2c \o C!Says(kind)
    /\ Quietly(attempts) /\ ~(Parse /\ Head(queue).src = attempts)

SaysAnswer(kind) ==
    /\ C!Counts(kind, Handled.watch)
    /\ s2c' = s2c \o C!Says(kind) \o <<ResponseTo(Handled)>>
    /\ Handled.watch => kind = "report"
    /\ Parse /\ Head(queue).src = attempts /\ Head(queue).n \in 1 .. Len(reqs[attempts])
    /\ IsCommand(Head(queue).op) /\ Acknowledged(Head(queue))
    /\ Handled.watch <=> Head(queue).op = "toggle"

LEMMA SilentServer ==
    ASSUME LibraryTypes, Places, TypeOK, ServerStep, Hears, ~LinkUp
    PROVE  UNCHANGED <<s2c, published, unasked>>
<1>1. Written = <<>>
  BY Unheard
<1>2. DOMAIN Written = {} /\ s2c \in Seq(C!Messages)
  BY <1>1 DEF LibraryTypes
<1>3. [i \in DOMAIN Written |-> Seen(Written[i], published')] = <<>>
  BY <1>2
<1>4. s2c \o <<>> = s2c
  BY <1>2
<1> QED
  BY <1>2, <1>3, <1>4 DEF Hears, Writes

LEMMA ServerSays ==
    ASSUME LibraryTypes, Places, Asked, TypeOK, OrderInv, LinkUp, ServerStep, Hears
    PROVE  \E kind \in C!Unasked :
              /\ SaysUnasked(kind) \/ SaysAnswer(kind)
              /\ alive' /\ session'[attempts] = "live" =>
                    session[attempts] = "live" \/ kind = "report"
<1>1. PICK kind \in C!Unasked :
              /\ Heard(kind)
              /\ alive' /\ session'[attempts] = "live" =>
                    session[attempts] = "live" \/ kind = "report"
  BY ServerHeard
<1>2. attempts \in Connections
  BY DEF LinkUp, Places
<1>3. CASE ~(Parse /\ Head(queue).src = attempts)
  <2>1. Written = Spoken(kind) /\ Quietly(attempts)
    BY <1>1, <1>3 DEF Heard
  <2>2. SaysUnasked(kind)
    BY <1>3, <2>1, HearsSpoken DEF SaysUnasked
  <2> QED
    BY <1>1, <2>2
<1>4. CASE Parse /\ Head(queue).src = attempts
  <2>1. /\ Written = Spoken(kind) \o <<Ack(Head(queue).n)>>
        /\ Acknowledged(Head(queue))
        /\ Head(queue).op = "toggle" => kind = "report"
    BY <1>1, <1>4 DEF Heard
  <2>2. /\ IsCommand(Head(queue).op) /\ Head(queue).n \in 1 .. Len(reqs[attempts])
        /\ Handled.watch <=> Head(queue).op = "toggle"
    BY <1>2, <1>4, OwnCommand DEF Parse, Handled
  <2>3. SaysAnswer(kind)
    BY <1>2, <1>4, <2>1, <2>2, HearsAnswer DEF SaysAnswer, Handled, ResponseTo
  <2> QED
    BY <1>1, <2>3
<1> QED
  BY <1>3, <1>4

LEMMA HeardTypes ==
    ASSUME LibraryTypes, Places, Asked, TypeOK, OrderInv, ServerStep, Hears
    PROVE  published' \in Nat /\ unasked' \in 0 .. MaxUnasked /\ s2c' \in Seq(C!Messages)
<1>1. CASE ~LinkUp
  BY <1>1, SilentServer DEF LibraryTypes
<1>2. CASE LinkUp
  <2>1. PICK kind \in C!Unasked : SaysUnasked(kind) \/ SaysAnswer(kind)
    BY <1>2, ServerSays
  <2>2. s2c \in Seq(C!Messages)
    BY DEF LibraryTypes
  <2>3. CASE SaysUnasked(kind)
    <3>1. published' \in Nat /\ unasked' \in 0 .. MaxUnasked /\ C!Says(kind) \in Seq(C!Messages)
      BY <2>3, SaidTypes, PublishedCounts DEF SaysUnasked
    <3> QED
      BY <2>2, <2>3, <3>1 DEF SaysUnasked
  <2>4. CASE SaysAnswer(kind)
    <3>1. published' \in Nat /\ unasked' \in 0 .. MaxUnasked /\ C!Says(kind) \in Seq(C!Messages)
      BY <2>4, SaidTypes, PublishedCounts DEF SaysAnswer
    <3>2. Handled \in C!Requests
      BY <1>2, <2>4 DEF SaysAnswer, Handled, LibraryTypes, LinkUp, Places
    <3>3. ResponseTo(Handled) \in C!Messages
      BY <3>1, <3>2 DEF ResponseTo, C!Response, C!Requests, C!Messages
    <3> QED
      BY <2>2, <2>4, <3>1, <3>3 DEF SaysAnswer
  <2> QED
    BY <2>1, <2>3, <2>4
<1> QED
  BY <1>1, <1>2

LEMMA TypesStep ==
    ASSUME LibraryTypes, Places, Asked, ServerInv, [SystemNext]_system
    PROVE  LibraryTypes'
<1>1. CASE ServerMoves
  <2>1. UNCHANGED <<library, reqs>>
    BY <1>1, LibraryMoves
  <2>2. CASE ServerStep /\ Hears
    BY <2>1, <2>2, HeardTypes DEF ServerInv, LibraryTypes, library
  <2>3. CASE UNCHANGED <<executed, hears>>
    BY <2>1, <2>3 DEF LibraryTypes, library, hears
  <2> QED
    BY <1>1, <2>2, <2>3, LibraryMoves
<1>2. ASSUME NEW c \in Callers, Caller(c) PROVE LibraryTypes'
  BY <1>2, CallerMoves DEF LibraryTypes
<1>3. ASSUME NEW c \in Callers, Send(c) PROVE LibraryTypes'
  <2> DEFINE rq == RequestOf(c)
  <2>1. rq \in C!Requests
    BY DEF RequestOf, LibraryTypes, C!Requests
  <2> HIDE DEF rq
  <2>2. reqs' = reqs \/ (attempts \in Connections /\ reqs' = [reqs EXCEPT ![attempts] = Append(@, rq)])
    BY <1>3, SendMoves DEF rq, LinkUp, Places
  <2>3. \A k \in Connections : reqs[k] \in Seq(C!Requests) /\ Append(reqs[k], rq) \in Seq(C!Requests)
    BY <2>1 DEF LibraryTypes
  <2>4. reqs' \in [Connections -> Seq(C!Requests)]
    BY <2>2, <2>3 DEF LibraryTypes
  <2> QED
    BY <1>3, <2>4, SendMoves DEF LibraryTypes
<1>4. CASE Owner
  BY <1>4, OwnerMoves, Numbers DEF LibraryTypes
<1>5. CASE ServiceThread
  <2>1. s2c \in Seq(C!Messages)
    BY DEF LibraryTypes
  <2>2. s2c # <<>> => Head(s2c) \in C!Messages /\ Tail(s2c) \in Seq(C!Messages)
    BY <2>1
  <2>3. clipsStatus' \in Nat /\ s2c' \in Seq(C!Messages)
    BY <1>5, <2>1, <2>2, ServiceMoves DEF LibraryTypes, C!Messages
  <2> QED
    BY <1>5, <2>3, ServiceMoves DEF LibraryTypes
<1>6. CASE Connects \/ Drops
  BY <1>6, ConnectsMoves, DropsMoves, NoElement DEF LibraryTypes
<1>7. CASE UNCHANGED system
  BY <1>7 DEF system, library, hears, LibraryTypes
<1> QED
  BY <1>1, <1>2, <1>3, <1>4, <1>5, <1>6, <1>7 DEF SystemNext, ServerMoves

LEMMA ClientActs ==
    ASSUME TypeOK, NEW e \in Endpoints
    PROVE  /\ ClientCloses(e) \/ ClientResets(e) =>
                 /\ alive /\ conn[e] # "off" /\ UNCHANGED <<server, sent, outbox>>
                 /\ conn'[e] \in {"closed", "reset"}
                 /\ \A d \in Endpoints : d # e => conn'[d] = conn[d]
           /\ ClientConnects(e) =>
                 /\ alive /\ conn[e] = "off" /\ UNCHANGED <<server, sent, outbox>>
                 /\ conn'[e] = "open"
                 /\ \A d \in Endpoints : d # e => conn'[d] = conn[d]
  BY DEF ClientCloses, ClientResets, ClientConnects, TypeOK

LEMMA SessionsStay ==
    ASSUME TypeOK, ServerStep, NEW e \in Endpoints, conn[e] = "off", session[e] = "none"
    PROVE  session'[e] = "none"
<1> USE DEF server, network, Crash
<1>1. ASSUME NEW d \in Endpoints, Accept(d) \/ AcceptThrows(d) \/ Receive(d) \/ ReadFails(d)
      PROVE  session'[e] = "none"
  BY <1>1 DEF Accept, AcceptThrows, Receive, ReadFails, TypeOK
<1>2. PollReturns \/ Sleep \/ Parse \/ ParseThrows => session' = session
  BY DEF PollReturns, Sleep, Parse, ParseThrows
<1>3. AcknowledgeNobody \/ RunThrows \/ PrintOverflows \/ EngineExits => session' = session
  BY DEF AcknowledgeNobody, RunThrows, PrintOverflows, EngineExits, EndsInCLIPS
<1> QED
  BY <1>1, <1>2, <1>3 DEF ServerStep

LEMMA PlacesStep ==
    ASSUME LibraryTypes, Places, ServerInv, [SystemNext]_system
    PROVE  Places'
<1> USE DEF server, network, vars
<1>1. TypeOK /\ Connections \subseteq Endpoints /\ attempts \in Nat /\ Connections \subseteq Nat
  BY Numbers DEF ServerInv, LibraryTypes
<1>2. CASE ServerMoves
  <2>1. UNCHANGED <<own, socketPtr, attempts>>
    BY <1>2, LibraryMoves DEF library
  <2>2. CASE ServerStep
    <3>1. alive /\ conn' = conn
      BY <2>2, ServerKeeps
    <3>2. \A e \in Endpoints : conn[e] = "off" => session'[e] = "none"
      BY <1>1, <2>2, SessionsStay DEF Places
    <3> QED
      BY <2>1, <3>1, <3>2 DEF Places, Connected
  <2>3. CASE LinkUp /\ ClientResets(attempts)
    <3>1. attempts \in Connections /\ attempts \in Endpoints
      BY <1>1, <2>3 DEF LinkUp, Places
    <3> QED
      BY <1>1, <2>1, <2>3, <3>1, ClientActs DEF Places, Connected
  <2> QED
    BY <1>2, <2>2, <2>3, LibraryMoves
<1>3. ASSUME NEW c \in Callers, Caller(c) PROVE Places'
  BY <1>3, CallerMoves DEF Places, Connected
<1>4. ASSUME NEW c \in Callers, Send(c) PROVE Places'
  <2>1. UNCHANGED <<own, socketPtr, attempts, alive, conn, session>>
    BY <1>4, SendMoves DEF ClientSends
  <2> QED
    BY <2>1 DEF Places, Connected
<1>5. CASE Owner
  <2>1. UNCHANGED <<alive, conn, session>>
    BY <1>5, OwnerMoves
  <2>2. CASE socketPtr = "null" /\ socketPtr' = "new" /\ own' = "connecting"
             /\ attempts < MaxConnects /\ attempts' = attempts + 1
    <3>1. attempts' \in Connections
      BY <1>1, <2>2, Numbers DEF Connections
    <3> QED
      BY <1>1, <2>1, <2>2, <3>1 DEF Places, Connected
  <2>3. CASE own = "connecting" /\ socketPtr' = "failed" /\ own' = "idle" /\ attempts' = attempts
    BY <1>1, <2>1, <2>3 DEF Places, Connected
  <2>4. CASE UNCHANGED <<socketPtr, attempts>> /\ own' # "connecting"
    BY <2>1, <2>4 DEF Places, Connected
  <2> QED
    BY <1>5, <2>2, <2>3, <2>4, OwnerMoves
<1>6. CASE ServiceThread
  BY <1>6, ServiceMoves DEF Places, Connected
<1>7. CASE Connects
  <2>1. attempts \in Connections /\ attempts \in Endpoints /\ own = "connecting"
    BY <1>1, <1>7, ConnectsMoves DEF Places
  <2>2. /\ UNCHANGED <<attempts, alive, session>> /\ conn'[attempts] = "open"
        /\ \A d \in Endpoints : d # attempts => conn'[d] = conn[d]
    BY <1>1, <1>7, <2>1, ConnectsMoves, ClientActs
  <2>3. own' = "start" /\ socketPtr' = "connected"
    BY <1>7, ConnectsMoves
  <2> QED
    BY <1>1, <2>1, <2>2, <2>3 DEF Places, Connected
<1>8. CASE Drops
  <2>1. UNCHANGED attempts /\ own' # "connecting" /\ socketPtr' = "null"
    BY <1>8, DropsMoves DEF Places, Connected
  <2>2. CASE LinkUp
    <3>1. attempts \in Connections /\ attempts \in Endpoints
      BY <1>1, <2>2 DEF LinkUp, Places
    <3>2. /\ UNCHANGED <<alive, session>> /\ conn[attempts] # "off"
          /\ conn'[attempts] \in {"closed", "reset"}
          /\ \A d \in Endpoints : d # attempts => conn'[d] = conn[d]
      BY <1>1, <1>8, <2>2, <3>1, DropsMoves, ClientActs
    <3> QED
      BY <1>1, <2>1, <3>1, <3>2 DEF Places, Connected
  <2>3. CASE ~LinkUp
    <3>1. UNCHANGED <<alive, conn, session>>
      BY <1>8, <2>3, DropsMoves
    <3>2. \A k \in Connections : ~(alive /\ conn[k] = "open")
      BY <2>3 DEF LinkUp, Places
    <3> QED
      BY <2>1, <3>1, <3>2 DEF Places, Connected
  <2> QED
    BY <2>2, <2>3
<1>9. CASE UNCHANGED system
  BY <1>9 DEF system, library, Places, Connected
<1> QED
  BY <1>2, <1>3, <1>4, <1>5, <1>6, <1>7, <1>8, <1>9 DEF SystemNext, ServerMoves

\* What a call of the library adds to its requests and to the messages sent.
LEMMA SendAdds ==
    ASSUME LibraryTypes, Places, TypeOK, NEW c \in Callers, Send(c), LinkUp
    PROVE  LET rq == RequestOf(c) IN
           /\ attempts \in Connections /\ rq \in C!Requests
           /\ reqs' = [reqs EXCEPT ![attempts] = Append(reqs[attempts], rq)]
           /\ \E op \in Operations \ {"show", "fact"} :
                 /\ rq.watch <=> op = "toggle"
                 /\ sent' = [sent EXCEPT ![attempts] = Append(sent[attempts], op)]
           /\ UNCHANGED <<alive, conn, outbox, session, socketPtr, attempts>>
<1>1. attempts \in Connections
  BY DEF LinkUp, Places
<1>2. PICK op \in Asks(watch[c]) : ClientSends(attempts, op)
  BY SendMoves
<1>3. op \in Operations \ {"show", "fact"} /\ (watch[c] <=> op = "toggle")
  BY SystemAssumption DEF Asks
<1>4. RequestOf(c) \in C!Requests /\ RequestOf(c).watch = watch[c]
  BY DEF RequestOf, LibraryTypes, C!Requests
<1> QED
  BY <1>1, <1>2, <1>3, <1>4, SendMoves DEF ClientSends, server

LEMMA AskedStep ==
    ASSUME LibraryTypes, Places, Asked, ServerInv, [SystemNext]_system
    PROVE  Asked'
<1> USE DEF server, network, vars
<1>1. TypeOK /\ Connections \subseteq Endpoints
  BY Numbers DEF ServerInv
<1>2. ASSUME UNCHANGED <<reqs, sent>> PROVE Asked'
  BY <1>2 DEF Asked
<1>3. CASE ServerMoves
  <2>1. LinkUp => attempts \in Endpoints
    BY <1>1 DEF LinkUp, Places
  <2> QED
    BY <1>1, <1>2, <1>3, <2>1, LibraryMoves, ServerKeeps, ClientActs
<1>4. ASSUME NEW c \in Callers, Send(c), LinkUp PROVE Asked'
  <2> DEFINE rq == RequestOf(c)
             k == attempts
  <2>1. k \in Connections /\ rq \in C!Requests /\ reqs' = [reqs EXCEPT ![k] = Append(reqs[k], rq)]
    BY <1>1, <1>4, SendAdds
  <2>2. PICK op \in Operations \ {"show", "fact"} :
              /\ rq.watch <=> op = "toggle"
              /\ sent' = [sent EXCEPT ![k] = Append(sent[k], op)]
    BY <1>1, <1>4, SendAdds
  <2> HIDE DEF rq, k
  <2>3. /\ reqs[k] \in Seq(C!Requests) /\ sent[k] \in Seq(Operations)
        /\ reqs'[k] = Append(reqs[k], rq) /\ sent'[k] = Append(sent[k], op)
        /\ Len(reqs[k]) = Len(sent[k])
    BY <1>1, <2>1, <2>2 DEF LibraryTypes, TypeOK, Asked
  <2>4. /\ Len(reqs'[k]) = Len(sent'[k]) /\ Len(sent'[k]) = Len(sent[k]) + 1
        /\ \A n \in 1 .. Len(sent[k]) : reqs'[k][n] = reqs[k][n] /\ sent'[k][n] = sent[k][n]
        /\ reqs'[k][Len(sent[k]) + 1] = rq /\ sent'[k][Len(sent[k]) + 1] = op
        /\ Len(sent[k]) \in Nat
    BY <2>3
  <2>5. \A n \in 1 .. Len(sent'[k]) : n \in 1 .. Len(sent[k]) \/ n = Len(sent[k]) + 1
    BY <2>4
  <2>6. /\ Len(reqs'[k]) = Len(sent'[k])
        /\ \A n \in 1 .. Len(sent'[k]) :
              /\ sent'[k][n] \notin {"show", "fact"}
              /\ reqs'[k][n].watch <=> sent'[k][n] = "toggle"
    BY <2>1, <2>2, <2>4, <2>5 DEF Asked
  <2>7. \A j \in Connections : j # k => reqs'[j] = reqs[j] /\ sent'[j] = sent[j]
    BY <1>1, <2>1, <2>2 DEF LibraryTypes, TypeOK
  <2> QED
    BY <2>6, <2>7 DEF Asked
<1>5. ASSUME NEW c \in Callers, Send(c), ~LinkUp PROVE Asked'
  BY <1>2, <1>5, SendMoves
<1>6. CASE (\E c \in Callers : Caller(c)) \/ Owner \/ ServiceThread
  BY <1>2, <1>6 DEF Caller, Owner, ServiceThread, ServerStays
<1>7. CASE Connects
  <2>1. attempts \in Endpoints
    BY <1>1, <1>7, ConnectsMoves DEF Places
  <2> QED
    BY <1>1, <1>2, <1>7, <2>1, ConnectsMoves, ClientActs
<1>8. CASE Drops
  <2>1. LinkUp => attempts \in Endpoints
    BY <1>1 DEF LinkUp, Places
  <2> QED
    BY <1>1, <1>2, <1>8, <2>1, DropsMoves, ClientActs
<1>9. CASE UNCHANGED system
  BY <1>2, <1>9 DEF system
<1> QED
  BY <1>3, <1>4, <1>5, <1>6, <1>7, <1>8, <1>9 DEF SystemNext, ServerMoves

-----------------------------------------------------------------------------
(* The requests that are answered, and those that are on their way.        *)

LEMMA SameCount ==
    ASSUME NEW g \in Nat, NEW h \in Nat, 1 .. g = 1 .. h
    PROVE  g = h
<1>1. g > h => g \in 1 .. g /\ g \notin 1 .. h
  OBVIOUS
<1>2. h > g => h \in 1 .. h /\ h \notin 1 .. g
  OBVIOUS
<1> QED
  BY <1>1, <1>2

LEMMA AnswersOnIs ==
    ASSUME NEW k, Len(reqs[k]) \in Nat, NEW h \in 0 .. Len(reqs[k]), AckedCommands(k) = 1 .. h
    PROVE  AnswersOn(k) = h
  BY SameCount DEF AnswersOn

LEMMA AnswersOnNext ==
    ASSUME NEW k, Len(reqs'[k]) \in Nat, NEW h \in 0 .. Len(reqs'[k]),
    AckedCommands(k)' = 1 .. h
    PROVE  AnswersOn(k)' = h
  BY SameCount DEF AnswersOn

\* The command of the library that the server takes is the first that is not
\* answered, and the step answers it.
LEMMA NextAnswer ==
    ASSUME LibraryTypes, Places, Asked, ServerInv, TypeOK', LinkUp,
           Parse, Head(queue).src = attempts, IsCommand(Head(queue).op),
           Acknowledged(Head(queue)),
           NEW k, k = attempts,
           NEW h \in 0 .. Len(reqs[k]), AckedCommands(k) = 1 .. h
    PROVE  /\ Head(queue).n = h + 1 /\ h + 1 \in 1 .. Len(reqs[k])
           /\ AckedCommands(k)' = 1 .. (h + 1)
<1> DEFINE m == Head(queue)
<1>1. k \in Connections /\ k \in Endpoints /\ ~Broken(k) /\ m.src = k
  BY Numbers DEF LinkUp, Places, Broken
<1>2. m.n \in Nat
  BY QueueTypes DEF ServerInv, Parse, Received
<1>3. /\ Len(sent[k]) \in Nat /\ Len(reqs[k]) = Len(sent[k]) /\ DOMAIN sent[k] = 1 .. Len(sent[k])
      /\ \A n \in DOMAIN sent[k] : IsCommand(sent[k][n])
  <2>1. sent[k] \in Seq(Operations)
    BY <1>1 DEF ServerInv, TypeOK
  <2>2. Len(sent[k]) \in Nat /\ DOMAIN sent[k] = 1 .. Len(sent[k])
    BY <2>1
  <2> QED
    BY <1>1, <2>2 DEF Asked, IsCommand
<1>4. AckedCommands(k)' = AckedCommands(k) \cup {m.n}
  BY <1>1, <1>2, AckAnswers DEF ServerInv
<1>5. Service!Answer(k)
  BY <1>1, ParseIsAnswer DEF ServerInv
<1> DEFINE acked == [e \in Endpoints |-> AckedCommands(e)]
<1>6. PICK n \in Service!Open(k) :
         /\ \A j \in Service!Open(k) : n <= j
         /\ acked' = [acked EXCEPT ![k] = acked[k] \cup {n}]
  BY <1>5 DEF Service!Answer
<1>7. Service!Open(k) = (1 .. Len(sent[k])) \ (1 .. h)
  <2>1. acked[k] = 1 .. h
    BY <1>1
  <2> QED
    BY <1>3, <2>1 DEF Service!Open
<1>8. n = h + 1 /\ h + 1 \in 1 .. Len(reqs[k])
  <2>1. n \in Nat /\ n > h /\ n <= Len(sent[k])
    BY <1>3, <1>6, <1>7
  <2>2. h + 1 \in Service!Open(k)
    BY <1>3, <1>7, <2>1
  <2> QED
    BY <1>3, <1>6, <2>1, <2>2
<1>9. AckedCommands(k)' = (1 .. h) \cup {h + 1}
  <2>1. acked'[k] = acked[k] \cup {n} /\ acked[k] = 1 .. h
    BY <1>1, <1>6
  <2>2. acked'[k] = AckedCommands(k)'
    BY <1>1
  <2> QED
    BY <1>8, <2>1, <2>2
<1> HIDE DEF m, acked
<1>10. m.n = h + 1
  <2>1. h + 1 \notin 1 .. h
    OBVIOUS
  <2> QED
    BY <1>4, <1>9, <2>1
<1>11. (1 .. h) \cup {h + 1} = 1 .. (h + 1)
  OBVIOUS
<1> QED
  BY <1>1, <1>8, <1>9, <1>10, <1>11 DEF m

\* The acknowledgements stay while nothing is written.
LEMMA SameAnswers ==
    ASSUME NEW k, outbox' = outbox
    PROVE  AckedCommands(k)' = AckedCommands(k)
  BY DEF AckedCommands

LEMMA PrefixStep ==
    ASSUME SystemInv, TypeOK', [SystemNext]_system
    PROVE  AnswerPrefix'
<1> USE DEF server, network, vars, SystemInv
<1>1. TypeOK /\ Connections \subseteq Endpoints
  BY Numbers DEF ServerInv
<1> SUFFICES ASSUME LinkUp', NEW k, k = attempts'
             PROVE  \E h \in 0 .. Len(reqs'[k]) : AckedCommands(k)' = 1 .. h
  BY DEF AnswerPrefix
<1>2. ASSUME LinkUp, k = attempts, UNCHANGED reqs, AckedCommands(k)' = AckedCommands(k)
      PROVE  \E h \in 0 .. Len(reqs'[k]) : AckedCommands(k)' = 1 .. h
  BY <1>2 DEF AnswerPrefix
<1>3. CASE ServerMoves
  <2>1. UNCHANGED <<socketPtr, attempts, reqs>>
    BY <1>3, LibraryMoves DEF library
  <2>2. CASE ServerStep /\ Hears
    <3>1. LinkUp /\ k = attempts /\ k \in Endpoints /\ k \in Connections
      BY <1>1, <2>1, <2>2, ServerKeeps DEF LinkUp, Connected, Places
    <3>2. PICK kind \in C!Unasked : SaysUnasked(kind) \/ SaysAnswer(kind)
      BY <2>2, <3>1, ServerSays DEF ServerInv
    <3>3. CASE SaysUnasked(kind)
      BY <1>1, <1>2, <2>1, <3>1, <3>3, QuietAnswers DEF SaysUnasked
    <3>4. CASE SaysAnswer(kind)
      <4>1. PICK h \in 0 .. Len(reqs[k]) : AckedCommands(k) = 1 .. h
        BY <3>1 DEF AnswerPrefix
      <4>2. AckedCommands(k)' = 1 .. (h + 1) /\ h + 1 \in 1 .. Len(reqs[k])
        BY <3>1, <3>4, <4>1, NextAnswer DEF SaysAnswer
      <4> QED
        BY <2>1, <4>2
    <3> QED
      BY <3>2, <3>3, <3>4
  <2>3. CASE LinkUp /\ ClientResets(attempts)
    BY <1>1, <2>1, <2>3, ClientActs DEF LinkUp, Places
  <2> QED
    BY <1>3, <2>2, <2>3, LibraryMoves
<1>4. ASSUME NEW c \in Callers, Send(c)
      PROVE  \E h \in 0 .. Len(reqs'[k]) : AckedCommands(k)' = 1 .. h
  <2>1. CASE ~LinkUp
    BY <1>4, <2>1, SendMoves DEF LinkUp, Connected
  <2>2. CASE LinkUp
    <3> DEFINE rq == RequestOf(c)
    <3>1. /\ k \in Connections /\ rq \in C!Requests /\ k = attempts
          /\ reqs' = [reqs EXCEPT ![k] = Append(reqs[k], rq)] /\ outbox' = outbox
      BY <1>1, <1>4, <2>2, SendAdds
    <3> HIDE DEF rq
    <3>2. reqs[k] \in Seq(C!Requests) /\ reqs'[k] = Append(reqs[k], rq)
      BY <3>1 DEF LibraryTypes
    <3>3. Len(reqs'[k]) = Len(reqs[k]) + 1 /\ Len(reqs[k]) \in Nat
      BY <3>2
    <3>4. PICK h \in 0 .. Len(reqs[k]) : AckedCommands(k) = 1 .. h
      BY <2>2, <3>1 DEF AnswerPrefix
    <3> QED
      BY <3>1, <3>3, <3>4, SameAnswers
  <2> QED
    BY <2>1, <2>2
<1>5. ASSUME UNCHANGED <<vars, reqs, socketPtr, attempts>>
      PROVE  \E h \in 0 .. Len(reqs'[k]) : AckedCommands(k)' = 1 .. h
  <2>1. LinkUp /\ k = attempts
    BY <1>5 DEF LinkUp, Connected
  <2> QED
    BY <1>2, <1>5, <2>1, SameAnswers
<1>6. CASE (\E c \in Callers : Caller(c)) \/ ServiceThread \/ UNCHANGED system
  BY <1>5, <1>6, CallerMoves, ServiceMoves DEF system, library
<1>7. CASE Owner
  BY <1>5, <1>7, OwnerMoves DEF LinkUp, Connected
<1>8. CASE Connects
  <2>1. k = attempts /\ k \in Connections /\ k \in Endpoints /\ conn[k] = "off"
        /\ outbox' = outbox /\ reqs' = reqs
    BY <1>1, <1>8, ConnectsMoves, ClientActs DEF Places
  <2>2. Len(sent[k]) = 0 /\ Len(reqs[k]) = 0
    BY <2>1 DEF ServerInv, Unused, Asked
  <2>3. AckedCommands(k) = {}
    <3>1. DOMAIN outbox[k] = 1 .. Len(outbox[k])
      BY <1>1, <2>1, Domains
    <3> QED
      BY <2>1, <2>2, <3>1 DEF ServerInv, AckInv, AckedCommands
  <2>4. AckedCommands(k)' = 1 .. 0 /\ 0 \in 0 .. Len(reqs'[k])
    BY <2>1, <2>2, <2>3, SameAnswers
  <2> QED
    BY <2>4
<1>9. CASE Drops
  BY <1>9, DropsMoves DEF LinkUp, Connected
<1> QED
  BY <1>3, <1>4, <1>6, <1>7, <1>8, <1>9 DEF SystemNext, ServerMoves

LEMMA SystemInvStep == SystemInv /\ [SystemNext]_system => SystemInv'
<1> SUFFICES ASSUME SystemInv, [SystemNext]_system PROVE SystemInv'
  OBVIOUS
<1>1. LibraryTypes' /\ Places' /\ Asked' /\ ServerInv'
  BY TypesStep, PlacesStep, AskedStep, ServerInvStep DEF SystemInv
<1>2. AnswerPrefix'
  BY <1>1, PrefixStep DEF ServerInv
<1> QED
  BY <1>1, <1>2 DEF SystemInv

LEMMA SystemInvariant == SystemSpec => []SystemInv
  BY SystemInvInit, SystemInvStep, PTL DEF SystemSpec

-----------------------------------------------------------------------------
(* The server is what the library takes it for.                            *)

\* The calls that the server executed, after one of its steps.
LEMMA ExecutedMoves ==
    ASSUME LibraryTypes, Places, Asked, ServerInv, ServerMoves
    PROVE  IF Parse /\ Head(queue).src = attempts /\ LinkUp
           THEN /\ executed' \in {executed, executed \cup {Handled.call}}
                /\ Handled.watch => executed' = executed \cup {Handled.call}
           ELSE executed' = executed
<1> USE DEF server, network
<1>1. CASE ParseAndAnswer
  <2>1. CASE Head(queue).src = attempts /\ LinkUp
    <3>1. Handled.watch <=> Head(queue).op = "toggle"
      BY <1>1, <2>1, OwnCommand DEF ServerInv, ParseAndAnswer, Handled, LinkUp, Places
    <3>2. LET done == executed \cup {Handled.call} IN
          executed' \in IF Head(queue).op = "toggle" THEN {done} ELSE {done, executed}
      BY <1>1, <2>1 DEF ParseAndAnswer, Handled
    <3> QED
      BY <1>1, <2>1, <3>1, <3>2 DEF ParseAndAnswer
  <2> QED
    BY <1>1, <2>1 DEF ParseAndAnswer
<1>2. CASE ServerAlone
  <2>1. executed' = executed
    BY <1>2 DEF ServerAlone
  <2>2. ~Parse
    <3>1. \A e \in Endpoints : Accept(e) \/ AcceptThrows(e) \/ Receive(e) \/ ReadFails(e) => ~Parse
      BY DEF Accept, AcceptThrows, Receive, ReadFails, Polling, Parse, Parsing
    <3>2. PollReturns \/ Sleep => ~Parse
      BY DEF PollReturns, Sleep, Polling, Parse, Parsing
    <3>3. ParseThrows \/ AcknowledgeNobody \/ RunThrows \/ PrintOverflows \/ EngineExits => ~Parse
      BY DEF ParseThrows, AcknowledgeNobody, RunThrows, PrintOverflows, EngineExits,
         EndsInCLIPS, Parse, Parsing
    <3> QED
      BY <1>2, <3>1, <3>2, <3>3 DEF ServerAlone
  <2> QED
    BY <2>1, <2>2
<1>3. CASE ConnectionLost
  BY <1>3 DEF ConnectionLost, ClientResets, Parse, Parsing
<1> QED
  BY <1>1, <1>2, <1>3 DEF ServerMoves

\* The library as ClipsClient sees it does not change.
LEMMA SameLibrary ==
    ASSUME UNCHANGED <<library, executed, hears>>, Pending' = Pending,
           Connected => (LinkUp' <=> LinkUp)
    PROVE  UNCHANGED C!vars
  BY DEF library, hears, Connected, Peer, C!vars, C!shared, C!calls, C!link, C!world

LEMMA PendingStays ==
    ASSUME UNCHANGED <<attempts, reqs>>, LinkUp, LinkUp', Quietly(attempts),
           LibraryTypes, Places, AnswerPrefix, TypeOK, TypeOK'
    PROVE  Pending' = Pending
<1> SUFFICES ASSUME NEW k, k = attempts PROVE Pending' = Pending
  OBVIOUS
<1>1. k \in Connections /\ k \in Endpoints /\ k = attempts' /\ reqs' = reqs
  BY Numbers DEF LinkUp, Places
<1>2. Len(reqs[k]) \in Nat
  BY <1>1 DEF LibraryTypes
<1>3. PICK h \in 0 .. Len(reqs[k]) : AckedCommands(k) = 1 .. h
  BY DEF AnswerPrefix
<1>4. AckedCommands(k)' = 1 .. h
  BY <1>1, <1>3, QuietAnswers
<1>5. AnswersOn(k) = h /\ AnswersOn(k)' = h
  BY <1>1, <1>2, <1>3, <1>4, AnswersOnIs, AnswersOnNext
<1>6. Pending = SubSeq(reqs[k], h + 1, Len(reqs[k]))
  BY <1>5 DEF Pending
<1>7. Pending' = SubSeq(reqs'[k], AnswersOn(k)' + 1, Len(reqs'[k]))
  BY <1>1 DEF Pending
<1> QED
  BY <1>1, <1>5, <1>6, <1>7

\* The request that is answered is the first of those on their way.
LEMMA PendingMoves ==
    ASSUME UNCHANGED <<attempts, reqs>>, LinkUp, LinkUp', SystemInv, TypeOK',
           Parse, Head(queue).src = attempts, IsCommand(Head(queue).op),
           Acknowledged(Head(queue))
    PROVE  Pending # <<>> /\ Head(Pending) = Handled /\ Pending' = Tail(Pending)
<1> USE DEF SystemInv
<1> SUFFICES ASSUME NEW k, k = attempts
             PROVE  Pending # <<>> /\ Head(Pending) = Handled /\ Pending' = Tail(Pending)
  OBVIOUS
<1>1. k \in Connections /\ k \in Endpoints /\ k = attempts' /\ reqs' = reqs
  BY Numbers DEF LinkUp, Places
<1>2. reqs[k] \in Seq(C!Requests) /\ Len(reqs[k]) \in Nat
  BY <1>1 DEF LibraryTypes
<1>3. PICK h \in 0 .. Len(reqs[k]) : AckedCommands(k) = 1 .. h
  BY DEF AnswerPrefix
<1>4. /\ Head(queue).n = h + 1 /\ h + 1 \in 1 .. Len(reqs[k])
      /\ AckedCommands(k)' = 1 .. (h + 1)
  BY <1>1, <1>3, NextAnswer
<1>5. AnswersOn(k) = h /\ AnswersOn(k)' = h + 1
  BY <1>1, <1>2, <1>3, <1>4, AnswersOnIs, AnswersOnNext
<1> DEFINE s == reqs[k]
           rest == SubSeq(s, h + 1, Len(s))
<1>6. Pending = rest
  BY <1>5 DEF Pending
<1>7. Pending' = SubSeq(s, h + 2, Len(s))
  <2>1. Pending' = SubSeq(reqs'[k], AnswersOn(k)' + 1, Len(reqs'[k]))
    BY <1>1 DEF Pending
  <2> QED
    BY <1>1, <1>5, <2>1
<1>8. Handled = s[h + 1]
  BY <1>4 DEF Handled
<1> HIDE DEF s
<1>9. /\ rest \in Seq(C!Requests) /\ Len(rest) = Len(s) - h /\ Len(s) \in Nat
      /\ \A i \in 1 .. Len(rest) : rest[i] = s[h + i]
  BY <1>2, <1>4 DEF s
<1> HIDE DEF rest
<1>10. /\ rest # <<>> /\ Head(rest) = s[h + 1]
       /\ Tail(rest) \in Seq(C!Requests) /\ Len(Tail(rest)) = Len(s) - h - 1
       /\ \A i \in 1 .. Len(Tail(rest)) : Tail(rest)[i] = s[h + 1 + i]
  <2>1. Len(rest) > 0 /\ Len(rest) \in Nat
    BY <1>2, <1>4, <1>9 DEF s
  <2>2. /\ rest # <<>> /\ Head(rest) = rest[1]
        /\ Tail(rest) \in Seq(C!Requests) /\ Len(Tail(rest)) = Len(rest) - 1
        /\ \A i \in 1 .. Len(Tail(rest)) : Tail(rest)[i] = rest[i + 1]
    BY <1>9, <2>1
  <2>3. \A i \in 1 .. Len(Tail(rest)) : i + 1 \in 1 .. Len(rest) /\ h + (i + 1) = h + 1 + i
    BY <2>1, <2>2
  <2> QED
    BY <1>9, <2>1, <2>2, <2>3
<1>11. Tail(rest) = SubSeq(s, h + 2, Len(s))
  <2> DEFINE t == SubSeq(s, h + 2, Len(s))
  <2>1. /\ t \in Seq(C!Requests) /\ Len(t) = Len(s) - h - 1
        /\ \A i \in 1 .. Len(t) : t[i] = s[h + 1 + i]
    BY <1>2, <1>4 DEF s
  <2> HIDE DEF t
  <2>2. Tail(rest) = t
    BY <1>10, <2>1, SeqEqual
  <2> QED
    BY <2>2 DEF t
<1> QED
  BY <1>6, <1>7, <1>8, <1>10, <1>11

LEMMA ServerIsAssumed ==
    ASSUME SystemInv, TypeOK', ServerMoves
    PROVE  [C!Next]_(C!vars)
<1> USE DEF SystemInv
<1> USE DEF library, hears, C!shared, C!calls, C!link, C!world
<1>1. clientAlive /\ UNCHANGED <<library, reqs>>
  BY LibraryMoves
<1>2. UNCHANGED <<socketPtr, attempts>> /\ (Connected' <=> Connected)
  BY <1>1 DEF Connected
<1>3. CASE ServerStep /\ Hears /\ ~LinkUp
  <2>1. UNCHANGED <<executed, s2c, published, unasked>>
    BY <1>3, ExecutedMoves, SilentServer DEF ServerInv
  <2>2. ~LinkUp'
    BY <1>2, <1>3, ServerKeeps DEF LinkUp
  <2>3. Pending' = Pending
    BY <1>3, <2>2 DEF Pending
  <2> QED
    BY <1>1, <1>3, <2>1, <2>2, <2>3, SameLibrary
<1>4. CASE ServerStep /\ Hears /\ LinkUp
  <2>1. PICK kind \in C!Unasked : SaysUnasked(kind) \/ SaysAnswer(kind)
    BY <1>4, ServerSays DEF ServerInv
  <2>2. (LinkUp' <=> alive') /\ C!Attached
    BY <1>2, <1>4, ServerKeeps DEF LinkUp, C!Attached, Connected, Peer
  <2>3. SaysUnasked(kind) => executed' = executed
    BY <1>4, ExecutedMoves DEF SaysUnasked, ServerInv
  <2>4. s2c \in Seq(C!Messages)
    BY DEF LibraryTypes
  <2>5. CASE SaysUnasked(kind) /\ alive'
    <3>1. Pending' = Pending
      BY <1>1, <1>2, <1>4, <2>2, <2>5, PendingStays DEF SaysUnasked, ServerInv
    <3>2. Peer' = Peer
      BY <1>2, <1>4, <2>2, <2>5 DEF Peer
    <3>3. CASE kind = "nothing"
      <4>1. UNCHANGED <<s2c, published, unasked>>
        BY <2>4, <2>5, <3>3 DEF SaysUnasked, C!Says, C!Counts
      <4> QED
        BY <1>1, <1>4, <2>2, <2>3, <2>5, <3>1, <4>1, SameLibrary
    <3>4. CASE kind # "nothing"
      <4>1. C!ServerSpeaks
        BY <1>1, <2>1, <2>2, <2>3, <2>5, <3>1, <3>2, <3>4 DEF SaysUnasked, C!ServerSpeaks
      <4> QED
        BY <4>1 DEF C!Next, C!ServerStep
    <3> QED
      BY <3>3, <3>4
  <2>6. CASE SaysUnasked(kind) /\ ~alive'
    <3>1. Pending' = <<>> /\ Peer' = "closed"
      BY <1>2, <1>4, <2>2, <2>6 DEF Pending, LinkUp, Peer
    <3>2. C!ServerCloses
      <4> DEFINE said == s2c \o C!Says(kind)
      <4>1. said \in Seq(C!Messages) /\ s2c' = said
        <5>1. C!Says(kind) \in Seq(C!Messages)
          BY <2>1, <2>6, SaidTypes DEF SaysUnasked
        <5> QED
          BY <2>4, <2>6, <5>1 DEF SaysUnasked
      <4> HIDE DEF said
      <4>2. Len(said) \in 0 .. Len(said) /\ s2c' = SubSeq(said, 1, Len(said))
        BY <4>1
      <4>3. \E n \in 0 .. Len(said) : s2c' = SubSeq(said, 1, n)
        BY <4>2
      <4> QED
        BY <1>1, <2>1, <2>2, <2>3, <2>6, <3>1, <4>3 DEF SaysUnasked, C!ServerCloses, said
    <3> QED
      BY <3>2 DEF C!Next, C!ServerStep
  <2>7. CASE SaysAnswer(kind)
    <3>1. alive' /\ LinkUp'
      <4>1. Parse
        BY <2>7 DEF SaysAnswer
      <4>2. alive'
        BY <4>1 DEF Parse, Parsing
      <4> QED
        BY <2>2, <4>2
    <3>2. Pending # <<>> /\ Head(Pending) = Handled /\ Pending' = Tail(Pending)
      BY <1>1, <1>2, <1>4, <2>7, <3>1, PendingMoves DEF SaysAnswer
    <3>3. Peer' = Peer
      BY <1>4, <3>1 DEF Peer
    <3>4. C!ServerAnswers
      <4> DEFINE ok == Handled.call \in executed'
      <4>1. /\ executed' = IF ok THEN executed \cup {Handled.call} ELSE executed
            /\ Handled.watch => ok
        BY <1>4, <2>7, ExecutedMoves DEF SaysAnswer, ServerInv
      <4>2. s2c' = s2c \o C!Says(kind) \o
                     <<C!Response(Handled, ok, IF Handled.watch THEN published' ELSE 0)>>
        BY <2>7 DEF SaysAnswer, ResponseTo
      <4>3. ok \in BOOLEAN
        OBVIOUS
      <4> HIDE DEF ok
      <4> QED
        BY <1>1, <2>1, <2>2, <2>7, <3>2, <3>3, <4>1, <4>2, <4>3 DEF SaysAnswer, C!ServerAnswers
    <3> QED
      BY <3>4 DEF C!Next
  <2> QED
    BY <2>1, <2>5, <2>6, <2>7
<1>5. CASE LinkUp /\ ClientResets(attempts) /\ UNCHANGED <<executed, hears>>
  <2>1. attempts \in Endpoints
    BY <1>5, Numbers DEF LinkUp, Places
  <2>2. ~LinkUp' /\ Connected
    BY <1>2, <1>5, <2>1, ClientActs DEF LinkUp, ServerInv
  <2>3. Pending' = <<>> /\ Peer' = "closed" /\ C!Attached
    BY <1>2, <1>5, <2>2 DEF Pending, C!Attached, Connected, Peer
  <2>4. C!Counts("nothing", FALSE)
    BY <1>5 DEF C!Counts, LibraryTypes
  <2>5. \E n \in 0 .. Len(s2c \o C!Says("nothing")) : s2c' = SubSeq(s2c \o C!Says("nothing"), 1, n)
    <3>1. s2c \in Seq(C!Messages) /\ s2c' = s2c
      BY <1>5 DEF LibraryTypes
    <3>2. s2c \o C!Says("nothing") = s2c
      BY <3>1 DEF C!Says
    <3>3. Len(s2c) \in 0 .. Len(s2c) /\ s2c' = SubSeq(s2c, 1, Len(s2c))
      BY <3>1
    <3> QED
      BY <3>2, <3>3
  <2>6. C!ServerCloses
    <3>1. "nothing" \in C!Unasked
      BY DEF C!Unasked
    <3> QED
      BY <1>1, <1>5, <2>3, <2>4, <2>5, <3>1 DEF C!ServerCloses
  <2> QED
    BY <2>6 DEF C!Next, C!ServerStep
<1> QED
  BY <1>3, <1>4, <1>5, LibraryMoves

\* Every other step of the whole is one that ClipsClient allows.
LEMMA StepIsAssumed ==
    ASSUME SystemInv, TypeOK', [SystemNext]_system
    PROVE  [C!Next]_(C!vars)
<1>1. CASE ServerMoves
  BY <1>1, ServerIsAssumed
<1>2. ASSUME NEW c \in Callers, Caller(c) PROVE C!Next
  BY <1>2 DEF Caller, C!Next, C!CallerStep
<1>3. ASSUME NEW c \in Callers, Send(c) PROVE C!Next
  BY <1>3 DEF Send, C!Next, C!CallerStep
<1>4. CASE Owner
  BY <1>4 DEF Owner, C!Next, C!OwnerStep
<1>5. CASE ServiceThread
  BY <1>5 DEF ServiceThread, C!Next, C!ServiceStep
<1>6. CASE Connects \/ Drops
  BY <1>6 DEF Connects, Drops, C!Next, C!OwnerStep, C!ServiceStep
<1>7. CASE UNCHANGED system
  <2>1. UNCHANGED <<library, executed, vars, reqs, hears>>
    BY <1>7 DEF system
  <2>2. (LinkUp' <=> LinkUp) /\ Pending' = Pending
    BY <2>1 DEF library, vars, server, network, LinkUp, Connected, Pending, AnswersOn, AckedCommands
  <2> QED
    BY <2>1, <2>2, SameLibrary
<1> QED
  BY <1>1, <1>2, <1>3, <1>4, <1>5, <1>6, <1>7 DEF SystemNext, ServerMoves

\* The server is what the library takes it for: whatever other programs do and
\* wherever the server ends, what it does on the connection of the library is
\* what ClipsClient allows (parseMessage, publishStatus and acknowledgeMessage
\* against rpc).
THEOREM ServerMeetsAssumption == SystemSpec => ServerAsAssumed
<1>1. SystemInit => C!Init
  BY DEF SystemInit
<1>2. SystemInv /\ SystemInv' /\ [SystemNext]_system => [C!Next]_(C!vars)
  BY StepIsAssumed DEF SystemInv, ServerInv
<1> QED
  BY <1>1, <1>2, SystemInvariant, PTL DEF SystemSpec, ServerAsAssumed, C!Spec

-----------------------------------------------------------------------------
(* The library that has read everything shows the status in force.         *)

(* The reports on their way to the library: each is newer than the one it  *)
(* shows and than those before it.  The newest report that was written to  *)
(* a library whose connection is accepted is shown or on its way.          *)
OnItsWay(n) == \E i \in 1 .. Len(s2c) : s2c[i].kind = "status" /\ s2c[i].report = n

ReportOrder ==
    /\ clipsStatus <= published
    /\ \A i \in 1 .. Len(s2c) : s2c[i].kind = "status" =>
          /\ s2c[i].id = C!CommandIdNone /\ s2c[i].ok
          /\ clipsStatus < s2c[i].report /\ s2c[i].report <= published
    /\ \A i, j \in 1 .. Len(s2c) :
          i < j /\ s2c[i].kind = "status" /\ s2c[j].kind = "status" =>
             s2c[i].report < s2c[j].report

ReportReaches ==
    LinkUp /\ session[attempts] = "live" => clipsStatus = published \/ OnItsWay(published)

ReportInv == ReportOrder /\ ReportReaches

LEMMA ReportNumbers ==
    ASSUME LibraryTypes
    PROVE  \A i \in 1 .. Len(s2c) : s2c[i] \in C!Messages /\ s2c[i].report \in Nat
<1>1. s2c \in Seq(C!Messages)
  BY DEF LibraryTypes
<1>2. \A i \in 1 .. Len(s2c) : s2c[i] \in C!Messages
  BY <1>1
<1> QED
  BY <1>2 DEF C!Messages

LEMMA ReportsAppend ==
    ASSUME LibraryTypes, ReportOrder, clipsStatus' = clipsStatus,
           NEW kind \in C!Unasked,
           published' = IF kind = "report" THEN published + 1 ELSE published,
           NEW t \in Seq(C!Messages), s2c' = s2c \o t,
           kind = "report" => Len(t) > 0 /\ t[1] = C!Report(published'),
           \A i \in 1 .. Len(t) : t[i].kind = "status" => i = 1 /\ kind = "report"
    PROVE  /\ ReportOrder'
           /\ kind = "report" => OnItsWay(published)'
           /\ kind # "report" /\ OnItsWay(published) => OnItsWay(published)'
<1>1. /\ s2c \in Seq(C!Messages) /\ published \in Nat /\ clipsStatus \in Nat
      /\ published' \in Nat /\ Len(s2c) \in Nat
  BY DEF LibraryTypes
<1> DEFINE l == Len(s2c)
<1>2. /\ Len(s2c') = l + Len(t) /\ Len(t) \in Nat
      /\ \A i \in 1 .. l : s2c'[i] = s2c[i] /\ i \in 1 .. Len(s2c')
      /\ \A i \in 1 .. Len(t) : s2c'[l + i] = t[i] /\ l + i \in 1 .. Len(s2c')
  BY <1>1
<1>3. \A i \in 1 .. Len(s2c') : i \in 1 .. l \/ (i > l /\ i - l \in 1 .. Len(t) /\ l + (i - l) = i)
  BY <1>1, <1>2
<1>4. /\ C!Report(published').kind = "status" /\ C!Report(published').id = C!CommandIdNone
      /\ C!Report(published').ok /\ C!Report(published').report = published'
  BY DEF C!Report
<1>5. ASSUME NEW i \in 1 .. Len(s2c'), s2c'[i].kind = "status"
      PROVE  \/ i \in 1 .. l /\ s2c'[i] = s2c[i]
             \/ i = l + 1 /\ kind = "report" /\ s2c'[i] = C!Report(published')
  <2>1. CASE i \in 1 .. l
    BY <1>2, <2>1
  <2>2. CASE i > l
    <3>1. i - l \in 1 .. Len(t) /\ s2c'[i] = t[i - l]
      BY <1>2, <1>3, <2>2
    <3>2. i - l = 1 /\ kind = "report"
      BY <1>5, <3>1
    <3> QED
      BY <1>1, <3>1, <3>2
  <2> QED
    BY <1>1, <2>1, <2>2
<1> HIDE DEF l
<1>6. ReportOrder'
  <2>1. clipsStatus' <= published'
    BY <1>1 DEF ReportOrder
  <2>2. ASSUME NEW i \in 1 .. Len(s2c'), s2c'[i].kind = "status"
        PROVE  /\ s2c'[i].id = C!CommandIdNone /\ s2c'[i].ok
               /\ clipsStatus' < s2c'[i].report /\ s2c'[i].report <= published'
    <3>1. CASE i \in 1 .. l /\ s2c'[i] = s2c[i]
      <4>1. /\ s2c[i].id = C!CommandIdNone /\ s2c[i].ok
            /\ clipsStatus < s2c[i].report /\ s2c[i].report <= published
        BY <2>2, <3>1 DEF ReportOrder, l
      <4>2. s2c[i].report \in Nat
        BY <3>1, ReportNumbers DEF l
      <4> QED
        BY <1>1, <3>1, <4>1, <4>2
    <3>2. CASE kind = "report" /\ s2c'[i] = C!Report(published')
      BY <1>1, <1>4, <3>2 DEF ReportOrder
    <3> QED
      BY <1>5, <2>2, <3>1, <3>2
  <2>3. ASSUME NEW i \in 1 .. Len(s2c'), NEW j \in 1 .. Len(s2c'), i < j,
               s2c'[i].kind = "status", s2c'[j].kind = "status"
        PROVE  s2c'[i].report < s2c'[j].report
    <3>1. i \in 1 .. l /\ s2c'[i] = s2c[i]
      <4>1. l \in Nat
        BY <1>1 DEF l
      <4>2. j \in 1 .. l \/ j = l + 1
        BY <1>5, <2>3
      <4>3. i \in 1 .. l \/ i = l + 1
        BY <1>5, <2>3
      <4>4. i \in 1 .. l
        BY <2>3, <4>1, <4>2, <4>3
      <4> QED
        BY <1>2, <4>4 DEF l
    <3>2. CASE j \in 1 .. l /\ s2c'[j] = s2c[j]
      BY <2>3, <3>1, <3>2 DEF ReportOrder, l
    <3>3. CASE kind = "report" /\ s2c'[j] = C!Report(published')
      <4>1. s2c[i].report <= published /\ s2c[i].report \in Nat
        BY <2>3, <3>1, ReportNumbers DEF ReportOrder, l
      <4> QED
        BY <1>1, <1>4, <3>1, <3>3, <4>1
    <3> QED
      BY <1>5, <2>3, <3>2, <3>3
  <2> QED
    BY <2>1, <2>2, <2>3 DEF ReportOrder
<1>7. kind = "report" => OnItsWay(published)'
  BY <1>2, <1>4 DEF OnItsWay
<1>8. kind # "report" /\ OnItsWay(published) => OnItsWay(published)'
  BY <1>2 DEF OnItsWay, l
<1> QED
  BY <1>6, <1>7, <1>8

LEMMA ReportsTail ==
    ASSUME LibraryTypes, ReportOrder, s2c # <<>>, s2c' = Tail(s2c), published' = published,
           \/ clipsStatus' = IF Head(s2c).kind = "status" /\ Head(s2c).ok
                             THEN Head(s2c).report ELSE clipsStatus
           \/ Head(s2c).id # C!CommandIdNone /\ clipsStatus' = clipsStatus
    PROVE  /\ ReportOrder'
           /\ OnItsWay(published) => clipsStatus' = published' \/ OnItsWay(published)'
           /\ clipsStatus = published => clipsStatus' = published'
<1>1. /\ s2c \in Seq(C!Messages) /\ published \in Nat /\ clipsStatus \in Nat /\ Len(s2c) \in Nat
  BY DEF LibraryTypes
<1>2. /\ Len(s2c) >= 1 /\ Head(s2c) = s2c[1] /\ Len(s2c') = Len(s2c) - 1
      /\ \A i \in 1 .. Len(s2c') : s2c'[i] = s2c[i + 1] /\ i + 1 \in 1 .. Len(s2c)
      /\ \A i \in 1 .. Len(s2c) : i = 1 \/ (i - 1 \in 1 .. Len(s2c') /\ s2c'[i - 1] = s2c[i])
  <2>1. Len(s2c) >= 1 /\ Head(s2c) = s2c[1] /\ Len(s2c') = Len(s2c) - 1
    BY <1>1
  <2>2. \A i \in 1 .. Len(s2c') : s2c'[i] = s2c[i + 1] /\ i + 1 \in 1 .. Len(s2c)
    BY <1>1, <2>1
  <2>3. \A i \in 1 .. Len(s2c) : i = 1 \/ (i - 1 \in 1 .. Len(s2c') /\ (i - 1) + 1 = i)
    BY <1>1, <2>1
  <2> QED
    BY <2>1, <2>2, <2>3
<1>3. \A i \in 1 .. Len(s2c) : s2c[i].report \in Nat
  BY ReportNumbers
<1>4. clipsStatus' = IF s2c[1].kind = "status" THEN s2c[1].report ELSE clipsStatus
  BY <1>1, <1>2 DEF ReportOrder
<1>5. 1 \in 1 .. Len(s2c)
  BY <1>1, <1>2
<1>6. ReportOrder'
  <2>1. clipsStatus' <= published'
    BY <1>4, <1>5 DEF ReportOrder
  <2>2. ASSUME NEW i \in 1 .. Len(s2c'), s2c'[i].kind = "status"
        PROVE  /\ s2c'[i].id = C!CommandIdNone /\ s2c'[i].ok
               /\ clipsStatus' < s2c'[i].report /\ s2c'[i].report <= published'
    <3>1. s2c'[i] = s2c[i + 1] /\ i + 1 \in 1 .. Len(s2c) /\ 1 < i + 1
      BY <1>2
    <3>2. /\ s2c'[i].id = C!CommandIdNone /\ s2c'[i].ok
          /\ clipsStatus < s2c'[i].report /\ s2c'[i].report <= published'
      BY <2>2, <3>1 DEF ReportOrder
    <3>3. s2c[1].kind = "status" => s2c[1].report < s2c[i + 1].report
      BY <1>5, <2>2, <3>1 DEF ReportOrder
    <3> QED
      BY <1>4, <3>1, <3>2, <3>3
  <2>3. ASSUME NEW i \in 1 .. Len(s2c'), NEW j \in 1 .. Len(s2c'), i < j,
               s2c'[i].kind = "status", s2c'[j].kind = "status"
        PROVE  s2c'[i].report < s2c'[j].report
    <3>1. /\ s2c'[i] = s2c[i + 1] /\ i + 1 \in 1 .. Len(s2c)
          /\ s2c'[j] = s2c[j + 1] /\ j + 1 \in 1 .. Len(s2c) /\ i + 1 < j + 1
      BY <1>2, <2>3
    <3> QED
      BY <2>3, <3>1 DEF ReportOrder
  <2> QED
    BY <2>1, <2>2, <2>3 DEF ReportOrder
<1>7. ASSUME OnItsWay(published) PROVE clipsStatus' = published' \/ OnItsWay(published)'
  <2>1. PICK i \in 1 .. Len(s2c) : s2c[i].kind = "status" /\ s2c[i].report = published
    BY <1>7 DEF OnItsWay
  <2>2. CASE i = 1
    BY <1>4, <2>1, <2>2
  <2>3. CASE i # 1
    BY <1>2, <2>1, <2>3 DEF OnItsWay
  <2> QED
    BY <2>2, <2>3
<1>8. ASSUME clipsStatus = published PROVE clipsStatus' = published'
  <2>1. s2c[1].kind # "status"
    BY <1>1, <1>3, <1>5, <1>8 DEF ReportOrder
  <2> QED
    BY <1>4, <1>8, <2>1
<1> QED
  BY <1>6, <1>7, <1>8

LEMMA NoReports ==
    ASSUME ReportOrder, UNCHANGED <<clipsStatus, published>>, s2c' = <<>>
    PROVE  ReportOrder'
<1>1. 1 .. Len(s2c') = {}
  BY NoElement
<1> QED
  BY <1>1 DEF ReportOrder

LEMMA SameReports ==
    ASSUME ReportInv, UNCHANGED <<clipsStatus, published, s2c>>,
           LinkUp' => LinkUp /\ attempts' = attempts,
           LinkUp' /\ session'[attempts'] = "live" => session[attempts] = "live"
    PROVE  ReportInv'
  BY DEF ReportInv, ReportOrder, ReportReaches, OnItsWay

LEMMA ReportInit == SystemInit => ReportInv
<1> SUFFICES ASSUME SystemInit PROVE ReportInv
  OBVIOUS
<1>1. clipsStatus = 0 /\ published = 0 /\ s2c = <<>> /\ socketPtr = "null"
  BY DEF SystemInit, C!Init
<1>2. 1 .. Len(s2c) = {}
  BY <1>1, NoElement
<1> QED
  BY <1>1, <1>2 DEF ReportInv, ReportOrder, ReportReaches, LinkUp, Connected

LEMMA ServerReports ==
    ASSUME SystemInv, ReportInv, ServerStep, Hears, UNCHANGED <<library, reqs>>
    PROVE  ReportInv'
<1> USE DEF SystemInv
<1>1. UNCHANGED <<clipsStatus, socketPtr, attempts, conn>> /\ (LinkUp' => LinkUp /\ alive')
  BY ServerKeeps DEF library, LinkUp, Connected
<1>2. CASE ~LinkUp
  <2>1. UNCHANGED <<s2c, published>>
    BY <1>2, SilentServer DEF ServerInv
  <2> QED
    BY <1>1, <1>2, <2>1, SameReports
<1>3. CASE LinkUp
  <2>1. PICK kind \in C!Unasked :
              /\ SaysUnasked(kind) \/ SaysAnswer(kind)
              /\ alive' /\ session'[attempts] = "live" =>
                    session[attempts] = "live" \/ kind = "report"
    BY <1>3, ServerSays DEF ServerInv
  <2>2. PICK asked : C!Counts(kind, asked)
    BY <2>1 DEF SaysUnasked, SaysAnswer
  <2> DEFINE said == C!Says(kind)
  <2>3. /\ said \in Seq(C!Messages) /\ Len(said) = IF kind = "nothing" THEN 0 ELSE 1
        /\ kind # "nothing" => said[1] = IF kind = "text" THEN C!Text ELSE C!Report(published')
    BY <2>2, SaidTypes
  <2>4. published' = IF kind = "report" THEN published + 1 ELSE published
    BY <2>2 DEF C!Counts
  <2>5. C!Text.kind = "text"
    BY DEF C!Text, C!Blank
  <2>6. s2c \in Seq(C!Messages)
    BY DEF LibraryTypes
  <2> HIDE DEF said
  <2>7. PICK t \in Seq(C!Messages) :
           /\ s2c' = s2c \o t
           /\ kind = "report" => Len(t) > 0 /\ t[1] = C!Report(published')
           /\ \A i \in 1 .. Len(t) : t[i].kind = "status" => i = 1 /\ kind = "report"
    <3>1. CASE SaysUnasked(kind)
      <4>1. s2c' = s2c \o said
        BY <3>1 DEF SaysUnasked, said
      <4>2. /\ kind = "report" => Len(said) > 0 /\ said[1] = C!Report(published')
            /\ \A i \in 1 .. Len(said) : said[i].kind = "status" => i = 1 /\ kind = "report"
        BY <2>1, <2>3, <2>5 DEF C!Unasked
      <4> QED
        BY <2>3, <4>1, <4>2
    <3>2. CASE SaysAnswer(kind)
      <4> DEFINE r == ResponseTo(Handled)
                 t == said \o <<r>>
      <4>1. r \in C!Messages
        <5>1. Handled \in C!Requests
          BY <1>3, <3>2 DEF SaysAnswer, Handled, LibraryTypes, LinkUp, Places
        <5>2. published' \in Nat
          BY <2>2, PublishedCounts
        <5> QED
          BY <5>1, <5>2 DEF ResponseTo, C!Response, C!Requests, C!Messages
      <4>2. r.kind = "response"
        BY DEF ResponseTo, C!Response
      <4>3. s2c' = s2c \o said \o <<r>>
        BY <3>2 DEF SaysAnswer, said
      <4> HIDE DEF r
      <4>4. s2c' = s2c \o t
        <5>1. <<r>> \in Seq(C!Messages)
          BY <4>1
        <5> QED
          BY <2>3, <2>6, <4>3, <5>1, HeardAssociates
      <4>5. /\ t \in Seq(C!Messages) /\ Len(t) = Len(said) + 1 /\ t[Len(said) + 1] = r
            /\ Len(said) = 1 => t[1] = said[1]
        BY <2>3, <4>1
      <4> HIDE DEF t
      <4>6. /\ kind = "report" => Len(t) > 0 /\ t[1] = C!Report(published')
            /\ \A i \in 1 .. Len(t) : t[i].kind = "status" => i = 1 /\ kind = "report"
        <5>1. CASE kind = "nothing"
          BY <2>3, <4>2, <4>5, <5>1
        <5>2. CASE kind # "nothing"
          <6>1. \A i \in 1 .. Len(t) : i = 1 \/ i = 2
            BY <2>3, <4>5, <5>2
          <6>2. t[1] = said[1] /\ t[2] = r /\ Len(t) > 0
            BY <2>3, <4>5, <5>2
          <6> QED
            BY <2>1, <2>3, <2>5, <4>2, <5>2, <6>1, <6>2 DEF C!Unasked
        <5> QED
          BY <5>1, <5>2
      <4> QED
        BY <4>4, <4>5, <4>6
    <3> QED
      BY <2>1, <3>1, <3>2
  <2>8. /\ ReportOrder'
        /\ kind = "report" => OnItsWay(published)'
        /\ kind # "report" /\ OnItsWay(published) => OnItsWay(published)'
    BY <1>1, <2>1, <2>4, <2>7, ReportsAppend DEF ReportInv
  <2>9. ReportReaches'
    <3>1. kind = "report" => OnItsWay(published)'
      BY <2>8
    <3>2. kind # "report" => published' = published
      BY <2>4
    <3> QED
      BY <1>1, <1>3, <2>1, <2>8, <3>1, <3>2 DEF ReportInv, ReportReaches
  <2> QED
    BY <2>8, <2>9 DEF ReportInv
<1> QED
  BY <1>2, <1>3

LEMMA ReportStep ==
    ASSUME SystemInv, ReportInv, [SystemNext]_system
    PROVE  ReportInv'
<1> USE DEF server, network, vars, SystemInv
<1>1. TypeOK /\ Connections \subseteq Endpoints
  BY Numbers DEF ServerInv
<1>2. CASE ServerMoves
  <2>1. UNCHANGED <<library, reqs>>
    BY <1>2, LibraryMoves
  <2>2. CASE LinkUp /\ ClientResets(attempts) /\ UNCHANGED <<executed, hears>>
    <3>1. ~LinkUp'
      BY <1>1, <2>1, <2>2, ClientActs DEF library, LinkUp, Places
    <3> QED
      BY <2>1, <2>2, <3>1, SameReports DEF library, hears
  <2> QED
    BY <1>2, <2>1, <2>2, LibraryMoves, ServerReports
<1>3. ASSUME NEW c \in Callers, Caller(c) PROVE ReportInv'
  BY <1>3, CallerMoves, SameReports DEF LinkUp, Connected
<1>4. ASSUME NEW c \in Callers, Send(c) PROVE ReportInv'
  <2>1. UNCHANGED <<socketPtr, attempts, alive, conn, session>>
    BY <1>4, SendMoves DEF ClientSends
  <2> QED
    BY <1>4, <2>1, SendMoves, SameReports DEF LinkUp, Connected
<1>5. CASE Owner
  BY <1>5, OwnerMoves, SameReports DEF LinkUp, Connected
<1>6. CASE ServiceThread
  <2>1. UNCHANGED <<vars, socketPtr, attempts, published>>
    BY <1>6, ServiceMoves
  <2>2. LinkUp' => LinkUp
    BY <2>1 DEF LinkUp, Connected
  <2>3. CASE UNCHANGED <<s2c, clipsStatus>>
    BY <2>1, <2>2, <2>3, SameReports
  <2>4. CASE ~UNCHANGED <<s2c, clipsStatus>>
    BY <1>6, <2>1, <2>2, <2>4, ServiceMoves, ReportsTail DEF ReportInv, ReportReaches
  <2> QED
    BY <2>3, <2>4
<1>7. CASE Connects
  <2>1. attempts \in Endpoints /\ attempts \in Connections
    BY <1>1, <1>7, ConnectsMoves DEF Places
  <2>2. session'[attempts'] = "none"
    BY <1>1, <1>7, <2>1, ConnectsMoves, ClientActs DEF Places
  <2>3. ReportOrder'
    BY <1>7, ConnectsMoves, NoReports DEF ReportInv
  <2> QED
    BY <2>2, <2>3 DEF ReportInv, ReportReaches
<1>8. CASE Drops
  <2>1. ReportOrder' /\ ~LinkUp'
    BY <1>8, DropsMoves, NoReports DEF ReportInv, LinkUp, Connected
  <2> QED
    BY <2>1 DEF ReportInv, ReportReaches
<1>9. CASE UNCHANGED system
  BY <1>9, SameReports DEF system, library, hears, LinkUp, Connected
<1> QED
  BY <1>2, <1>3, <1>4, <1>5, <1>6, <1>7, <1>8, <1>9 DEF SystemNext, ServerMoves

\* A library that has read everything shows the watches and the path that are
\* in force at the server, whoever changed them and whenever it connected
\* (publishStatus, acceptHandler; handleResponseMesage, updateStatus).
THEOREM StatusShown == SystemSpec => []ShowsStatusInForce
<1>1. SystemInit => ReportInv
  BY ReportInit
<1>2. SystemInv /\ ReportInv /\ [SystemNext]_system => ReportInv'
  BY ReportStep
<1>3. SystemInv /\ ReportInv => ShowsStatusInForce
  <2> SUFFICES ASSUME SystemInv, ReportInv, LinkUp, ~silent, session[attempts] = "live",
                      s2c = <<>>
               PROVE  /\ clipsStatus = published
                      /\ told[attempts] = [watching |-> watching, path |-> clppath]
    BY DEF ShowsStatusInForce
  <2>1. 1 .. Len(s2c) = {}
    BY NoElement
  <2>2. clipsStatus = published
    BY <2>1 DEF ReportInv, ReportReaches, OnItsWay
  <2>3. attempts \in clients
    BY Numbers DEF SystemInv, LinkUp, Places, clients
  <2> QED
    BY <2>2, <2>3 DEF SystemInv, ServerInv, StatusTold, CurrentStatus, LinkUp
<1> QED
  BY <1>1, <1>2, <1>3, SystemInvariant, PTL DEF SystemSpec

-----------------------------------------------------------------------------
(* The steps that the library and the server take together.                *)

\* While the requests and the connection stay, so do the requests on their way.
LEMMA LinkStays ==
    ASSUME UNCHANGED <<vars, socketPtr, attempts, reqs>>
    PROVE  Pending' = Pending /\ Peer' = Peer
  BY DEF vars, server, network, Pending, Peer, LinkUp, Connected, AnswersOn, AckedCommands

\* Where both models say what becomes of the connection they say the same: what
\* ClipsClient expects of its two streams when the library sends, connects or
\* closes is what the socket and the server make of it.  So the joined steps
\* are as possible as those of the library alone (send, connect, disconnect).
THEOREM SharedStepsAgree ==
    ASSUME SystemInv
    PROVE  /\ \A c \in Callers : Sends(c) =>
                 /\ Pending' = IF Peer = "open" THEN Append(Pending, RequestOf(c)) ELSE Pending
                 /\ Peer' = Peer
           /\ Opens => Pending' = <<>> /\ Peer' = "open"
           /\ Closes => Pending' = <<>> /\ Peer' = "open"
<1> USE DEF SystemInv
<1>1. TypeOK /\ Connections \subseteq Endpoints
  BY Numbers DEF ServerInv
<1>2. ASSUME NEW c \in Callers, Sends(c), ~LinkUp
      PROVE  Pending' = Pending /\ Peer' = Peer /\ Peer = "closed"
  BY <1>2, LinkStays DEF Sends, SameSocket, Peer
<1>3. ASSUME NEW c \in Callers, Sends(c), LinkUp
      PROVE  Pending' = Append(Pending, RequestOf(c)) /\ Peer' = Peer /\ Peer = "open"
  <2> SUFFICES ASSUME NEW k, k = attempts
               PROVE  Pending' = Append(Pending, RequestOf(c)) /\ Peer' = Peer /\ Peer = "open"
    OBVIOUS
  <2> DEFINE rq == RequestOf(c)
             s == reqs[k]
  <2>1. k \in Connections /\ k \in Endpoints /\ k = attempts'
    BY <1>1, <1>3 DEF LinkUp, Places, Sends, SameSocket
  <2>2. PICK op \in Asks(watch[c]) : ClientSends(k, op)
    BY <1>3 DEF Sends
  <2>3. UNCHANGED <<alive, conn, outbox, socketPtr>> /\ LinkUp'
    BY <1>3, <2>1, <2>2 DEF ClientSends, server, Sends, SameSocket, LinkUp, Connected
  <2>4. s \in Seq(C!Requests) /\ rq \in C!Requests /\ Len(s) \in Nat
    <3>1. reqs[k] \in Seq(C!Requests) /\ Len(reqs[k]) \in Nat
      BY <2>1 DEF LibraryTypes
    <3>2. RequestOf(c) \in C!Requests
      BY DEF LibraryTypes, RequestOf, C!Requests
    <3> QED
      BY <3>1, <3>2
  <2>5. reqs'[k] = Append(s, rq)
    BY <1>3, <2>1 DEF Sends, LibraryTypes
  <2>6. PICK h \in 0 .. Len(s) : AckedCommands(k) = 1 .. h
    BY <1>3, <2>1 DEF AnswerPrefix
  <2> HIDE DEF rq
  <2>7. Len(reqs'[k]) = Len(s) + 1
    BY <2>4, <2>5
  <2>8. AnswersOn(k) = h /\ AnswersOn(k)' = h
    <3>1. AckedCommands(k)' = 1 .. h
      BY <2>3, <2>6, SameAnswers
    <3> QED
      BY <2>4, <2>6, <2>7, <3>1, AnswersOnIs, AnswersOnNext
  <2>9. Pending = SubSeq(s, h + 1, Len(s))
    BY <1>3, <2>1, <2>8 DEF Pending
  <2>10. Pending' = SubSeq(Append(s, rq), h + 1, Len(s) + 1)
    BY <2>1, <2>3, <2>5, <2>7, <2>8 DEF Pending
  <2> HIDE DEF s
  <2>11. SubSeq(Append(s, rq), h + 1, Len(s) + 1) = Append(SubSeq(s, h + 1, Len(s)), rq)
    <3> DEFINE left == SubSeq(Append(s, rq), h + 1, Len(s) + 1)
               rest == SubSeq(s, h + 1, Len(s))
               right == Append(rest, rq)
    <3>1. /\ Append(s, rq) \in Seq(C!Requests) /\ Len(Append(s, rq)) = Len(s) + 1
          /\ \A i \in 1 .. Len(s) : Append(s, rq)[i] = s[i]
          /\ Append(s, rq)[Len(s) + 1] = rq
      BY <2>4
    <3>2. /\ left \in Seq(C!Requests) /\ Len(left) = Len(s) + 1 - h
          /\ \A i \in 1 .. Len(left) : left[i] = Append(s, rq)[h + i]
      BY <2>4, <3>1
    <3>3. /\ rest \in Seq(C!Requests) /\ Len(rest) = Len(s) - h
          /\ \A i \in 1 .. Len(rest) : rest[i] = s[h + i]
      BY <2>4
    <3> HIDE DEF left, rest
    <3>4. /\ right \in Seq(C!Requests) /\ Len(right) = Len(s) + 1 - h
          /\ \A i \in 1 .. Len(right) : right[i] = IF i = Len(s) + 1 - h THEN rq ELSE s[h + i]
      <4>1. /\ right \in Seq(C!Requests) /\ Len(right) = Len(rest) + 1
            /\ \A i \in 1 .. Len(rest) : right[i] = rest[i]
            /\ right[Len(rest) + 1] = rq
        BY <2>4, <3>3
      <4>2. Len(rest) \in Nat /\ Len(rest) + 1 = Len(s) + 1 - h
        BY <2>4, <3>3
      <4> HIDE DEF right
      <4>3. \A i \in 1 .. Len(right) : i = Len(rest) + 1 \/ i \in 1 .. Len(rest)
        BY <4>1, <4>2
      <4>4. Len(s) + 1 - h \notin 1 .. Len(rest)
        BY <4>2
      <4> QED
        BY <3>3, <4>1, <4>2, <4>3, <4>4
    <3>5. ASSUME NEW i \in 1 .. Len(left) PROVE left[i] = right[i]
      <4>1. i = Len(s) + 1 - h \/ h + i \in 1 .. Len(s)
        BY <2>4, <3>2
      <4>2. i = Len(s) + 1 - h => h + i = Len(s) + 1
        BY <2>4
      <4>3. h + i \in 1 .. Len(s) => i # Len(s) + 1 - h
        BY <2>4
      <4> QED
        BY <3>1, <3>2, <3>4, <4>1, <4>2, <4>3
    <3> HIDE DEF right
    <3>6. left = right
      BY <3>2, <3>4, <3>5, SeqEqual
    <3> QED
      BY <3>6 DEF left, right, rest
  <2>12. Peer' = Peer /\ Peer = "open"
    BY <1>3, <2>3 DEF Peer
  <2> QED
    BY <2>9, <2>10, <2>11, <2>12 DEF rq
<1>4. ASSUME Opens PROVE Pending' = <<>> /\ Peer' = "open"
  <2> SUFFICES ASSUME NEW k, k = attempts PROVE Pending' = <<>> /\ Peer' = "open"
    OBVIOUS
  <2>1. /\ k \in Connections /\ k \in Endpoints /\ k = attempts' /\ reqs' = reqs
        /\ socketPtr' = "connected"
    BY <1>1, <1>4 DEF Opens, Places
  <2>2. conn[k] = "off" /\ alive' /\ conn'[k] = "open" /\ outbox' = outbox
    BY <1>1, <1>4, <2>1, ClientActs DEF Opens, server
  <2>3. LinkUp'
    BY <2>1, <2>2 DEF LinkUp, Connected
  <2>4. Len(sent[k]) = 0 /\ Len(reqs[k]) = 0 /\ reqs[k] \in Seq(C!Requests)
    BY <2>1, <2>2 DEF ServerInv, Unused, Asked, LibraryTypes
  <2>5. AckedCommands(k) = {}
    <3>1. DOMAIN outbox[k] = 1 .. Len(outbox[k])
      BY <1>1, <2>1, Domains
    <3> QED
      BY <2>1, <2>4, <3>1 DEF ServerInv, AckInv, AckedCommands
  <2>6. AckedCommands(k)' = 1 .. 0
    BY <2>2, <2>5, SameAnswers
  <2>7. AnswersOn(k)' = 0
    <3>1. Len(reqs'[k]) \in Nat /\ 0 \in 0 .. Len(reqs'[k])
      BY <2>1, <2>4
    <3> QED
      BY <2>6, <3>1, AnswersOnNext
  <2>8. Pending' = SubSeq(reqs[k], 1, 0)
    BY <2>1, <2>3, <2>4, <2>7 DEF Pending
  <2>9. SubSeq(reqs[k], 1, 0) = <<>>
    BY <2>4
  <2> QED
    BY <2>3, <2>8, <2>9 DEF Peer
<1>5. ASSUME Closes PROVE Pending' = <<>> /\ Peer' = "open"
  BY <1>5 DEF Closes, Pending, Peer, LinkUp, Connected
<1> QED
  BY <1>2, <1>3, <1>4, <1>5
=============================================================================
