------------------------- MODULE ClipsServerProofs -------------------------
(* Theorems about the server, for any endpoints, paths and bounds.         *)
EXTENDS ClipsServer, SequenceTheorems, TLAPS

-----------------------------------------------------------------------------
(* Type correctness.                                                       *)

\* What the server writes has the type of a message.
LEMMA SendableTypes ==
    /\ StatusMessage \in Sendable /\ Text \in Sendable
    /\ \A n \in Nat : Ack(n) \in Sendable
  BY DEF StatusMessage, Text, Ack, Sendable

\* A batch of messages is a sequence for every endpoint.
LEMMA BatchTypes ==
    /\ Batches \subseteq [Endpoints -> {<<>>, <<StatusMessage>>, <<Text>>}]
    /\ Batches \subseteq [Endpoints -> Seq(Sendable)]
    /\ \A cs : ToAll(cs, StatusMessage) \in [Endpoints -> Seq(Sendable)]
    /\ Nothing \in [Endpoints -> Seq(Sendable)]
    /\ \A m \in Received : Acknowledgement(m) \in [Endpoints -> Seq(Sendable)]
<1>1. <<StatusMessage>> \in Seq(Sendable) /\ <<Text>> \in Seq(Sendable)
        /\ <<>> \in Seq(Sendable)
  BY SendableTypes
<1>2. \A n \in Nat : <<Ack(n)>> \in Seq(Sendable)
  BY SendableTypes
<1>3. Nothing \in [Endpoints -> Seq(Sendable)]
  BY <1>1 DEF Nothing
<1>4. ASSUME NEW m \in Received PROVE Acknowledgement(m) \in [Endpoints -> Seq(Sendable)]
  <2>1. ToOne(m.src, Ack(m.n)) \in [Endpoints -> Seq(Sendable)]
    BY <1>1, <1>2 DEF ToOne, Received
  <2> QED
    BY <2>1, <1>3 DEF Acknowledgement
<1>5. Batches \subseteq [Endpoints -> {<<>>, <<StatusMessage>>, <<Text>>}]
  BY DEF Batches, RuleOutput, ToAll, ToOne, Nothing
<1>6. Batches \subseteq [Endpoints -> Seq(Sendable)]
  <2>1. {<<>>, <<StatusMessage>>, <<Text>>} \subseteq Seq(Sendable)
    BY <1>1
  <2> QED
    BY <2>1, <1>5
<1> QED
  BY <1>1, <1>3, <1>4, <1>5, <1>6 DEF ToAll

\* What the rules send is a batch.
LEMMA RuleOutputTypes == RuleOutput \subseteq Batches
  BY DEF Batches

\* One batch after the other.
LEMMA ThenTypes ==
    ASSUME NEW b1 \in [Endpoints -> Seq(Sendable)], NEW b2 \in [Endpoints -> Seq(Sendable)]
    PROVE  Then(b1, b2) \in [Endpoints -> Seq(Sendable)]
  BY DEF Then

\* Delivery keeps the type of what was written.
LEMMA DeliverTypes ==
    ASSUME TypeOK, NEW b \in [Endpoints -> Seq(Sendable)], Deliver(b)
    PROVE  outbox' \in [Endpoints -> Seq(Sendable)]
  BY DEF Deliver, TypeOK

\* The handlers of the commands keep the types of what they change.
LEMMA HandleTypes ==
    ASSUME TypeOK, NEW op, NEW batch, Handle(op, batch)
    PROVE  /\ watching' \in BOOLEAN /\ silent' \in BOOLEAN
           /\ clppath' \in Paths /\ told' \in [Endpoints -> Status]
           /\ capturing' \in BOOLEAN
<1>1. CASE Watch(op, batch)
  <2>1. watching' \in BOOLEAN /\ silent' \in BOOLEAN /\ clppath' \in Paths
          /\ capturing' \in BOOLEAN
    BY <1>1 DEF Watch, PublishStatus, TypeOK
  <2>2. [watching |-> watching', path |-> clppath] \in Status
    BY <2>1 DEF Status, TypeOK
  <2> QED
    BY <1>1, <2>1, <2>2 DEF Watch, PublishStatus, Tell, TypeOK
<1>2. CASE Path(op, batch)
  <2>1. PICK p \in Paths : clppath' = p /\ PublishStatus(batch, watching, p)
    BY <1>2 DEF Path
  <2>2. [watching |-> watching, path |-> p] \in Status
    BY DEF Status, TypeOK
  <2> QED
    BY <1>2, <2>1, <2>2 DEF Path, PublishStatus, Tell, TypeOK
<1>3. CASE Evaluate(op, batch)
  BY <1>3 DEF Evaluate, Evaluates, TypeOK
<1>4. CASE NoEffect(op, batch)
  BY <1>4 DEF NoEffect, TypeOK
<1>5. CASE Query(op, batch)
  BY <1>5 DEF Query, Evaluates, TypeOK
<1> QED
  BY <1>1, <1>2, <1>3, <1>4, <1>5 DEF Handle

\* The queue gives up its oldest message, which has its type.
LEMMA QueueTypes ==
    ASSUME TypeOK, Parsing
    PROVE  Head(queue) \in Received /\ Tail(queue) \in Seq(Received)
  BY DEF TypeOK, Parsing

\* A step keeps the types.
LEMMA StepTypes == TypeOK /\ [Next]_vars => TypeOK'
<1> SUFFICES ASSUME TypeOK, [Next]_vars PROVE TypeOK'
  OBVIOUS
<1> USE DEF server, network
<1>1. ASSUME NEW e \in Endpoints, ClientStep(e) PROVE TypeOK'
  <2>1. CASE ClientConnects(e)
    BY <2>1 DEF ClientConnects, TypeOK
  <2>2. CASE ClientCloses(e)
    BY <2>2 DEF ClientCloses, TypeOK
  <2>3. CASE ClientResets(e)
    BY <2>3 DEF ClientResets, TypeOK
  <2>4. CASE \E op \in Operations : ClientSends(e, op)
    <3>1. PICK op \in Operations : ClientSends(e, op)
      BY <2>4
    <3>2. [src |-> e, n |-> Len(sent[e]) + 1, op |-> op] \in Received
      BY DEF Received, TypeOK
    <3> QED
      BY <3>1, <3>2 DEF ClientSends, TypeOK
  <2> QED
    BY <1>1, <2>1, <2>2, <2>3, <2>4 DEF ClientStep
<1>2. ASSUME NEW e \in Endpoints, Accept(e) PROVE TypeOK'
  <2>1. outbox' \in [Endpoints -> Seq(Sendable)]
    BY <1>2, BatchTypes, DeliverTypes DEF Accept
  <2>2. [watching |-> watching, path |-> clppath] \in Status
    BY DEF Status, TypeOK
  <2> QED
    BY <1>2, <2>1, <2>2 DEF Accept, Tell, TypeOK
<1>3. ASSUME NEW e \in Endpoints, AcceptThrows(e) PROVE TypeOK'
  BY <1>3 DEF AcceptThrows, Crash, TypeOK
<1>4. ASSUME NEW e \in Endpoints, Receive(e) PROVE TypeOK'
  <2>1. Head(inbox[e]) \in Received /\ Tail(inbox[e]) \in Seq(Received)
    BY <1>4 DEF Receive, TypeOK
  <2> QED
    BY <1>4, <2>1 DEF Receive, TypeOK
<1>5. ASSUME NEW e \in Endpoints, ReadFails(e) PROVE TypeOK'
  BY <1>5 DEF ReadFails, TypeOK
<1>6. CASE PollReturns
  BY <1>6 DEF PollReturns, TypeOK
<1>7. CASE Sleep
  BY <1>7 DEF Sleep, TypeOK
<1>8. CASE Parse
  <2>1. PICK batch \in Batches : Handle(Head(queue).op, batch)
                       /\ Deliver(Then(batch, Acknowledgement(Head(queue))))
    BY <1>8 DEF Parse
  <2>2. outbox' \in [Endpoints -> Seq(Sendable)]
    BY <1>8, <2>1, QueueTypes, BatchTypes, ThenTypes, DeliverTypes DEF Parse
  <2>3. watching' \in BOOLEAN /\ silent' \in BOOLEAN
          /\ clppath' \in Paths /\ told' \in [Endpoints -> Status]
          /\ capturing' \in BOOLEAN
    BY <2>1, HandleTypes
  <2> QED
    BY <1>8, <2>2, <2>3, QueueTypes DEF Parse, TypeOK
<1>9. CASE ParseThrows
  <2>1. PICK batch \in Batches : Handle(Head(queue).op, batch)
    BY <1>9 DEF ParseThrows
  <2>2. watching' \in BOOLEAN /\ silent' \in BOOLEAN
          /\ clppath' \in Paths /\ told' \in [Endpoints -> Status]
          /\ capturing' \in BOOLEAN
    BY <2>1, HandleTypes
  <2> QED
    BY <1>9, <2>2, QueueTypes DEF ParseThrows, TypeOK
<1>10. CASE AcknowledgeNobody
  <2>1. PICK batch \in Batches : Handle(Head(queue).op, batch) /\ Deliver(batch)
    BY <1>10 DEF AcknowledgeNobody
  <2>2. outbox' \in [Endpoints -> Seq(Sendable)]
    BY <2>1, BatchTypes, DeliverTypes
  <2>3. watching' \in BOOLEAN /\ silent' \in BOOLEAN
          /\ clppath' \in Paths /\ told' \in [Endpoints -> Status]
          /\ capturing' \in BOOLEAN
    BY <2>1, HandleTypes
  <2> QED
    BY <1>10, <2>2, <2>3, QueueTypes DEF AcknowledgeNobody, TypeOK
<1>11. CASE RunThrows
  BY <1>11, QueueTypes DEF RunThrows, TypeOK
<1>12. CASE PrintOverflows \/ EngineExits
  <2>1. PICK batch \in RuleOutput : Deliver(batch)
    BY <1>12 DEF PrintOverflows, EngineExits, EndsInCLIPS
  <2>2. outbox' \in [Endpoints -> Seq(Sendable)]
    BY <2>1, RuleOutputTypes, BatchTypes, DeliverTypes
  <2> QED
    BY <1>12, <2>2, QueueTypes DEF PrintOverflows, EngineExits, EndsInCLIPS, TypeOK
<1>13. CASE UNCHANGED vars
  BY <1>13 DEF vars, TypeOK
<1> QED
  BY <1>1, <1>2, <1>3, <1>4, <1>5, <1>6, <1>7, <1>8, <1>9, <1>10, <1>11, <1>12, <1>13
     DEF Next, ServerStep

\* Every variable keeps its type, whatever the clients send and however they
\* leave.
THEOREM TypeCorrect == Spec => []TypeOK
<1>1. ASSUME Init PROVE TypeOK
  <2>1. CurrentStatus \in Status
    BY <1>1 DEF Init, CurrentStatus, Status
  <2>2. queue \in Seq(Received) /\ <<>> \in Seq(Operations) /\ <<>> \in Seq(Received)
          /\ <<>> \in Seq(Sendable)
    BY <1>1 DEF Init
  <2> QED
    BY <1>1, <2>1, <2>2 DEF Init, TypeOK
<1> QED
  BY <1>1, StepTypes, PTL DEF Spec

-----------------------------------------------------------------------------
(* The status.                                                             *)

\* A command that changes the status tells it to every client.
LEMMA HandleTells ==
    ASSUME TypeOK, StatusTold, alive, NEW op, NEW batch, Handle(op, batch), ~silent'
    PROVE  \A d \in clients : told'[d] = [watching |-> watching', path |-> clppath']
<1>1. CASE Watch(op, batch)
  BY <1>1 DEF Watch, PublishStatus, Tell, clients
<1>2. CASE Path(op, batch)
  BY <1>2 DEF Path, PublishStatus, Tell, clients
<1>3. CASE Evaluate(op, batch)
  BY <1>3 DEF Evaluate, Evaluates, StatusTold, CurrentStatus
<1>4. CASE NoEffect(op, batch)
  BY <1>4 DEF NoEffect, StatusTold, CurrentStatus
<1>5. CASE Query(op, batch)
  BY <1>5 DEF Query, Evaluates, StatusTold, CurrentStatus
<1> QED
  BY <1>1, <1>2, <1>3, <1>4, <1>5 DEF Handle

\* A step tells every client the status it leaves in force.
LEMMA StepTells == TypeOK /\ StatusTold /\ [Next]_vars => StatusTold'
<1> SUFFICES ASSUME TypeOK, StatusTold, [Next]_vars, alive', ~silent'
             PROVE  \A d \in clients' : told'[d] = CurrentStatus'
  BY DEF StatusTold
<1> USE DEF server, network
<1>1. ASSUME NEW e \in Endpoints, ClientStep(e) PROVE UNCHANGED server /\ told' = told
  BY <1>1 DEF ClientStep, ClientConnects, ClientSends, ClientCloses, ClientResets
<1>2. ASSUME NEW e \in Endpoints, Accept(e)
      PROVE  \A d \in clients' : told'[d] = CurrentStatus'
  BY <1>2 DEF Accept, Tell, clients, CurrentStatus, TypeOK
<1>3. ASSUME NEW e \in Endpoints, Receive(e)
      PROVE  \A d \in clients' : told'[d] = CurrentStatus'
  BY <1>3 DEF Receive, StatusTold, clients, CurrentStatus
<1>4. ASSUME NEW e \in Endpoints, ReadFails(e)
      PROVE  \A d \in clients' : told'[d] = CurrentStatus'
  BY <1>4 DEF ReadFails, StatusTold, clients, CurrentStatus, TypeOK
<1>5. CASE Parse
  <2>1. clients' = clients /\ alive
    BY <1>5 DEF Parse, Parsing, clients
  <2> QED
    BY <1>5, <2>1, HandleTells DEF Parse, CurrentStatus
<1>6. CASE PollReturns \/ Sleep \/ UNCHANGED vars
  BY <1>6 DEF PollReturns, Sleep, vars, StatusTold, clients, CurrentStatus
<1>7. ~ParseThrows /\ ~AcknowledgeNobody /\ ~RunThrows /\ ~PrintOverflows /\ ~EngineExits
  BY DEF ParseThrows, AcknowledgeNobody, RunThrows, PrintOverflows, EngineExits, EndsInCLIPS
<1>8. \A e \in Endpoints : ~AcceptThrows(e)
  BY DEF AcceptThrows, Crash
<1>9. ASSUME NEW e \in Endpoints, ClientStep(e)
      PROVE  \A d \in clients' : told'[d] = CurrentStatus'
  BY <1>1, <1>9 DEF StatusTold, clients, CurrentStatus
<1> QED
  BY <1>2, <1>3, <1>4, <1>5, <1>6, <1>7, <1>8, <1>9 DEF Next, ServerStep

\* Every client was told the status in force: StatusTold is inductive given
\* the types.
THEOREM StatusSafe == Spec => []StatusTold
<1>1. Init => StatusTold
  BY DEF Init, StatusTold, clients
<1> QED
  BY <1>1, StepTells, TypeCorrect, PTL DEF Spec

-----------------------------------------------------------------------------
(* The commands of a client, from its program to their acknowledgements:   *)
(* what is on its way is in the order it was sent, and after what was      *)
(* acknowledged.  AckedInOrder and NothingLost do not say so: a queue out  *)
(* of order would break them only later.                                   *)

Genuine(m, s) == m.n \in 1 .. Len(s[m.src]) /\ m.op = s[m.src][m.n]

Before(s, t) ==
    \A i \in 1 .. Len(s), j \in 1 .. Len(t) : s[i].src = t[j].src => s[i].n < t[j].n

Increasing(s) ==
    \A i, j \in 1 .. Len(s) : i < j /\ s[i].src = s[j].src => s[i].n < s[j].n

Answered(e, out, s) ==
    \A i \in 1 .. Len(out), j \in 1 .. Len(s) :
        out[i].kind = "ack" /\ s[j].src = e => out[i].n < s[j].n

InboxOrder(e) ==
    /\ \A i \in 1 .. Len(inbox[e]) : Genuine(inbox[e][i], sent) /\ inbox[e][i].src = e
    /\ Increasing(inbox[e])
    /\ Before(queue, inbox[e])
    /\ Answered(e, outbox[e], inbox[e])

OrderInv ==
    /\ \A i \in 1 .. Len(queue) : Genuine(queue[i], sent)
    /\ Increasing(queue)
    /\ \A e \in Endpoints : InboxOrder(e) /\ Answered(e, outbox[e], queue)

\* All that a client was written and may still be: its acknowledgements.
AckInv ==
    \A e \in Endpoints : \A i \in 1 .. Len(outbox[e]) : outbox[e][i].kind = "ack" =>
        /\ outbox[e][i].n \in 1 .. Len(sent[e])
        /\ IsCommand(sent[e][outbox[e][i].n])
        /\ \A j \in 1 .. (i - 1) :
              outbox[e][j].kind = "ack" => outbox[e][j].n < outbox[e][i].n
        /\ sent[e][outbox[e][i].n] \in {"toggle", "show"} =>
              i > 1 /\ outbox[e][i - 1] = StatusMessage

\* The oldest message leaves the queue, the others keep their order.
LEMMA TailOfQueue ==
    ASSUME TypeOK, Parsing
    PROVE  /\ Len(queue) \in Nat /\ Len(queue) >= 1 /\ Len(Tail(queue)) = Len(queue) - 1
           /\ \A i \in 1 .. Len(Tail(queue)) : Tail(queue)[i] = queue[i + 1]
           /\ Head(queue) = queue[1]
  BY DEF TypeOK, Parsing

\* What a batch holds is no acknowledgement.
LEMMA BatchIsQuiet ==
    ASSUME NEW e \in Endpoints, NEW b \in Batches
    PROVE  /\ b[e] \in Seq(Sendable)
           /\ Len(b[e]) \in {0, 1}
           /\ \A i \in 1 .. Len(b[e]) : b[e][i].kind # "ack"
<1>1. b[e] \in {<<>>, <<StatusMessage>>, <<Text>>}
  BY BatchTypes
<1>2. StatusMessage.kind # "ack" /\ Text.kind # "ack"
  BY DEF StatusMessage, Text
<1>3. b[e] \in Seq(Sendable)
  BY BatchTypes
<1> QED
  BY <1>1, <1>2, <1>3

\* What a client is written by a step that acknowledges nothing to it.
Quietly(e) ==
    \E s \in Seq(Sendable) :
        /\ outbox'[e] = outbox[e] \o s
        /\ \A i \in 1 .. Len(s) : s[i].kind # "ack"

\* A step that writes nothing.
LEMMA NoWrite ==
    ASSUME NEW e, outbox'[e] = outbox[e], outbox[e] \in Seq(Sendable)
    PROVE  Quietly(e)
<1> DEFINE s == <<>>
<1>1. s \in Seq(Sendable) /\ \A i \in 1 .. Len(s) : s[i].kind # "ack"
  OBVIOUS
<1>2. outbox'[e] = outbox[e] \o s
  OBVIOUS
<1> HIDE DEF s
<1> QED
  BY <1>1, <1>2 DEF Quietly

\* What the sender of the message at the head of the queue is written when
\* the message is a command: at most what the command makes the server say,
\* and then its acknowledgement.
Acknowledged(m) ==
    \E s \in Seq(Sendable) :
        /\ outbox'[m.src] = (outbox[m.src] \o s) \o <<Ack(m.n)>>
        /\ \A i \in 1 .. Len(s) : s[i].kind # "ack"
        /\ m.op \in {"toggle", "show"} => s = <<StatusMessage>>

\* A broadcast of the status reaches every client that is there.
LEMMA DeliverQuietly ==
    ASSUME TypeOK, NEW e \in Endpoints, NEW b \in [Endpoints -> Seq(Sendable)],
           Deliver(b), \A i \in 1 .. Len(b[e]) : b[e][i].kind # "ack"
    PROVE  Quietly(e)
<1>1. CASE Broken(e)
  <2>1. outbox'[e] = outbox[e] /\ outbox[e] \in Seq(Sendable)
    BY <1>1 DEF Deliver, TypeOK
  <2> QED
    BY <2>1, NoWrite
<1>2. CASE ~Broken(e)
  BY <1>2 DEF Deliver, Quietly
<1> QED
  BY <1>1, <1>2

\* Writing two batches is writing one after the other.
LEMMA WritesAssociate ==
    \A s, t, u \in Seq(Sendable) : (s \o t) \o u = s \o (t \o u)
<1> SUFFICES ASSUME NEW s \in Seq(Sendable), NEW t \in Seq(Sendable), NEW u \in Seq(Sendable)
             PROVE  (s \o t) \o u = s \o (t \o u)
  OBVIOUS
<1> DEFINE left == (s \o t) \o u
           right == s \o (t \o u)
<1>1. left \in Seq(Sendable) /\ right \in Seq(Sendable)
  OBVIOUS
<1>2. Len(left) = Len(right)
  OBVIOUS
<1>3. \A i \in 1 .. Len(left) : left[i] = right[i]
  OBVIOUS
<1> HIDE DEF left, right
<1>4. left = right
  BY <1>1, <1>2, <1>3, SeqEqual
<1> QED
  BY <1>4 DEF left, right

\* What a step of parseMessage writes to each client.
LEMMA ParseWrites ==
    ASSUME TypeOK, Parse, NEW e \in Endpoints
    PROVE  \/ Quietly(e)
              /\ (Broken(e) \/ e # Head(queue).src \/ ~IsCommand(Head(queue).op))
           \/ Acknowledged(Head(queue)) /\ e = Head(queue).src /\ IsCommand(Head(queue).op)
              /\ ~Broken(e)
<1> DEFINE m == Head(queue)
<1>1. m \in Received
  BY QueueTypes DEF Parse
<1>2. PICK b \in Batches : Handle(m.op, b) /\ Deliver(Then(b, Acknowledgement(m)))
  BY DEF Parse
<1>3. b \in [Endpoints -> Seq(Sendable)] /\ Acknowledgement(m) \in [Endpoints -> Seq(Sendable)]
  BY <1>1, BatchTypes
<1>4. Then(b, Acknowledgement(m)) \in [Endpoints -> Seq(Sendable)]
  BY <1>3, ThenTypes
<1>5. Then(b, Acknowledgement(m))[e] = b[e] \o Acknowledgement(m)[e]
  BY DEF Then
<1>6. IsCommand(m.op) => session[m.src] = "live"
  BY DEF Parse
<1> HIDE DEF m
<1>7. CASE Broken(e)
  <2>1. outbox'[e] = outbox[e] /\ outbox[e] \in Seq(Sendable)
    BY <1>2, <1>7 DEF Deliver, TypeOK
  <2> QED
    BY <1>7, <2>1, NoWrite
<1>8. CASE e # m.src \/ ~IsCommand(m.op)
  <2>1. Acknowledgement(m)[e] = <<>>
    BY <1>8 DEF Acknowledgement, ToOne, Nothing
  <2>2. Then(b, Acknowledgement(m))[e] = b[e]
    BY <1>5, <2>1, <1>3
  <2> QED
    BY <1>2, <1>4, <1>8, <2>2, BatchIsQuiet, DeliverQuietly DEF m
<1>9. CASE ~Broken(e) /\ e = m.src /\ IsCommand(m.op)
  <2>1. Acknowledgement(m)[e] = <<Ack(m.n)>>
    BY <1>9 DEF Acknowledgement, ToOne
  <2>2. outbox'[e] = outbox[e] \o (b[e] \o <<Ack(m.n)>>)
    BY <1>2, <1>5, <1>9, <2>1 DEF Deliver
  <2>3. outbox[e] \in Seq(Sendable) /\ b[e] \in Seq(Sendable) /\ <<Ack(m.n)>> \in Seq(Sendable)
    BY <1>1, <1>3, SendableTypes DEF TypeOK, Received
  <2>4. outbox'[e] = (outbox[e] \o b[e]) \o <<Ack(m.n)>>
    BY <2>2, <2>3, WritesAssociate
  <2>5. m.op \in {"toggle", "show"} => b[e] = <<StatusMessage>>
    <3>1. SUFFICES ASSUME m.op \in {"toggle", "show"} PROVE b[e] = <<StatusMessage>>
      OBVIOUS
    <3>2. Watch(m.op, b)
      BY <1>2, <3>1 DEF Handle, Path, Evaluate, Query, NoEffect
    <3> QED
      BY <3>2, <1>6, <1>9 DEF Watch, PublishStatus, ToAll, clients
  <2> QED
    BY <1>9, <2>3, <2>4, <2>5, BatchIsQuiet DEF Acknowledged, m
<1> QED
  BY <1>7, <1>8, <1>9

\* What was written stays, and a step that acknowledges nothing adds none.
LEMMA QuietElements ==
    ASSUME TypeOK, NEW e \in Endpoints, Quietly(e)
    PROVE  /\ \A i \in 1 .. Len(outbox[e]) :
                 i \in 1 .. Len(outbox'[e]) /\ outbox'[e][i] = outbox[e][i]
           /\ \A i \in 1 .. Len(outbox'[e]) :
                 outbox'[e][i].kind = "ack" => i \in 1 .. Len(outbox[e])
<1>1. PICK s \in Seq(Sendable) : outbox'[e] = outbox[e] \o s
                               /\ \A i \in 1 .. Len(s) : s[i].kind # "ack"
  BY DEF Quietly
<1>2. outbox[e] \in Seq(Sendable)
  BY DEF TypeOK
<1> QED
  BY <1>1, <1>2

\* An acknowledgement is the last thing written, after the report of its
\* command.
LEMMA AckElements ==
    ASSUME TypeOK, NEW m, m.src \in Endpoints, m.n \in Nat, Acknowledged(m)
    PROVE  /\ \A i \in 1 .. Len(outbox[m.src]) :
                 i \in 1 .. Len(outbox'[m.src]) /\ outbox'[m.src][i] = outbox[m.src][i]
           /\ Len(outbox'[m.src]) \in Nat /\ Len(outbox'[m.src]) > 0
           /\ outbox'[m.src][Len(outbox'[m.src])] = Ack(m.n)
           /\ \A i \in 1 .. Len(outbox'[m.src]) : outbox'[m.src][i].kind = "ack" =>
                 i \in 1 .. Len(outbox[m.src]) \/ i = Len(outbox'[m.src])
           /\ m.op \in {"toggle", "show"} =>
                 /\ Len(outbox'[m.src]) > 1
                 /\ outbox'[m.src][Len(outbox'[m.src]) - 1] = StatusMessage
<1> DEFINE e == m.src
           a == Ack(m.n)
<1>1. PICK s \in Seq(Sendable) : outbox'[e] = (outbox[e] \o s) \o <<a>>
                               /\ (\A i \in 1 .. Len(s) : s[i].kind # "ack")
                               /\ (m.op \in {"toggle", "show"} => s = <<StatusMessage>>)
  BY DEF Acknowledged
<1>2. outbox[e] \in Seq(Sendable) /\ a \in Sendable
  BY SendableTypes DEF TypeOK
<1> HIDE DEF e, a
<1>3. /\ outbox[e] \o s \in Seq(Sendable)
      /\ Len(outbox[e] \o s) = Len(outbox[e]) + Len(s)
      /\ \A i \in 1 .. Len(outbox[e]) : (outbox[e] \o s)[i] = outbox[e][i]
      /\ \A i \in 1 .. Len(s) : (outbox[e] \o s)[Len(outbox[e]) + i] = s[i]
  BY <1>1, <1>2
<1>4. /\ Len(outbox'[e]) = Len(outbox[e]) + Len(s) + 1
      /\ \A i \in 1 .. Len(outbox[e]) + Len(s) : outbox'[e][i] = (outbox[e] \o s)[i]
      /\ outbox'[e][Len(outbox[e]) + Len(s) + 1] = a
  BY <1>1, <1>2, <1>3
<1>5. Len(outbox[e]) \in Nat /\ Len(s) \in Nat
  BY <1>1, <1>2
<1>6. \A i \in 1 .. Len(outbox[e]) :
        i \in 1 .. Len(outbox'[e]) /\ outbox'[e][i] = outbox[e][i]
  <2> SUFFICES ASSUME NEW i \in 1 .. Len(outbox[e])
               PROVE  i \in 1 .. Len(outbox'[e]) /\ outbox'[e][i] = outbox[e][i]
    OBVIOUS
  <2>1. i \in 1 .. Len(outbox[e]) + Len(s) /\ i \in 1 .. Len(outbox'[e])
    BY <1>4, <1>5
  <2>2. outbox'[e][i] = (outbox[e] \o s)[i]
    BY <1>4, <2>1
  <2> QED
    BY <1>3, <2>1, <2>2
<1>7. \A i \in 1 .. Len(outbox'[e]) : outbox'[e][i].kind = "ack" =>
        i \in 1 .. Len(outbox[e]) \/ i = Len(outbox'[e])
  <2> SUFFICES ASSUME NEW i \in 1 .. Len(outbox'[e]), i > Len(outbox[e]), i # Len(outbox'[e])
               PROVE  outbox'[e][i].kind # "ack"
    BY <1>5
  <2>1. i - Len(outbox[e]) \in 1 .. Len(s)
    BY <1>4, <1>5
  <2>2. outbox'[e][i] = s[i - Len(outbox[e])]
    BY <1>3, <1>4, <1>5, <2>1
  <2> QED
    BY <1>1, <2>1, <2>2
<1>8. m.op \in {"toggle", "show"} =>
        /\ Len(outbox'[e]) > 1
        /\ outbox'[e][Len(outbox'[e]) - 1] = StatusMessage
  <2> SUFFICES ASSUME m.op \in {"toggle", "show"}
               PROVE  /\ Len(outbox'[e]) > 1
                      /\ outbox'[e][Len(outbox'[e]) - 1] = StatusMessage
    OBVIOUS
  <2>1. Len(s) = 1 /\ s[1] = StatusMessage
    BY <1>1
  <2> QED
    BY <1>3, <1>4, <1>5, <2>1
<1>9. Len(outbox'[e]) \in Nat /\ Len(outbox'[e]) > 0 /\ outbox'[e][Len(outbox'[e])] = a
  <2>1. Len(outbox'[e]) = Len(outbox[e]) + Len(s) + 1
    BY <1>4
  <2>2. Len(outbox'[e]) \in Nat /\ Len(outbox'[e]) > 0
    BY <1>5, <2>1
  <2>3. outbox'[e][Len(outbox'[e])] = a
    BY <1>4, <2>1
  <2> QED
    BY <2>2, <2>3
<1> QED
  BY <1>6, <1>7, <1>8, <1>9 DEF e, a

\* What is left in the queue when its head is taken is in order.
LEMMA OrderOfTail ==
    ASSUME TypeOK, OrderInv, Parsing
    PROVE  /\ \A i \in 1 .. Len(Tail(queue)) : Genuine(Tail(queue)[i], sent)
           /\ Increasing(Tail(queue))
           /\ \A e \in Endpoints : Before(Tail(queue), inbox[e]) /\ Answered(e, outbox[e], Tail(queue))
<1> DEFINE q == Tail(queue)
<1>1. \A i \in 1 .. Len(q) : i + 1 \in 1 .. Len(queue) /\ q[i] = queue[i + 1]
  BY TailOfQueue
<1>2. Len(q) \in Nat
  BY TailOfQueue
<1> HIDE DEF q
<1>3. \A i \in 1 .. Len(q) : Genuine(q[i], sent)
  BY <1>1 DEF OrderInv
<1>4. Increasing(q)
  <2> SUFFICES ASSUME NEW i \in 1 .. Len(q), NEW j \in 1 .. Len(q), i < j, q[i].src = q[j].src
               PROVE  q[i].n < q[j].n
    BY DEF Increasing
  <2>1. i + 1 < j + 1
    BY <1>2
  <2> QED
    BY <1>1, <2>1 DEF OrderInv, Increasing
<1>5. \A e \in Endpoints : Before(q, inbox[e])
  BY <1>1, <1>2 DEF OrderInv, InboxOrder, Before
<1>6. \A e \in Endpoints : Answered(e, outbox[e], q)
  BY <1>1, <1>2 DEF OrderInv, Answered
<1> QED
  BY <1>3, <1>4, <1>5, <1>6 DEF q

\* Taking the head of the queue, with acknowledgements that stay before all
\* that is on its way, keeps the order.
LEMMA TakeKeepsOrder ==
    ASSUME TypeOK, OrderInv, Parsing, queue' = Tail(queue), UNCHANGED <<inbox, sent>>,
           \A e \in Endpoints : \/ Quietly(e)
                                \/ Acknowledged(Head(queue)) /\ e = Head(queue).src
    PROVE  OrderInv'
<1> DEFINE m == Head(queue)
<1>1. m \in Received /\ m = queue[1] /\ Len(queue) \in Nat /\ Len(queue) >= 1
  BY QueueTypes, TailOfQueue
<1>2. ASSUME NEW e \in Endpoints
      PROVE  Answered(e, outbox'[e], queue') /\ Answered(e, outbox'[e], inbox'[e])
  <2>1. CASE Quietly(e)
    <3>1. Answered(e, outbox[e], Tail(queue)) /\ Answered(e, outbox[e], inbox[e])
      BY OrderOfTail DEF OrderInv, InboxOrder
    <3> QED
      BY <2>1, <3>1, QuietElements DEF Answered
  <2>2. CASE Acknowledged(m) /\ e = m.src
    <3> HIDE DEF m
    <3>1. Answered(e, outbox[e], Tail(queue)) /\ Answered(e, outbox[e], inbox[e])
      BY OrderOfTail DEF OrderInv, InboxOrder
    <3>2. \A j \in 1 .. Len(Tail(queue)) : Tail(queue)[j].src = e => m.n < Tail(queue)[j].n
      <4>1. \A j \in 1 .. Len(Tail(queue)) : j + 1 \in 1 .. Len(queue) /\ 1 < j + 1
              /\ Tail(queue)[j] = queue[j + 1]
        BY TailOfQueue
      <4>2. 1 \in 1 .. Len(queue)
        BY <1>1
      <4> QED
        BY <1>1, <2>2, <4>1, <4>2 DEF OrderInv, Increasing
    <3>3. \A j \in 1 .. Len(inbox[e]) : inbox[e][j].src = e => m.n < inbox[e][j].n
      <4>1. 1 \in 1 .. Len(queue)
        BY <1>1
      <4> QED
        BY <1>1, <2>2, <4>1 DEF OrderInv, InboxOrder, Before
    <3>4. \A i \in 1 .. Len(outbox'[e]) : outbox'[e][i].kind = "ack" =>
            \/ i \in 1 .. Len(outbox[e]) /\ outbox'[e][i] = outbox[e][i]
            \/ outbox'[e][i].n = m.n
      <4>1. m.src \in Endpoints /\ m.n \in Nat /\ e = m.src /\ Acknowledged(m)
        BY <1>1, <2>2 DEF Received
      <4>2. Ack(m.n).n = m.n
        BY DEF Ack
      <4>3. /\ \A i \in 1 .. Len(outbox[e]) : outbox'[e][i] = outbox[e][i]
            /\ outbox'[e][Len(outbox'[e])] = Ack(m.n)
            /\ \A i \in 1 .. Len(outbox'[e]) : outbox'[e][i].kind = "ack" =>
                 i \in 1 .. Len(outbox[e]) \/ i = Len(outbox'[e])
        BY <4>1, AckElements
      <4> QED
        BY <4>2, <4>3
    <3> QED
      BY <3>1, <3>2, <3>3, <3>4 DEF Answered
  <2> QED
    BY <1>2, <2>1, <2>2
<1>3. (\A i \in 1 .. Len(queue') : Genuine(queue'[i], sent')) /\ Increasing(queue')
  BY OrderOfTail DEF Genuine, Increasing
<1>4. ASSUME NEW e \in Endpoints
      PROVE  /\ (\A i \in 1 .. Len(inbox'[e]) : Genuine(inbox'[e][i], sent') /\ inbox'[e][i].src = e)
             /\ Increasing(inbox'[e]) /\ Before(queue', inbox'[e])
  BY OrderOfTail DEF OrderInv, InboxOrder, Genuine, Increasing, Before
<1> QED
  BY <1>2, <1>3, <1>4 DEF OrderInv, InboxOrder

\* Steps that touch neither the inboxes, the queue nor what was sent, and
\* acknowledge nothing.
LEMMA QuietKeepsOrder ==
    ASSUME TypeOK, OrderInv, UNCHANGED <<queue, inbox, sent>>,
           \A e \in Endpoints : Quietly(e)
    PROVE  OrderInv'
<1>1. ASSUME NEW e \in Endpoints PROVE InboxOrder(e)' /\ Answered(e, outbox'[e], queue')
  <2>1. Quietly(e)
    OBVIOUS
  <2>2. InboxOrder(e) /\ Answered(e, outbox[e], queue) /\ Answered(e, outbox[e], inbox[e])
    BY DEF OrderInv, InboxOrder
  <2>3. Answered(e, outbox'[e], queue') /\ Answered(e, outbox'[e], inbox'[e])
    BY <2>1, <2>2, QuietElements DEF Answered
  <2> QED
    BY <2>2, <2>3 DEF InboxOrder
<1> QED
  BY <1>1 DEF OrderInv

\* The step of a remote program keeps the order: what it sends comes after
\* all it sent before.
LEMMA ClientKeepsOrder ==
    ASSUME TypeOK, OrderInv, AckInv, NEW c \in Endpoints, ClientStep(c)
    PROVE  OrderInv'
<1> USE DEF server
<1>1. CASE ClientConnects(c) \/ ClientCloses(c)
  <2>1. UNCHANGED <<queue, inbox, sent, outbox>>
    BY <1>1 DEF ClientConnects, ClientCloses
  <2> QED
    BY <2>1 DEF OrderInv, InboxOrder, Genuine
<1>2. CASE ClientResets(c)
  <2>1. UNCHANGED <<queue, sent, outbox>>
    BY <1>2 DEF ClientResets
  <2>2. \A e \in Endpoints : inbox'[e] = inbox[e] \/ Len(inbox'[e]) = 0
    BY <1>2 DEF ClientResets, TypeOK
  <2>3. ASSUME NEW e \in Endpoints PROVE InboxOrder(e)' /\ Answered(e, outbox'[e], queue')
    <3>1. CASE inbox'[e] = inbox[e]
      BY <2>1, <3>1 DEF OrderInv, InboxOrder
    <3>2. CASE Len(inbox'[e]) = 0
      <4>1. \A i \in 1 .. Len(inbox'[e]) : FALSE
        BY <3>2
      <4>2. Answered(e, outbox'[e], queue')
        BY <2>1 DEF OrderInv
      <4> QED
        BY <4>1, <4>2 DEF InboxOrder, Increasing, Before, Answered
    <3> QED
      BY <2>2, <3>1, <3>2
  <2> QED
    BY <2>1, <2>3 DEF OrderInv
<1>3. CASE \E op \in Operations : ClientSends(c, op)
  <2>1. PICK op \in Operations : ClientSends(c, op)
    BY <1>3
  <2> DEFINE k == Len(sent[c]) + 1
             m == [src |-> c, n |-> k, op |-> op]
  <2>2. UNCHANGED <<queue, outbox>>
    BY <2>1 DEF ClientSends
  <2>3. sent[c] \in Seq(Operations) /\ inbox[c] \in Seq(Received) /\ k \in Nat
          /\ m \in Received /\ Len(sent[c]) \in Nat /\ Len(inbox[c]) \in Nat
    <3>1. sent[c] \in Seq(Operations) /\ inbox[c] \in Seq(Received)
      BY DEF TypeOK
    <3>2. k \in Nat /\ Len(sent[c]) \in Nat /\ Len(inbox[c]) \in Nat
      BY <3>1
    <3> QED
      BY <3>1, <3>2 DEF Received
  <2>4. /\ sent'[c] = Append(sent[c], op) /\ inbox'[c] = Append(inbox[c], m)
        /\ \A e \in Endpoints : e # c => sent'[e] = sent[e] /\ inbox'[e] = inbox[e]
    BY <2>1 DEF ClientSends, TypeOK
  <2>5. m.src = c /\ m.n = k /\ m.op = op
    OBVIOUS
  <2> HIDE DEF m
  <2>6. /\ Len(sent'[c]) = k /\ sent'[c][k] = op
        /\ \A i \in 1 .. Len(sent[c]) : i \in 1 .. Len(sent'[c]) /\ sent'[c][i] = sent[c][i]
    BY <2>3, <2>4
  <2>7. /\ Len(inbox'[c]) = Len(inbox[c]) + 1
        /\ \A i \in 1 .. Len(inbox'[c]) :
             \/ i \in 1 .. Len(inbox[c]) /\ inbox'[c][i] = inbox[c][i]
             \/ i = Len(inbox[c]) + 1 /\ inbox'[c][i] = m
    BY <2>3, <2>4
  <2>8. ASSUME NEW x, x.src \in Endpoints, Genuine(x, sent)
        PROVE  Genuine(x, sent') /\ (x.src = c => x.n < k)
    BY <2>3, <2>4, <2>6, <2>8 DEF Genuine
  <2>9. Genuine(m, sent')
    BY <2>3, <2>5, <2>6 DEF Genuine
  <2>10. \A i \in 1 .. Len(queue) : queue[i] \in Received /\ queue[i].src \in Endpoints
    <3>1. \A i \in 1 .. Len(queue) : queue[i] \in Received
      BY DEF TypeOK
    <3> QED
      BY <3>1 DEF Received
  <2>11. ASSUME NEW e \in Endpoints, e # c PROVE InboxOrder(e)'
    <3>1. \A i \in 1 .. Len(inbox[e]) : Genuine(inbox[e][i], sent') /\ inbox[e][i].src = e
      BY <2>8, <2>11 DEF OrderInv, InboxOrder
    <3> QED
      BY <2>2, <2>4, <2>11, <3>1 DEF OrderInv, InboxOrder
  <2>12. \A i \in 1 .. Len(inbox[c]) :
           Genuine(inbox[c][i], sent') /\ inbox[c][i].src = c /\ inbox[c][i].n < k
    BY <2>8 DEF OrderInv, InboxOrder
  <2>13. InboxOrder(c)'
    <3>1. (\A i \in 1 .. Len(inbox'[c]) : Genuine(inbox'[c][i], sent') /\ inbox'[c][i].src = c)
      BY <2>5, <2>7, <2>9, <2>12 DEF Genuine
    <3>2. Increasing(inbox'[c])
      <4> SUFFICES ASSUME NEW i \in 1 .. Len(inbox'[c]), NEW j \in 1 .. Len(inbox'[c]), i < j
                   PROVE  inbox'[c][i].n < inbox'[c][j].n
        BY DEF Increasing
      <4>1. i \in 1 .. Len(inbox[c]) /\ inbox'[c][i] = inbox[c][i]
        BY <2>3, <2>7
      <4>2. CASE j \in 1 .. Len(inbox[c]) /\ inbox'[c][j] = inbox[c][j]
        BY <2>12, <4>1, <4>2 DEF OrderInv, InboxOrder, Increasing
      <4>3. CASE inbox'[c][j] = m
        BY <2>5, <2>12, <4>1, <4>3
      <4> QED
        BY <2>7, <4>2, <4>3
    <3>3. Before(queue', inbox'[c])
      <4>1. \A i \in 1 .. Len(queue) : queue[i].src = c => queue[i].n < k
        BY <2>8, <2>10 DEF OrderInv
      <4>2. Before(queue, inbox[c])
        BY DEF OrderInv, InboxOrder
      <4> QED
        <5> SUFFICES ASSUME NEW i \in 1 .. Len(queue), NEW j \in 1 .. Len(inbox'[c]),
                            queue[i].src = inbox'[c][j].src
                     PROVE  queue[i].n < inbox'[c][j].n
          BY <2>2 DEF Before
        <5>1. CASE j \in 1 .. Len(inbox[c]) /\ inbox'[c][j] = inbox[c][j]
          BY <4>2, <5>1 DEF Before
        <5>2. CASE inbox'[c][j] = m
          BY <2>5, <4>1, <5>2
        <5> QED
          BY <2>7, <5>1, <5>2
    <3>4. Answered(c, outbox'[c], inbox'[c])
      <4>1. \A i \in 1 .. Len(outbox[c]) : outbox[c][i].kind = "ack" => outbox[c][i].n < k
        BY <2>3 DEF AckInv
      <4>2. Answered(c, outbox[c], inbox[c])
        BY DEF OrderInv, InboxOrder
      <4> QED
        <5> SUFFICES ASSUME NEW i \in 1 .. Len(outbox[c]), NEW j \in 1 .. Len(inbox'[c]),
                            outbox[c][i].kind = "ack", inbox'[c][j].src = c
                     PROVE  outbox[c][i].n < inbox'[c][j].n
          BY <2>2 DEF Answered
        <5>1. CASE j \in 1 .. Len(inbox[c]) /\ inbox'[c][j] = inbox[c][j]
          BY <4>2, <5>1 DEF Answered
        <5>2. CASE inbox'[c][j] = m
          BY <2>5, <4>1, <5>2
        <5> QED
          BY <2>7, <5>1, <5>2
    <3> QED
      BY <3>1, <3>2, <3>3, <3>4 DEF InboxOrder
  <2>14. (\A i \in 1 .. Len(queue') : Genuine(queue'[i], sent'))
    <3>1. \A i \in 1 .. Len(queue) : Genuine(queue[i], sent')
      BY <2>8, <2>10 DEF OrderInv
    <3> QED
      BY <2>2, <3>1 DEF Genuine
  <2>15. Increasing(queue') /\ \A e \in Endpoints : Answered(e, outbox'[e], queue')
    BY <2>2 DEF OrderInv, Increasing, Answered
  <2> QED
    BY <2>11, <2>13, <2>14, <2>15 DEF OrderInv
<1> QED
  BY <1>1, <1>2, <1>3 DEF ClientStep

\* Receiving moves the oldest message of an inbox to the end of the queue.
LEMMA ReceiveKeepsOrder ==
    ASSUME TypeOK, OrderInv, NEW c \in Endpoints, Receive(c)
    PROVE  OrderInv'
<1> DEFINE m == Head(inbox[c])
<1>1. /\ queue' = Append(queue, m)
      /\ inbox'[c] = Tail(inbox[c])
      /\ \A e \in Endpoints : e # c => inbox'[e] = inbox[e]
      /\ UNCHANGED <<outbox, sent>>
      /\ inbox[c] # <<>>
  BY DEF Receive, TypeOK
<1>2. /\ queue \in Seq(Received) /\ inbox[c] \in Seq(Received)
      /\ Len(queue) \in Nat /\ Len(inbox[c]) \in Nat
  BY DEF TypeOK
<1>3. /\ m = inbox[c][1] /\ m \in Received /\ 1 \in 1 .. Len(inbox[c])
      /\ Len(Tail(inbox[c])) = Len(inbox[c]) - 1
      /\ \A i \in 1 .. Len(Tail(inbox[c])) :
           i + 1 \in 1 .. Len(inbox[c]) /\ 1 < i + 1 /\ Tail(inbox[c])[i] = inbox[c][i + 1]
  BY <1>1, <1>2
<1> HIDE DEF m
<1>4. /\ Len(queue') = Len(queue) + 1
      /\ \A i \in 1 .. Len(queue') :
           \/ i \in 1 .. Len(queue) /\ queue'[i] = queue[i]
           \/ i = Len(queue) + 1 /\ queue'[i] = m
  BY <1>1, <1>2, <1>3
<1>5. /\ InboxOrder(c)
      /\ \A i \in 1 .. Len(queue) : Genuine(queue[i], sent)
      /\ Increasing(queue)
  BY DEF OrderInv
<1>6. Genuine(m, sent) /\ m.src = c
  BY <1>3, <1>5 DEF InboxOrder
<1>7. \A i \in 1 .. Len(queue') : Genuine(queue'[i], sent')
  BY <1>1, <1>4, <1>5, <1>6
<1>8. \A i \in 1 .. Len(queue) : queue[i].src = c => queue[i].n < m.n
  BY <1>3, <1>5, <1>6 DEF InboxOrder, Before
<1>9. Increasing(queue')
  <2> SUFFICES ASSUME NEW i \in 1 .. Len(queue'), NEW j \in 1 .. Len(queue'), i < j,
                      queue'[i].src = queue'[j].src
               PROVE  queue'[i].n < queue'[j].n
    BY DEF Increasing
  <2>1. i \in 1 .. Len(queue) /\ queue'[i] = queue[i]
    BY <1>2, <1>4
  <2>2. CASE j \in 1 .. Len(queue) /\ queue'[j] = queue[j]
    BY <1>5, <2>1, <2>2 DEF Increasing
  <2>3. CASE queue'[j] = m
    BY <1>6, <1>8, <2>1, <2>3
  <2> QED
    BY <1>4, <2>2, <2>3
<1>10. \A j \in 1 .. Len(Tail(inbox[c])) : m.n < Tail(inbox[c])[j].n
  BY <1>3, <1>5, <1>6 DEF InboxOrder, Increasing
<1>11. InboxOrder(c)'
  <2> DEFINE t == Tail(inbox[c])
  <2>1. \A i \in 1 .. Len(t) : i + 1 \in 1 .. Len(inbox[c]) /\ t[i] = inbox[c][i + 1]
    BY <1>3
  <2>2. Len(t) \in Nat /\ inbox'[c] = t /\ outbox' = outbox /\ sent' = sent
    BY <1>1, <1>2, <1>3
  <2>3. \A j \in 1 .. Len(t) : m.n < t[j].n
    BY <1>10
  <2> HIDE DEF t
  <2>4. \A i \in 1 .. Len(t) : Genuine(t[i], sent) /\ t[i].src = c
    BY <1>5, <2>1 DEF InboxOrder
  <2>5. Increasing(t)
    <3> SUFFICES ASSUME NEW i \in 1 .. Len(t), NEW j \in 1 .. Len(t), i < j, t[i].src = t[j].src
                 PROVE  t[i].n < t[j].n
      BY DEF Increasing
    <3>1. i + 1 < j + 1
      BY <2>2
    <3> QED
      BY <1>5, <2>1, <3>1 DEF InboxOrder, Increasing
  <2>6. Before(queue', t)
    <3> SUFFICES ASSUME NEW i \in 1 .. Len(queue'), NEW j \in 1 .. Len(t),
                        queue'[i].src = t[j].src
                 PROVE  queue'[i].n < t[j].n
      BY DEF Before
    <3>1. CASE i \in 1 .. Len(queue) /\ queue'[i] = queue[i]
      BY <1>5, <2>1, <3>1 DEF InboxOrder, Before
    <3>2. CASE queue'[i] = m
      BY <2>3, <3>2
    <3> QED
      BY <1>4, <3>1, <3>2
  <2>7. Answered(c, outbox[c], t)
    BY <1>5, <2>1 DEF InboxOrder, Answered
  <2> QED
    BY <2>2, <2>4, <2>5, <2>6, <2>7 DEF InboxOrder
<1>12. ASSUME NEW e \in Endpoints PROVE Answered(e, outbox'[e], queue')
  <2>1. Answered(e, outbox[e], queue)
    BY DEF OrderInv
  <2>2. e = c => \A i \in 1 .. Len(outbox[c]) :
                   outbox[c][i].kind = "ack" => outbox[c][i].n < m.n
    BY <1>3, <1>5, <1>6 DEF InboxOrder, Answered
  <2> SUFFICES ASSUME NEW i \in 1 .. Len(outbox[e]), NEW j \in 1 .. Len(queue'),
                      outbox[e][i].kind = "ack", queue'[j].src = e
               PROVE  outbox[e][i].n < queue'[j].n
    BY <1>1 DEF Answered
  <2>3. CASE j \in 1 .. Len(queue) /\ queue'[j] = queue[j]
    BY <2>1, <2>3 DEF Answered
  <2>4. CASE queue'[j] = m
    BY <1>6, <2>2, <2>4
  <2> QED
    BY <1>4, <2>3, <2>4
<1>13. ASSUME NEW e \in Endpoints, e # c PROVE InboxOrder(e)'
  <2>1. InboxOrder(e) /\ inbox'[e] = inbox[e] /\ outbox' = outbox /\ sent' = sent
    BY <1>1, <1>13 DEF OrderInv
  <2>2. Before(queue', inbox[e])
    <3> SUFFICES ASSUME NEW i \in 1 .. Len(queue'), NEW j \in 1 .. Len(inbox[e]),
                        queue'[i].src = inbox[e][j].src
                 PROVE  queue'[i].n < inbox[e][j].n
      BY DEF Before
    <3>1. CASE i \in 1 .. Len(queue) /\ queue'[i] = queue[i]
      BY <2>1, <3>1 DEF InboxOrder, Before
    <3>2. CASE queue'[i] = m
      BY <1>6, <1>13, <2>1, <3>2 DEF InboxOrder
    <3> QED
      BY <1>4, <3>1, <3>2
  <2> QED
    BY <2>1, <2>2 DEF InboxOrder
<1> QED
  BY <1>7, <1>9, <1>11, <1>12, <1>13 DEF OrderInv

\* What holds of an acknowledgement holds as long as what was written stays.
LEMMA OldAcks ==
    ASSUME TypeOK, AckInv, NEW e \in Endpoints, NEW i \in 1 .. Len(outbox[e]),
           outbox'[e][i].kind = "ack",
           \A j \in 1 .. Len(outbox[e]) : outbox'[e][j] = outbox[e][j]
    PROVE  /\ outbox'[e][i].n \in 1 .. Len(sent[e])
           /\ IsCommand(sent[e][outbox'[e][i].n])
           /\ \A j \in 1 .. (i - 1) :
                outbox'[e][j].kind = "ack" => outbox'[e][j].n < outbox'[e][i].n
           /\ sent[e][outbox'[e][i].n] \in {"toggle", "show"} =>
                i > 1 /\ outbox'[e][i - 1] = StatusMessage
<1> DEFINE n == outbox[e][i].n
<1>1. outbox'[e][i] = outbox[e][i] /\ outbox[e][i].kind = "ack"
  OBVIOUS
<1>2. Len(outbox[e]) \in Nat
  BY DEF TypeOK
<1>3. /\ n \in 1 .. Len(sent[e])
      /\ IsCommand(sent[e][n])
      /\ \A j \in 1 .. (i - 1) : outbox[e][j].kind = "ack" => outbox[e][j].n < n
      /\ sent[e][n] \in {"toggle", "show"} => i > 1 /\ outbox[e][i - 1] = StatusMessage
  BY <1>1 DEF AckInv
<1>4. \A j \in 1 .. (i - 1) : outbox'[e][j] = outbox[e][j]
  BY <1>2
<1>5. i > 1 => i - 1 \in 1 .. (i - 1)
  BY <1>2
<1>6. outbox'[e][i].n = n
  BY <1>1
<1> HIDE DEF n
<1>7. \A j \in 1 .. (i - 1) : outbox'[e][j].kind = "ack" => outbox'[e][j].n < n
  BY <1>3, <1>4
<1>8. i > 1 => outbox'[e][i - 1] = outbox[e][i - 1]
  BY <1>4, <1>5
<1> QED
  BY <1>3, <1>6, <1>7, <1>8

\* A step that acknowledges nothing keeps what holds of the acknowledgements.
LEMMA QuietKeepsAcks ==
    ASSUME TypeOK, AckInv, sent' = sent, \A e \in Endpoints : Quietly(e)
    PROVE  AckInv'
<1> SUFFICES ASSUME NEW e \in Endpoints, NEW i \in 1 .. Len(outbox'[e]),
                    outbox'[e][i].kind = "ack"
             PROVE  /\ outbox'[e][i].n \in 1 .. Len(sent[e])
                    /\ IsCommand(sent[e][outbox'[e][i].n])
                    /\ \A j \in 1 .. (i - 1) :
                         outbox'[e][j].kind = "ack" => outbox'[e][j].n < outbox'[e][i].n
                    /\ sent[e][outbox'[e][i].n] \in {"toggle", "show"} =>
                         i > 1 /\ outbox'[e][i - 1] = StatusMessage
  BY DEF AckInv
<1>1. Quietly(e) /\ outbox[e] \in Seq(Sendable) /\ Len(outbox[e]) \in Nat
  BY DEF TypeOK
<1>2. i \in 1 .. Len(outbox[e])
  BY <1>1, QuietElements
<1>3. \A j \in 1 .. Len(outbox[e]) : outbox'[e][j] = outbox[e][j]
  BY <1>1, QuietElements
<1> QED
  BY <1>2, <1>3, OldAcks

\* The acknowledgement of the oldest message comes after those before it.
LEMMA ParseKeepsAcks ==
    ASSUME TypeOK, OrderInv, AckInv, Parse
    PROVE  AckInv'
<1> DEFINE m == Head(queue)
<1>1. sent' = sent /\ Parsing
  BY DEF Parse
<1>2. m \in Received /\ m = queue[1] /\ 1 \in 1 .. Len(queue) /\ Genuine(m, sent)
  BY <1>1, QueueTypes, TailOfQueue DEF OrderInv
<1>3. m.src \in Endpoints /\ m.n \in Nat
  BY <1>2 DEF Received
<1> SUFFICES ASSUME NEW e \in Endpoints, NEW i \in 1 .. Len(outbox'[e]),
                    outbox'[e][i].kind = "ack"
             PROVE  /\ outbox'[e][i].n \in 1 .. Len(sent[e])
                    /\ IsCommand(sent[e][outbox'[e][i].n])
                    /\ \A j \in 1 .. (i - 1) :
                         outbox'[e][j].kind = "ack" => outbox'[e][j].n < outbox'[e][i].n
                    /\ sent[e][outbox'[e][i].n] \in {"toggle", "show"} =>
                         i > 1 /\ outbox'[e][i - 1] = StatusMessage
  BY <1>1 DEF AckInv
<1>4. outbox[e] \in Seq(Sendable) /\ Len(outbox[e]) \in Nat
  BY DEF TypeOK
<1>6. CASE Quietly(e)
  <2>1. i \in 1 .. Len(outbox[e])
    BY <1>6, QuietElements
  <2>2. \A j \in 1 .. Len(outbox[e]) : outbox'[e][j] = outbox[e][j]
    BY <1>6, QuietElements
  <2> QED
    BY <2>1, <2>2, OldAcks
<1>7. CASE Acknowledged(m) /\ e = m.src /\ IsCommand(m.op)
  <2> HIDE DEF m
  <2>1. /\ \A j \in 1 .. Len(outbox[e]) : outbox'[e][j] = outbox[e][j]
        /\ Len(outbox'[e]) \in Nat
        /\ outbox'[e][Len(outbox'[e])] = Ack(m.n)
        /\ \A j \in 1 .. Len(outbox'[e]) : outbox'[e][j].kind = "ack" =>
             j \in 1 .. Len(outbox[e]) \/ j = Len(outbox'[e])
        /\ m.op \in {"toggle", "show"} =>
             Len(outbox'[e]) > 1 /\ outbox'[e][Len(outbox'[e]) - 1] = StatusMessage
    BY <1>3, <1>7, AckElements
  <2>2. CASE i \in 1 .. Len(outbox[e])
    BY <2>1, <2>2, OldAcks
  <2>3. CASE i = Len(outbox'[e])
    <3>1. outbox'[e][i].n = m.n
      BY <2>1, <2>3 DEF Ack
    <3>2. m.n \in 1 .. Len(sent[e]) /\ m.op = sent[e][m.n]
      BY <1>2, <1>7 DEF Genuine
    <3>3. \A j \in 1 .. Len(outbox[e]) : outbox[e][j].kind = "ack" => outbox[e][j].n < m.n
      BY <1>2, <1>7 DEF OrderInv, Answered
    <3>4. \A j \in 1 .. (i - 1) : outbox'[e][j].kind = "ack" => outbox'[e][j].n < m.n
      <4> SUFFICES ASSUME NEW j \in 1 .. (i - 1), outbox'[e][j].kind = "ack"
                   PROVE  outbox'[e][j].n < m.n
        OBVIOUS
      <4>1. j \in 1 .. Len(outbox'[e]) /\ j # Len(outbox'[e])
        BY <2>1, <2>3
      <4> QED
        BY <2>1, <3>3, <4>1
    <3> QED
      BY <1>7, <2>1, <2>3, <3>1, <3>2, <3>4
  <2> QED
    BY <2>1, <2>2, <2>3
<1> QED
  BY <1>6, <1>7, ParseWrites

\* A step keeps the order of what is on its way and of the acknowledgements.
LEMMA StepKeepsOrder ==
    TypeOK /\ OrderInv /\ AckInv /\ [Next]_vars => OrderInv' /\ AckInv'
<1> SUFFICES ASSUME TypeOK, OrderInv, AckInv, [Next]_vars PROVE OrderInv' /\ AckInv'
  OBVIOUS
<1> USE DEF server, network
<1>1. ASSUME outbox' = outbox PROVE \A e \in Endpoints : Quietly(e)
  BY <1>1, NoWrite DEF TypeOK
<1>2. ASSUME NEW e \in Endpoints, ClientStep(e) PROVE OrderInv' /\ AckInv'
  <2>1. OrderInv'
    BY <1>2, ClientKeepsOrder
  <2>2. outbox' = outbox
    BY <1>2 DEF ClientStep, ClientConnects, ClientCloses, ClientResets, ClientSends
  <2>3. \A d \in Endpoints : /\ Len(sent[d]) \in Nat
          /\ \A n \in 1 .. Len(sent[d]) : n \in 1 .. Len(sent'[d]) /\ sent'[d][n] = sent[d][n]
    <3>1. CASE sent' = sent
      BY <3>1 DEF TypeOK
    <3>2. CASE \E op \in Operations : ClientSends(e, op)
      <4>1. PICK op \in Operations : sent' = [sent EXCEPT ![e] = Append(sent[e], op)]
        BY <3>2 DEF ClientSends
      <4>2. \A d \in Endpoints : sent[d] \in Seq(Operations)
        BY DEF TypeOK
      <4>3. \A d \in Endpoints : sent'[d] = IF d = e THEN Append(sent[e], op) ELSE sent[d]
        BY <4>1 DEF TypeOK
      <4>4. ASSUME NEW d \in Endpoints
            PROVE  /\ Len(sent[d]) \in Nat
                   /\ \A n \in 1 .. Len(sent[d]) :
                        n \in 1 .. Len(sent'[d]) /\ sent'[d][n] = sent[d][n]
        <5>1. CASE d = e
          <6>1. sent'[d] = Append(sent[d], op) /\ sent[d] \in Seq(Operations)
            BY <4>2, <4>3, <5>1
          <6> QED
            BY <6>1
        <5>2. CASE d # e
          <6>1. sent'[d] = sent[d] /\ sent[d] \in Seq(Operations)
            BY <4>2, <4>3, <5>2
          <6> QED
            BY <6>1
        <5> QED
          BY <5>1, <5>2
      <4> QED
        BY <4>4
    <3> QED
      BY <1>2, <3>1, <3>2 DEF ClientStep, ClientConnects, ClientCloses, ClientResets
  <2>4. AckInv'
    BY <2>2, <2>3 DEF AckInv
  <2> QED
    BY <2>1, <2>4
<1>3. ASSUME NEW e \in Endpoints, Receive(e) PROVE OrderInv' /\ AckInv'
  <2>1. outbox' = outbox /\ sent' = sent
    BY <1>3 DEF Receive
  <2> QED
    BY <1>1, <1>3, <2>1, ReceiveKeepsOrder, QuietKeepsAcks
<1>4. ASSUME NEW e \in Endpoints, Accept(e) PROVE OrderInv' /\ AckInv'
  <2> DEFINE b == ToAll(clients \cup {e}, StatusMessage)
  <2>1. b \in [Endpoints -> Seq(Sendable)]
    BY BatchTypes
  <2>2. \A d \in Endpoints : \A i \in 1 .. Len(b[d]) : b[d][i].kind # "ack"
    BY DEF ToAll, StatusMessage
  <2>3. Deliver(b)
    BY <1>4 DEF Accept
  <2> HIDE DEF b
  <2>4. \A d \in Endpoints : Quietly(d)
    BY <2>1, <2>2, <2>3, DeliverQuietly
  <2>5. UNCHANGED <<queue, inbox, sent>>
    BY <1>4 DEF Accept
  <2> QED
    BY <2>4, <2>5, QuietKeepsOrder, QuietKeepsAcks
<1>5. ASSUME UNCHANGED <<queue, inbox, sent, outbox>> PROVE OrderInv' /\ AckInv'
  BY <1>1, <1>5, QuietKeepsOrder, QuietKeepsAcks
<1>6. CASE Parse
  <2>1. Parsing /\ queue' = Tail(queue) /\ UNCHANGED <<inbox, sent>>
    BY <1>6 DEF Parse
  <2>2. \A e \in Endpoints : \/ Quietly(e)
                             \/ Acknowledged(Head(queue)) /\ e = Head(queue).src
    BY <1>6, ParseWrites
  <2> QED
    BY <1>6, <2>1, <2>2, TakeKeepsOrder, ParseKeepsAcks
<1>7. CASE ParseThrows \/ RunThrows
  <2>1. Parsing /\ queue' = Tail(queue) /\ UNCHANGED <<inbox, sent, outbox>>
    BY <1>7 DEF ParseThrows, RunThrows
  <2> QED
    BY <1>1, <2>1, TakeKeepsOrder, QuietKeepsAcks
<1>8. CASE AcknowledgeNobody \/ PrintOverflows \/ EngineExits
  <2>1. Parsing /\ queue' = Tail(queue) /\ UNCHANGED <<inbox, sent>>
    BY <1>8 DEF AcknowledgeNobody, PrintOverflows, EngineExits, EndsInCLIPS
  <2>2. PICK b \in Batches : Deliver(b)
    BY <1>8, RuleOutputTypes DEF AcknowledgeNobody, PrintOverflows, EngineExits, EndsInCLIPS
  <2>3. b \in [Endpoints -> Seq(Sendable)]
    BY BatchTypes
  <2>4. \A d \in Endpoints : Quietly(d)
    BY <2>2, <2>3, BatchIsQuiet, DeliverQuietly
  <2> QED
    BY <2>1, <2>4, TakeKeepsOrder, QuietKeepsAcks
<1>9. ASSUME NEW e \in Endpoints, AcceptThrows(e) \/ ReadFails(e)
      PROVE  UNCHANGED <<queue, inbox, sent, outbox>>
  BY <1>9 DEF AcceptThrows, ReadFails, Crash
<1>10. ASSUME PollReturns \/ Sleep \/ UNCHANGED vars
       PROVE  UNCHANGED <<queue, inbox, sent, outbox>>
  BY <1>10 DEF PollReturns, Sleep, vars
<1> QED
  BY <1>2, <1>3, <1>4, <1>5, <1>6, <1>7, <1>8, <1>9, <1>10 DEF Next, ServerStep

\* From the start what is on its way is in order, and so are the
\* acknowledgements.
LEMMA OrderInvariant == Spec => [](OrderInv /\ AckInv)
<1>1. ASSUME Init PROVE OrderInv /\ AckInv
  <2>1. /\ Len(queue) = 0
        /\ \A e \in Endpoints : Len(inbox[e]) = 0 /\ Len(outbox[e]) = 0
    BY <1>1 DEF Init
  <2>2. \A i \in 1 .. 0 : FALSE
    OBVIOUS
  <2> QED
    BY <2>1, <2>2 DEF OrderInv, AckInv, InboxOrder, Increasing, Before, Answered
<1> QED
  BY <1>1, TypeCorrect, StepKeepsOrder, PTL DEF Spec

\* The positions of a sequence.
LEMMA Domains ==
    TypeOK => \A e \in Endpoints : /\ DOMAIN outbox[e] = 1 .. Len(outbox[e])
                                   /\ DOMAIN sent[e] = 1 .. Len(sent[e])
                                   /\ DOMAIN inbox[e] = 1 .. Len(inbox[e])
                                   /\ DOMAIN queue = 1 .. Len(queue)
  BY DEF TypeOK

\* Every command is acknowledged at most once, in order, to the client that
\* sent it.
THEOREM AcksSafe == Spec => []AckedInOrder
<1>1. TypeOK /\ AckInv => AckedInOrder
  BY Domains DEF AckInv, AckedInOrder
<1> QED
  BY <1>1, TypeCorrect, OrderInvariant, PTL

\* The report of a "watch" is written just before its acknowledgement.
THEOREM ReportsFirst == Spec => []ReportBeforeAck
<1>1. TypeOK /\ AckInv => ReportBeforeAck
  BY Domains DEF AckInv, ReportBeforeAck
<1> QED
  BY <1>1, TypeCorrect, OrderInvariant, PTL

-----------------------------------------------------------------------------
(* No command is lost.  A connection that was never made has sent nothing. *)

Unused == \A e \in Endpoints : conn[e] = "off" => Len(sent[e]) = 0

\* The sequences only grow at their ends, so what waits still waits, unless it
\* is the oldest message of its sequence and that is taken.
LEMMA WaitsInAppend ==
    ASSUME NEW s \in Seq(Received), NEW m \in Received, NEW e, NEW n
    PROVE  /\ Waits(s, e, n) => Waits(Append(s, m), e, n)
           /\ m.src = e /\ m.n = n => Waits(Append(s, m), e, n)
<1> DEFINE t == Append(s, m)
<1>1. /\ DOMAIN s = 1 .. Len(s) /\ DOMAIN t = 1 .. (Len(s) + 1) /\ Len(s) \in Nat
      /\ t[Len(s) + 1] = m
      /\ \A i \in 1 .. Len(s) : t[i] = s[i]
  OBVIOUS
<1> HIDE DEF t
<1>2. \A i \in DOMAIN s : i \in DOMAIN t /\ t[i] = s[i]
  BY <1>1
<1>3. Len(s) + 1 \in DOMAIN t /\ t[Len(s) + 1] = m
  BY <1>1
<1>4. Waits(s, e, n) => Waits(t, e, n)
  BY <1>2 DEF Waits
<1>5. m.src = e /\ m.n = n => Waits(t, e, n)
  BY <1>3 DEF Waits
<1> QED
  BY <1>4, <1>5 DEF t

LEMMA WaitsInTail ==
    ASSUME NEW s \in Seq(Received), s # <<>>, NEW e, NEW n, Waits(s, e, n)
    PROVE  (Head(s).src = e /\ Head(s).n = n) \/ Waits(Tail(s), e, n)
<1> DEFINE t == Tail(s)
<1>1. PICK i \in DOMAIN s : s[i].src = e /\ s[i].n = n
  BY DEF Waits
<1>2. i \in 1 .. Len(s) /\ Len(s) \in Nat /\ Head(s) = s[1]
  OBVIOUS
<1>3. CASE i = 1
  BY <1>1, <1>2, <1>3
<1>4. CASE i # 1
  <2>1. i - 1 \in DOMAIN t /\ t[i - 1] = s[i]
    BY <1>2, <1>4
  <2> HIDE DEF t
  <2>2. Waits(t, e, n)
    BY <1>1, <2>1 DEF Waits
  <2> QED
    BY <2>2 DEF t
<1> QED
  BY <1>3, <1>4

\* What was acknowledged stays so.
LEMMA AckedStays ==
    ASSUME TypeOK, NEW e \in Endpoints, NEW n, Acked(e, n),
           \/ outbox'[e] = outbox[e]
           \/ \E s \in Seq(Sendable) : outbox'[e] = outbox[e] \o s
    PROVE  Acked(e, n)'
<1>1. PICK i \in DOMAIN outbox[e] : outbox[e][i] = Ack(n)
  BY DEF Acked
<1>2. CASE outbox'[e] = outbox[e]
  BY <1>1, <1>2 DEF Acked
<1>3. CASE \E s \in Seq(Sendable) : outbox'[e] = outbox[e] \o s
  <2>1. PICK s \in Seq(Sendable) : outbox'[e] = outbox[e] \o s
    BY <1>3
  <2>2. outbox[e] \in Seq(Sendable)
    BY DEF TypeOK
  <2>3. i \in DOMAIN outbox'[e] /\ outbox'[e][i] = outbox[e][i]
    BY <2>1, <2>2
  <2> QED
    BY <1>1, <2>3 DEF Acked
<1> QED
  BY <1>2, <1>3

\* What a step of parseMessage does to the command it takes.
LEMMA ParseAnswers ==
    ASSUME TypeOK, OrderInv, Parse, NEW e \in Endpoints, conn[e] = "open", NEW n,
           Head(queue).src = e, Head(queue).n = n, IsCommand(sent[e][n])
    PROVE  Acked(e, n)'
<1> DEFINE m == Head(queue)
<1>1. Parsing
  BY DEF Parse
<1>2. m \in Received /\ m = queue[1] /\ 1 \in 1 .. Len(queue)
  BY <1>1, QueueTypes, TailOfQueue
<1>3. Genuine(m, sent)
  BY <1>2 DEF OrderInv
<1>4. IsCommand(m.op) /\ ~Broken(e)
  BY <1>3 DEF Genuine, Broken
<1>5. Acknowledged(m)
  BY <1>4, ParseWrites
<1>6. m.src \in Endpoints /\ m.n \in Nat
  BY <1>2 DEF Received
<1> HIDE DEF m
<1>7. /\ Len(outbox'[m.src]) \in Nat /\ Len(outbox'[m.src]) > 0
      /\ outbox'[m.src][Len(outbox'[m.src])] = Ack(m.n)
  BY <1>5, <1>6, AckElements
<1>8. DOMAIN outbox'[e] = 1 .. Len(outbox'[e])
  <2>1. TypeOK'
    BY StepTypes DEF Next, ServerStep
  <2> QED
    BY <2>1 DEF TypeOK
<1> QED
  BY <1>7, <1>8 DEF Acked, m

\* A step loses no command of a client that stays.
LEMMA StepLosesNothing ==
    TypeOK /\ OrderInv /\ Unused /\ NothingLost /\ [Next]_vars => NothingLost'
<1> SUFFICES ASSUME TypeOK, OrderInv, Unused, NothingLost, [Next]_vars,
                    NEW e \in Endpoints, alive', conn'[e] = "open",
                    NEW n \in DOMAIN sent'[e], IsCommand(sent'[e][n])
             PROVE  Acked(e, n)' \/ Waits(queue', e, n) \/ Waits(inbox'[e], e, n)
  BY DEF NothingLost, Acked, Waits
<1> USE DEF server, network
<1>1. /\ queue \in Seq(Received) /\ inbox[e] \in Seq(Received)
      /\ sent[e] \in Seq(Operations) /\ conn \in [Endpoints -> {"off", "open", "closed", "reset"}]
  BY DEF TypeOK
<1>2. ASSUME alive, conn[e] = "open", n \in DOMAIN sent[e], sent'[e][n] = sent[e][n]
      PROVE  Acked(e, n) \/ Waits(queue, e, n) \/ Waits(inbox[e], e, n)
  BY <1>2 DEF NothingLost
<1>3. ASSUME NEW d \in Endpoints, ClientConnects(d)
      PROVE  Acked(e, n)' \/ Waits(queue', e, n) \/ Waits(inbox'[e], e, n)
  <2>1. alive /\ UNCHANGED <<queue, inbox, outbox, sent>>
    BY <1>3 DEF ClientConnects
  <2>2. d # e
    <3>1. SUFFICES ASSUME d = e PROVE FALSE
      OBVIOUS
    <3>2. Len(sent[e]) = 0
      BY <1>3, <3>1 DEF ClientConnects, Unused
    <3> QED
      BY <1>1, <2>1, <3>2
  <2>3. conn[e] = "open"
    BY <1>1, <1>3, <2>2 DEF ClientConnects
  <2> QED
    BY <1>2, <2>1, <2>3 DEF Acked
<1>4. ASSUME NEW d \in Endpoints, ClientCloses(d) \/ ClientResets(d)
      PROVE  Acked(e, n)' \/ Waits(queue', e, n) \/ Waits(inbox'[e], e, n)
  <2>1. alive /\ UNCHANGED <<queue, outbox, sent>>
    BY <1>4 DEF ClientCloses, ClientResets
  <2>2. d # e
    BY <1>1, <1>4 DEF ClientCloses, ClientResets
  <2>3. conn[e] = "open" /\ inbox'[e] = inbox[e]
    BY <1>1, <1>4, <2>2 DEF ClientCloses, ClientResets, TypeOK
  <2> QED
    BY <1>2, <2>1, <2>3 DEF Acked
<1>5. ASSUME NEW d \in Endpoints, NEW op \in Operations, ClientSends(d, op)
      PROVE  Acked(e, n)' \/ Waits(queue', e, n) \/ Waits(inbox'[e], e, n)
  <2>1. alive /\ UNCHANGED <<queue, outbox, conn>>
    BY <1>5 DEF ClientSends
  <2>2. CASE d # e
    <3>1. sent'[e] = sent[e] /\ inbox'[e] = inbox[e]
      BY <1>5, <2>2 DEF ClientSends, TypeOK
    <3> QED
      BY <1>2, <2>1, <3>1 DEF Acked
  <2>3. CASE d = e
    <3> DEFINE m == [src |-> e, n |-> Len(sent[e]) + 1, op |-> op]
    <3>1. sent'[e] = Append(sent[e], op) /\ inbox'[e] = Append(inbox[e], m)
      BY <1>5, <2>3 DEF ClientSends, TypeOK
    <3>2. m \in Received /\ m.src = e /\ m.n = Len(sent[e]) + 1
      BY <1>1 DEF Received
    <3> HIDE DEF m
    <3>3. n = Len(sent[e]) + 1 \/ (n \in DOMAIN sent[e] /\ sent'[e][n] = sent[e][n])
      BY <1>1, <3>1
    <3>4. CASE n = Len(sent[e]) + 1
      BY <1>1, <3>1, <3>2, <3>4, WaitsInAppend
    <3>5. CASE n \in DOMAIN sent[e] /\ sent'[e][n] = sent[e][n]
      <4>1. Acked(e, n) \/ Waits(queue, e, n) \/ Waits(inbox[e], e, n)
        BY <1>2, <2>1, <3>5
      <4>2. Waits(inbox[e], e, n) => Waits(inbox'[e], e, n)
        BY <1>1, <3>1, <3>2, WaitsInAppend
      <4> QED
        BY <2>1, <4>1, <4>2 DEF Acked
    <3> QED
      BY <3>3, <3>4, <3>5
  <2> QED
    BY <2>2, <2>3
<1>6. ASSUME UNCHANGED <<alive, conn, queue, inbox, outbox, sent>>
      PROVE  Acked(e, n)' \/ Waits(queue', e, n) \/ Waits(inbox'[e], e, n)
  BY <1>2, <1>6 DEF Acked
<1>7. ASSUME NEW d \in Endpoints, Accept(d)
      PROVE  Acked(e, n)' \/ Waits(queue', e, n) \/ Waits(inbox'[e], e, n)
  <2>1. alive /\ UNCHANGED <<conn, queue, inbox, sent>>
    BY <1>7 DEF Accept, Polling
  <2>2. ToAll(clients \cup {d}, StatusMessage) \in [Endpoints -> Seq(Sendable)]
    BY BatchTypes
  <2>3. \/ outbox'[e] = outbox[e]
        \/ \E s \in Seq(Sendable) : outbox'[e] = outbox[e] \o s
    BY <1>7, <2>2 DEF Accept, Deliver
  <2> QED
    BY <1>2, <2>1, <2>3, AckedStays
<1>8. ASSUME NEW d \in Endpoints, Receive(d)
      PROVE  Acked(e, n)' \/ Waits(queue', e, n) \/ Waits(inbox'[e], e, n)
  <2>1. alive /\ UNCHANGED <<conn, outbox, sent>> /\ queue' = Append(queue, Head(inbox[d]))
    BY <1>8 DEF Receive, Polling
  <2>2. inbox[d] \in Seq(Received) /\ inbox[d] # <<>> /\ Head(inbox[d]) \in Received
    BY <1>8 DEF Receive, TypeOK
  <2>3. Acked(e, n) \/ Waits(queue, e, n) \/ Waits(inbox[e], e, n)
    BY <1>2, <2>1
  <2>4. CASE Waits(queue, e, n)
    BY <1>1, <2>1, <2>2, <2>4, WaitsInAppend
  <2>5. CASE Waits(inbox[e], e, n) /\ d # e
    <3>1. inbox'[e] = inbox[e]
      BY <1>8, <2>5 DEF Receive, TypeOK
    <3> QED
      BY <2>5, <3>1
  <2>6. CASE Waits(inbox[e], e, n) /\ d = e
    <3>1. inbox'[e] = Tail(inbox[e])
      BY <1>8, <2>6 DEF Receive, TypeOK
    <3>2. (Head(inbox[e]).src = e /\ Head(inbox[e]).n = n) \/ Waits(Tail(inbox[e]), e, n)
      BY <2>2, <2>6, WaitsInTail
    <3>3. Head(inbox[e]).src = e /\ Head(inbox[e]).n = n => Waits(queue', e, n)
      BY <1>1, <2>1, <2>2, <2>6, WaitsInAppend
    <3> QED
      BY <3>1, <3>2, <3>3
  <2> QED
    BY <2>1, <2>3, <2>4, <2>5, <2>6 DEF Acked
<1>9. CASE Parse
  <2>1. alive /\ Parsing /\ queue # <<>> /\ queue' = Tail(queue) /\ UNCHANGED <<conn, inbox, sent>>
    BY <1>9 DEF Parse, Parsing
  <2>2. conn[e] = "open" /\ IsCommand(sent[e][n])
    BY <2>1
  <2>3. Acked(e, n) \/ Waits(queue, e, n) \/ Waits(inbox[e], e, n)
    BY <1>2, <2>1
  <2>4. CASE Acked(e, n)
    <3>1. PICK batch \in Batches : Deliver(Then(batch, Acknowledgement(Head(queue))))
      BY <1>9 DEF Parse
    <3>2. Then(batch, Acknowledgement(Head(queue))) \in [Endpoints -> Seq(Sendable)]
      BY <2>1, QueueTypes, BatchTypes, ThenTypes
    <3>3. \/ outbox'[e] = outbox[e]
          \/ \E s \in Seq(Sendable) : outbox'[e] = outbox[e] \o s
      BY <3>1, <3>2 DEF Deliver
    <3> QED
      BY <2>4, <3>3, AckedStays
  <2>5. CASE Waits(queue, e, n)
    <3>1. CASE Head(queue).src = e /\ Head(queue).n = n
      BY <1>9, <2>2, <3>1, ParseAnswers
    <3>2. CASE Waits(Tail(queue), e, n)
      BY <2>1, <3>2
    <3> QED
      BY <1>1, <2>1, <2>5, <3>1, <3>2, WaitsInTail
  <2>6. CASE Waits(inbox[e], e, n)
    BY <2>1, <2>6
  <2> QED
    BY <2>3, <2>4, <2>5, <2>6
<1>10. ASSUME NEW d \in Endpoints, ReadFails(d)
       PROVE  UNCHANGED <<alive, conn, queue, inbox, outbox, sent>>
  BY <1>10 DEF ReadFails
<1>11. ASSUME PollReturns \/ Sleep \/ UNCHANGED vars
       PROVE  UNCHANGED <<alive, conn, queue, inbox, outbox, sent>>
  BY <1>11 DEF PollReturns, Sleep, vars
<1>12. /\ ~ParseThrows /\ ~AcknowledgeNobody /\ ~RunThrows /\ ~PrintOverflows
       /\ ~EngineExits
       /\ \A d \in Endpoints : ~AcceptThrows(d)
  BY DEF ParseThrows, AcknowledgeNobody, RunThrows, PrintOverflows, EngineExits, EndsInCLIPS,
     AcceptThrows, Crash
<1> QED
  BY <1>3, <1>4, <1>5, <1>6, <1>7, <1>8, <1>9, <1>10, <1>11, <1>12
     DEF Next, ServerStep, ClientStep

\* A connection that was never made stays unused.
LEMMA StepKeepsUnused == TypeOK /\ Unused /\ [Next]_vars => Unused'
<1> SUFFICES ASSUME TypeOK, Unused, [Next]_vars, NEW e \in Endpoints, conn'[e] = "off"
             PROVE  Len(sent'[e]) = 0
  BY DEF Unused
<1> USE DEF server, network
<1>1. ASSUME NEW d \in Endpoints, ClientStep(d)
      PROVE  conn[e] = "off" /\ sent'[e] = sent[e]
  BY <1>1 DEF ClientStep, ClientConnects, ClientSends, ClientCloses, ClientResets, TypeOK
<1>2. ASSUME ServerStep \/ UNCHANGED vars PROVE UNCHANGED <<conn, sent>>
  BY <1>2 DEF ServerStep, Accept, AcceptThrows, Receive, ReadFails, PollReturns, Sleep,
              Parse, ParseThrows, AcknowledgeNobody, RunThrows, PrintOverflows, EngineExits,
              EndsInCLIPS, Crash, vars
<1> QED
  BY <1>1, <1>2 DEF Next, Unused

\* No command is lost while its client stays: it waits or is acknowledged.
THEOREM CommandsKept == Spec => []NothingLost
<1>1. Init => Unused /\ NothingLost
  <2> SUFFICES ASSUME Init PROVE Unused /\ NothingLost
    OBVIOUS
  <2>1. \A e \in Endpoints : sent[e] = <<>>
    BY DEF Init
  <2>2. Len(<<>>) = 0 /\ DOMAIN <<>> = {}
    OBVIOUS
  <2>3. \A e \in Endpoints : Len(sent[e]) = 0 /\ DOMAIN sent[e] = {}
    BY <2>1, <2>2
  <2> QED
    BY <2>3 DEF Unused, NothingLost
<1> QED
  BY <1>1, StepLosesNothing, StepKeepsUnused, TypeCorrect, OrderInvariant, PTL DEF Spec

-----------------------------------------------------------------------------
(* How the server ends.                                                    *)

\* EndsOnlyForCause does not say why a session may be missing or the router
\* enabled: the first only because its client broke off, the second after a
\* query.  A message in the queue came through a session that was accepted.
CauseInv ==
    /\ capturing => Requested("query")
    /\ \A e \in Endpoints : session[e] = "gone" => Broken(e)
    /\ \A i \in 1 .. Len(queue) : session[queue[i].src] # "none"

\* A cause remains one.
LEMMA CausesStay ==
    ASSUME TypeOK, [Next]_vars
    PROVE  /\ \A e \in Endpoints : Broken(e) => Broken(e)'
           /\ \A op : Requested(op) => Requested(op)'
<1> USE DEF server, network
<1>1. ASSUME ServerStep \/ UNCHANGED vars PROVE UNCHANGED <<conn, sent>>
  BY <1>1 DEF ServerStep, Accept, AcceptThrows, Receive, ReadFails, PollReturns, Sleep,
              Parse, ParseThrows, AcknowledgeNobody, RunThrows, PrintOverflows, EngineExits,
              EndsInCLIPS, Crash, vars
<1>2. ASSUME NEW d \in Endpoints, ClientStep(d)
      PROVE  \A e \in Endpoints : Broken(e) => Broken(e)'
  BY <1>2 DEF ClientStep, ClientConnects, ClientSends, ClientCloses, ClientResets, Broken,
              TypeOK
<1>3. ASSUME NEW d \in Endpoints, NEW op \in Operations, ClientSends(d, op),
             NEW e \in Endpoints, NEW i \in DOMAIN sent[e]
      PROVE  i \in DOMAIN sent'[e] /\ sent'[e][i] = sent[e][i]
  <2>1. sent[e] \in Seq(Operations)
    BY DEF TypeOK
  <2>2. sent'[e] = IF e = d THEN Append(sent[e], op) ELSE sent[e]
    BY <1>3 DEF ClientSends, TypeOK
  <2> QED
    BY <2>1, <2>2
<1>4. ASSUME NEW d \in Endpoints, ClientStep(d), NEW op, Requested(op) PROVE Requested(op)'
  <2>1. CASE sent' = sent
    BY <1>4, <2>1 DEF Requested
  <2>2. CASE \E o \in Operations : ClientSends(d, o)
    BY <1>3, <1>4, <2>2 DEF Requested
  <2> QED
    BY <1>4, <2>1, <2>2 DEF ClientStep, ClientConnects, ClientCloses, ClientResets
<1>5. ASSUME UNCHANGED <<conn, sent>>
      PROVE  /\ \A e \in Endpoints : Broken(e) => Broken(e)'
             /\ \A op : Requested(op) => Requested(op)'
  BY <1>5 DEF Broken, Requested
<1> QED
  BY <1>1, <1>2, <1>4, <1>5 DEF Next

\* Whatever ends the process has a cause.
LEMMA EndsForCause ==
    ASSUME TypeOK, CauseInv, [Next]_vars, alive, ~alive'
    PROVE  \/ \E e \in Endpoints : Broken(e) /\ session'[e] = "live"
           \/ Parsing /\ MayEnd(Head(queue))
<1> USE DEF server, network
<1>1. ASSUME Parsing
      PROVE  /\ Head(queue).src \in Endpoints
             /\ session[Head(queue).src] # "live" => Broken(Head(queue).src)
  <2>1. Head(queue) = queue[1] /\ 1 \in 1 .. Len(queue) /\ Head(queue) \in Received
    BY <1>1, TailOfQueue DEF TypeOK
  <2>2. Head(queue).src \in Endpoints
    BY <2>1 DEF Received
  <2>3. session[Head(queue).src] # "none"
    BY <2>1 DEF CauseInv
  <2>4. session[Head(queue).src] \in {"none", "live", "gone"}
    BY <2>2 DEF TypeOK
  <2> QED
    BY <2>2, <2>3, <2>4 DEF CauseInv
<1>2. ASSUME NEW e \in Endpoints, AcceptThrows(e)
      PROVE  \E d \in Endpoints : Broken(d) /\ session'[d] = "live"
  <2>1. PICK d \in Endpoints : Broken(d) /\ ToAll(clients \cup {e}, StatusMessage)[d] # <<>>
    BY <1>2 DEF AcceptThrows, WriteThrows
  <2>2. d \in clients \cup {e}
    BY <2>1 DEF ToAll
  <2>3. session' = [session EXCEPT ![e] = "live"]
    BY <1>2 DEF AcceptThrows
  <2> QED
    BY <2>1, <2>2, <2>3 DEF clients, TypeOK
<1>3. ASSUME ParseThrows
      PROVE  \/ \E d \in Endpoints : Broken(d) /\ session'[d] = "live"
             \/ Parsing /\ MayEnd(Head(queue))
  <2> DEFINE m == Head(queue)
  <2>1. PICK b \in Batches : WriteThrows(Then(b, Acknowledgement(m)))
    BY <1>3 DEF ParseThrows
  <2>2. PICK d \in Endpoints : Broken(d) /\ b[d] \o Acknowledgement(m)[d] # <<>>
    BY <2>1 DEF WriteThrows, Then
  <2>3. session' = session /\ Parsing
    BY <1>3 DEF ParseThrows
  <2>4. CASE b[d] # <<>>
    <3>1. d \in clients
      BY <2>4 DEF Batches, RuleOutput, Nothing, ToAll, ToOne
    <3> QED
      BY <2>2, <2>3, <3>1 DEF clients
  <2>5. CASE b[d] = <<>>
    <3>1. Acknowledgement(m)[d] # <<>>
      BY <2>2, <2>5
    <3>2. IsCommand(m.op) /\ d = m.src
      BY <3>1 DEF Acknowledgement, Nothing, ToOne
    <3> QED
      BY <2>2, <2>3, <3>2 DEF MayEnd
  <2> QED
    BY <2>4, <2>5
<1>4. ASSUME AcknowledgeNobody PROVE Parsing /\ MayEnd(Head(queue))
  BY <1>1, <1>4 DEF AcknowledgeNobody, MayEnd
<1>5. ASSUME RunThrows \/ EngineExits PROVE Parsing /\ MayEnd(Head(queue))
  BY <1>5 DEF RunThrows, EngineExits, MayEnd
<1>6. ASSUME PrintOverflows PROVE Parsing /\ MayEnd(Head(queue))
  BY <1>6 DEF PrintOverflows, CauseInv, MayEnd
<1>7. ASSUME NEW e \in Endpoints, ClientStep(e) \/ Accept(e) \/ Receive(e) \/ ReadFails(e)
      PROVE  alive'
  BY <1>7 DEF ClientStep, ClientConnects, ClientSends, ClientCloses, ClientResets, Accept,
              Receive, ReadFails
<1>8. ASSUME PollReturns \/ Sleep \/ Parse \/ UNCHANGED vars PROVE alive'
  BY <1>8 DEF PollReturns, Sleep, Parse, vars
<1> QED
  BY <1>2, <1>3, <1>4, <1>5, <1>6, <1>7, <1>8 DEF Next, ServerStep

\* Every step keeps the causes.
LEMMA StepKeepsCause ==
    TypeOK /\ OrderInv /\ CauseInv /\ [Next]_vars => CauseInv'
<1> SUFFICES ASSUME TypeOK, OrderInv, CauseInv, [Next]_vars PROVE CauseInv'
  OBVIOUS
<1> USE DEF server, network
<1>2. capturing' => Requested("query")'
  <2>1. CASE capturing' = capturing
    BY <2>1, CausesStay DEF CauseInv
  <2>2. ASSUME Parsing, NEW batch, Handle(Head(queue).op, batch), capturing', ~capturing
        PROVE  Requested("query")
    <3>1. Head(queue).op = "query"
      BY <2>2 DEF Handle, Watch, Path, Evaluate, Query, NoEffect
    <3>2. Head(queue) = queue[1] /\ 1 \in 1 .. Len(queue) /\ Head(queue) \in Received
      BY <2>2, TailOfQueue DEF TypeOK
    <3>3. Head(queue).src \in Endpoints /\ Genuine(Head(queue), sent)
      BY <3>2 DEF Received, OrderInv
    <3> QED
      BY <3>1, <3>3, Domains DEF Genuine, Requested
  <2>3. ASSUME Parse \/ ParseThrows \/ AcknowledgeNobody, capturing', ~capturing
        PROVE  Requested("query")
    BY <2>2, <2>3 DEF Parse, ParseThrows, AcknowledgeNobody
  <2>4. CASE Parse \/ ParseThrows \/ AcknowledgeNobody
    BY <2>3, <2>4, CausesStay DEF CauseInv
  <2>5. ASSUME NEW e \in Endpoints,
               \/ ClientStep(e) \/ Accept(e) \/ AcceptThrows(e) \/ Receive(e) \/ ReadFails(e)
        PROVE  capturing' = capturing
    BY <2>5 DEF ClientStep, ClientConnects, ClientSends, ClientCloses, ClientResets, Accept,
                AcceptThrows, Crash, Receive, ReadFails
  <2>6. ASSUME PollReturns \/ Sleep \/ RunThrows \/ PrintOverflows \/ EngineExits \/ UNCHANGED vars
        PROVE  capturing' = capturing
    BY <2>6 DEF PollReturns, Sleep, RunThrows, PrintOverflows, EngineExits, EndsInCLIPS, vars
  <2> QED
    BY <2>1, <2>4, <2>5, <2>6 DEF Next, ServerStep
<1>3. ASSUME NEW e \in Endpoints, session'[e] = "gone" PROVE Broken(e)'
  <2>1. session[e] = "gone" \/ Broken(e)
    BY <1>3 DEF Next, ServerStep, ClientStep, ClientConnects, ClientSends, ClientCloses,
                ClientResets, Accept, AcceptThrows, Crash, Receive, ReadFails, PollReturns,
                Sleep, Parse, ParseThrows, AcknowledgeNobody, RunThrows, PrintOverflows,
                EngineExits, EndsInCLIPS, vars, TypeOK
  <2> QED
    BY <2>1, CausesStay DEF CauseInv
<1>4. ASSUME NEW i \in 1 .. Len(queue') PROVE session'[queue'[i].src] # "none"
  <2>1. \A e \in Endpoints : session[e] # "none" => session'[e] # "none"
    BY DEF Next, ServerStep, ClientStep, ClientConnects, ClientSends, ClientCloses,
           ClientResets, Accept, AcceptThrows, Crash, Receive, ReadFails, PollReturns,
           Sleep, Parse, ParseThrows, AcknowledgeNobody, RunThrows, PrintOverflows,
           EngineExits, EndsInCLIPS,
           vars, TypeOK
  <2>2. \A j \in 1 .. Len(queue) : queue[j].src \in Endpoints
    <3>1. \A j \in 1 .. Len(queue) : queue[j] \in Received
      BY DEF TypeOK
    <3> QED
      BY <3>1 DEF Received
  <2>3. CASE queue' = queue
    BY <2>1, <2>2, <2>3 DEF CauseInv
  <2>4. CASE Parsing /\ queue' = Tail(queue)
    <3>1. i + 1 \in 1 .. Len(queue) /\ queue'[i] = queue[i + 1]
      BY <2>4, TailOfQueue
    <3> QED
      BY <2>1, <2>2, <3>1 DEF CauseInv
  <2>5. CASE \E e \in Endpoints : Receive(e)
    <3>1. PICK e \in Endpoints : Receive(e)
      BY <2>5
    <3>2. /\ session' = session /\ session[e] = "live"
          /\ queue' = Append(queue, Head(inbox[e]))
          /\ inbox[e] # <<>>
      BY <3>1 DEF Receive
    <3>3. Head(inbox[e]) = inbox[e][1] /\ 1 \in 1 .. Len(inbox[e]) /\ Head(inbox[e]) \in Received
      BY <3>2 DEF TypeOK
    <3>4. Head(inbox[e]).src = e
      BY <3>3 DEF OrderInv, InboxOrder
    <3>5. queue \in Seq(Received)
      BY DEF TypeOK
    <3>6. CASE i \in 1 .. Len(queue)
      BY <2>1, <2>2, <3>2, <3>3, <3>5, <3>6 DEF CauseInv
    <3>7. CASE i = Len(queue) + 1
      BY <3>2, <3>3, <3>4, <3>5, <3>7
    <3> QED
      BY <3>2, <3>3, <3>5, <3>6, <3>7
  <2> QED
    BY <2>3, <2>4, <2>5
       DEF Next, ServerStep, ClientStep, ClientConnects, ClientSends, ClientCloses,
           ClientResets, Accept, AcceptThrows, Crash, ReadFails, PollReturns, Sleep, Parse,
           ParseThrows, AcknowledgeNobody, RunThrows, PrintOverflows, EngineExits,
           EndsInCLIPS, vars
<1> QED
  BY <1>2, <1>3, <1>4 DEF CauseInv

\* The server ends only while somebody is gone whose session is still there to be
\* written to, or while it handles a command of a client that is gone, one that
\* CLIPS evaluates, a run without a number, or one that prints after a query: a
\* departure that was noticed and a command that was handled end nothing, for
\* any number of clients and commands.
THEOREM EndingsSafe == Spec => EndsOnlyForCause
<1>1. Init => CauseInv
  BY DEF Init, CauseInv
<1>2. TypeOK /\ CauseInv /\ [Next]_vars =>
        [(alive /\ ~alive') =>
            \/ \E e \in Endpoints : Broken(e) /\ session'[e] = "live"
            \/ Parsing /\ MayEnd(Head(queue))]_vars
  BY EndsForCause
<1> QED
  BY <1>1, <1>2, StepKeepsCause, TypeCorrect, OrderInvariant, PTL DEF Spec, EndsOnlyForCause

-----------------------------------------------------------------------------
(* The server implements the service.  Taking the oldest message of the    *)
(* queue is the one step that answers; everything else only lets clients   *)
(* come, ask and leave.  That the message is the first open command of its *)
(* client needs the order of what is on its way (OrderInv) and that nothing*)
(* is lost (NothingLost): a smaller open command would have to wait before *)
(* it.                                                                     *)

\* A step that acknowledges nothing answers nothing.
LEMMA QuietAnswers ==
    ASSUME TypeOK, TypeOK', NEW e \in Endpoints, Quietly(e)
    PROVE  AckedCommands(e)' = AckedCommands(e)
<1>1. /\ DOMAIN outbox[e] = 1 .. Len(outbox[e])
      /\ DOMAIN outbox'[e] = 1 .. Len(outbox'[e])
  BY DEF TypeOK
<1>2. \A i \in DOMAIN outbox[e] : i \in DOMAIN outbox'[e] /\ outbox'[e][i] = outbox[e][i]
  BY <1>1, QuietElements
<1>3. \A i \in DOMAIN outbox'[e] : outbox'[e][i].kind = "ack" => i \in DOMAIN outbox[e]
  BY <1>1, QuietElements
<1> QED
  BY <1>2, <1>3 DEF AckedCommands

\* An acknowledgement answers its command, and no other.
LEMMA AckAnswers ==
    ASSUME TypeOK, TypeOK', NEW m, m.src \in Endpoints, m.n \in Nat, Acknowledged(m)
    PROVE  AckedCommands(m.src)' = AckedCommands(m.src) \cup {m.n}
<1> DEFINE last == Len(outbox'[m.src])
<1>1. /\ DOMAIN outbox[m.src] = 1 .. Len(outbox[m.src])
      /\ DOMAIN outbox'[m.src] = 1 .. last
  BY DEF TypeOK
<1>2. \A i \in DOMAIN outbox[m.src] :
        i \in DOMAIN outbox'[m.src] /\ outbox'[m.src][i] = outbox[m.src][i]
  BY <1>1, AckElements
<1>3. \A i \in DOMAIN outbox'[m.src] :
        outbox'[m.src][i].kind = "ack" => i \in DOMAIN outbox[m.src] \/ i = last
  BY <1>1, AckElements
<1>4. last \in DOMAIN outbox'[m.src] /\ outbox'[m.src][last] = Ack(m.n)
  BY <1>1, AckElements
<1>5. Ack(m.n).kind = "ack" /\ Ack(m.n).n = m.n
  BY DEF Ack
<1> HIDE DEF last
<1> QED
  BY <1>2, <1>3, <1>4, <1>5 DEF AckedCommands

\* Only parseMessage acknowledges.
LEMMA OthersQuiet ==
    ASSUME TypeOK, ServerStep, ~Parse, NEW e \in Endpoints
    PROVE  Quietly(e)
<1> USE DEF server, network
<1>1. ASSUME outbox' = outbox PROVE Quietly(e)
  BY <1>1, NoWrite DEF TypeOK
<1>2. ASSUME NEW d \in Endpoints, Accept(d) PROVE Quietly(e)
  <2> DEFINE b == ToAll(clients \cup {d}, StatusMessage)
  <2>1. b \in [Endpoints -> Seq(Sendable)] /\ Deliver(b)
    BY <1>2, BatchTypes DEF Accept
  <2>2. \A i \in 1 .. Len(b[e]) : b[e][i].kind # "ack"
    BY DEF ToAll, StatusMessage
  <2> HIDE DEF b
  <2> QED
    BY <2>1, <2>2, DeliverQuietly
<1>3. ASSUME AcknowledgeNobody \/ PrintOverflows \/ EngineExits PROVE Quietly(e)
  <2>1. PICK b \in Batches : Deliver(b)
    BY <1>3, RuleOutputTypes DEF AcknowledgeNobody, PrintOverflows, EngineExits, EndsInCLIPS
  <2>2. b \in [Endpoints -> Seq(Sendable)]
    BY BatchTypes
  <2> QED
    BY <2>1, <2>2, BatchIsQuiet, DeliverQuietly
<1>4. ASSUME NEW d \in Endpoints, AcceptThrows(d) \/ Receive(d) \/ ReadFails(d)
      PROVE  outbox' = outbox
  BY <1>4 DEF AcceptThrows, Crash, Receive, ReadFails
<1>5. ASSUME PollReturns \/ Sleep \/ ParseThrows \/ RunThrows PROVE outbox' = outbox
  BY <1>5 DEF PollReturns, Sleep, ParseThrows, RunThrows
<1> QED
  BY <1>1, <1>2, <1>3, <1>4, <1>5 DEF ServerStep

\* The clients of a server that has not ended.
Present == {e \in Endpoints : alive /\ conn[e] = "open"}

\* The command at the head of the queue is the first that its client waits
\* for, and the step that takes it answers it.
LEMMA ParseIsAnswer ==
    ASSUME TypeOK, TypeOK', OrderInv, Unused, NothingLost, Parse,
           Acknowledged(Head(queue)), IsCommand(Head(queue).op), ~Broken(Head(queue).src)
    PROVE  Head(queue).src \in Endpoints /\ Service!Answer(Head(queue).src)
<1> DEFINE m == Head(queue)
           e == m.src
<1>1. /\ alive /\ Parsing /\ alive' = alive /\ UNCHANGED <<conn, sent>>
  BY DEF Parse, Parsing
<1>2. m \in Received /\ m = queue[1] /\ 1 \in 1 .. Len(queue) /\ Len(queue) \in Nat
  BY <1>1, QueueTypes, TailOfQueue
<1>3. e \in Endpoints /\ m.n \in Nat
  BY <1>2 DEF Received
<1>4. Genuine(m, sent)
  BY <1>2 DEF OrderInv
<1>5. Acknowledged(m) /\ IsCommand(m.op) /\ ~Broken(e)
  OBVIOUS
<1> HIDE DEF m
<1>6. /\ DOMAIN outbox[e] = 1 .. Len(outbox[e]) /\ DOMAIN sent[e] = 1 .. Len(sent[e])
      /\ DOMAIN inbox[e] = 1 .. Len(inbox[e]) /\ DOMAIN queue = 1 .. Len(queue)
      /\ Len(sent[e]) \in Nat
  BY <1>3, Domains DEF TypeOK
<1>7. conn[e] = "open"
  <2>1. conn[e] \in {"off", "open", "closed", "reset"}
    BY <1>3 DEF TypeOK
  <2>2. conn[e] # "off"
    BY <1>3, <1>4 DEF Unused, Genuine
  <2> QED
    BY <1>5, <2>1, <2>2 DEF Broken
<1> DEFINE open == {n \in DOMAIN sent[e] : IsCommand(sent[e][n])} \ AckedCommands(e)
<1>8. m.n \in open
  <2>1. m.n \in DOMAIN sent[e] /\ IsCommand(sent[e][m.n])
    BY <1>4, <1>5, <1>6 DEF Genuine
  <2>2. \A i \in DOMAIN outbox[e] : outbox[e][i].kind = "ack" => outbox[e][i].n < m.n
    BY <1>2, <1>3, <1>6 DEF OrderInv, Answered
  <2>3. m.n \notin AckedCommands(e)
    BY <1>3, <2>2 DEF AckedCommands
  <2> QED
    BY <2>1, <2>3
<1>9. ASSUME NEW k \in open PROVE m.n <= k
  <2>1. k \in Nat /\ k \in DOMAIN sent[e] /\ IsCommand(sent[e][k]) /\ k \notin AckedCommands(e)
    BY <1>6
  <2>2. Acked(e, k) \/ Waits(queue, e, k) \/ Waits(inbox[e], e, k)
    BY <1>1, <1>3, <1>7, <2>1 DEF NothingLost
  <2>3. ~Acked(e, k)
    BY <2>1 DEF Acked, AckedCommands, Ack
  <2>4. CASE Waits(queue, e, k)
    <3>1. PICK i \in 1 .. Len(queue) : queue[i].src = e /\ queue[i].n = k
      BY <1>6, <2>4 DEF Waits
    <3>2. CASE i = 1
      BY <1>2, <2>1, <3>1, <3>2
    <3>3. CASE i > 1
      BY <1>2, <1>3, <2>1, <3>1, <3>3 DEF OrderInv, Increasing
    <3> QED
      BY <1>2, <3>2, <3>3
  <2>5. CASE Waits(inbox[e], e, k)
    <3>1. PICK i \in 1 .. Len(inbox[e]) : inbox[e][i].src = e /\ inbox[e][i].n = k
      BY <1>6, <2>5 DEF Waits
    <3>2. Before(queue, inbox[e])
      BY <1>3 DEF OrderInv, InboxOrder
    <3> QED
      BY <1>2, <1>3, <2>1, <3>1, <3>2 DEF Before
  <2> QED
    BY <2>2, <2>3, <2>4, <2>5
<1>10. ASSUME NEW d \in Endpoints
       PROVE  AckedCommands(d)' =
                IF d = e THEN AckedCommands(d) \cup {m.n} ELSE AckedCommands(d)
  <2>1. CASE d = e
    BY <1>3, <1>5, <2>1, AckAnswers
  <2>2. CASE d # e
    <3>1. Quietly(d)
      BY <2>2, ParseWrites DEF m
    <3> QED
      BY <2>2, <3>1, QuietAnswers
  <2> QED
    BY <2>1, <2>2
<1>11. Service!Open(e) = open
  BY <1>3 DEF Service!Open
<1>12. Present' = Present /\ e \in Present
  BY <1>1, <1>3, <1>7 DEF Present
<1> HIDE DEF open
<1>13. [d \in Endpoints |-> AckedCommands(d)]' =
         [[d \in Endpoints |-> AckedCommands(d)] EXCEPT ![e] = @ \cup {m.n}]
  BY <1>3, <1>10
<1> QED
  BY <1>1, <1>3, <1>8, <1>9, <1>11, <1>12, <1>13 DEF Service!Answer, Present, m

\* Every step of the server or of a client is a step of the service, or none.
LEMMA StepServes ==
    ASSUME TypeOK, TypeOK', OrderInv, Unused, NothingLost, [Next]_vars
    PROVE  [Service!Next]_(Service!vars)
<1> USE DEF server, network
<1>1. ASSUME Present' \subseteq Present, sent' = sent,
             \A e \in Endpoints : AckedCommands(e)' = AckedCommands(e)
      PROVE  Service!Next
  BY <1>1 DEF Service!Next, Service!Leave, Present
<1>2. ASSUME outbox' = outbox
      PROVE  \A e \in Endpoints : AckedCommands(e)' = AckedCommands(e)
  BY <1>2 DEF AckedCommands
<1>3. ASSUME NEW e \in Endpoints, ClientConnects(e) PROVE Service!Next
  <2>1. alive' = alive /\ sent' = sent /\ outbox' = outbox
    BY <1>3 DEF ClientConnects
  <2>2. Present' = Present \cup {e}
    BY <1>3 DEF ClientConnects, Present, TypeOK
  <2> QED
    BY <1>2, <2>1, <2>2 DEF Service!Next, Service!Come, Present
<1>4. ASSUME NEW e \in Endpoints, ClientCloses(e) \/ ClientResets(e) PROVE Service!Next
  <2>1. sent' = sent /\ outbox' = outbox /\ Present' \subseteq Present
    BY <1>4 DEF ClientCloses, ClientResets, Present, TypeOK
  <2> QED
    BY <1>1, <1>2, <2>1
<1>5. ASSUME NEW e \in Endpoints, NEW op \in Operations, ClientSends(e, op)
      PROVE  Service!Next
  <2>1. /\ outbox' = outbox /\ Present' = Present /\ e \in Present
        /\ sent' = [sent EXCEPT ![e] = Append(@, op)]
    BY <1>5 DEF ClientSends, Present
  <2> QED
    BY <1>2, <2>1 DEF Service!Next, Service!Ask, Present
<1>6. ASSUME ServerStep PROVE UNCHANGED <<conn, sent>> /\ (alive' => alive)
  BY <1>6 DEF ServerStep, Accept, AcceptThrows, Receive, ReadFails, PollReturns, Sleep,
              Polling, Parsing, Parse, ParseThrows, AcknowledgeNobody, RunThrows,
              PrintOverflows, EngineExits, EndsInCLIPS, Crash
<1>7. ASSUME ServerStep, ~Parse PROVE Service!Next
  <2>1. Present' \subseteq Present /\ sent' = sent
    BY <1>6, <1>7 DEF Present
  <2> QED
    BY <1>1, <1>7, <2>1, OthersQuiet, QuietAnswers
<1>8. CASE Parse
  <2>1. CASE Acknowledged(Head(queue)) /\ IsCommand(Head(queue).op) /\ ~Broken(Head(queue).src)
    BY <1>8, <2>1, ParseIsAnswer DEF Service!Next
  <2>2. CASE ~(Acknowledged(Head(queue)) /\ IsCommand(Head(queue).op)
                 /\ ~Broken(Head(queue).src))
    <3>1. \A e \in Endpoints : Quietly(e)
      BY <1>8, <2>2, ParseWrites
    <3>2. Present' \subseteq Present /\ sent' = sent
      BY <1>8 DEF Parse, Present
    <3> QED
      BY <1>1, <3>1, <3>2, QuietAnswers
  <2> QED
    BY <2>1, <2>2
<1>9. CASE UNCHANGED vars
  BY <1>9 DEF vars, Service!vars, AckedCommands
<1> QED
  BY <1>3, <1>4, <1>5, <1>7, <1>8, <1>9 DEF Next, ClientStep

\* The server implements CommandService: the commands of a client that stays
\* are answered one by one in the order it sent them, none twice and none
\* skipped, whatever the other clients do.
THEOREM ServiceImplemented == Spec => ServesInOrder
<1>1. Init => Service!Init
  BY DEF Init, Service!Init, AckedCommands
<1>2. Init => Unused
  <2> SUFFICES ASSUME Init, NEW e \in Endpoints PROVE Len(sent[e]) = 0
    BY DEF Unused
  <2>1. sent[e] = <<>> /\ Len(<<>>) = 0
    BY DEF Init
  <2> QED
    BY <2>1
<1>3. /\ TypeOK /\ TypeOK' /\ OrderInv /\ Unused /\ NothingLost /\ [Next]_vars
      => [Service!Next]_(Service!vars)
  BY StepServes
<1> QED
  BY <1>1, <1>2, <1>3, StepKeepsUnused, TypeCorrect, OrderInvariant, CommandsKept, PTL
     DEF Spec, ServesInOrder, Service!Spec
=============================================================================
