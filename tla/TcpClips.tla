------------------------------ MODULE TcpClips ------------------------------
(***************************************************************************)
(* The whole: a program that uses the client library (module ClipsClient), *)
(* the server (module ClipsServer) and other remote programs.              *)
(* A step of the client that touches the connection is a step of both; the *)
(* server's steps are its own, and what ClipsClient assumes of its server  *)
(* is checked of them.  The k-th connection of the library has endpoint k. *)
(*                                                                         *)
(* When the process of the client has ended, its end is one of the remote  *)
(* ends of ClipsServer: this module stops there.                           *)
(***************************************************************************)
EXTENDS ClipsServer

CONSTANTS
    Callers, IdSpace, MaxCalls, MaxUnasked, MaxConnects,   \* of ClipsClient
    OtherOperations   \* what the other remote programs send

Connections == 1 .. MaxConnects

\* The endpoints of the other remote programs.
Others == Endpoints \ Connections

ASSUME SystemAssumption ==
    /\ IdSpace \in Nat \ {0}
    /\ MaxCalls \in Nat /\ MaxUnasked \in Nat /\ MaxConnects \in Nat
    /\ Connections \subseteq Endpoints
    /\ "toggle" \in Operations /\ OtherOperations \subseteq Operations

VARIABLES
    clientAlive, socketPtr, stopped, lastCommandId, pendingCommands, replies, clipsStatus,
    pc, cmdId, call, watch, outcome, got, cleared, own, svc, held, executed, issued, attempts

library == <<clientAlive, socketPtr, stopped, lastCommandId, pendingCommands, replies,
             clipsStatus, pc, cmdId, call, watch, outcome, got, cleared, own, svc, held,
             issued, attempts>>

VARIABLES
    reqs,         \* history: the requests sent on each connection of the library
    s2c,          \* what was written to the library and not taken, as it will see it
    published, unasked   \* history: the counters of ClipsClient

hears == <<s2c, published, unasked>>

system == <<library, executed, vars, reqs, hears>>

-----------------------------------------------------------------------------
(* The connection as the library sees it.                                  *)

Connected == socketPtr = "connected"
LinkUp == Connected /\ alive /\ conn[attempts] = "open"

\* How many requests of connection k are answered: the first ones.
AnswersOn(k) == CHOOSE h \in 0 .. Len(reqs[k]) : AckedCommands(k) = 1 .. h

\* The requests on their way: unread, in the server's queue, or being handled.
Pending ==
    IF LinkUp THEN SubSeq(reqs[attempts], AnswersOn(attempts) + 1, Len(reqs[attempts]))
    ELSE <<>>

\* Whether the library takes the server's end for open.
Peer == IF Connected /\ ~LinkUp THEN "closed" ELSE "open"

\* What the server writes to the library in this step.
Written ==
    IF attempts = 0 THEN <<>>
    ELSE SubSeq(outbox'[attempts], Len(outbox[attempts]) + 1, Len(outbox'[attempts]))

Writes(P(_)) == \E i \in DOMAIN Written : P(Written[i])
IsReport(m) == m.kind = "status"
IsUnbidden(m) == m.kind # "ack"
IsWatchAck(m) == m.kind = "ack" /\ reqs[attempts][m.n].watch

\* A message as the library will see it; n: the number of the last report.
Seen(m, n) ==
    IF m.kind = "ack"
    THEN LET rq == reqs[attempts][m.n] IN
         [kind |-> "response", id |-> rq.id, call |-> rq.call, ok |-> rq.call \in executed',
          report |-> IF rq.watch THEN n ELSE 0]
    ELSE [kind |-> m.kind, id |-> IF IsReport(m) THEN IdSpace - 1 ELSE 0, call |-> 0,
          ok |-> IsReport(m), report |-> IF IsReport(m) THEN n ELSE 0]

\* One step writes at most a report or a text, and an acknowledgement.
Hears ==
    /\ published' = IF Writes(IsReport) THEN published + 1 ELSE published
    /\ unasked' = IF Writes(IsUnbidden) /\ ~Writes(IsWatchAck) THEN unasked + 1 ELSE unasked
    /\ unasked' <= MaxUnasked
    /\ s2c' = s2c \o [i \in DOMAIN Written |-> Seen(Written[i], published')]

C == INSTANCE ClipsClient WITH
    alive <- clientAlive,
    c2s   <- Pending,
    peer  <- Peer

(* The server has been up for a while: each of the others has connected,   *)
(* has been accepted, and has sent a message that is still to be read.     *)
SystemInit ==
    /\ alive = TRUE /\ mode = "poll" /\ queue = <<>>
    /\ watching = FALSE /\ clppath \in Paths
    /\ silent = FALSE /\ capturing = FALSE
    /\ session = [e \in Endpoints |-> IF e \in Others THEN "live" ELSE "none"]
    /\ conn = [e \in Endpoints |-> IF e \in Others THEN "open" ELSE "off"]
    /\ sent \in [Endpoints -> {<<>>} \cup {<<op>> : op \in OtherOperations}]
    /\ \A e \in Endpoints : sent[e] = <<>> <=> e \in Connections
    /\ inbox = [e \in Endpoints |-> [n \in DOMAIN sent[e] |-> [src |-> e, n |-> n, op |-> sent[e][n]]]]
    /\ outbox = [e \in Endpoints |-> IF e \in Others THEN <<StatusMessage>> ELSE <<>>]
    /\ told = [e \in Endpoints |-> CurrentStatus]
    /\ reqs = [k \in Connections |-> <<>>]
    /\ C!Init

-----------------------------------------------------------------------------
(* Steps of the library alone.                                             *)

ServerStays == UNCHANGED <<executed, vars, reqs>>
SameSocket == UNCHANGED <<socketPtr, attempts>>

Caller(c) ==
    /\ ServerStays /\ SameSocket
    /\ \/ C!LoadId(c) \/ C!StoreId(c) \/ C!SendToNull(c) \/ C!SendThrows(c) \/ C!Register(c)
       \/ C!AwaitBlocks(c) \/ C!AwaitAborted(c) \/ C!AwaitAnswered(c) \/ C!SpuriousWakeup(c)
       \/ Connected /\ \E w \in BOOLEAN : C!Call(c, w)

Owner ==
    /\ ServerStays
    /\ \/ C!Connect
       \/ UNCHANGED attempts /\ C!ConnectFails
       \/ /\ SameSocket
          /\ \/ C!StartService \/ C!KeepThread \/ (socketPtr # "null" /\ C!Disconnect)
             \/ C!OwnerAborts \/ C!OwnerReleases \/ C!OwnerStopsService \/ C!OwnerJoins

ServiceThread ==
    /\ ServerStays /\ SameSocket
    /\ \/ C!ServiceExits \/ C!HandleEvent \/ C!TakeResponse \/ C!StoreResponse
       \/ C!NotifyCallers \/ C!Rearm \/ C!LoseStep \/ C!ReadFails
       \/ C!ServiceAborts \/ C!ServiceReleases \/ C!ServiceStopsService
       \/ C!ServiceJoinsItself \/ C!ServiceFindsNoThread

-----------------------------------------------------------------------------
(* Steps of the library and of the connection.                             *)

\* What a call that is a "watch", or is not, asks the server for: run() of the
\* library always sends a number.
Asks(w) == IF w THEN {"toggle"} ELSE Operations \ {"toggle", "show", "fact", "misrun"}

RequestOf(c) == [id |-> cmdId[c], call |-> call[c], watch |-> watch[c]]

Sends(c) ==
    /\ Connected /\ SameSocket
    /\ IF LinkUp
       THEN /\ \E op \in Asks(watch[c]) : ClientSends(attempts, op)
            /\ reqs' = [reqs EXCEPT ![attempts] = Append(@, RequestOf(c))]
       ELSE UNCHANGED <<vars, reqs>>

Send(c) == pc[c] = "send" /\ Sends(c) /\ UNCHANGED executed /\ C!Send(c)

Opens ==
    /\ own = "connecting" /\ ClientConnects(attempts)
    /\ socketPtr' = "connected" /\ UNCHANGED <<attempts, reqs>>

Connects == Opens /\ UNCHANGED executed /\ C!ConnectSucceeds

Closes ==
    /\ IF LinkUp THEN ClientCloses(attempts) \/ ClientResets(attempts)
       ELSE UNCHANGED vars
    /\ socketPtr' = "null" /\ UNCHANGED <<attempts, reqs>>

\* disconnect() comes to its end on the owner's thread, or on the service thread.
Drops ==
    /\ own \in {"stop", "drop"} \/ svc = "drop"
    /\ Closes /\ UNCHANGED executed
    /\ C!OwnerDropsSocket \/ (Connected /\ C!ServiceDropsSocket)

-----------------------------------------------------------------------------
(* Steps of the server and of the network.                                 *)

LibraryStays == clientAlive /\ UNCHANGED <<library, reqs>>

ParseAndAnswer ==
    /\ LibraryStays /\ Parsing
    /\ Parse
    /\ LET m == Head(queue)
           ours == m.src = attempts /\ LinkUp
       IN IF ours
          THEN LET done == executed \cup {reqs[attempts][m.n].call} IN
               executed' \in IF m.op = "toggle" THEN {done} ELSE {done, executed}
          ELSE UNCHANGED executed
    /\ Hears

ServerAlone ==
    /\ LibraryStays /\ UNCHANGED executed
    /\ \/ \E e \in Endpoints :
             Accept(e) \/ AcceptThrows(e) \/ Receive(e) \/ ReadFails(e)
       \/ PollReturns \/ Sleep
       \/ ParseThrows \/ AcknowledgeNobody \/ RunThrows \/ PrintOverflows \/ EngineExits
    /\ Hears

\* The network resets the library's connection.
ConnectionLost ==
    /\ LibraryStays /\ UNCHANGED <<executed, hears>>
    /\ LinkUp /\ ClientResets(attempts)

SystemNext ==
    \/ \E c \in Callers : Caller(c) \/ Send(c)
    \/ Owner \/ ServiceThread
    \/ Connects \/ Drops
    \/ ParseAndAnswer \/ ServerAlone \/ ConnectionLost

SystemSpec == SystemInit /\ [][SystemNext]_system

\* What TLC tells states apart by: what was written to the other programs, and
\* to the library before, is read by no step.
View ==
    <<library, executed, reqs, hears, alive, mode, session, queue, watching, clppath,
      silent, capturing, conn, inbox, sent,
      [k \in Connections |-> <<told[k], AckedCommands(k)>>]>>

-----------------------------------------------------------------------------
\* The server is what the library takes it for: whatever other programs do
\* and wherever the server ends, what it does on the library's connection is
\* what ClipsClient allows, so that its properties hold of the two together
\* (parseMessage, publishStatus and acknowledgeMessage against rpc).
ServerAsAssumed == C!Spec

\* A library that has read everything shows the watches and the path that are
\* in force at the server, whoever changed them and whenever it connected
\* (publishStatus, acceptHandler; handleResponseMesage, updateStatus).
ShowsStatusInForce ==
    (LinkUp /\ ~silent /\ session[attempts] = "live" /\ s2c = <<>>) =>
        clipsStatus = published /\ told[attempts] = [watching |-> watching, path |-> clppath]
=============================================================================
