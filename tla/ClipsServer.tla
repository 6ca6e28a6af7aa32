---------------------------- MODULE ClipsServer ----------------------------
(***************************************************************************)
(* The server (src/clipsserver).  One thread runs the loop of Server::run: *)
(* io_context.poll() runs every handler that is ready (accept, read, read  *)
(* error), then at most one message is taken from the queue and given to   *)
(* CLIPS, which may send to clients from its rules.                        *)
(*                                                                         *)
(* Remote programs connect, send framed messages, close or reset their     *)
(* connection.  A connection is known by its remote endpoint; an endpoint  *)
(* is used for one connection.  Framing is the business of StreamFraming:  *)
(* here a message is whole when it is received.                            *)
(***************************************************************************)
EXTENDS Naturals, Sequences

CONSTANTS
    Endpoints,    \* the remote endpoints, keys of Server::clients
    Paths,        \* the directories a "path" command may name
    Operations,   \* what the messages of this instance ask for
    MaxSent       \* bound: messages a client sends

(* What a message asks for, as far as it matters outside CLIPS:            *)
(*   toggle  "watch" with an item      show   "watch" without one          *)
(*   path    "path"                    misrun "run" without a number       *)
(*   run     "run", "raw", "reset", "load", "assert": CLIPS evaluates      *)
(*           calls, and may print, send, change a watch or exit            *)
(*   query   the same, and what CLIPS prints is captured                   *)
(*   plain   any other command                                             *)
(*   fact    not a command: given to CLIPS to assert, which evaluates the  *)
(*           calls in it (if it can read it: see WireFormat for a text with *)
(*           its NUL), never acknowledged                                  *)
AllOperations == {"toggle", "show", "path", "run", "query", "misrun", "plain", "fact"}

ASSUME ServerAssumption ==
    /\ MaxSent \in Nat
    /\ Operations \subseteq AllOperations

VARIABLES
    alive,        \* the process has not crashed
    mode,         \* "poll": in io_context.poll(); "parse": after it
    session,      \* per endpoint: not yet in clients, live in it, or gone
    queue,        \* Server::queue
    watching,     \* is the item watched
    clppath,      \* Server::clppath
    silent,       \* CLIPS changed a watch itself after the last status report
    capturing,    \* QueryRouter::enabled: a "query" left the router enabled
    conn,         \* per endpoint: the remote end of the connection
    inbox,        \* per endpoint: what it sent and the server did not read
    outbox,       \* per endpoint: all the server wrote to it
    told,         \* per endpoint: the last status report written to it
    sent          \* per endpoint: the operations it sent, in order

server  == <<alive, mode, session, queue, watching, clppath, silent, capturing>>
network == <<conn, inbox, outbox, told, sent>>
vars    == <<server, network>>

Status == [watching : BOOLEAN, path : Paths]
CurrentStatus == [watching |-> watching, path |-> clppath]

Received == [src : Endpoints, n : Nat, op : Operations]
Sendable == [kind : {"status", "ack", "text"}, n : Nat]

StatusMessage == [kind |-> "status", n |-> 0]
Ack(n) == [kind |-> "ack", n |-> n]
Text == [kind |-> "text", n |-> 0]

IsCommand(op) == op # "fact"

clients == {e \in Endpoints : session[e] = "live"}

TypeOK ==
    /\ alive \in BOOLEAN
    /\ mode \in {"poll", "parse"}
    /\ session \in [Endpoints -> {"none", "live", "gone"}]
    /\ queue \in Seq(Received)
    /\ watching \in BOOLEAN
    /\ clppath \in Paths
    /\ silent \in BOOLEAN
    /\ capturing \in BOOLEAN
    /\ conn \in [Endpoints -> {"off", "open", "closed", "reset"}]
    /\ inbox \in [Endpoints -> Seq(Received)]
    /\ outbox \in [Endpoints -> Seq(Sendable)]
    /\ told \in [Endpoints -> Status]
    /\ sent \in [Endpoints -> Seq(Operations)]

Init ==
    /\ alive = TRUE
    /\ mode = "poll"
    /\ session = [e \in Endpoints |-> "none"]
    /\ queue = <<>>
    /\ watching \in BOOLEAN
    /\ clppath \in Paths
    /\ silent = FALSE
    /\ capturing = FALSE
    /\ conn = [e \in Endpoints |-> "off"]
    /\ inbox = [e \in Endpoints |-> <<>>]
    /\ outbox = [e \in Endpoints |-> <<>>]
    /\ told = [e \in Endpoints |-> CurrentStatus]
    /\ sent = [e \in Endpoints |-> <<>>]

-----------------------------------------------------------------------------
(* The remote ends (external).                                             *)

ClientConnects(e) ==
    /\ alive /\ conn[e] = "off"
    /\ conn' = [conn EXCEPT ![e] = "open"]
    /\ UNCHANGED <<server, inbox, outbox, told, sent>>

ClientSends(e, op) ==
    /\ alive /\ conn[e] = "open" /\ Len(sent[e]) < MaxSent
    /\ sent' = [sent EXCEPT ![e] = Append(@, op)]
    /\ inbox' = [inbox EXCEPT ![e] = Append(@, [src |-> e, n |-> Len(sent[e]) + 1, op |-> op])]
    /\ UNCHANGED <<server, conn, outbox, told>>

\* The remote end closes: what it sent can still be read.
ClientCloses(e) ==
    /\ alive /\ conn[e] = "open"
    /\ conn' = [conn EXCEPT ![e] = "closed"]
    /\ UNCHANGED <<server, inbox, outbox, told, sent>>

\* The connection is reset: what was not read is lost.
ClientResets(e) ==
    /\ alive /\ conn[e] \in {"open", "closed"}
    /\ conn' = [conn EXCEPT ![e] = "reset"]
    /\ inbox' = [inbox EXCEPT ![e] = <<>>]
    /\ UNCHANGED <<server, outbox, told, sent>>

-----------------------------------------------------------------------------
(* Writing.  Session::send writes to the socket; when the remote end is    *)
(* gone the bytes are lost or asio::write throws, and nothing between it   *)
(* and main catches the exception.                                         *)

Broken(e) == conn[e] \in {"closed", "reset"}

Crash ==
    /\ alive' = FALSE
    /\ UNCHANGED <<mode, queue, silent, capturing, network>>

\* Every endpoint e is sent the messages batch[e], none of which throws.
Deliver(batch) ==
    outbox' = [e \in Endpoints |-> IF Broken(e) THEN outbox[e] ELSE outbox[e] \o batch[e]]

WriteThrows(batch) == \E e \in Endpoints : Broken(e) /\ batch[e] # <<>>

\* broadcast: one message to every client.
ToAll(cs, m) == [e \in Endpoints |-> IF e \in cs THEN <<m>> ELSE <<>>]

ToOne(d, m) == [e \in Endpoints |-> IF e = d THEN <<m>> ELSE <<>>]

Then(b1, b2) == [e \in Endpoints |-> b1[e] \o b2[e]]

Nothing == [e \in Endpoints |-> <<>>]

\* publishStatus to the clients cs, when w and p are the watch and clppath.
Tell(cs, w, p) ==
    told' = [e \in Endpoints |-> IF e \in cs THEN [watching |-> w, path |-> p] ELSE told[e]]

-----------------------------------------------------------------------------
(* The handlers that io_context.poll() runs.                               *)

Polling == alive /\ mode = "poll"

\* (mutant) the status is published before the session is registered
Accept_PublishedFirst(e) ==
    /\ Polling /\ conn[e] # "off" /\ session[e] = "none"
    /\ session' = [session EXCEPT ![e] = "live"]
    /\ Deliver(ToAll(clients, StatusMessage))
    /\ Tell(clients, watching, clppath)
    /\ silent' = FALSE
    /\ UNCHANGED <<alive, mode, queue, watching, clppath, capturing, conn, inbox, sent>>

\* acceptHandler: a session for the new client, then publishStatus to all.
Accept(e) ==
    /\ Polling /\ conn[e] # "off" /\ session[e] = "none"
    /\ session' = [session EXCEPT ![e] = "live"]
    /\ Deliver(ToAll(clients \cup {e}, StatusMessage))
    /\ Tell(clients \cup {e}, watching, clppath)
    /\ silent' = FALSE
    /\ UNCHANGED <<alive, mode, queue, watching, clppath, capturing, conn, inbox, sent>>

\* The session asks a reset socket for its remote endpoint, or the status is
\* written to a client that is gone: the exception ends the process.
AcceptThrows(e) ==
    /\ Polling /\ conn[e] # "off" /\ session[e] = "none"
    /\ session' = [session EXCEPT ![e] = "live"]
    /\ WriteThrows(ToAll(clients \cup {e}, StatusMessage))
    /\ Crash /\ UNCHANGED <<watching, clppath>>

\* (mutant) the newest message is taken first
Receive_NewestFirst(e) ==
    /\ Polling /\ session[e] = "live" /\ inbox[e] # <<>>
    /\ queue' = <<Head(inbox[e])>> \o queue
    /\ inbox' = [inbox EXCEPT ![e] = Tail(@)]
    /\ UNCHANGED <<alive, mode, session, watching, clppath, silent, capturing, conn, outbox,
                   told, sent>>

\* (mutant) one message per read: what else the buffer held is dropped
Receive_OnlyFirst(e) ==
    /\ Polling /\ session[e] = "live" /\ inbox[e] # <<>>
    /\ queue' = Append(queue, Head(inbox[e]))
    /\ inbox' = [inbox EXCEPT ![e] = <<>>]
    /\ UNCHANGED <<alive, mode, session, watching, clppath, silent, capturing, conn, outbox,
                   told, sent>>

\* Session::asyncReadHandler: one whole message into the queue.
Receive(e) ==
    /\ Polling /\ session[e] = "live" /\ inbox[e] # <<>>
    /\ queue' = Append(queue, Head(inbox[e]))
    /\ inbox' = [inbox EXCEPT ![e] = Tail(@)]
    /\ UNCHANGED <<alive, mode, session, watching, clppath, silent, capturing, conn, outbox,
                   told, sent>>

\* (mutant) the entry stays in the table with a null session
ReadFails_LeavesEntry(e) ==
    /\ Polling /\ session[e] = "live" /\ inbox[e] = <<>> /\ Broken(e)
    /\ session' = [session EXCEPT ![e] = "null"]
    /\ UNCHANGED <<alive, mode, queue, watching, clppath, silent, capturing, network>>

\* (mutant) the handler returns without removeSession
ReadFails_Ignored(e) ==
    /\ Polling /\ session[e] = "live" /\ inbox[e] = <<>> /\ Broken(e)
    /\ UNCHANGED vars

\* (mutant) a session with nothing to read is removed, too
ReadFails_AnyRead(e) ==
    /\ Polling /\ session[e] = "live" /\ inbox[e] = <<>>
    /\ session' = [session EXCEPT ![e] = "gone"]
    /\ UNCHANGED <<alive, mode, queue, watching, clppath, silent, capturing, network>>

\* ... and on an error removeSession.
ReadFails(e) ==
    /\ Polling /\ session[e] = "live" /\ inbox[e] = <<>> /\ Broken(e)
    /\ session' = [session EXCEPT ![e] = "gone"]
    /\ UNCHANGED <<alive, mode, queue, watching, clppath, silent, capturing, network>>

Ready(e) ==
    \/ conn[e] # "off" /\ session[e] = "none"
    \/ session[e] = "live" /\ (inbox[e] # <<>> \/ Broken(e))

PollReturns ==
    /\ Polling
    /\ \A e \in Endpoints : ~Ready(e)
    /\ mode' = "parse"
    /\ UNCHANGED <<alive, session, queue, watching, clppath, silent, capturing, network>>

-----------------------------------------------------------------------------
(* parseMessage.                                                           *)

\* (mutant) no test of empty(): the thread waits in consume() for ever
Sleep_InConsume ==
    /\ alive /\ mode = "parse" /\ queue = <<>>
    /\ UNCHANGED vars

\* The queue is empty: sleep, then poll again.
Sleep ==
    /\ alive /\ mode = "parse" /\ queue = <<>>
    /\ mode' = "poll"
    /\ UNCHANGED <<alive, session, queue, watching, clppath, silent, capturing, network>>

Parsing == alive /\ mode = "parse" /\ queue # <<>>

(* What the rules send while CLIPS runs: nothing, a broadcast, or a sendto *)
(* to an endpoint, which sendTo ignores when it is not a client.           *)
RuleOutput ==
    {Nothing, ToAll(clients, Text)} \cup {ToOne(e, Text) : e \in clients}

(* The handlers of handleCommand: what a command changes, and what it      *)
(* sends before it is acknowledged.                                        *)

PublishStatus(batch, w, p) ==
    /\ batch = ToAll(clients, StatusMessage)
    /\ Tell(clients, w, p)
    /\ silent' = FALSE

\* handleWatch: a known item is toggled; without an item nothing is.
Watch(op, batch) ==
    /\ op \in {"toggle", "show"}
    /\ watching' = IF op = "toggle" THEN ~watching ELSE watching
    /\ clppath' = clppath /\ capturing' = capturing
    /\ PublishStatus(batch, watching', clppath)

\* handlePath: the directory is entered.
Path(op, batch) ==
    /\ op = "path"
    /\ \E p \in Paths :
         /\ clppath' = p
         /\ PublishStatus(batch, watching, p)
    /\ watching' = watching /\ capturing' = capturing

\* CLIPS evaluates calls and comes back: rules fire, watches may change.  (It
\* may also end the process: EngineExits.)
Evaluates(batch) ==
    /\ watching' \in BOOLEAN
    /\ silent' = (silent \/ watching' # watching)
    /\ batch \in RuleOutput
    /\ UNCHANGED <<clppath, told>>

\* assertFact, and the commands that run or load.
Evaluate(op, batch) ==
    op \in {"run", "fact"} /\ Evaluates(batch) /\ capturing' = capturing

\* query: the router is enabled, and disabled again when the string was one
\* that CLIPS may be given; one that is not is rejected in between.
Query(op, batch) ==
    /\ op = "query"
    /\ \/ Evaluates(batch) /\ capturing' = FALSE
       \/ /\ batch = Nothing /\ capturing' = TRUE
          /\ UNCHANGED <<watching, clppath, told, silent>>

\* Neither the status nor a client is concerned; so too when the directory
\* of "path" cannot be entered.
NoEffect(op, batch) ==
    /\ op \in {"plain", "path"}
    /\ batch = Nothing
    /\ UNCHANGED <<watching, clppath, told, silent, capturing>>

Handle(op, batch) ==
    \/ Watch(op, batch) \/ Path(op, batch) \/ NoEffect(op, batch)
    \/ Evaluate(op, batch) \/ Query(op, batch)

\* acknowledgeMessage, for a command of a client that is connected.
Acknowledgement(m) == IF IsCommand(m.op) THEN ToOne(m.src, Ack(m.n)) ELSE Nothing

\* What a command may send before it is acknowledged.
Batches == RuleOutput \cup {ToAll(clients, StatusMessage)}

\* (mutant) the acknowledgement is written before the command is executed
Parse_AckFirst ==
    /\ Parsing
    /\ LET m == Head(queue) IN
         /\ IsCommand(m.op) => session[m.src] = "live"
         /\ \E batch \in Batches :
               /\ Handle(m.op, batch)
               /\ Deliver(Then(Acknowledgement(m), batch))
    /\ queue' = Tail(queue)
    /\ mode' = "poll"
    /\ UNCHANGED <<alive, session, conn, inbox, sent>>

Parse ==
    /\ Parsing
    /\ LET m == Head(queue) IN
         /\ IsCommand(m.op) => session[m.src] = "live"
         /\ \E batch \in Batches :
               /\ Handle(m.op, batch)
               /\ Deliver(Then(batch, Acknowledgement(m)))
    /\ queue' = Tail(queue)
    /\ mode' = "poll"
    /\ UNCHANGED <<alive, session, conn, inbox, sent>>

\* A write throws in the middle of the command or of its acknowledgement.
ParseThrows ==
    /\ Parsing
    /\ LET m == Head(queue) IN
         \E batch \in Batches :
            /\ Handle(m.op, batch)
            /\ WriteThrows(Then(batch, Acknowledgement(m)))
    /\ alive' = FALSE
    /\ queue' = Tail(queue)
    /\ UNCHANGED <<mode, session, conn, inbox, outbox, sent>>

\* The command of a client that is gone is executed, then
\* clients[message->getSource()] makes a null session and sends through it.
AcknowledgeNobody ==
    /\ Parsing
    /\ LET m == Head(queue) IN
         /\ IsCommand(m.op) /\ session[m.src] # "live"
         /\ \E batch \in Batches :
               /\ Handle(m.op, batch)
               /\ Deliver(batch)
    /\ alive' = FALSE
    /\ queue' = Tail(queue)
    /\ UNCHANGED <<mode, session, conn, inbox, sent>>

\* std::stoi throws: nothing between handleRun and main catches it.
RunThrows ==
    /\ Parsing /\ Head(queue).op = "misrun"
    /\ alive' = FALSE
    /\ queue' = Tail(queue)
    /\ UNCHANGED <<mode, session, watching, clppath, silent, capturing, network>>

\* The process ends while CLIPS evaluates, with what rules wrote until then.
EndsInCLIPS ==
    /\ \E batch \in RuleOutput : Deliver(batch)
    /\ alive' = FALSE
    /\ queue' = Tail(queue)
    /\ UNCHANGED <<mode, session, watching, clppath, silent, capturing, conn, inbox, told, sent>>

\* CLIPS prints to a captured name: writeFunction hands the text to
\* clips::print, which calls itself until the stack is used up.
PrintOverflows ==
    /\ Parsing
    /\ LET op == Head(queue).op IN
         \/ op = "query"
         \/ op \in {"run", "fact", "plain"} /\ capturing
    /\ EndsInCLIPS

\* CLIPS evaluates (exit), in the command or in a rule: ExitRouter calls exit().
\* Or it makes a text or a result too long for the size of a message, which is
\* written past the end of the buffer that Session::send has for it.
EngineExits == Parsing /\ Head(queue).op \in {"run", "fact", "query"} /\ EndsInCLIPS

-----------------------------------------------------------------------------
ServerStep ==
    \/ \E e \in Endpoints : Accept(e) \/ AcceptThrows(e) \/ Receive(e) \/ ReadFails(e)
    \/ PollReturns \/ Sleep
    \/ Parse \/ ParseThrows \/ AcknowledgeNobody \/ RunThrows \/ PrintOverflows
    \/ EngineExits

ClientStep(e) ==
    \/ ClientConnects(e) \/ ClientCloses(e) \/ ClientResets(e)
    \/ \E op \in Operations : ClientSends(e, op)

Next == ServerStep \/ \E e \in Endpoints : ClientStep(e)

Spec == Init /\ [][Next]_vars

(* The one thread of the server loops for ever in Server::run: while some  *)
(* step is possible it takes one.  CLIPS is taken to come back from what it *)
(* evaluates (rules that fire without end keep the thread, and nobody is   *)
(* served).  The remote ends are under no obligation.                      *)
FairSpec == Spec /\ WF_vars(ServerStep)

-----------------------------------------------------------------------------
(* Every client was told the watches and the path in force, whichever      *)
(* client changed them and whenever it connected, unless CLIPS changed a   *)
(* watch by itself after the last report (publishStatus, its callers, and  *)
(* the order of acceptHandler).                                            *)
StatusTold == alive /\ ~silent => \A e \in clients : told[e] = CurrentStatus

\* What client e was written at i is the acknowledgement of one command of
\* its own, and of a later one than every acknowledgement before it: each
\* command is acknowledged at most once, in order, to the client that sent it
\* (the queue, and message->getSource() in acknowledgeMessage).
AckedInOrder ==
    \A e \in Endpoints : \A i \in DOMAIN outbox[e] : outbox[e][i].kind = "ack" =>
        /\ outbox[e][i].n \in DOMAIN sent[e]
        /\ IsCommand(sent[e][outbox[e][i].n])
        /\ \A j \in 1 .. (i - 1) :
              outbox[e][j].kind = "ack" => outbox[e][j].n < outbox[e][i].n

Acked(e, n) == \E i \in DOMAIN outbox[e] : outbox[e][i] = Ack(n)
AckedCommands(e) ==
    {outbox[e][i].n : i \in {j \in DOMAIN outbox[e] : outbox[e][j].kind = "ack"}}
Waits(s, e, n) == \E i \in DOMAIN s : s[i].src = e /\ s[i].n = n

\* No command is lost while its client stays: it is still to be read, or in
\* the queue, or acknowledged (asyncReadHandler, enqueueTcpMessage, run).
NothingLost ==
    \A e \in Endpoints : alive /\ conn[e] = "open" =>
        \A n \in DOMAIN sent[e] : IsCommand(sent[e][n]) =>
            Acked(e, n) \/ Waits(queue, e, n) \/ Waits(inbox[e], e, n)

\* When a client reads the acknowledgement of its "watch", the report that
\* the command made has been written to it just before: a client that waits
\* for the answer finds the new status (handleWatch before acknowledgeMessage).
ReportBeforeAck ==
    \A e \in Endpoints : \A i \in DOMAIN outbox[e] :
        (outbox[e][i].kind = "ack" /\ sent[e][outbox[e][i].n] \in {"toggle", "show"}) =>
            i > 1 /\ outbox[e][i - 1] = StatusMessage

(* The abstract service: present are the clients connected to a process    *)
(* that has not ended, answered the commands acknowledged to each.         *)
Service == INSTANCE CommandService WITH
    Clients   <- Endpoints,
    Requests  <- Operations,
    present   <- {e \in Endpoints : alive /\ conn[e] = "open"},
    answered  <- [e \in Endpoints |-> AckedCommands(e)]

\* The server implements the service: whatever the others send, wherever
\* they leave, and in whatever order poll() runs the handlers, a client that
\* stays has its commands answered one by one in its own order, none twice
\* and none skipped (asyncReadHandler, the queue, parseMessage).
ServesInOrder == Service!Spec

\* ... and, when the loop of Server::run goes on, every one of them in the end,
\* unless the client leaves or the process ends (run): of whole messages, by a
\* CLIPS that comes back.
ServesAll == Service!FairSpec

\* A client that went away leaves the table of clients in the end, whatever
\* the others do, unless the process ends (asyncReadHandler, removeSession).
GoneIsRemoved ==
    \A e \in Endpoints : Broken(e) ~> (session[e] = "gone" \/ ~alive)

\* Somebody sent such a command.
Requested(op) == \E e \in Endpoints : \E i \in DOMAIN sent[e] : sent[e][i] = op

\* The commands that may end the process: one whose client is gone, one that
\* CLIPS evaluates, a run without a number, or one that prints after a query.
MayEnd(m) ==
    \/ IsCommand(m.op) /\ Broken(m.src)
    \/ m.op \in {"run", "fact", "query", "misrun"}
    \/ m.op = "plain" /\ Requested("query")

\* "Loop forever", says run: the server ends only while somebody is gone whose
\* session is still there to be written to, or while it handles such a command.
\* A departure that was noticed, with no command left behind, and commands that
\* were handled before end nothing; neither does any other command of a client
\* that stays (acceptHandler, removeSession, parseMessage, query).
EndsOnlyForCause ==
    [][(alive /\ ~alive') =>
          \/ \E e \in Endpoints : Broken(e) /\ session'[e] = "live"
          \/ Parsing /\ MayEnd(Head(queue))]_vars
=============================================================================
