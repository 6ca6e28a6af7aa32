---------------------------- MODULE ClipsClient ----------------------------
(***************************************************************************)
(* The client library (src/clipsclient).  Caller threads issue blocking    *)
(* remote calls, an owner connects and disconnects, one at a time, and a   *)
(* service thread runs the asynchronous reader of the connection.  They    *)
(* share the socket pointer, the io_service, the static command counter    *)
(* and the table of pending commands with its condition variable.  (The    *)
(* control program connects from one thread and disconnects from another:  *)
(* that is ClipsControl.)                                                  *)
(*                                                                         *)
(* A critical section of pcmutex is one step: no thread waits for anything *)
(* but the condition variable while it holds the mutex.  Everything else   *)
(* that two threads share is read and written in steps of its own.         *)
(*                                                                         *)
(* The server end is external here: it answers the requests of the stream  *)
(* in order, reports its status and may close the connection.              *)
(*                                                                         *)
(* Messages are whole here.  What StreamFraming shows of the reading loop  *)
(* is kept: the reader may lose step with the stream and then takes no     *)
(* message any more, and it owes the reading of a message only when        *)
(* another one follows.  Left out is what it makes of the stream when it   *)
(* is out of step: a reply of zeros, with an id that is no call's until    *)
(* the ids come round.                                                     *)
(***************************************************************************)
EXTENDS Naturals, Sequences

CONSTANTS
    Callers,      \* the threads that issue remote calls
    IdSpace,      \* how many values a command id has: 2^32 in the code
    MaxCalls,     \* bound: remote calls started
    MaxUnasked,   \* bound: reports and texts the server sends on its own
    MaxConnects   \* bound: connection attempts

ASSUME BoundsAssumption ==
    /\ IdSpace \in Nat \ {0}
    /\ MaxCalls \in Nat
    /\ MaxUnasked \in Nat
    /\ MaxConnects \in Nat

Ids == 0 .. IdSpace - 1

CommandIdNone_OffByOne == IdSpace

\* Reply::CommandIdNone, 0xffffffff: the message is a status report
CommandIdNone == IdSpace - 1

VARIABLES
    alive,            \* the process has not been terminated
    socketPtr,        \* null, or how far the socket it points to got
    stopped,          \* the io_service was stopped or ran out of work; nothing restarts it
    lastCommandId,    \* Request::lastCommandId, shared and not atomic
    pendingCommands,  \* the ids in the pendingCommands map
    replies,          \* the non-null replies in that map
    clipsStatus,      \* the number of the last status report taken over
    pc, cmdId,        \* of every caller: where it is, the id it uses
    call, watch,      \* of every caller: ordinal of its call, is it a "watch"
    outcome, got,     \* of every caller: how its last call ended, which reply
    cleared,          \* callers in a call when the map was last cleared
    own,              \* where the owner is in connect or disconnect
    svc, held,        \* where the service thread is, the message in its hands
    c2s, s2c, peer,   \* the connection: both streams, is the server's end open
    executed,         \* the calls the server executed with success
    issued, published, unasked, attempts   \* counters

shared == <<alive, socketPtr, stopped, lastCommandId, pendingCommands, replies, clipsStatus>>
calls  == <<pc, cmdId, call, watch, outcome, got, cleared>>
link   == <<c2s, s2c, peer>>
world  == <<executed, issued, published, unasked, attempts>>
vars   == <<shared, calls, own, svc, held, link, world>>

Outcomes == {"none", "unsent", "threw", "aborted", "failed", "ok"}
CallerSteps == {"idle", "number", "bump", "send", "register", "await", "waiting"}
OwnerSteps == {"idle", "connecting", "start", "assign", "abort", "release", "stop", "join",
               "drop"}
ServiceSteps == {"none", "run", "more", "store", "notify", "deaf", "abort", "release", "stop",
                 "join", "drop", "exited"}

Requests == [id : Ids, call : Nat, watch : BOOLEAN]

(* What the server sends: a response to a call, a status report or a text. *)
(* call tells which call a response answers; report is the number of a     *)
(* status report or, in the response to a "watch", of the report made for  *)
(* it.  The two are history: the program never looks at them.              *)
Messages == [kind : {"response", "status", "text"}, id : Ids, ok : BOOLEAN,
             call : Nat, report : Nat]

Blank == [kind |-> "text", id |-> 0, ok |-> FALSE, call |-> 0, report |-> 0]
Text == Blank
Report(n) == [kind |-> "status", id |-> CommandIdNone, ok |-> TRUE, call |-> 0, report |-> n]
Response(rq, ok, n) ==
    [kind |-> "response", id |-> rq.id, ok |-> ok, call |-> rq.call, report |-> n]

TypeOK ==
    /\ alive \in BOOLEAN
    /\ socketPtr \in {"null", "new", "failed", "connected"}
    /\ stopped \in BOOLEAN
    /\ lastCommandId \in Ids
    /\ pendingCommands \subseteq Ids
    /\ replies \subseteq Messages
    /\ clipsStatus \in Nat
    /\ pc \in [Callers -> CallerSteps]
    /\ cmdId \in [Callers -> Ids]
    /\ call \in [Callers -> Nat]
    /\ watch \in [Callers -> BOOLEAN]
    /\ outcome \in [Callers -> Outcomes]
    /\ got \in [Callers -> Messages]
    /\ cleared \subseteq Callers
    /\ own \in OwnerSteps
    /\ svc \in ServiceSteps
    /\ held \in Messages
    /\ c2s \in Seq(Requests)
    /\ s2c \in Seq(Messages)
    /\ peer \in {"open", "closed"}
    /\ executed \subseteq Nat
    /\ issued \in Nat /\ published \in Nat /\ unasked \in Nat
    /\ attempts \in Nat

Init ==
    /\ alive = TRUE
    /\ socketPtr = "null"
    /\ stopped = FALSE
    /\ lastCommandId = 0
    /\ pendingCommands = {}
    /\ replies = {}
    /\ clipsStatus = 0
    /\ pc = [c \in Callers |-> "idle"]
    /\ cmdId = [c \in Callers |-> 0]
    /\ call = [c \in Callers |-> 0]
    /\ watch = [c \in Callers |-> FALSE]
    /\ outcome = [c \in Callers |-> "none"]
    /\ got = [c \in Callers |-> Blank]
    /\ cleared = {}
    /\ own = "idle"
    /\ svc = "none"
    /\ held = Blank
    /\ c2s = <<>> /\ s2c = <<>> /\ peer = "open"
    /\ executed = {}
    /\ issued = 0 /\ published = 0 /\ unasked = 0 /\ attempts = 0

-----------------------------------------------------------------------------
(* A remote call: rpc, sendCommand, awaitResponse.                         *)

Goto(c, step) == pc' = [pc EXCEPT ![c] = step]

Return(c, result) ==
    /\ Goto(c, "idle")
    /\ outcome' = [outcome EXCEPT ![c] = result]

\* sendCommand refuses a socket that is null or not open.  While connect() is
\* under way the socket is allocated and may or may not be open yet; a connect
\* that failed leaves it open.
Call(c, w) ==
    /\ alive /\ pc[c] = "idle" /\ issued < MaxCalls
    /\ issued' = issued + 1
    /\ call' = [call EXCEPT ![c] = issued + 1]
    /\ watch' = [watch EXCEPT ![c] = w]
    /\ cleared' = cleared \ {c}
    /\ \/ socketPtr \in {"null", "new"} /\ Return(c, "unsent")
       \/ /\ socketPtr # "null" /\ Goto(c, "number")
          /\ outcome' = [outcome EXCEPT ![c] = "none"]
    /\ UNCHANGED <<shared, cmdId, got, own, svc, held, link>>
    /\ UNCHANGED <<executed, published, unasked, attempts>>

\* ++lastCommandId on a plain uint32_t: a load, then a store.
LoadId(c) ==
    /\ alive /\ pc[c] = "number"
    /\ cmdId' = [cmdId EXCEPT ![c] = (lastCommandId + 1) % IdSpace]
    /\ Goto(c, "bump")
    /\ UNCHANGED <<shared, call, watch, outcome, got, cleared, own, svc, held, link, world>>

StoreId_Forgotten(c) ==
    /\ alive /\ pc[c] = "bump"
    /\ Goto(c, "send")
    /\ UNCHANGED <<shared, cmdId, call, watch, outcome, got, cleared, own, svc, held, link, world>>

StoreId(c) ==
    /\ alive /\ pc[c] = "bump"
    /\ lastCommandId' = cmdId[c]
    /\ Goto(c, "send")
    /\ UNCHANGED <<alive, socketPtr, stopped, pendingCommands, replies, clipsStatus>>
    /\ UNCHANGED <<cmdId, call, watch, outcome, got, cleared, own, svc, held, link, world>>

\* The socket is used after it was checked: disconnect() may have nulled it.
SendToNull(c) ==
    /\ alive /\ pc[c] = "send" /\ socketPtr = "null"
    /\ alive' = FALSE
    /\ UNCHANGED <<socketPtr, stopped, lastCommandId, pendingCommands, replies, clipsStatus>>
    /\ UNCHANGED <<calls, own, svc, held, link, world>>

\* socket::send throws when the connection is not there or is known broken.
SendThrows(c) ==
    /\ alive /\ pc[c] = "send"
    /\ socketPtr \in {"new", "failed"} \/ (socketPtr = "connected" /\ peer = "closed")
    /\ Return(c, "threw")
    /\ UNCHANGED <<shared, cmdId, call, watch, got, cleared, own, svc, held, link, world>>

\* What is sent after the server closed its end is lost.
Send(c) ==
    /\ alive /\ pc[c] = "send" /\ socketPtr = "connected"
    /\ c2s' = IF peer = "open"
              THEN Append(c2s, [id |-> cmdId[c], call |-> call[c], watch |-> watch[c]])
              ELSE c2s
    /\ Goto(c, "register")
    /\ UNCHANGED <<shared, cmdId, call, watch, outcome, got, cleared, own, svc, held>>
    /\ UNCHANGED <<s2c, peer, world>>

WithoutId(rs, i) == {r \in rs : r.id # i}

\* pendingCommands[cmdId] = NULL, after the request is on its way.
Register(c) ==
    /\ alive /\ pc[c] = "register"
    /\ pendingCommands' = pendingCommands \cup {cmdId[c]}
    /\ replies' = WithoutId(replies, cmdId[c])
    /\ Goto(c, "await")
    /\ UNCHANGED <<alive, socketPtr, stopped, lastCommandId, clipsStatus>>
    /\ UNCHANGED <<cmdId, call, watch, outcome, got, cleared, own, svc, held, link, world>>

\* hasReponseArrived: the id has a reply, or is not in the map any more.
HasResponseArrived(i) ==
    \/ i \notin pendingCommands
    \/ \E r \in replies : r.id = i

AwaitBlocks(c) ==
    /\ alive /\ pc[c] = "await" /\ ~HasResponseArrived(cmdId[c])
    /\ Goto(c, "waiting")
    /\ UNCHANGED <<shared, cmdId, call, watch, outcome, got, cleared, own, svc, held, link, world>>

\* The entry is gone.  The test pendingCommands[cmdId] == nullptr puts a null
\* one in its place, and nobody erases it.
AwaitAborted(c) ==
    /\ alive /\ pc[c] = "await" /\ cmdId[c] \notin pendingCommands
    /\ pendingCommands' = pendingCommands \cup {cmdId[c]}
    /\ Return(c, "aborted")
    /\ UNCHANGED <<alive, socketPtr, stopped, lastCommandId, replies, clipsStatus>>
    /\ UNCHANGED <<cmdId, call, watch, got, cleared, own, svc, held, link, world>>

AwaitAnswered_AnyReply(c) ==
    /\ alive /\ pc[c] = "await" /\ cmdId[c] \in pendingCommands
    /\ \E r \in replies :
          /\ got' = [got EXCEPT ![c] = r]
          /\ Return(c, IF r.ok THEN "ok" ELSE "failed")
    /\ pendingCommands' = pendingCommands \ {cmdId[c]}
    /\ replies' = WithoutId(replies, cmdId[c])
    /\ UNCHANGED <<alive, socketPtr, stopped, lastCommandId, clipsStatus>>
    /\ UNCHANGED <<cmdId, call, watch, cleared, own, svc, held, link, world>>

AwaitAnswered(c) ==
    /\ alive /\ pc[c] = "await" /\ cmdId[c] \in pendingCommands
    /\ \E r \in replies :
          /\ r.id = cmdId[c]
          /\ got' = [got EXCEPT ![c] = r]
          /\ Return(c, IF r.ok THEN "ok" ELSE "failed")
    /\ pendingCommands' = pendingCommands \ {cmdId[c]}
    /\ replies' = WithoutId(replies, cmdId[c])
    /\ UNCHANGED <<alive, socketPtr, stopped, lastCommandId, clipsStatus>>
    /\ UNCHANGED <<cmdId, call, watch, cleared, own, svc, held, link, world>>

\* A condition variable may wake a thread that nobody notified.
SpuriousWakeup(c) ==
    /\ alive /\ pc[c] = "waiting"
    /\ Goto(c, "await")
    /\ UNCHANGED <<shared, cmdId, call, watch, outcome, got, cleared, own, svc, held, link, world>>

NotifyAll_WakesOne ==
    pc' \in {[pc EXCEPT ![c] = IF @ = "waiting" THEN "await" ELSE @] : c \in Callers}

NotifyAll_Forgotten == UNCHANGED pc

\* pccv.notify_all()
NotifyAll == pc' = [c \in Callers |-> IF pc[c] = "waiting" THEN "await" ELSE pc[c]]

-----------------------------------------------------------------------------
(* disconnect(): its steps are taken by the owner or, after a read error,  *)
(* by the service thread.                                                  *)

\* abortAllRPC up to lock.unlock()
ClearPending ==
    /\ pendingCommands' = {} /\ replies' = {}
    /\ cleared' = cleared \cup {c \in Callers : pc[c] # "idle"}
    /\ UNCHANGED <<alive, socketPtr, stopped, lastCommandId, clipsStatus>>
    /\ UNCHANGED <<pc, cmdId, call, watch, outcome, got, held, link, world>>

\* the notify_all of abortAllRPC
ReleaseAll ==
    /\ NotifyAll
    /\ UNCHANGED <<shared, cmdId, call, watch, outcome, got, cleared, held, link, world>>

StopService_Forgotten == UNCHANGED <<shared, calls, held, link, world>>

StopService ==
    /\ stopped' = TRUE
    /\ UNCHANGED <<alive, socketPtr, lastCommandId, pendingCommands, replies, clipsStatus>>
    /\ UNCHANGED <<calls, held, link, world>>

-----------------------------------------------------------------------------
(* The owner: connect and disconnect.                                      *)

Connect ==
    /\ alive /\ own = "idle" /\ socketPtr = "null" /\ attempts < MaxConnects
    /\ socketPtr' = "new"
    /\ own' = "connecting"
    /\ attempts' = attempts + 1
    /\ UNCHANGED <<alive, stopped, lastCommandId, pendingCommands, replies, clipsStatus>>
    /\ UNCHANGED <<calls, svc, held, link, executed, issued, published, unasked>>

\* The exception is swallowed and the dead socket stays: every later connect()
\* returns false at once.
ConnectFails ==
    /\ alive /\ own = "connecting"
    /\ socketPtr' = "failed"
    /\ own' = "idle"
    /\ UNCHANGED <<alive, stopped, lastCommandId, pendingCommands, replies, clipsStatus>>
    /\ UNCHANGED <<calls, svc, held, link, world>>

ConnectSucceeds ==
    /\ alive /\ own = "connecting"
    /\ socketPtr' = "connected"
    /\ c2s' = <<>> /\ s2c' = <<>> /\ peer' = "open"
    /\ own' = "start"
    /\ UNCHANGED <<alive, stopped, lastCommandId, pendingCommands, replies, clipsStatus>>
    /\ UNCHANGED <<calls, svc, held, world>>

\* beginReceive, and a thread that calls io_service.run().
StartService ==
    /\ alive /\ own = "start"
    /\ svc' = "run"
    /\ own' = "assign"
    /\ UNCHANGED <<shared, calls, held, link, world>>

\* Only now serviceThreadPtr is set; then the connected event.
KeepThread ==
    /\ alive /\ own = "assign"
    /\ own' = "idle"
    /\ UNCHANGED <<shared, calls, svc, held, link, world>>

Disconnect ==
    /\ alive /\ own = "idle"
    /\ own' = "abort"
    /\ UNCHANGED <<shared, calls, svc, held, link, world>>

OwnerAborts == alive /\ own = "abort" /\ own' = "release" /\ ClearPending /\ UNCHANGED svc

OwnerReleases == alive /\ own = "release" /\ own' = "stop" /\ ReleaseAll /\ UNCHANGED svc

OwnerStopsService ==
    /\ alive /\ own = "stop" /\ svc # "none"
    /\ own' = "join"
    /\ StopService /\ UNCHANGED svc

OwnerJoins_NoWait ==
    /\ alive /\ own = "join"
    /\ own' = "drop"
    /\ UNCHANGED <<shared, calls, svc, held, link, world>>

\* join() returns when the service thread is done; then the disconnected event.
OwnerJoins ==
    /\ alive /\ own = "join" /\ svc = "exited"
    /\ own' = "drop"
    /\ UNCHANGED <<shared, calls, svc, held, link, world>>

OwnerDropsSocket ==
    /\ alive
    /\ own = "drop" \/ (own = "stop" /\ svc = "none")
    /\ socketPtr' = "null"
    /\ c2s' = <<>> /\ s2c' = <<>> /\ peer' = "open"
    /\ own' = "idle"
    /\ UNCHANGED <<alive, stopped, lastCommandId, pendingCommands, replies, clipsStatus>>
    /\ UNCHANGED <<calls, svc, held, world>>

-----------------------------------------------------------------------------
(* The service thread: io_service.run() with asyncReadHandler.             *)

\* run() returns once the service is stopped and no handler is running.
ServiceExits ==
    /\ alive /\ svc \in {"run", "deaf"} /\ stopped
    /\ svc' = "exited"
    /\ UNCHANGED <<shared, calls, own, held, link, world>>

\* Either a read completes (run) or the handler finds one more message in its
\* buffer (more).
Reading == alive /\ s2c # <<>> /\ (svc = "more" \/ (svc = "run" /\ ~stopped))

IsReport(m) == m.id = CommandIdNone

\* A text, or a response with CommandIdNone: updateStatus takes over a
\* successful status report and ignores anything else.
HandleEvent ==
    /\ Reading
    /\ LET m == Head(s2c) IN
          /\ m.kind = "text" \/ IsReport(m)
          /\ clipsStatus' = IF m.kind = "status" /\ m.ok THEN m.report ELSE clipsStatus
    /\ s2c' = Tail(s2c)
    /\ svc' = "more"
    /\ UNCHANGED <<alive, socketPtr, stopped, lastCommandId, pendingCommands, replies>>
    /\ UNCHANGED <<calls, own, held, c2s, peer, world>>

TakeResponse ==
    /\ Reading
    /\ LET m == Head(s2c) IN m.kind # "text" /\ ~IsReport(m)
    /\ held' = Head(s2c)
    /\ s2c' = Tail(s2c)
    /\ svc' = "store"
    /\ UNCHANGED <<shared, calls, own, c2s, peer, world>>

StoreResponse_Unregisters ==
    /\ alive /\ svc = "store"
    /\ pendingCommands' = pendingCommands \ {held.id}
    /\ svc' = "notify"
    /\ held' = Blank
    /\ UNCHANGED <<alive, socketPtr, stopped, lastCommandId, replies, clipsStatus>>
    /\ UNCHANGED <<calls, own, link, world>>

\* handleResponseMesage, under the lock: drop a response nobody registered for.
StoreResponse ==
    /\ alive /\ svc = "store"
    /\ IF held.id \in pendingCommands
       THEN /\ replies' = WithoutId(replies, held.id) \cup {held}
            /\ svc' = "notify"
       ELSE UNCHANGED replies /\ svc' = "more"
    /\ held' = Blank
    /\ UNCHANGED <<alive, socketPtr, stopped, lastCommandId, pendingCommands, clipsStatus>>
    /\ UNCHANGED <<calls, own, link, world>>

NotifyCallers ==
    /\ alive /\ svc = "notify"
    /\ NotifyAll
    /\ svc' = "more"
    /\ UNCHANGED <<shared, cmdId, call, watch, outcome, got, cleared, own, held, link, world>>

\* (mutant) without beginReceive the io_service has no work left: run() returns
Rearm_Forgotten ==
    /\ alive /\ svc = "more"
    /\ svc' = "exited"
    /\ UNCHANGED <<shared, calls, own, held, link, world>>

\* The buffer holds no further complete message: beginReceive.
Rearm ==
    /\ alive /\ svc = "more"
    /\ svc' = "run"
    /\ UNCHANGED <<shared, calls, own, held, link, world>>

\* The loop comes to a byte that is alone in the buffer: the byte is lost, and
\* the stream, which is a member, reads nothing any more.
LoseStep ==
    /\ alive /\ svc = "more" /\ s2c # <<>>
    /\ svc' = "deaf"
    /\ UNCHANGED <<shared, calls, own, held, link, world>>

\* End of the stream, perhaps with one message still waiting in the buffer: the
\* handler calls disconnect() on its own thread.
ReadFails ==
    /\ alive /\ ~stopped /\ peer = "closed"
    /\ svc = "deaf" \/ (svc = "run" /\ Len(s2c) <= 1)
    /\ svc' = "abort"
    /\ UNCHANGED <<shared, calls, own, held, link, world>>

ServiceAborts == alive /\ svc = "abort" /\ svc' = "release" /\ ClearPending /\ UNCHANGED own

ServiceReleases == alive /\ svc = "release" /\ svc' = "stop" /\ ReleaseAll /\ UNCHANGED own

ServiceStopsService ==
    /\ alive /\ svc = "stop" /\ own # "assign"
    /\ svc' = "join"
    /\ StopService /\ UNCHANGED own

\* connect() has not stored the thread yet: nothing is stopped or joined.
ServiceFindsNoThread ==
    /\ alive /\ svc = "stop" /\ own = "assign"
    /\ svc' = "drop"
    /\ UNCHANGED <<shared, calls, own, held, link, world>>

\* socketPtr = NULL on the service thread.  The handler returns, no read is
\* pending, and run() returns for want of work, which stops the io_service.
ServiceDropsSocket ==
    /\ alive /\ svc = "drop"
    /\ socketPtr' = "null"
    /\ stopped' = TRUE
    /\ c2s' = <<>> /\ s2c' = <<>> /\ peer' = "open"
    /\ svc' = "exited"
    /\ UNCHANGED <<alive, lastCommandId, pendingCommands, replies, clipsStatus>>
    /\ UNCHANGED <<calls, own, held, world>>

\* boost::thread::join throws in the thread it would join; nothing catches it.
ServiceJoinsItself ==
    /\ alive /\ svc = "join"
    /\ alive' = FALSE
    /\ UNCHANGED <<socketPtr, stopped, lastCommandId, pendingCommands, replies, clipsStatus>>
    /\ UNCHANGED <<calls, own, svc, held, link, world>>

-----------------------------------------------------------------------------
(* The server's end of the connection (external).                          *)

Attached == socketPtr = "connected" /\ peer = "open"

Unasked == {"nothing", "text", "report"}

\* A rule's (broadcast ...) or (sendto ...), or a status report for all.
Says(kind) == IF kind = "nothing" THEN <<>>
              ELSE IF kind = "text" THEN <<Text>> ELSE <<Report(published')>>

\* The counters, when such a message is sent; asked: the client's "watch" does.
Counts(kind, asked) ==
    /\ published' = IF kind = "report" THEN published + 1 ELSE published
    /\ unasked' = IF kind = "nothing" \/ asked THEN unasked ELSE unasked + 1
    /\ unasked' <= MaxUnasked

ServerAnswers_AckFirst ==
    /\ alive /\ Attached /\ c2s # <<>>
    /\ LET rq == Head(c2s) IN
         \E ok \in BOOLEAN, first \in Unasked :
            /\ rq.watch => ok /\ first = "report"
            /\ Counts(first, rq.watch)
            /\ s2c' = s2c \o <<Response(rq, ok, IF rq.watch THEN published' ELSE 0)>> \o Says(first)
            /\ executed' = IF ok THEN executed \cup {rq.call} ELSE executed
    /\ c2s' = Tail(c2s)
    /\ UNCHANGED <<shared, calls, own, svc, held, peer, issued, attempts>>

\* handleCommand, then acknowledgeMessage.  A "watch" publishes the status
\* before it is acknowledged; other commands may, or may run rules that send.
ServerAnswers ==
    /\ alive /\ Attached /\ c2s # <<>>
    /\ LET rq == Head(c2s) IN
         \E ok \in BOOLEAN, first \in Unasked :
            /\ rq.watch => ok /\ first = "report"
            /\ Counts(first, rq.watch)
            /\ s2c' = s2c \o Says(first) \o <<Response(rq, ok, IF rq.watch THEN published' ELSE 0)>>
            /\ executed' = IF ok THEN executed \cup {rq.call} ELSE executed
    /\ c2s' = Tail(c2s)
    /\ UNCHANGED <<shared, calls, own, svc, held, peer, issued, attempts>>

\* The client was accepted, or another client or a rule made the server send.
ServerSpeaks ==
    /\ alive /\ Attached
    /\ \E kind \in Unasked \ {"nothing"} :
          Counts(kind, FALSE) /\ s2c' = s2c \o Says(kind)
    /\ UNCHANGED <<shared, calls, own, svc, held, c2s, peer, executed, issued, attempts>>

\* The server ends, perhaps with a last message; what was not delivered may
\* be lost.
ServerCloses ==
    /\ alive /\ Attached
    /\ peer' = "closed" /\ c2s' = <<>>
    /\ \E kind \in Unasked :
          /\ Counts(kind, FALSE)
          /\ LET sent == s2c \o Says(kind) IN
               \E n \in 0 .. Len(sent) : s2c' = SubSeq(sent, 1, n)
    /\ UNCHANGED <<shared, calls, own, svc, held, executed, issued, attempts>>

-----------------------------------------------------------------------------
\* What a caller does once it has started a call.
CallerStep(c) ==
    \/ LoadId(c) \/ StoreId(c)
    \/ SendToNull(c) \/ SendThrows(c) \/ Send(c)
    \/ Register(c)
    \/ AwaitBlocks(c) \/ AwaitAborted(c) \/ AwaitAnswered(c)

OwnerStep ==
    \/ ConnectFails \/ ConnectSucceeds \/ StartService \/ KeepThread
    \/ OwnerAborts \/ OwnerReleases \/ OwnerStopsService \/ OwnerJoins \/ OwnerDropsSocket

ServiceStep ==
    \/ ServiceExits \/ HandleEvent \/ TakeResponse \/ StoreResponse \/ NotifyCallers
    \/ Rearm \/ LoseStep \/ ReadFails \/ ServiceAborts \/ ServiceReleases
    \/ ServiceStopsService \/ ServiceJoinsItself \/ ServiceFindsNoThread \/ ServiceDropsSocket

ServerStep == ServerSpeaks \/ ServerCloses

Next ==
    \/ \E c \in Callers :
          CallerStep(c) \/ SpuriousWakeup(c) \/ \E w \in BOOLEAN : Call(c, w)
    \/ Connect \/ Disconnect \/ OwnerStep
    \/ ServiceStep
    \/ ServerAnswers \/ ServerStep

Spec == Init /\ [][Next]_vars

(* Threads are scheduled fairly: a call, a connect or a disconnect that    *)
(* has begun goes on, and so does the service thread; the server's loop    *)
(* polls for ever and CLIPS returns, so a request is answered.  Nobody has *)
(* to start a call, to connect or to close, and no wakeup is spurious for  *)
(* ever.  What the service thread does not owe: to read a message that no  *)
(* other follows, for a read awaits three bytes whatever is buffered; and  *)
(* anything at all once it is out of step, for it may turn round its loop. *)
Stalled == svc = "run" /\ Len(s2c) = 1
ServiceOwes == svc # "deaf" /\ (Stalled => stopped \/ peer = "closed")

Fairness ==
    /\ \A c \in Callers : WF_vars(CallerStep(c))
    /\ WF_vars(OwnerStep)
    /\ WF_vars(ServiceOwes /\ ServiceStep)
    /\ WF_vars(ServerAnswers)

FairSpec == Spec /\ Fairness

-----------------------------------------------------------------------------
(* Properties.                                                             *)

\* No wakeup is lost: a caller sleeps in awaitResponse although its reply is
\* in the map, or its entry was cleared, only while the thread that put the
\* reply there or cleared the map is on its way from the unlock to notify_all.
NoLostWakeup ==
    \A c \in Callers :
        pc[c] = "waiting" /\ HasResponseArrived(cmdId[c]) =>
            svc \in {"notify", "release"} \/ own = "release"

\* rpc returns true only for a command that the server executed, whoever sent
\* it: no reply is made up, mixed up with another id, or left over from a
\* connection that is gone.
SuccessIsExecuted ==
    \A c \in Callers :
        outcome[c] = "ok" => got[c].id = cmdId[c] /\ got[c].call \in executed

\* The socket is destroyed, and the disconnected handlers run, only when the
\* service thread is done: until it is, its handlers dereference the socket.
ReaderHasSocket ==
    (socketPtr # "connected" \/ own = "drop") => svc \in {"none", "exited"}

\* A call gives up only because the map was cleared under it by a disconnect:
\* the reply of a registered call is neither erased nor taken by another call.
\* (One caller thread: two may share an id, see OwnAnswer.)
AbortedByDisconnect ==
    \A c \in Callers : outcome[c] = "aborted" => c \in cleared

\* The reply a call returns answers the request of that very call, not one of
\* an earlier call that was given up, also across a reconnection.
OwnAnswer ==
    \A c \in Callers : outcome[c] \in {"ok", "failed"} => got[c].call = call[c]

\* getWatches and toggleWatch read clipsStatus after their "watch" call has
\* returned: by then the report the server made for that call, or a later one,
\* has been taken over.
WatchSeesItsReport ==
    \A c \in Callers : outcome[c] = "ok" /\ watch[c] => clipsStatus >= got[c].report

\* A caller asleep whose entry has been cleared or answered returns, unless
\* the process is terminated.  (One caller thread: with two, a second call with
\* the same id may register again before the first is awake.)
ReadyCallReturns ==
    \A c \in Callers :
        (pc[c] = "waiting" /\ HasResponseArrived(cmdId[c])) ~> (pc[c] = "idle" \/ ~alive)

\* disconnect() called by the owner returns: the join of the service thread
\* does not wait for ever, unless that thread is out of step with its stream.
DisconnectReturns == (own = "abort") ~> (own = "idle" \/ svc = "deaf" \/ ~alive)

\* A call that is asleep before the server gets to its request is answered:
\* with a reader at work it returns, whatever else arrives first, unless
\* somebody disconnects or the process is terminated, or the reader loses step
\* or leaves the last message in its buffer, because no other follows.
RegisteredCallReturns ==
    \A c \in Callers :
        (/\ pc[c] = "waiting" /\ svc \notin {"none", "exited"} /\ ~stopped
         /\ \E i \in DOMAIN c2s : c2s[i].call = call[c]) ~>
            (pc[c] = "idle" \/ own # "idle" \/ ~alive \/ svc = "deaf" \/ []Stalled)

\* On the first connection at most one message stays unread, also with reports
\* and texts in the middle of calls: the reader is set going again after each
\* batch of messages, and those that follow drive the earlier ones out.  (Not
\* more: see Stalled.  Only the first connection: nothing restarts the
\* io_service, so what arrives on a later one is never read.)
BacklogIsRead ==
    (Attached /\ own = "idle" /\ ~stopped) ~>
        (Len(s2c) <= 1 \/ own # "idle" \/ ~alive \/ svc = "deaf")

Contract == INSTANCE RemoteCalls WITH
    Threads <- Callers,
    begun   <- issued,
    current <- call,
    result  <- [c \in Callers |->
                  IF pc[c] # "idle" THEN "none"
                  ELSE CASE outcome[c] \in {"unsent", "threw"} -> "refused"
                         [] outcome[c] = "aborted" -> "unknown"
                         [] outcome[c] = "none" -> "ok"
                         [] OTHER -> outcome[c]],
    open    <- {c2s[i].call : i \in DOMAIN c2s} \cup
               {call[c] : c \in {d \in Callers : pc[d] \in {"number", "bump", "send"}}}

\* The library implements its contract: a call is executed at most once, ok
\* and failed are the truth about that very call, and one that threw or was
\* not sent is never executed later.  (One caller thread: see OwnAnswer.)
KeepsContract == Contract!Spec

\* As documented for rpc (clipsclient.h:232-239), a call awaits its response:
\* with a live connection and no disconnect it returns, once the reader has read
\* what there is.  The code sends before it registers the id: a response that
\* comes in between is dropped.
RpcReturns ==
    \A c \in Callers :
        (pc[c] = "send" /\ Attached) ~>
            (pc[c] = "idle" \/ own # "idle" \/ ~alive \/ svc = "deaf" \/ []Stalled)
=============================================================================
