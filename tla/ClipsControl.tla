--------------------------- MODULE ClipsControl ----------------------------
(***************************************************************************)
(* The control program (clipscontrol/src/main.cpp): the main thread reads  *)
(* keys and sends commands, a connection thread made at the start calls    *)
(* connect() until it succeeds, and the client's service thread reads.     *)
(* Unlike ClipsClient, where one owner connects and disconnects, here one  *)
(* thread connects and another disconnects, without a lock between them.   *)
(*                                                                         *)
(* The client library is taken at the level its user sees: the steps of    *)
(* connect() and disconnect() that the two threads interleave, a call that *)
(* waits, a service thread that ends the process when the connection does  *)
(* (ClipsClient has the reasons; also for a reader that is out of step and *)
(* does not end, which is left out here).  The windows are left out, but   *)
(* for the state of the connection they show and for what ends the program.*)
(***************************************************************************)

VARIABLES
    process,    \* "running", or "terminated" by an exception or a bad access
    running,    \* the flag of main.cpp: not yet told to quit
    ui,         \* where the main thread is
    connector,  \* where the thread of asyncConnectTask is
    socketPtr,  \* null, or how far the socket it points to got
    service,    \* serviceThreadPtr: null, or the state of its thread
    stopped,    \* io_service.stop() was called
    link,       \* the connection: "none", "open" or "broken"
    server,     \* is a server listening: "up" or "down"
    screen      \* what the window shows: "online" or "offline"

vars == <<process, running, ui, connector, socketPtr, service, stopped, link, server, screen>>

TypeOK ==
    /\ process \in {"running", "terminated"}
    /\ running \in BOOLEAN
    /\ ui \in {"keys", "call", "disconnect", "join", "drop", "left"}
    /\ connector \in {"retry", "connect", "connecting", "read", "thread", "raise", "sleep", "done"}
    /\ socketPtr \in {"null", "new", "failed", "connected"}
    /\ service \in {"none", "running", "ended"}
    /\ stopped \in BOOLEAN
    /\ link \in {"none", "open", "broken"}
    /\ server \in {"up", "down"}
    /\ screen \in {"online", "offline"}
    /\ connector = "raise" => service # "none"
    /\ running <=> ui \in {"keys", "call"}

\* main has set running and made the connection thread.
Init ==
    /\ process = "running"
    /\ running = TRUE
    /\ ui = "keys"
    /\ connector = "retry"
    /\ socketPtr = "null"
    /\ service = "none"
    /\ stopped = FALSE
    /\ link = "none"
    /\ server \in {"up", "down"}
    /\ screen = "offline"

Terminates ==
    /\ process' = "terminated"
    /\ UNCHANGED <<running, ui, connector, socketPtr, service, stopped, link, server, screen>>

-----------------------------------------------------------------------------
(* The connection thread: asyncConnectTask and ClipsClient::connect.       *)

TestRunning ==
    /\ connector = "retry"
    /\ connector' = IF running THEN "connect" ELSE "done"
    /\ UNCHANGED <<process, running, ui, socketPtr, service, stopped, link, server, screen>>

\* if(socketPtr) return false: also a socket that an earlier attempt left.
ConnectReturnsFalse ==
    /\ connector = "connect" /\ socketPtr # "null"
    /\ connector' = "sleep"
    /\ UNCHANGED <<process, running, ui, socketPtr, service, stopped, link, server, screen>>

ConnectBegins_RaisesEarly ==
    /\ connector = "connect" /\ socketPtr = "null"
    /\ socketPtr' = "new"
    /\ connector' = "connecting"
    /\ screen' = "online"
    /\ UNCHANGED <<process, running, ui, service, stopped, link, server>>

ConnectBegins ==
    /\ connector = "connect" /\ socketPtr = "null"
    /\ socketPtr' = "new"
    /\ connector' = "connecting"
    /\ UNCHANGED <<process, running, ui, service, stopped, link, server, screen>>

\* The exception is swallowed and the socket stays.
ConnectFails ==
    /\ connector = "connecting" /\ server = "down"
    /\ socketPtr' = IF socketPtr = "new" THEN "failed" ELSE socketPtr
    /\ connector' = "sleep"
    /\ UNCHANGED <<process, running, ui, service, stopped, link, server, screen>>

ConnectSucceeds ==
    /\ connector = "connecting" /\ server = "up" /\ socketPtr = "new"
    /\ socketPtr' = "connected"
    /\ link' = "open"
    /\ connector' = "read"
    /\ UNCHANGED <<process, running, ui, service, stopped, server, screen>>

\* The main thread destroyed the socket that connect() is working on.
ConnectOnDestroyedSocket ==
    /\ connector = "connecting" /\ socketPtr = "null"
    /\ Terminates

BeginReceive_NoThread ==
    /\ connector = "read" /\ socketPtr # "null"
    /\ connector' = "raise"
    /\ UNCHANGED <<process, running, ui, socketPtr, service, stopped, link, server, screen>>

BeginReceive ==
    /\ connector = "read" /\ socketPtr # "null"
    /\ connector' = "thread"
    /\ UNCHANGED <<process, running, ui, socketPtr, service, stopped, link, server, screen>>

\* async_read(*socketPtr) after the main thread set the pointer to null.
BeginReceiveOnNull ==
    /\ connector = "read" /\ socketPtr = "null"
    /\ Terminates

StartThread ==
    /\ connector = "thread"
    /\ service' = "running"
    /\ connector' = "raise"
    /\ UNCHANGED <<process, running, ui, socketPtr, stopped, link, server, screen>>

\* onConnected, connectedEH; connect() returns true, which ends the loop.
RaiseConnected_Forgotten ==
    /\ connector = "raise"
    /\ connector' = "done"
    /\ UNCHANGED <<process, running, ui, socketPtr, service, stopped, link, server, screen>>

RaiseConnected ==
    /\ connector = "raise"
    /\ screen' = "online"
    /\ connector' = "done"
    /\ UNCHANGED <<process, running, ui, socketPtr, service, stopped, link, server>>

Sleep ==
    /\ connector = "sleep"
    /\ connector' = "retry"
    /\ UNCHANGED <<process, running, ui, socketPtr, service, stopped, link, server, screen>>

ConnectorStep ==
    /\ process = "running"
    /\ \/ TestRunning \/ ConnectReturnsFalse \/ ConnectBegins \/ ConnectFails
       \/ ConnectSucceeds \/ ConnectOnDestroyedSocket \/ BeginReceive
       \/ BeginReceiveOnNull \/ StartThread \/ RaiseConnected \/ Sleep

-----------------------------------------------------------------------------
(* The main thread: keys, then what follows ncw.poll() in main.            *)

\* A key that sends a command: its call waits in this very thread.  Without a
\* socket nothing is sent and nothing changes.
Calls ==
    /\ ui = "keys" /\ socketPtr = "connected"
    /\ ui' = "call"
    /\ UNCHANGED <<process, running, connector, socketPtr, service, stopped, link, server, screen>>

\* With a socket that is not connected, or no longer, send throws and nobody
\* catches.
CallThrows ==
    /\ ui = "keys"
    /\ socketPtr \in {"new", "failed"} \/ (socketPtr = "connected" /\ link = "broken")
    /\ Terminates

CallReturns ==
    /\ ui = "call" /\ service = "running" /\ link = "open"
    /\ ui' = "keys"
    /\ UNCHANGED <<process, running, connector, socketPtr, service, stopped, link, server, screen>>

\* The prompt for the number of runs accepts an empty line: std::stoi throws.
EmptyNumber ==
    /\ ui = "keys"
    /\ Terminates

Quit ==
    /\ ui = "keys"
    /\ running' = FALSE
    /\ ui' = "disconnect"
    /\ UNCHANGED <<process, connector, socketPtr, service, stopped, link, server, screen>>

Stop_Forgotten == stopped' = stopped

Stop == stopped' = TRUE

DisconnectJoins ==
    /\ ui = "disconnect" /\ service # "none"
    /\ Stop
    /\ ui' = "join"
    /\ UNCHANGED <<process, running, connector, socketPtr, service, link, server, screen>>

DisconnectHasNoThread ==
    /\ ui = "disconnect" /\ service = "none"
    /\ ui' = "drop"
    /\ UNCHANGED <<process, running, connector, socketPtr, service, stopped, link, server, screen>>

\* The join returns and disconnectedEH runs: running is FALSE by now, so that
\* no connection thread is made.
Joins ==
    /\ ui = "join" /\ service = "ended"
    /\ screen' = "offline"
    /\ ui' = "drop"
    /\ UNCHANGED <<process, running, connector, socketPtr, service, stopped, link, server>>

\* The destroyed socket aborts what a reader still waits for.
DropSocket ==
    /\ ui = "drop"
    /\ socketPtr' = "null"
    /\ link' = IF link = "none" THEN "none" ELSE "broken"
    /\ ui' = "left"
    /\ UNCHANGED <<process, running, connector, service, stopped, server, screen>>

\* After main the globals are destroyed, acThreadPtr with a thread that was
\* never joined: std::terminate.
MainReturns ==
    /\ ui = "left"
    /\ Terminates

Leaving == DisconnectJoins \/ DisconnectHasNoThread \/ Joins \/ DropSocket \/ MainReturns

MainStep ==
    /\ process = "running"
    /\ Calls \/ CallThrows \/ CallReturns \/ EmptyNumber \/ Quit \/ Leaving

-----------------------------------------------------------------------------
(* The service thread and the server.                                      *)

ServiceEnds ==
    /\ service = "running" /\ stopped
    /\ service' = "ended"
    /\ UNCHANGED <<process, running, ui, connector, socketPtr, stopped, link, server, screen>>

\* The read fails, the handler calls disconnect() and joins its own thread.
ServiceJoinsItself ==
    /\ service = "running" /\ ~stopped /\ link = "broken"
    /\ Terminates

ServiceStep == process = "running" /\ (ServiceEnds \/ ServiceJoinsItself)

ServerStarts ==
    /\ server = "down"
    /\ server' = "up"
    /\ UNCHANGED <<process, running, ui, connector, socketPtr, service, stopped, link, screen>>

ServerGoes ==
    /\ server = "up"
    /\ server' = "down"
    /\ link' = IF link = "open" THEN "broken" ELSE link
    /\ UNCHANGED <<process, running, ui, connector, socketPtr, service, stopped, screen>>

ServerStep == process = "running" /\ (ServerStarts \/ ServerGoes)

Next == ConnectorStep \/ MainStep \/ ServiceStep \/ ServerStep

Spec == Init /\ [][Next]_vars

\* Threads that can go on do; the user may press no key, the server may stay
\* as it is and need not answer.
FairSpec ==
    /\ Spec
    /\ WF_vars(ConnectorStep)
    /\ WF_vars(process = "running" /\ Leaving)
    /\ WF_vars(ServiceStep)

-----------------------------------------------------------------------------
(* Properties.                                                             *)

\* Until the user quits, the window says online only when there is a socket
\* that was connected and a thread that reads it, although the thread that
\* sets the one is not the one that may destroy the other.
OnlineIsConnected ==
    (running /\ screen = "online") => (socketPtr = "connected" /\ service = "running")

\* A user who quits gets out: whatever the connection thread is doing, the
\* disconnect that follows does not wait for ever.
QuitEnds == ~running ~> process = "terminated"

\* A server that is there when the program starts, and stays, is connected to.
ConnectsIfUp ==
    [](server = "up") => <>(screen = "online" \/ ~running \/ process = "terminated")
=============================================================================
