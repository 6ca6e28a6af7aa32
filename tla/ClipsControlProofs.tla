------------------------- MODULE ClipsControlProofs -------------------------
(* Theorems about the control program.                                     *)
EXTENDS ClipsControl, TLAPS

-----------------------------------------------------------------------------
(* Type correctness.                                                       *)

\* A step of the connection thread keeps the types.
LEMMA ConnectorTypes == ASSUME TypeOK, ConnectorStep PROVE TypeOK'
<1>1. CASE TestRunning
  BY <1>1 DEF TestRunning, TypeOK
<1>2. CASE ConnectReturnsFalse
  BY <1>2 DEF ConnectReturnsFalse, TypeOK
<1>3. CASE ConnectBegins
  BY <1>3 DEF ConnectBegins, TypeOK
<1>4. CASE ConnectFails
  BY <1>4 DEF ConnectFails, TypeOK
<1>5. CASE ConnectSucceeds
  BY <1>5 DEF ConnectSucceeds, TypeOK
<1>6. CASE ConnectOnDestroyedSocket \/ BeginReceiveOnNull
  BY <1>6 DEF ConnectOnDestroyedSocket, BeginReceiveOnNull, Terminates, TypeOK
<1>7. CASE BeginReceive
  BY <1>7 DEF BeginReceive, TypeOK
<1>8. CASE StartThread
  BY <1>8 DEF StartThread, TypeOK
<1>9. CASE RaiseConnected
  BY <1>9 DEF RaiseConnected, TypeOK
<1>10. CASE Sleep
  BY <1>10 DEF Sleep, TypeOK
<1> QED
  BY <1>1, <1>2, <1>3, <1>4, <1>5, <1>6, <1>7, <1>8, <1>9, <1>10 DEF ConnectorStep

\* A step of the main thread keeps the types.
LEMMA MainTypes == ASSUME TypeOK, MainStep PROVE TypeOK'
<1>1. CASE Calls
  BY <1>1 DEF Calls, TypeOK
<1>2. CASE CallThrows \/ EmptyNumber \/ MainReturns
  BY <1>2 DEF CallThrows, EmptyNumber, MainReturns, Terminates, TypeOK
<1>3. CASE CallReturns
  BY <1>3 DEF CallReturns, TypeOK
<1>4. CASE Quit
  <2>1. running' \in BOOLEAN /\ ~running' /\ ui' = "disconnect"
    BY <1>4 DEF Quit
  <2>2. UNCHANGED <<process, connector, socketPtr, service, stopped, link, server, screen>>
    BY <1>4 DEF Quit
  <2> QED
    BY <2>1, <2>2 DEF TypeOK
<1>5. CASE DisconnectJoins
  BY <1>5 DEF DisconnectJoins, Stop, TypeOK
<1>6. CASE DisconnectHasNoThread
  BY <1>6 DEF DisconnectHasNoThread, TypeOK
<1>7. CASE Joins
  BY <1>7 DEF Joins, TypeOK
<1>8. CASE DropSocket
  BY <1>8 DEF DropSocket, TypeOK
<1> QED
  BY <1>1, <1>2, <1>3, <1>4, <1>5, <1>6, <1>7, <1>8 DEF MainStep, Leaving

\* A step of the service thread or of the server keeps the types.
LEMMA OtherTypes == ASSUME TypeOK, ServiceStep \/ ServerStep PROVE TypeOK'
<1>1. CASE ServiceEnds
  BY <1>1 DEF ServiceEnds, TypeOK
<1>2. CASE ServiceJoinsItself
  BY <1>2 DEF ServiceJoinsItself, Terminates, TypeOK
<1>3. CASE ServerStarts
  BY <1>3 DEF ServerStarts, TypeOK
<1>4. CASE ServerGoes
  BY <1>4 DEF ServerGoes, TypeOK
<1> QED
  BY <1>1, <1>2, <1>3, <1>4 DEF ServiceStep, ServerStep

\* The variables of main.cpp and of the client library keep their types, and
\* main leaves its loop exactly when running is cleared.
THEOREM TypeCorrect == Spec => []TypeOK
<1>1. Init => TypeOK
  BY DEF Init, TypeOK
<1>2. TypeOK /\ [Next]_vars => TypeOK'
  <2> SUFFICES ASSUME TypeOK, [Next]_vars PROVE TypeOK'
    OBVIOUS
  <2>1. CASE Next
    BY <2>1, ConnectorTypes, MainTypes, OtherTypes DEF Next
  <2>2. CASE UNCHANGED vars
    BY <2>2 DEF TypeOK, vars
  <2> QED
    BY <2>1, <2>2
<1> QED
  BY <1>1, <1>2, PTL DEF Spec

-----------------------------------------------------------------------------
(* The window says what the connection is.                                 *)
(*                                                                         *)
(* Two threads share the client without a lock, so what the window says is *)
(* kept true by where the threads are.  The connection thread shows        *)
(* "online" as its last step, when the socket is connected and the service *)
(* thread was made (ConnectorKnows); only the main thread stops the one    *)
(* and destroys the other, and only after it cleared running.              *)

\* How far connect() got, while nobody quits.
ConnectorKnows ==
    /\ connector \in {"read", "thread", "raise", "done"} => socketPtr = "connected"
    /\ connector = "done" => service # "none"
    /\ screen = "online" => connector = "done"

\* The service thread is made by connect() and ends only when it is stopped.
ServiceEndsStopped ==
    /\ service # "none" => connector \in {"raise", "done"}
    /\ service = "ended" => stopped

OnlineInv ==
    /\ TypeOK
    /\ ServiceEndsStopped
    /\ running => ~stopped /\ ConnectorKnows

\* A step of the connection thread keeps the invariant.
LEMMA ConnectorKeepsOnline == ASSUME OnlineInv, ConnectorStep PROVE OnlineInv'
<1> USE DEF ServiceEndsStopped, ConnectorKnows
<1>1. TypeOK'
  BY ConnectorTypes DEF OnlineInv
<1>2. CASE TestRunning
  BY <1>1, <1>2 DEF TestRunning, TypeOK, OnlineInv
<1>3. CASE ConnectReturnsFalse
  BY <1>1, <1>3 DEF ConnectReturnsFalse, TypeOK, OnlineInv
<1>4. CASE ConnectBegins
  BY <1>1, <1>4 DEF ConnectBegins, TypeOK, OnlineInv
<1>5. CASE ConnectFails
  BY <1>1, <1>5 DEF ConnectFails, TypeOK, OnlineInv
<1>6. CASE ConnectSucceeds
  BY <1>1, <1>6 DEF ConnectSucceeds, TypeOK, OnlineInv
<1>7. CASE ConnectOnDestroyedSocket \/ BeginReceiveOnNull
  BY <1>1, <1>7
     DEF ConnectOnDestroyedSocket, BeginReceiveOnNull, Terminates, TypeOK, OnlineInv
<1>8. CASE BeginReceive
  BY <1>1, <1>8 DEF BeginReceive, TypeOK, OnlineInv
<1>9. CASE StartThread
  BY <1>1, <1>9 DEF StartThread, TypeOK, OnlineInv
<1>10. CASE RaiseConnected
  BY <1>1, <1>10 DEF RaiseConnected, TypeOK, OnlineInv
<1>11. CASE Sleep
  BY <1>1, <1>11 DEF Sleep, TypeOK, OnlineInv
<1> QED
  BY <1>2, <1>3, <1>4, <1>5, <1>6, <1>7, <1>8, <1>9, <1>10, <1>11 DEF ConnectorStep

\* A step of the main thread keeps the invariant: what it stops or destroys
\* it stops or destroys after running is cleared.
LEMMA MainKeepsOnline == ASSUME OnlineInv, MainStep PROVE OnlineInv'
<1> USE DEF ServiceEndsStopped, ConnectorKnows
<1>1. TypeOK'
  BY MainTypes DEF OnlineInv
<1>2. CASE Calls \/ CallReturns
  BY <1>1, <1>2 DEF Calls, CallReturns, TypeOK, OnlineInv
<1>3. CASE CallThrows \/ EmptyNumber \/ MainReturns
  BY <1>1, <1>3 DEF CallThrows, EmptyNumber, MainReturns, Terminates, TypeOK, OnlineInv
<1>4. CASE Quit
  BY <1>1, <1>4 DEF Quit, TypeOK, OnlineInv
<1>5. CASE DisconnectJoins
  BY <1>1, <1>5 DEF DisconnectJoins, Stop, TypeOK, OnlineInv
<1>6. CASE DisconnectHasNoThread
  BY <1>1, <1>6 DEF DisconnectHasNoThread, TypeOK, OnlineInv
<1>7. CASE Joins
  BY <1>1, <1>7 DEF Joins, TypeOK, OnlineInv
<1>8. CASE DropSocket
  BY <1>1, <1>8 DEF DropSocket, TypeOK, OnlineInv
<1> QED
  BY <1>2, <1>3, <1>4, <1>5, <1>6, <1>7, <1>8 DEF MainStep, Leaving

\* A step of the service thread or of the server keeps the invariant.
LEMMA OthersKeepOnline == ASSUME OnlineInv, ServiceStep \/ ServerStep PROVE OnlineInv'
<1> USE DEF ServiceEndsStopped, ConnectorKnows
<1>1. TypeOK'
  BY OtherTypes DEF OnlineInv
<1>2. CASE ServiceEnds
  BY <1>1, <1>2 DEF ServiceEnds, TypeOK, OnlineInv
<1>3. CASE ServiceJoinsItself
  BY <1>1, <1>3 DEF ServiceJoinsItself, Terminates, TypeOK, OnlineInv
<1>4. CASE ServerStarts \/ ServerGoes
  BY <1>1, <1>4 DEF ServerStarts, ServerGoes, TypeOK, OnlineInv
<1> QED
  BY <1>2, <1>3, <1>4 DEF ServiceStep, ServerStep

\* Until the user quits, "online" means a connected socket and a thread that
\* reads it, however connect() and disconnect() interleave.
THEOREM OnlineSafe == Spec => []OnlineIsConnected
<1>1. Init => OnlineInv
  BY DEF Init, TypeOK, OnlineInv, ServiceEndsStopped, ConnectorKnows
<1>2. OnlineInv /\ [Next]_vars => OnlineInv'
  <2> SUFFICES ASSUME OnlineInv, [Next]_vars PROVE OnlineInv'
    OBVIOUS
  <2>1. CASE Next
    BY <2>1, ConnectorKeepsOnline, MainKeepsOnline, OthersKeepOnline DEF Next
  <2>2. CASE UNCHANGED vars
    BY <2>2 DEF OnlineInv, TypeOK, ServiceEndsStopped, ConnectorKnows, vars
  <2> QED
    BY <2>1, <2>2
<1>3. OnlineInv => OnlineIsConnected
  BY DEF OnlineInv, TypeOK, ServiceEndsStopped, ConnectorKnows, OnlineIsConnected
<1> QED
  BY <1>1, <1>2, <1>3, PTL DEF Spec
=============================================================================
