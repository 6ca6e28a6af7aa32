# Verification of the TCP CLIPS server and its client

The repository puts the CLIPS expert-system engine behind a TCP port.  `clipsserver` embeds
the engine and serves any number of clients from one thread.  `clipsclient` is the library
through which programs call the server; `clipscontrol` is a terminal program built on it;
`clipswrapper` is the C++ layer between the server and the engine's C API; `clips64` is the
engine itself, third-party code.

This directory holds TLA+ models of the parts in which several threads, several programs or a
stream cut anywhere can go wrong, the TLC configurations that check them, and theorems about
them that TLAPS checks for every value of the constants.  `PROJECT.json` has the inventory in
machine-readable form, with the source lines of every definition.

    tlc -config MCClipsClient_two.cfg MCClipsClient      # one run
    tlapm ClipsClientProofs.tla                          # the proofs of one module

## 1. The system

### 1.1 Components

| Component | State | Operations |
|---|---|---|
| **Client library** `src/clipsclient`, `src/include/clipsclient` | socket pointer, `io_service` and its thread, static `lastCommandId`, map `pendingCommands` with mutex and condition variable, receive buffer, last `clipsStatus`, four handler lists | `connect`, `disconnect`, the calls (`assertFact`, `clear`, `execute`, `loadFile`, `query`, `reset`, `retract`, `run`, `setPath`, watches ...), all through `rpc`; `asyncReadHandler` |
| **Server** `server.cpp` | `clients` (endpoint to session), `queue`, the engine, `clppath` | `acceptHandler`, `parseMessage` with `handleCommand` and one handler per command, `acknowledgeMessage`, `broadcast`, `sendTo`, `publishStatus`, the loop `run` |
| **Session** `session.cpp` | socket, receive buffer | `asyncReadHandler`, `send` |
| **Queue** `sync_queue.h` | FIFO, mutex, condition variable | `produce`, `consume`, `empty`, `timedProduce`, `timedConsume` |
| **Wrapper** `src/clipswrapper` | the engine's environment, the `QueryRouter` with `enabled` and a buffer | `run`, `reset`, `assertString`, `query`, watches, routers, user functions |
| **Control program** `src/clipscontrol` | window, client, connection thread, `running` | connect in a thread of its own, forward what the user types, quit |

### 1.2 Interactions

A caller of the client library sends a request (size, NUL, id, text) and sleeps on a condition
variable until the reader thread has put the reply with its id in the map.  The server reads
whole messages from every session into one queue, and its loop alternates
`io_context.poll()`, which runs every ready handler (accept, read, read error), with
`parseMessage`, which gives one message to the engine.  A command is acknowledged to the endpoint
it came from.  Commands that change or show a watch or the path, and a new connection, make it
write a status report to every client; rules write texts with `(broadcast ...)` and
`(sendto ...)`.  Reports carry the id `CommandIdNone` and texts no header, so all three kinds of
message share the one stream that the client's reader takes apart.

### 1.3 What is hard, and what makes each part correct

* **Client: threads.**  Caller threads, whoever connects and disconnects, and the
  service thread share the map (locked) and the socket pointer, the id counter and the
  `io_service` (not locked).  Correct: no wakeup is lost; a call that returns `true` was executed
  by the server; it returns its own answer; a disconnection releases every call; the socket
  outlives its reader; `disconnect` returns; what arrives does not pile up unread.
* **Server: order and departures.**  Any client may leave between any two steps, with commands
  queued.  Correct: every command of a client that stays is acknowledged, once, in order, to it;
  none is lost; the report of a `watch` comes before its acknowledgement; everybody connected was
  told the status in force; who left is removed; and the process ends only in the few situations
  that are named.
* **Server: files.**  Commands and rules move the working directory, lists move it for a while.
  Correct: reports name the directory that is in force, and a list means the same files from
  wherever it is asked for.
* **Wire format.**  Ids, flags, spaces and NULs share the bytes of a message with its text, and its
  size has 16 bits.  Correct: the server executes what was asked and the client hears what was said.
* **Framing: a stream cut anywhere.**  Correct: what is taken is exactly the messages sent, whole
  and in order, none waits though it has arrived.
* **Queue.**  Correct: a FIFO, nobody sleeps while it holds an element.
* **Wrapper.**  Correct: the router is enabled exactly while a query runs, and its buffer holds that
  query's output.
* **Control program.**  One thread connects, another disconnects, a third raises events.  Correct:
  the window says online only with a connection that is read, the user gets out, a server that is
  there is connected to.

`PROJECT.json` lists each hazard at its line, with the properties that cover it.

## 2. The modules

| Module | Models | Theorems |
|---|---|---|
| `ClipsClient` | the client library; the server's end is external | `ClipsClientProofs` |
| `RemoteCalls` | abstract: what the library promises to callers; `ClipsClient` implements it | |
| `ClipsServer` | server, sessions, queue, the wrapper as the server sees it; the remote ends are external | `ClipsServerProofs` |
| `CommandService` | abstract: what the server promises to clients; `ClipsServer` implements it | |
| `TcpClips` | the library, the server and other programs together, each end taking the place of the other's external half | `TcpClipsProofs` |
| `ServerFiles` | working directory, paths, lists and loading | `ServerFilesProofs` |
| `WireFormat` | the bytes of requests, replies, reports and texts | `WireFormatProofs` |
| `StreamFraming` | the reading loops of client and session on a cut stream | `StreamFramingProofs` |
| `SyncQueue` | the class `sync_queue` with its waits and timeouts | `SyncQueueProofs` |
| `Fifo` | abstract: a shared queue; `SyncQueue` implements it | |
| `ClipsControl` | the control program's threads and the library as they see it | `ClipsControlProofs` |
| `MCClipsClient`, `MCClipsServer`, `MCServerFiles`, `MCWireFormat` | symmetry sets and constants for TLC | |

### 2.1 `ClipsClient`

`pc[c]` is where caller `c` is in `rpc`: `Call` (the test in `sendCommand`), `LoadId`/`StoreId`
(`++lastCommandId`), `Send`/`SendThrows`/`SendToNull`, `Register` (the entry in
`pendingCommands`), `AwaitBlocks`/`AwaitAborted`/`AwaitAnswered` (one turn of the loop of
`awaitResponse`).  `own` is where the owner thread is in `connect` or `disconnect`, and `svc`
where the service thread is in `io_service.run()` or a handler.

* A critical section of `pcmutex` is one step; every other shared access is a step of its own.
  So the load and the store of `++lastCommandId`, and the test and the use of `socketPtr`, can be
  interleaved with anything: these are the outcomes of the data races that the model allows.
* `pendingCommands` is split into its keys (`pendingCommands`) and its non-null values
  (`replies`).  A message in either stream is a record; the ordinal of the call and of the report
  it carries are history variables that the program never reads.
* The service thread runs before `connect` has stored `serviceThreadPtr` (`StartService`, then
  `KeepThread`).  A read error in between finds no thread to stop and join: `disconnect`, on the service
  thread, only drops the socket, and `io_service.run()` returns for want of work (`ServiceFindsNoThread`,
  `ServiceDropsSocket`, which has both as one step).
* Messages are whole, but two things that `StreamFraming` shows of the loop are kept.  The reader may lose step
  with the stream (`LoseStep`, `svc = "deaf"`) and then takes no message any more.  And it need not take the
  only message that has arrived (`Stalled`), since a read awaits three bytes whatever is buffered.  What a
  reader out of step makes of the stream is left out: a reply of zeros, whose id is no call's until the ids come round.
* One owner at a time connects or disconnects.  The control program does the one in a thread and
  the other in `main`; what can come of it is in `ClipsControl`.
* `socketPtr` is `"null"`, `"new"` (allocated, connecting), `"failed"` or `"connected"`: a
  failed `connect` leaves the dead socket behind, as the code does.
* The server (external) answers requests in order, may report its status, send texts or close.
  Its answer to a `watch` is the report, then the acknowledgement; that order is what
  `ReportBeforeAck` shows of `ClipsServer`.
* Event handlers do not call back into the library.

`KeepsContract` says that the library implements `RemoteCalls`: a call is executed at most once;
`ok` means that this very call was executed, `failed` that it was executed without success, a call
that was refused is never executed, and of one that a disconnect aborted nothing is known.  (The
caller of `rpc` sees one `false` for all of these but `ok`.)  It holds for one calling
thread, also when the id counter comes to `CommandIdNone`: that call does not return, but it gets no
answer of another.

### 2.2 `ClipsServer`

`mode` is the half of the loop of `Server::run` that runs.  `Accept`, `Receive` and `ReadFails`
are the handlers of `poll()`, in any order and while any is ready; `Parse` is `parseMessage` as a
whole: the command's effect (`Watch`, `Path`, `Evaluate`, `Query`, `NoEffect`), what it writes
before it is acknowledged, and the acknowledgement.  A message is who sent it, its ordinal and what
it asks for, one of eight operations that differ in what others can see of them (listed in the
module).  What rules do while the engine runs is a choice: nothing, a text to all, a text to one,
a watch changed.  CLIPS evaluates the calls in what it runs, loads, queries or is given to assert, so
`EngineExits` may end the process in each of these: by `(exit)`, which `ExitRouter` turns into `exit()`, or by a
text or result whose size wraps, which `Session::send` writes past the end of its buffer.  Otherwise CLIPS is taken to come back: rules
that fire without end are not modelled.

Exceptions that nothing catches end the process: `AcceptThrows`, `ParseThrows` (a write to a
peer that is gone; it may also be lost in silence), `RunThrows` (`std::stoi`),
`AcknowledgeNobody` (`clients[source]` makes a null session), `PrintOverflows`
(`clips::print` calls itself).  `capturing` is `QueryRouter::enabled` outside a query.

An endpoint serves for one connection; a write to a live peer completes; a session that a client
reset before it was accepted is refused by an exception.

### 2.3 `StreamFraming`

Bytes are counted: `ends[i]` is the position in the stream after message `i`, and
`consumed <= taken <= arrived` are how far the handler, the buffer and TCP got.  `ReadSome` is
`async_read` with `transfer_at_least(3)`; `TakeMessage`, `Incomplete` and `LoseByte` are one turn
of the handler's loop, for a whole message, for the start of one, and for a single byte.  After
`LoseByte` the receiver is out of step, and the two loops (`receiver`, a member of `Receivers`) go on differently:
the client's `istream` is a member and stays failed, the session's is new at every peek.
Messages have at least one byte of content, which holds for all that either side
sends.

### 2.4 `ServerFiles`

One thread, so every command is one step; `phase` is how far `main` is (`parseArgs`, `initCLIPS`,
`addUserFunctions`, `run`).  A path is the way its directory is written (not at all, `~`, a relative
path, one that does not exist, a canonical one) and a name.  `Enter` is what `chdir` does with a
directory, `Canonical` what `canonicalize_path` does; that they differ for `~` and for what does not
exist is what the properties are about.  `cwd` is the process's directory, `clppath` the one that
reports name, `loaded` the files in the engine, each with whether all of it was accepted.  The tree
does not change while the server runs.

### 2.5 `WireFormat`

One message makes its way: composed, read, taken apart, answered, read and heard (`stage`).  A
byte is a digit in base `Base`, and sizes wrap at `Base^2`.  A message whose size wraps is written past
the end of the buffer made for it; the model stops there (`"overrun"`).  Arguments may hold NULs (a
`std::string` may), results, reports and texts not, for CLIPS makes them.  `CommandArrives` says
what arrives of arguments with a NUL: what is before it.

### 2.6 `SyncQueue` and `Fifo`

Every method of `sync_queue` holds the mutex but for the wait, so the steps are those
between waits; `NotifyOne` wakes one of those asleep, `TimeoutExpires` a timed one, and `Resume` is the
thread with the mutex in hand.  The server uses the class from one thread; the class is written for many,
and is checked so.

### 2.7 `TcpClips`

`TcpClips` extends `ClipsServer`: the server's variables are its own, and the remaining ones are those of the
library.  The k-th connection of the library is the endpoint `k` of the server.  A step of the library that
sends, connects or closes is a step of `ClipsServer`'s remote end as well (`Sends`, `Opens`, `Closes`).
`ClipsClient` sees the other end through a mapping: `Pending`, the requests on their way, are those of the
connection that are not acknowledged yet; `Peer` is open until the library's connection is not; what the library is sent
and the counters `ClipsClient` keeps of it are history variables (`s2c`, `published`, `unasked`) that `Hears` fills
from what a step of the server writes (`Written`, `Seen`), up to `MaxUnasked` unbidden messages.  So
`ServerAsAssumed == C!Spec` says that the server's steps, seen through that mapping, are
steps that `ClipsClient` allows its external server: what is shown of `ClipsClient` holds with the real one.

The composition leaves out what either module has alone: calls without a socket, `disconnect`
without a connection, and what the server does for others once the client's process has ended (then
its endpoint is one of `ClipsServer`'s remote ends).  The other programs have connected before, with a message
on its way.  TLC tells states apart by `View`, which leaves out what was written to the other programs, and of
what was written to the library keeps the acknowledgements only: no step and neither property reads the rest.

### 2.8 `ClipsControl`

`ui` is where `main` is (`ncw.poll()`, a call made from a key, or the steps of `disconnect()`),
`connector` where the thread of `asyncConnectTask` is in `connect()`.  Neither takes a lock.  The
library is taken at the level of those steps; that a call waits for `"running"` service and an open
link, and that a broken link makes the service thread join itself, is what `ClipsClient` shows.

## 3. The runs

| Run | Checks | Shows |
|---|---|---|
| `client_two_callers` | `TypeOK`, `NoLostWakeup`, `SuccessIsExecuted`, `ReaderHasSocket` | two threads, two calls, two connection attempts, a peer that may close |
| `client_one_caller` | `AbortedByDisconnect`, `OwnAnswer`, `KeepsContract` | one calling thread, three calls with four ids, a reconnection; the library implements `RemoteCalls` |
| `client_live` | `WatchSeesItsReport`, `ReadyCallReturns`, `RegisteredCallReturns`, `BacklogIsRead`, `DisconnectReturns` | two calls, a report or text between answers; liveness under fair threads, with a reader that may stall or lose step |
| `server_orders` | `AckedInOrder`, `NothingLost`, `ReportBeforeAck`, `StatusTold`, `ServesInOrder` | two clients, two messages each, closing or resetting at any point, two paths; the server implements `CommandService` |
| `server_loop` | `TypeOK`, `EndsOnlyForCause`, `GoneIsRemoved`, `ServesAll` | messages that CLIPS evaluates, print or throw; when the process may end; liveness under the server's loop, also that of `CommandService` |
| `framing_cuts` | `TypeOK`, `Aligned`, `OneStalled`, `PredecessorDelivered` | four messages of three or five bytes, every cut, both loops |
| `queue_fifo` | `TypeOK`, `NoLostWakeup`, `IsFifo` | three consumers, timed or not, four elements; the queue implements `Fifo` with its fairness |
| `files` | `TypeOK`, `ReportedPath`, `ListsLoadInOrder` | three directories with a list each, a broken file, one that needs the user functions |
| `wire` | `CommandArrives`, `AnswerArrives` | every message up to the largest size, with ids that look like NULs, spaces and `CommandIdNone` |
| `control` | `TypeOK`, `OnlineIsConnected`, `QuitEnds`, `ConnectsIfUp` | two threads in `connect()` and `disconnect()` while the server comes and goes |
| `system` | `ServerAsAssumed`, `ShowsStatusInForce` | library, server and another program together |
| `client_rpc_returns` | `RpcReturns` | a violation: section 4 |

`CHECK_DEADLOCK` is off in all of them: the bounded environment (calls, messages, connections) is
used up in the end, and a process may have ended.

**Bounds.**  Two callers and two calls are enough for two threads to draw one id, for an answer
to come while the other caller sleeps, and for a call that was given up to meet a later one; two
connection attempts for a failed and a good one, or for a reconnection; one message that no call
asked for (`MaxUnasked`, in `client_live`; more in `system`) for a report or a text to come between any two others.  Ids: eight where
they do not matter; in `client_one_caller` four, so that the third of three calls draws
`CommandIdNone`.  Server: with
two clients and two messages each, messages of both interleave in the queue, a client leaves with
one message acknowledged and one queued, and one changes the status while the other connects.
`server_loop` asks what single commands do to the status and to the process; there one message of each
client suffices, for the commands of two clients still meet.  (`show` and `plain` differ from
`toggle` and from a `path` that is refused only by what they leave out; the theorems cover
them.  A fact, which is not acknowledged, is sent in `server_loop`.)  Framing: sizes 3 and 5 are the
least content and one for which a read can end inside header or content; four messages let one
read hold several and end within one.  What the bounds leave open the theorems close for the
safety properties they state.  Queue: three consumers let a newcomer, a
thread that was notified and one that timed out meet over two elements.  Files: from `srv` a relative path
leads on, from the others it does not; a list fails at its first, second or last line or not at all, according to
where it is read and whether the user functions are there; `MaxLoaded` of two is the most that a list of the tree loads.
Wire: in base four the largest size is 15, reached by arguments of 7 bytes and results of 8, and one
byte more wraps (of requests that are answered one byte of arguments is enough, since the answer does not
depend on them).  System: one call, since `client_one_caller` has the sequences of calls; the other
program may toggle a watch or send what ends the process, and the library's call that is no watch is a
query, which CLIPS evaluates.

**Fairness.**  Client: weak fairness of each caller that has begun a call, of the owner that has
begun to connect or disconnect, of the service thread, and of the server's answering; these are
running threads, and none of them waits for anything but what the model's guards say.  The service thread
owes nothing once it is out of step, and need not take a message that no other follows while the connection
stands (`ServiceOwes`); the liveness properties name both as ways out.  Nobody is
obliged to call, connect, close or report.  Server: weak fairness of `ServerStep`, as one
thread loops for ever in `Server::run` and takes some step while one is possible; a step that gives a message to CLIPS ends, which is an assumption about
the rules.  Nothing is assumed of the remote ends.  Framing: weak fairness of reading what has arrived and of the
handler; TCP owes nothing.  Queue: a thread that waits for the mutex gets it.  Control: the
connection thread, the service thread and, once the user has quit, `main` go on; the user need not press a key, nor the
server start, stay or answer.

Each property of a passing run has a mutant in `PROJECT.json`: a variant of a definition,
marked `(mutant)` or named after it with a suffix in the modules, that a slip in the code would amount to and
that violates the property.

## 4. What the code does otherwise

`client_rpc_returns` states what the comment of `rpc` says (`clipsclient.h:233-234`), and TLC finds an
execution of the code that contradicts it: `rpc` sends before it registers its id, so an answer that
is handled in between is dropped and the call never returns.

Other behaviours that a reader of the documents would not expect are in the models, without a run
of their own; each is an action or a disjunct that can be pointed at, and the properties say what holds
in spite of it.

In the library:

* The `io_service`, once stopped, is not restarted: a second connection is made and never read
  (`StartService` when `stopped`).  `BacklogIsRead` is about the first one.
* A read error before `connect` has stored its thread's pointer drops the socket without the disconnected
  event (`ServiceFindsNoThread`, `ServiceDropsSocket`).
* After a read error the service thread joins itself, `join` throws and the process ends before the
  disconnected event (`ServiceJoinsItself`).
* Two callers may draw the same id, and one takes the other's answer (`LoadId`, `StoreId`).
  `OwnAnswer` and `KeepsContract` hold for one calling thread only.
* A call that is between sending and registering when a disconnection clears the map registers
  afterwards, and nobody releases it (`ClearPending`, then `Register`).
* Testing for an aborted call with `operator[]` puts its entry back for good (`AwaitAborted`).
* The answer of a call that draws `CommandIdNone` is taken for a status report.
* A report whose path holds a `'|'` does not match the pattern of `ClipsStatus::fromString` and is ignored
  (`clipsstatus.cpp:17`; not modelled).

In the server:

* The acknowledgement of a command whose client has left is sent through a null session
  (`AcknowledgeNobody`), although `sendTo` looks the endpoint up first.
* `clips::print` has no overload to call but itself: a query that prints ends the process, and a
  rejected query leaves the router enabled, so that the next command that prints does
  (`Query`, `PrintOverflows`).
* A `run` without a number ends the process (`RunThrows`), and so may anything that CLIPS evaluates: `(exit)`, in
  a client's `raw` or in a rule, is the server's `exit()`, and a text or result whose size wraps overruns the
  buffer of `Session::send` (`EngineExits`).  Rules that fire without end keep the one thread from
  serving anybody (not modelled).
  `EndsOnlyForCause` says when the process may end: while somebody is gone whose session is still
  there to be written to, or while one of the messages named here is handled.  Departures that were noticed, messages that
  were handled, and the other commands of clients that stay end nothing.
* A message that is no command is to be asserted as a fact (`server.h:116`, `server.h:166-168`).
  The NUL at the end of its string goes into the text handed to CLIPS, which ends there, before the
  closing parenthesis (`Parse` of `WireFormat`: `closed` is never true): the fact is not asserted.
* `-d` with a path that is refused, or relative, is reported as the working directory; a list under `~/` is
  opened but its lines are looked up in the working directory; the file of `-e` is loaded before
  `sendto` and `broadcast` are known (`ParseArgs`, `ListDir`, `InitCLIPS`).
* Messages of more than 65535 bytes with their size are written past the buffer made for them (`Compose`; in
  `ClipsServer`, `EngineExits`).

In both reading loops:

* `unget` does nothing on a failed stream: a lone header byte is lost, and the stream is out of step
  (`LoseByte`; in `ClipsClient`, `LoseStep`).  `Aligned` says what holds until then.
* Every read awaits three more bytes whatever is buffered, so the last one or two bytes of a message
  do not wake the reader: the message waits for the next one (`ReadSome`).  `OneStalled` and
  `PredecessorDelivered` say how far that goes: one message, and only until the next; `BacklogIsRead` says
  it of the library.

In the control program:

* After one `connect` that failed, the socket stays and every later one returns `false` at once
  (`ConnectReturnsFalse`): the thread tries for ever, and a server that starts later is not connected to.
  `ConnectsIfUp` is about one that was there from the start.
* A key that sends while the thread connects, or after it failed, throws out of `main` (`CallThrows`), as
  does an empty number of runs (`EmptyNumber`).
* `disconnect()` may destroy the socket that `connect()` works on (`ConnectOnDestroyedSocket`,
  `BeginReceiveOnNull`).
* The connection thread is never joined, so every quit ends in `std::terminate` (`MainReturns`); `QuitEnds`
  says that the end comes.

## 5. The theorems

Each holds for every value of the constants that the `ASSUME`s admit: any set of callers, endpoints, paths or
message sizes, and any bound.  Most are of the form `Spec => []P`; `EndingsSafe` is of an action property; `ServiceImplemented`, `ContractKept`,
`ServerMeetsAssumption` and `FifoSafe` are refinements.

| Module | Theorem | Invariant of, or refinement |
|---|---|---|
| `ClipsClientProofs` | `TypeCorrect` `ReaderSafe` `WakeupsKept` `SuccessSafe` `WatchSafe` | `TypeOK` `ReaderHasSocket` `NoLostWakeup` `SuccessIsExecuted` `WatchSeesItsReport` |
| | `AbortSafe` (one caller), `AnswersOwn` `ContractKept` (one caller, few calls) | `AbortedByDisconnect`, `OwnAnswer` `KeepsContract` |
| `ClipsServerProofs` | `TypeCorrect` `StatusSafe` `AcksSafe` `ReportsFirst` `CommandsKept` `EndingsSafe` `ServiceImplemented` | `TypeOK` `StatusTold` `AckedInOrder` `ReportBeforeAck` `NothingLost` `EndsOnlyForCause` `ServesInOrder` |
| `TcpClipsProofs` | `ServerMeetsAssumption` `StatusShown` `SharedStepsAgree` | `ServerAsAssumed` `ShowsStatusInForce`, and the joined steps |
| `ServerFilesProofs` | `TypeCorrect` `PathSafe` `ListsSafe` | `TypeOK` `ReportedPath` `ListsLoadInOrder` |
| `WireFormatProofs` | `CommandsArrive` `AnswersArrive` | `CommandArrives` `AnswerArrives` |
| `StreamFramingProofs` | `TypeCorrect` `AlignedSafe` `StalledSafe` | `TypeOK` `Aligned` `OneStalled` |
| `SyncQueueProofs` | `TypeCorrect` `WakeupsKept` `FifoSafe` | `TypeOK` `NoLostWakeup`, and the steps of `Fifo` |
| `ClipsControlProofs` | `TypeCorrect` `OnlineSafe` | `TypeOK` `OnlineIsConnected` |

* **Client.**  `ReaderHasSocket` needs to know where owner and service thread can be together: a
  service thread is started only for a connected socket, and the owner reaches the destruction of
  the socket through the join.  `NoLostWakeup` needs that a caller goes to sleep only while its
  entry is present and unanswered, and that whoever changes that has `notify_all` still before it; a second
  caller with the same id is covered too.  `SuccessIsExecuted` follows a response
  along its way: whatever is in the stream, in the reader's hands or in the map and says success is of an
  executed call.
* **Client, watches.**  `WatchSafe` is about the order of reports and responses, so `WatchInv` follows both through the
  stream: reports come with rising numbers, the numbers in the stream are above the one the library
  holds, and a response to a `watch` is never ahead of the report it names.  Taking the head off the stream, and appending a
  report with its response, keep that.  It holds for any callers: a caller that takes another's response takes that
  response's report with it.
* **Client, one caller.**  `AbortInv` says that the entry of a caller in `awaitResponse` is there unless
  the map was cleared meanwhile: nobody else has its id to erase.  `OwnAnswer` and `KeepsContract` rest on
  `CallInv`, of two parts.  `Numbered`: the id of a call is its number, and every request or response on its way, in
  the service thread's hands or in the map is of a call that was made, under that call's id.  `Sequenced`: a
  request on its way is of the latest calls, in order, none of them executed.  So a response with the caller's id answers
  the caller's call, and a call that was refused is never executed.  For the contract, each step is one of
  `RemoteCalls` or a stutter: the calls that are open (`OpenCalls`) shrink when a connection goes, and a call
  is resolved (`Results`) when it returns.
* **Server.**  `AckedInOrder` and `NothingLost` are not inductive: what a client was acknowledged,
  what is queued and what is unread must be shown to be three consecutive parts of what it sent.
  The invariants `OrderInv` and `AckInv` say so pairwise (every ordinal acknowledged is below every
  queued one, every queued one below every unread one, each list increasing) and `Unused`
  that an endpoint that never connected has sent and been sent nothing.  Pairwise, since no
  induction over the sequences is then needed.  `EndsOnlyForCause` is about a step, and needs to know why it could be
  taken (`CauseInv`): a session is gone only because its client broke off; who has a message in the queue was accepted; and the
  router is left enabled only by a query that somebody sent.  `ServiceImplemented` shows that a step of the server acknowledges
  exactly the command it takes from the queue, and only that client's next one; it rests on `AckInv` and on
  what `CommandsKept` needs.
* **The whole.**  `SystemInv` says what the two ends know of each other.  `Places`: only the library's latest connection
  may be open, and only while the library has it.  `Asked`: the requests of a connection are the commands sent on it,
  one for one, and none of them is a fact.  `AnswerPrefix`: the ones answered are the first ones, so that an
  acknowledgement is of the head of `Pending`.  `ServerInv`, the server's own invariants, hold although
  `SystemInit` has the others connected already.  With these a step of the server writes to the library nothing, something
  unbidden, or the answer to the head of `Pending` behind at most one report, and each is a step of `ClipsClient` (`ServerMeetsAssumption`).
  `StatusShown` adds `ReportInv`: the reports on their way have rising numbers, above the one that the library shows,
  and the newest is on its way or shown; that the newest tells the status in force is the server's `StatusTold`.
  A conjunction of two actions can be less than either, so `SharedStepsAgree` says that the joined steps ask for nothing
  impossible: what `ClipsClient` says of the connection when the library sends, connects or closes is what comes of the server's
  side.
* **Files.**  `PathSafe` needs `TypeOK` only, and that a list restores the directory it found, however
  it ended.  `ListsSafe` needs what `LoadLines` returns: the first line that fails exists, by the least number
  principle (from `WFMin` of the library, since the prover has no induction of its own), and the files before it are
  loaded whole.
* **Wire format.**  `WireInv` says what a message holds byte by byte, from composition to the end: the size read is the
  size written as long as it does not wrap (`SizeRead`, from the digits of a number in base `Base`), and
  cutting at the first NUL and the first space finds the command whatever bytes follow; that there is a first one is `WFMin` of
  the library.
* **Framing.**  `Aligned` is inductive with `Spaced` (the ends of two messages are at least three
  apart) alone; `OneStalled` needs `Waiting`: a reader that waits has moved fewer than three
  bytes since the handler ran, and the handler left nothing or less than the next message.  A second
  whole message would add three.
* **Queue.**  `NoLostWakeup` is inductive with `TypeOK`: it counts the consumers on their way (`Coming`), and
  each step changes that number and the length of the queue together; that one of a finite set more or less
  changes its cardinality by one is the library's `FS_AddElement` and `FS_RemoveElement`.  `FifoSafe` maps
  each step to a step of `Fifo` or to a stutter.
* **Control program.**  `OnlineInv` adds what each thread knows of the other: a service thread ends only after
  `stop()`, which only a `disconnect()` on the way out calls, so that until then a connector past `connect()` has a socket and a
  service thread.

The proofs rest on the `ASSUME`s of the modules only: `BoundsAssumption` (the bounds are
natural numbers, there is at least one id), `QueueAssumption` (finitely many consumers), `ServerAssumption` (the operations are among the eight),
`SystemAssumption` (the library's connections are endpoints, there is an id, somebody may watch, bounds are natural numbers),
`FilesAssumption` (a tree of directories, lists and rule files apart), `WireAssumption` (NUL, space and letters are
bytes, ids have four, commands are words) and `FramingAssumption` (messages have three bytes or more).  Three theorems have
hypotheses of their own.  `OneCaller`: two callers may draw the same id, and then what the three say is not true.
`FewCalls` (`MaxCalls < IdSpace`): after 2^32 calls the ids come round, and a response that nobody took may then
have the id of a new call.  `client_one_caller` goes one call further than `FewCalls`, to the call that draws `CommandIdNone`.

Only model-checked are: the liveness properties, which rest on `ENABLED` and fairness, and the
refinements that carry fairness (`ServesAll`, and `IsFifo` as far as it goes beyond `FifoSafe`).  The prover has no induction over data; the models
are written so that none is needed, and no module uses a RECURSIVE operator.

## 6. Not modelled

* The engine, `src/clips64` and `src/include/clips`: third-party code, vendored, and nearly all of the lines of the
  repository.  What it does is a choice wherever the server depends on it.  Of it only `chdir` is
  modelled, since it moves the server's working directory behind its back.  The models cover the project's own
  code, which is a few thousand lines.
* The wrapper's routers, user functions and type conversions: calls forwarded to the engine.  Its watches of
  several items and its test of what is a valid CLIPS string: no program asks for the first, and the
  second decides what the server's model leaves open.
* The windows of `clipscontrol`, its hot keys and file picker: terminal I/O of one thread.
* The pattern of a status report's text; error texts; the options `-w`, `-r`, `-p`.
* `runAsync`, `sendRaw`, `send`, `Request::fromMessage`, `utils.cpp`: nothing calls them.
* The handler lists: handlers are added before the connection is made.
* A peer that does not read: `asio::write` would block the server's thread.
* An endpoint used again before the error of its old connection was seen.
* Memory: a null or destroyed session or socket that is used ends the process.
* Test programs: they need a running server and check nothing.

## 7. Plan

Done: the library, the server, their composition and contracts, the framing, the wire format, the queue, the
files and the control program, and a theorem for every safety property and safety refinement of a run.  Left, in this order:

1. `ClipsWrapper`: the `QueryRouter` (enable, disable, nesting, the context it leaks at each
   registration).
2. The text of status reports in `WireFormat`.
