# Verification of webServlet

This directory holds TLA+ models of webServlet: its network core (the
`Tiny_muduo` library under `src/web`), the HTTP server, the chat service with its
client, and the log, buffers and pools beneath them; the TLC configurations that
check the models on small instances; and TLAPS proofs of the central properties
of the core for every value of the constants.

## 1. The system

webServlet is a reactor-style C++ server. One *main loop* accepts connections,
a pool of *I/O loops* serves them, HTTP servlets and a chat service sit on top,
and MySQL, Redis and log files are reached through pools and a writer thread.

| Component | State | Operations | Hard behaviour | What makes it correct |
|---|---|---|---|---|
| `base/LockFreeQueue.h` ReaderWriterQueue | a circular block, `front`, `tail`, and each side's cached copy of the other's index | `try_enqueue`, `try_dequeue` | two threads without a lock, cached indices, wrap-around | a bounded FIFO queue; stale indices are safe; nobody touches the other side's slots |
| `EventLoop` | `_quit`, `_callPendingTasks`, `_pendingTasks`, the eventfd, the active channels | `loop`, `quit`, `runInLoop`, `queueInLoop`, `wakeup`, `doPendingTask` | tasks handed over from any thread while the loop is about to sleep | every task runs, once, in order, without waiting for a timeout; `quit` stops the loop |
| `EventLoopThread`, `base/Thread` | `_loop`, the thread | `startLoop`, `threadFunc`, destructor | the destructor races the start and the end of the loop | the destructor comes back and touches only a live loop |
| `Channel`, `EpollPoller` | interest, index, the map of channels, the epoll set, the batch of active channels | enable/disable, remove, poll, handleEvents | any order of updates, descriptors used again, removal inside a batch | channel, map and kernel agree; what is taken down through the loop is handled only while it exists |
| `TcpConnection`, `TcpServer` | `_state`, output buffer, file, channel, `_connections` | send, sendFile, shutdown, forceClose, startRead/stopRead, the handlers, connectEstablished/Destroyed | partial writes, calls from other threads, peer close and reset, two loops | output complete and in order, closed once, shutdown completes, closed connections are forgotten |
| `TimerQueue` | two ordered sets, `_cancelingTimers`, the timerfd | addTimer, cancel, handleRead, reset | cancelling inside a callback, stale ids, addresses used again | the sets agree, nothing is used after deletion, the timerfd covers the first timer |
| `Connector`, `TcpClient` | `_state`, `_connect`, the channel, `connection_` | start, stop, restart, handleWrite, handleError, retry, disconnect, destructor | queued `resetChannel` against a new attempt, retry timers that outlive a stop, a destructor among callbacks | one socket per attempt, nothing leaks; stop holds; nothing dead is used; a client that keeps trying is connected |
| `Acceptor`, `TcpServer`, `EventLoopThreadPool` | a listening channel, a spare descriptor; `_connections`; the loops and an index | listen, handleNewConnection, newConnection, removeConnection, start, getNextLoop, destructors | out of descriptors; two loops and the end of both | UP and DOWN once each; a loop knows only connections somebody holds; everybody is served or refused |
| `Buffer` | reader and writer index | append, retrieve, makeSpace, readFd, writeFd | index arithmetic | behaves as a byte queue |
| `AsyncLog`, `LogFile`, `LogStream` | current and spare buffers, `_running`, the files | append, writeThread, stop, roll | exchange of spare buffers, dropping, rolling | lines written once and in order |
| `MySqlConnectionPool`, `RedisPool` | queue, count, semaphore | produce, scan, get, give back | empty and full queues, missed notifications | counts are true, bounds kept, every waiter ends its wait |
| thread pools | task queue, stop flag | add, stop, the workers | notification against test and wait | every task once, stop joins; a worker lost to a task that threw loses no other task while one worker is left |
| HTTP (`HttpRequest`, `HttpMultiPart`, `HttpServer`, servlets, routes) | parser state, tables and cache, the trie | parse, dispatch, answer, idle timeout | input in pieces, several requests on a connection | a request is taken exactly when it is complete, each gets its answer, lengths are true |
| Chat (`ChatService`, models, client) | user-to-connection maps, tables, subscriptions, messages under way | login, logout, chat, groups, close, interrupt | handlers of many connections and two servers between each other's calls | tables and maps agree, a text is shown at most once, logins are answered |

Interactions. `EventLoop` owns an `EpollPoller` and a `TimerQueue`; channels
report to their owners by callbacks on the loop's thread; all other threads
reach a loop only through `runInLoop`/`queueInLoop`. `TcpServer` lives on the main
loop, hands every new connection to an I/O loop (`connectEstablished`), and is
told of its end by the close callback, which goes I/O loop -> main loop
(`removeConnectionInLoop`) -> I/O loop (`connectDestroyed`). `HttpServer` and
`ChatServer` are users of `TcpServer`: their callbacks run on I/O loops, where the
servlets and handlers call the MySQL and Redis pools and block; chat servers reach
one another through Redis channels, on whose messages a thread of their own waits.

`PROJECT.json` lists each component with its sources, the hazards of the code
line by line, and the correspondence of definitions and lines.

## 2. Modules

| Module | Models | Composes |
|---|---|---|
| `BoundedFifo` | abstract: a queue of at most `Capacity` elements | |
| `ReaderWriterQueue` | one block of `base/LockFreeQueue.h` | refines `BoundedFifo` |
| `EventLoop` | `EventLoop`, both builds of `_pendingTasks` | extends `ReaderWriterQueue` |
| `EventLoopThread` | `EventLoopThread`, `base/Thread` | extends `EventLoop` |
| `Channel` | `Channel`, `EpollPoller` and `epoll_ctl` as operators on one record | |
| `Poller` | `EpollPoller` with many channels and reused descriptors | extends `Channel` |
| `TcpConnection` | one connection, its two loops, `TcpServer`'s part | extends `Channel` |
| `TimerQueue` | `TimerQueue`, `Timer`, `TimerId` | |
| `Connector` | `Connector` | extends `Channel` |
| `TcpClient` | `TcpClient` and its programs | extends `Connector` |
| `TcpServer` | `Acceptor`, `TcpServer`, `EventLoopThreadPool`, several connections | |
| `HttpRequest` | the incremental parser | |
| `HttpService` | servlets, dispatch, responses as operators | |
| `HttpServer` | `HttpServer`, `HttpContext` on one connection | extends both |
| `HttpRoute` | the route trie, against a reference definition | |
| `HttpMultiPart` | the parser of uploads | |
| `ChatService` | chat servers, tables, Redis channels | |
| `ChatClient` | the chat client's two threads | extends `ChatService` |
| `AsyncLog` | `AsyncLog`, `LogFile`, `LogStream` | |
| `ConnectionPools` | the MySQL and Redis pools and the login servlet that uses them | |
| `ThreadPool` | both thread pools | |
| `Buffer` | `Buffer` against a byte queue | |
| `MCParts` | the parts that share no state, one of them at a time | extends seven of the above |
| `MC*` | model values, programs, inputs and worlds for TLC | |
| `*_proofs` | theorems | |

Names follow the source (`_quit`, `sendInLoop`, `kAdded`). Operators named
"Mutant of ..." are plausible bugs kept next to the definition they would
replace; no specification uses them.

**ReaderWriterQueue.** A call of `try_enqueue` is three steps: the test of the
indices (`EnqueueRoom` or `EnqueueFull`, including the refresh of the cached
front), the construction of the element in its slot, the publication of the
tail. `try_dequeue` is two: take (`DequeueTake`, with the refresh of the cached
tail) and advance, or `DequeueEmpty`. Loads and stores of the indices are atomic
and sequentially consistent; the fences of the code are what justifies this for
one producer and one consumer. Nothing in the module stops two producers from
being inside at once, as nothing in the code does.

**EventLoop.** `phase` is the program counter of `loop()`. Each other thread is
"none", "enqueue" or "queued" inside `queueInLoop`, so that the hand-over of the
task and the write of the eventfd are separate steps. User code (tasks, I/O
handlers) may queue tasks and call `quit` on the loop's own thread.
`runInLoop` on that thread is a plain call inside the task. `LockFree` selects the
build; `src/CMakeLists.txt:5` defines `USE_LOCKFREEQUEUE`. It also defines
`NDEBUG`: a failed assertion of the code does not stop the program, so the models go on
past it. The one exception is `Poller`, whose owners switch off a channel's interest before
they remove it and do not remove it twice (`Channel.cpp:116`, `EpollPoller.cpp:70-75`).

**EventLoopThread.** The owner's and the thread's program counters around
`EventLoop`; `_loop` is read by the destructor without the lock, as in the code,
in two steps (test, use).

**Channel and Poller.** A channel is a record of interest, index and the
kernel's view. `Poller` runs any number of them against the map `_channels`, the
batch of active channels and the current one. Channels are taken down as their owners
do it: by a task of the loop (`queueInLoop`, `RunRemove`: `connectDestroyed`,
`Connector::stopInLoop`), in the channel's own handler with `resetChannel` queued
(`removeAndResetChannel`, `RunReset`; the descriptor may have a new channel before the old
object is gone), or, for what belongs to a server destroyed on its own loop, at once and in
whatever handler that happens (`RemoveInPlace`, the constant `InPlace`). Tasks run when
the batch is over (`BatchOver`). That a channel which waits in the batch is not removed,
the assertion of `EventLoop.cpp:235`, is not a guard: `HandledAreAlive` shows it for the
first two ways, and for the third it fails.

**TcpConnection.** Data are numbered units; `wire` is what the socket took.
Each handler and each queued task is one action, with partial writes chosen
by `\E n`. A call from another thread is two steps, the test of `_state` and the
action; a call from a callback runs at once. `usage` fixes for a behaviour
which calls the program makes from where, chosen in the initial state from
`Usages`.

**TimerQueue.** Timers live at addresses that are allocated again after
deletion; `handleRead`, each callback and `reset` are separate steps between
which user code adds and cancels. Time is a counter.

**Connector and TcpClient.** An attempt is a socket and a channel; the kernel
completes it, refuses it or reports an error, at once or later, and a refused one
may be reported writable and in error in one event. Timers and queued tasks carry
the object they are bound to. A program (`Programs`) fixes the calls, their thread
and whether the client reconnects; a call from another thread is two steps.

**TcpServer.** An iteration of a loop handles events, takes the tasks that wait,
runs them and looks at `_quit`. A connection lives as long as the map or a task
holds it. Descriptors are counted, other parts of the process open files, and the
refusal of a client with the spare descriptor is three steps.

**HttpRequest, HttpService, HttpServer.** Input is a sequence of tokens (the text of
a line, a header or a chunk size, a byte, the two bytes of a line end), handed over
in pieces cut anywhere between tokens. Each turn of the parser's loops is
a step; a servlet is an operator from a request and the tables to a
response and the tables. `send` drops what comes after `shutdown`.

**HttpRoute and HttpMultiPart.** `HttpRoute` keeps the trie as a sequence of nodes, a
child being an index into it, with insertion and the backtracking search of the code; the
reference definition picks the best of the matching patterns and does not know a
trie. `HttpMultiPart` goes through a body as `parse` does, gathering content in an
array of `buf_size`; the reference is the list of fields the body was made from.

**ChatService and ChatClient.** A handler is a small program whose next call is
`handler[c].pc`; calls to tables and to Redis and sections under `_connMtx` are its
steps, and handlers of other connections come in between. Clients can be killed
and servers interrupted. A world (`Worlds`) fixes homes, accounts, what the tables
hold and what users do.

**AsyncLog, ConnectionPools, ThreadPool, Buffer.** A section under the mutex is one
step, and condition variables are sets of waiting threads. In the pool of `base` a task
that throws ends its worker, the last one too (`lost`). A log line has a number
and a length; a buffer's bytes are numbered. `ConnectionPools` goes through the
calls of the `Login` servlet on each thread.

## 3. Runs

| Run | Bounds | Shows |
|---|---|---|
| `event_loop` | lock-free build inside an `EventLoopThread`, 1 poster, block of 3 (2 usable), 4 tasks, 1 quit | `SlotsRespected`, `ShadowsAreSafe`, refinement `FifoSpec`, liveness `TasksRun`; `QuitsLiveLoop`, `DestructorReturnsOnceLooping` |
| `event_loop_mutex` | mutex build inside an `EventLoopThread`, loop thread and two others post 2 tasks each, 1 quit | `NoLostWakeup`, `RunInOrder` (with `NoTaskLost`) |
| `poller` | 4 channels, 2 on each of 2 descriptors, one of them taken down in place | `KernelAgrees`, `MapAgrees`, `HandledAreAlive` |
| `tcp_connection` | 3 calls of up to 2 units, high-water mark 2, three kinds of program | `ClosedOnce` (with `RemovedIsUnwatched`), `WireInOrder` (with `WritingIffPending`, `FinAfterData`), `DisconnectedIsFinal` |
| `tcp_connection_live` | same bounds, programs that end the connection or hold back reading | `ShutdownCompletes`, `ClosedIsForgotten` |
| `timer_queue` | 2 addresses, 2 timers, one-shot and repeating, times 0..3 | `SetsAgree` (with `ExpiredAreLive`), `TimerfdCovers`, `CancelledStaysOut`, `OnlyOwnCancel` |
| `tcp_client` | 2 sockets, 1 outage of the server, 4 calls, two kinds of program | `AttemptIsSound`, `NothingDeadIsUsed`, `StopSticks`, liveness `ConnectsInTheEnd` |
| `http_server` | 30 inputs of one to three requests, good and bad, after a refused line or header, and without a header, in every cut; 2 header lines, a file of 3 bytes | `TakesARequest`, `LengthIsDeclared`, `AnswersFollowInput`, `LoginAgrees` |
| `chat` | 2 users, up to 2 clients at a time, 2 servers, 1 group; five worlds of 3 or 4 requests | `RowsAgree`, `AtMostOnce`, liveness `WaitsEnd` |
| `parts` | log: streams of 4, buffers of 6, drop above 2, roll at 7, 6 lines; pools: 3 threads, 1 to 2 MySQL and 2 Redis connections, 4 logins, 1 deletion by the scanner; thread pools: 2 workers, 3 tasks; buffer: prepend 2, initial size 3, 10 bytes; routes: 9 patterns, 3 registrations; server: 3 clients, 0 or 2 threads, 3 descriptors, 1 other file; upload: array of 2, 2 fields | `LinesInOrder`, `PoolsAccounted`, `TasksRunOnce`, `BufferIsQueue`, `RouteIsBest`, `ServerInOrder`; liveness `WorkEnds`, `ServerProgress`, `FieldsArrive` |
| `event_loop_tail`, `http_unfinished` | | violations, see below |

Why the bounds suffice for the cases that matter: four tasks take the indices of
a three-slot block round the wrap-around with the block both full and empty;
two tasks each from three threads let a task queue tasks while others are pushed
and swapped; four channels on two descriptors give reuse of a descriptor, also beside an object that
waits for `resetChannel`, and batches in which a handler meets another channel; calls of two units give partial writes in every position, and
the high-water mark is crossed; two addresses let a stale id meet a new timer.
With two sockets and an outage an attempt fails, is retried and succeeds, in every
order with `stop`; the HTTP inputs hold every kind of content the parser tells
apart, once complete and once broken; in the worlds of `chat` a user is
offline, on the same server and on another one, one account moves between
clients, and clients are killed in between; six lines fill, drop and roll
buffers; three threads compete for two connections; three clients meet three
descriptors of which one is the spare; contents of the array's size, one less and
one more, and contents that begin like a boundary, are uploaded.

Fairness. `EventLoopThread`: the loop's thread, the owner and a thread inside a
call keep running (threads of a fair scheduler); the poll timeout is assumed only
for a loop that was told to quit, since `quit` does not wake it, so `TasksRun` does not
rest on the ten second timeout. `TcpConnection`: the loops keep running; strong
fairness of the queued tasks, because every turn of the loop runs them
(`EventLoop.cpp`, `doPendingTask` after the handlers), and of the report of
room, because a peer that stays makes room again and again. `TcpClient`: the loop
runs callbacks, timers and tasks; the server comes up in the end. `ChatClient`:
handlers, observers and readers go on. `MCParts`: the writer, the threads that
serve logins, the workers, the loops and the parser go on; strong fairness of
`handleClose`, because epoll is level triggered and reports a closed client in every
turn until it is handled. Nothing is assumed of users and peers.

Deadlock is checked for `poller`. The other runs have bounded users and stop.

### Disagreements between code and its comments

Two runs are expected to find a violation; each checks what a comment of the
repository states.

- `event_loop_tail`: several threads post to the single-producer queue and its
  tail goes backwards (`LockFreeQueue.h:89-94`).
- `http_unfinished`: a request of which only a part has arrived is answered with
  400 (`HttpContext.cpp:10`), although the parser asks for more
  (`HttpRequest.cpp:117`).

Four further configurations check statements of the same kind and find them
violated as well; they are kept for `tlc -config <file> <module>`:

- `EventLoopQuit.cfg` (`MCEventLoop`): `quit()` from another thread does not wake the
  loop (`EventLoop.cpp:134` against `:149`).
- `EventLoopThreadQuit.cfg` (`MCEventLoopThread`): a `quit()` before `loop()` is
  entered is lost and the destructor never returns (`EventLoop.cpp:95`).
- `TcpConnectionTwice.cfg` (`MCTcpConnection`): a connection that stopped reading is
  closed twice, because `disableAll` re-adds a channel that was out of the epoll set
  (`EpollPoller.cpp:90`).
- `TimerQueueId.cfg` (`TimerQueue`): `addTimer` reads a timer the loop may have deleted
  (`TimerQueue.cpp:115`).

The passing runs therefore state their conditions in their constants: one
posting thread for the lock-free build, state-changing calls on the loop's thread
for `DisconnectedIsFinal`, one account in one client at a time for the chat, names
registered before wildcards for the routes (`Clean`). More things the models reach
without a run of their own:

- `shutdown()` or `forceClose()` from another thread tests `_state` and sets it
  afterwards, and can take a closed connection back to `kDisconnecting`
  (`TcpConnection.cpp:156-157`; the code has a FIXME at `:429`);
- `startRead()` from another thread, run after `connectDestroyed`, registers the
  removed channel again (`TcpConnection.cpp:175`);
- with a `quit` from inside the loop the destructor of `EventLoopThread` can use a
  loop that is gone (`QuitsLiveLoop` assumes `quits = 0`);
- data sent while a file is pending overtake the file's rest (the history
  variable `overtaken` in `WireInOrder`);
- the scanner of `MySqlConnectionPool` reads `front()` of an empty queue when all
  connections are lent (`undefined` in `ConnectionPools`), and a returned connection
  wakes nobody (`MySqlConnectionPool.cpp:85`, `:116`);
- a server destroyed in a handler of its own loop takes its acceptor's channel down at once,
  although the channel may still wait in the batch: the loop then calls a dead object
  (`EventLoop.cpp:104-107`, `InPlace` in `Poller`);
- tasks that throw end the workers of `base/ThreadPool` one by one (`ThreadPool.cpp:76-83`);
  once all are lost the queue is not served any more and the destructor joins all the same
  (`AllLost`, the exception of `TasksRunOnce` and of `WorkEnds`);
- lines logged just before `AsyncLog::stop` are never written (`AsyncLog.cpp:37`);
- a chat text is stored at one server and shown at another when its receiver's client was
  killed and the account logged in elsewhere: a server unsubscribes only on logout
  (`ChatService.cpp:238`);
- a chat message stored between a login's query and removal of offline messages is
  lost, and so is one published before the receiver's server has subscribed
  (`ChatService.cpp:88`, `:239`); of several requests that arrive together
  only the first is handled (`ChatServer.cpp:37`);
- a request line that an empty line follows at once is complete for `parseRequestHeader`, but
  only when the next two line ends in a row have come, and what lies between is lost
  (`HttpRequest.cpp:91-108`);
- with the spare descriptor lost to another thread the acceptor spins until a
  descriptor is free (`Acceptor.cpp:79`).

## 4. Proofs

The theorems hold for every value of the constants: any number of threads, loops,
clients, channels, descriptors, timers, tasks and bytes, any block size, any
set of programs or inputs within the assumptions named. For every invariant the
argument is the same: an inductive invariant that implies it, with one lemma per
action; TLC was asked first wherever the strengthening was in doubt.

| Module | Theorems | Inductive invariant | Assumes |
|---|---|---|---|
| `EventLoop_proofs` | `QueueTypeCorrect`, `LoopTypeCorrect`, `NoWakeupLost`, `DestructorQuitsLiveLoop` | `QueueTypeOK`, `TypeOK`, `WakeupInv`, `OwnerInv` | nothing |
| | `SlotsAreRespected`, `ShadowsAlwaysSafe`, `TailMovesForward`, `BlockIsFifo` | `QueueInv` | `OneInside` |
| | `PendingTasksIsFifo`, `PendingTasksSlotsRespected`, `LockFreeRunsInOrder` | `QueueInv`, `BlockLine` | `OnePoster` |
| | `MutexRunsInOrder` | `LineInv` | `~LockFree` |
| `TimerQueue_proofs` | `TypeCorrect`, `SetsAlwaysAgree`, `CancelledNeverReturns`, `OnlyOwnCancelRemoves`, `TimerfdAlwaysCovers` | `QueueInv` | nothing |
| `TcpConnection_proofs` | `ConnectionClosedOnce`, `ClosedForGood`, `WireAlwaysInOrder` | `LifeInv`, `WireInv` | `OrderlyUse` |
| `TcpServer_proofs` | `ServerAlwaysInOrder` | `ServerInv` | nothing |
| `TcpClient_proofs` | `AttemptAlwaysSound`, `NothingDeadIsEverUsed`, `StopAlwaysSticks` | `ClientInv` | `OrderlyPrograms` |
| `HttpServer_proofs` | `RequestsAlwaysTaken` | `ParserInv` | nothing |
| | `AnswersAlwaysFollow`, `LoginAlwaysAgrees` | `ServerInv` | nothing |
| | `LengthAlwaysDeclared` | the same | `RangesInFile` |
| `Parts_proofs` | `KernelAlwaysAgrees`, `MapAlwaysAgrees`, `HandledAlwaysAlive` | `PollerInv` | nothing; `HandledAreAlive` itself excepts `InPlace` |
| | `PoolRunsTasksOnce`, `PoolsAlwaysAccounted`, `BufferAlwaysQueue`, `LinesStayInOrder` | `TaskPoolInv`, `SqlInv` and `RedisInv`, `BufferInv`, `LogInv` | nothing; `TasksRunOnce` itself excepts the queue of a pool that lost all its workers (`AllLost`), `PoolsAccounted` ends where `front()` of an empty queue is read |
| `Chat_proofs` | `OneLoginAtATime`, `RowsAlwaysAgree` | `SessionInv`, `RowsInv` | `OneSession` |
| | `TextsReachOnce` | `SessionInv`, `KeptOK`, `TextsOK` | `OneSession`, `OneHome` |

"Nothing" means nothing beyond the named `ASSUME`s of the modules, which TLC evaluates.

**EventLoop_proofs** begins with the queue. `OneInside`, that at most one thread is
inside `inner_enqueue`, is the class's own contract; the violation run shows that
it is needed. `SlotsRespected`, `ShadowsAreSafe` and the refinement are not inductive:
`QueueInv` adds that the cached indices lie on the arc between the true ones
(`TailShadow`, `FrontShadow`), that a producer past its test still has its slot
free (`ProducerHolds`), that a consumer holds what the front slot held
(`ConsumerHolds`), and that exactly the filled slots hold elements (`SlotsHold`).
The refinement maps the filled arc to a sequence (`Contents`): publication is an
enqueue, `DequeueAdvance` a dequeue, every other step a stutter. `UsesQueue` shows
that every step of the loop is a step of the queue, so that with one posting
thread (`OnePoster`, an assumption on the constants) the queue's theorems carry
over. The theorems about the loop are for `Spec` and for `ThreadSpec`, the loop
inside an `EventLoopThread`. `NoWakeupLost` is for both builds and any number of
posters, so it holds also where the queue itself is misused; `WakeupInv` adds
where the loop's thread can be when it is inside a call, when `_callPendingTasks`
is set, and that a pending task has a wakeup coming or a turn of `doPendingTask`
ahead. For `RunInOrder` the tasks of a thread are put in a line (run, being run,
waiting, about to be queued) whose numbers increase and skip none; in the
lock-free build the waiting part is `Contents`.

**TimerQueue_proofs.** `QueueInv` says what the two sets have to do with the
batch `handleRead` took out (`BatchOK`), with insertions still queued (`AddsOK`), with
the sequence numbers that make a stale `TimerId` harmless (`SequencesOK`) and with
`_cancelingTimers` (`CancelOK`).

**TcpConnection_proofs.** `OrderlyUse` is the class of programs of the run
`tcp_connection`: no holding back of reading, calls from other threads only to send,
no closing of one's own when the server is destroyed. Outside it the
properties fail (`TcpConnectionTwice.cfg`). `LifeInv` ties state, channel, the callbacks of
the current event, queued tasks and the end of the connection together; `WireInv`
numbers the units on the wire, in the buffer and in the file.

**TcpServer_proofs.** `ServerInv`: each queued task finds its connection in the state
its handler expects (`TaskFits`), a connection that is not in the map has its
`connectDestroyed` queued or behind it (`ConnsInv`), clients of the backlog have no
connection yet (`BacklogInv`), and the loops before `_next` have one connection more
(`TurnInv`).

**TcpClient_proofs.** `OrderlyPrograms`: the program connects once, does not destroy
its client inside a queued task, and calls from another thread only when the client does
not reconnect by itself. `ClientInv` says what an attempt owns, that one is under way at
most, which tasks can be queued then, what `stop` has left, and what outlives the
client.

**HttpServer_proofs.** `LiveInv` describes the parser between any two steps (the
request line is the first token taken, what was taken and what is left make up the
input); `ServerInv` adds that every answer was right when it was made. That the
answered requests put together are a prefix of the input is a fact about
`FlattenSeq`, which is proved by a least counterexample (`SmallestNat`, from
the well-foundedness of `<` on the naturals) since an induction scheme cannot be
used here. `RangesInFile`: ranges outside the file are not covered, `FileDownload`
never answers 416.
For `RequestsAlwaysTaken` the parser is set against `IsRequest`, which says without a parser
what a request is: a head, and content that ends where the headers say. `ParserInv` says for
every state of the parser what it took so far (`PartOf`): the request line; the head, which
all that begins like this has in common (`OneHead`); of content with a length, how much is
there (`LengthPart`); of chunked content, chunks up to a place p (`Reached`) where any
complete content of this beginning has its next chunk too (`Forced`), and what was taken of
that one (`ChunkPart`). `Forced` is what makes the parser's waiting right: whichever more
input comes, the request cannot end before the chunk at p does. `Waits` is the second half of
the property, for all that what was taken and the buffer can make (`Reads`). Two kinds of
input are left out by `TakesARequest` itself: a connection on which a header or content was
bad, where the parser goes on in the middle of the refused request (`refused`), and a request
line that an empty line follows at once, where `parseRequestHeader` waits for two line ends
in a row and takes all up to there, the next request included (`HttpRequest.cpp:91-96`).

**Parts_proofs.** For the poller, `PollerInv` adds to the three properties that live
channels have different descriptors, apart from those that wait for `resetChannel`
(`OwnFds`), that these and channels not alive are new (`ResetAreNew`, `DeadAreNew`), and
that a channel is once in a batch (`OnceInBatch`), so that one that takes itself down in its
handler is not met again in it. Then one specification per part (`ThreadPoolSpec`, `PoolSpec`,
`BufferSpec`, `LogSpec`), whose actions are the disjuncts of `MCParts`. A task is in one
place only, and a worker that returns leaves an empty queue to which nothing is added any
more (`LeftEmpty`), whatever the others were lost to; a connection is idle or lent to
the one thread that makes a query; the semaphore counts the connections nobody is
about to pop; a buffer that grows, moves or reads through the stack keeps its bytes.
`LogInv`: the log's writer gets back as many buffers as it gave away (`Spares`), and the
files, the batch, the waiting buffers and the current one, put one behind the other, hold
rising line numbers, exactly those that were logged and not dropped (`InOrder`). What a batch
does to the files is a recursive function over its buffers; that it appends their lines and
no others, however often a file is rolled, is again proved by a least counterexample.

**Chat_proofs.** `OneSession` is an assumption on the worlds: an account is in one
client at a time (`MayLogin`), which the service does not enforce across two logins that
overlap. `SessionInv` says for each client where the one thing it waits for is - request under
way, handler, answer under way, semaphore - and that one login of an account is under way at
most. `RowsInv` says how far the session of a client is, in the client, on its way and in
the servers' maps (`StageOK`), and that a user's row is online exactly while some client is
its holder (`Holder`: in the map, or a handler between map and table); RowsAgree is what is
left of it when all handlers are idle. It holds until the first SIGINT, since `offlineAll`
changes the rows of all servers.
For `AtMostOnce` the places of a text are widened by those where it has no receiver yet (the
request, the handler and its list of receivers; `Held`), and every step is shown to be one
of three kinds for every text (`Carried`): places disappear, the first messages leave a queue
of which one goes on to another place, or a list of kept messages moves. Each keeps a text
in one place at most (`CarriedKeeps`); the reader's step takes it out when it shows it.
`OneHome`, that the clients of an account are clients of one server, is needed by
`Publish`: a server stays subscribed for a user whose client was killed, so with a later login
on another server a text is shown there and stored here (TLC finds this in a world with two
homes). All worlds of the run `chat` satisfy both assumptions.

Only model-checked:

- liveness (`TasksRun`, `DestructorReturnsOnceLooping`, `ShutdownCompletes`,
  `ClosedIsForgotten`, `ConnectsInTheEnd`, `WaitsEnd`, `WorkEnds`, `ServerProgress`,
  `FieldsArrive`): fairness and `ENABLED` are out of the prover's reach;
- `RouteIsBest`: the trie and its search are `RECURSIVE` operators;
- programs outside `OrderlyUse` and `OrderlyPrograms`, and several posters in the lock-free
  build, where the properties can fail.

## 5. Not modelled, and plan

Left out of the modelled parts:

- queue and loop: blocks beyond the first and the blocking variant of the queue
  (never used here), the spin-lock build (it does not compile: `EventLoop.cpp:292`
  names a member that does not exist), the weak memory orders below the
  acquire/release pairs, the destructor of `TimerQueue`, input data of
  `TcpConnection`;
- client and server: the length of the back-off, a client destroyed inside a
  queued task (there the close callback can reach the dead client), a `TcpServer`
  used by an I/O loop while it is being destroyed;
- HTTP: sessions (`beforeServlet` and `afterServlet` are called by nobody), cookies,
  the filter chain, URL decoding, the characters of a line, the text of pages,
  malformed uploads (the parser goes round without moving, `HttpMultiPart.cpp:85`);
- chat: failures of the database and of Redis, and what the client prints;
- log: rolling by date, the periodic flush, the writer thread that starts before
  the members it uses are constructed (`AsyncLog.h`);
- `MySqlConnection` and its conversions, `SkipList` (used by nobody; search and
  removal are not defined), configuration, locks and stateless helpers, vendored code.

Planned:

1. An abstract specification of a log as a sequence of lines, and `AsyncLog` as its
   refinement; the same for the chat's delivery.
2. `HttpServer` over the full `TcpConnection` instead of its state alone.
