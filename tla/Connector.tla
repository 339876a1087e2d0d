------------------------------ MODULE Connector ------------------------------
(***************************************************************************)
(* web/net/tcp/Connector.{h,cpp}: one outgoing connection attempt at a     *)
(* time on an EventLoop, with retries and a delay that doubles.            *)
(*                                                                         *)
(* Every action is one step of the loop's thread: a callback of the        *)
(* connecting socket's channel, a queued task or a retry timer.  The       *)
(* build defines NDEBUG, so failed assertions do not stop anything.        *)
(* TcpClient, the only user, supplies the new-connection callback and the  *)
(* calls of start, stop and restart.                                       *)
(***************************************************************************)
EXTENDS Channel, Integers

CONSTANTS
    MaxSockets,     \* bound: attempts that overlap, more than one only after misuse
    MaxOutages      \* bound: how often the server goes down

ASSUME ConnectorAssumption == MaxSockets \in Nat \ {0} /\ MaxOutages \in Nat

VARIABLES
    wanted,         \* _connect
    state,          \* _state
    channel,        \* what _channel points to, a record of Channel or NoChannel
    retryDelayMs,   \* _retryDelayMs
    timers,         \* number of startInLoop timers set by retry
    queue,          \* the loop's queued tasks, oldest first
    calls,          \* callbacks left of the event being handled
    sockets,        \* sockets made by connect(), neither closed nor handed on
    orphans,        \* channels destroyed while the poller still knew them
    server,         \* external: does the server accept? "down" or "up"
    outages,        \* how often it went down
    gaveUp          \* an attempt ended in an error that is not retried

connectorVars == <<wanted, state, channel, retryDelayMs, timers, queue, calls,
                   sockets, orphans, server, outages, gaveUp>>

kDisconnected == "kDisconnected"
kConnecting == "kConnecting"
kConnected == "kConnected"

NoChannel == [index |-> "none"]      \* a null _channel
kInitRetryDelayMs == 500
kMaxRetryDelayMs == 30000

ConnectorTasks == {"startInLoop", "stopInLoop", "resetChannel"}

ConnectorTypeOK ==
    /\ wanted \in BOOLEAN
    /\ state \in {kDisconnected, kConnecting, kConnected}
    /\ channel \in ChannelType \cup {NoChannel}
    /\ retryDelayMs \in kInitRetryDelayMs .. kMaxRetryDelayMs
    /\ timers \in Nat /\ sockets \in Nat /\ orphans \in Nat
    /\ queue \in Seq(ConnectorTasks)
    /\ calls \in Seq({"error", "write", "restart"})
    /\ server \in {"down", "up"} /\ outages \in 0 .. MaxOutages
    /\ gaveUp \in BOOLEAN

ConnectorInit ==
    /\ wanted = FALSE
    /\ state = kDisconnected
    /\ channel = NoChannel
    /\ retryDelayMs = kInitRetryDelayMs
    /\ timers = 0 /\ sockets = 0 /\ orphans = 0
    /\ queue = <<>> /\ calls = <<>>
    /\ server \in {"down", "up"} /\ outages = 0
    /\ gaveUp = FALSE

-----------------------------------------------------------------------------
\* Destroying the object _channel points to leaves a dangling pointer in the
\* poller unless the channel was removed from it.
Orphaned == IF channel.index \in {kAdded, kDeleted} THEN 1 ELSE 0

\* The members a function finds when it is entered.  A caller that has just
\* assigned one passes it in the record.
Members == [wanted |-> wanted, state |-> state, delay |-> retryDelayMs, timers |-> timers]

Doubled(delay) == IF 2 * delay < kMaxRetryDelayMs THEN 2 * delay ELSE kMaxRetryDelayMs

\* Mutant of retry: the socket is left open.
retryNoClose(open, m) ==
    /\ sockets' = open
    /\ state' = kDisconnected
    /\ timers' = IF m.wanted THEN m.timers + 1 ELSE m.timers
    /\ retryDelayMs' = m.delay

\* Mutant of retry: no timer is set.
retryNoTimer(open, m) ==
    /\ sockets' = open - 1
    /\ state' = kDisconnected
    /\ timers' = m.timers
    /\ retryDelayMs' = m.delay

\* retry(sockfd): close the socket, one of the open ones, and if still wanted
\* set a timer to try again.
retry(open, m) ==
    /\ sockets' = open - 1
    /\ state' = kDisconnected
    /\ timers' = IF m.wanted THEN m.timers + 1 ELSE m.timers
    /\ retryDelayMs' = IF m.wanted THEN Doubled(m.delay) ELSE m.delay

\* connecting(sockfd): the old _channel, if there is one, is destroyed.
connecting ==
    /\ state' = kConnecting
    /\ sockets' = sockets + 1
    /\ orphans' = orphans + Orphaned
    /\ channel' = enableWriting(NewChannel)

\* connect(): the socket is connecting; it fails and is tried again; or it
\* fails for good.  A server that accepts leads to the first.
connect(m) ==
    \/ /\ connecting
       /\ timers' = m.timers /\ retryDelayMs' = m.delay
       /\ UNCHANGED gaveUp
    \/ /\ server = "down"
       /\ retry(sockets + 1, m)
       /\ UNCHANGED <<channel, orphans, gaveUp>>
    \/ /\ server = "down"
       /\ gaveUp' = TRUE
       /\ state' = m.state /\ timers' = m.timers /\ retryDelayMs' = m.delay
       /\ UNCHANGED <<channel, sockets, orphans>>

\* Mutant of startInLoop: connects although it was stopped.
startInLoopAlways(m) == connect(m)

\* startInLoop()
startInLoop(m) ==
    \/ m.wanted /\ connect(m)
    \/ /\ ~m.wanted
       /\ state' = m.state /\ timers' = m.timers /\ retryDelayMs' = m.delay
       /\ UNCHANGED <<channel, sockets, orphans, gaveUp>>

\* removeAndResetChannel(): out of the poller now, destroyed by a task.
removeAndResetChannel(rest) ==
    /\ channel' = removeChannel(disableAll(channel))
    /\ queue' = Append(rest, "resetChannel")

-----------------------------------------------------------------------------
(* Steps of the loop.                                                      *)

\* The loop is between two events, timers or tasks.
Idle == calls = <<>>

\* The loop is in its poller: doPendingTask has left no task.
Polling == Idle /\ queue = <<>>

\* epoll_wait reports the connecting socket: writable (without a server that
\* means connected to itself), or failed.
ConnectEvent ==
    /\ Polling /\ channel # NoChannel
    /\ \E conditions \in {{"out"}, {"out", "err", "hup"}} :
        /\ server = "up" => conditions = {"out"}
        /\ calls' = Callbacks(Reported(channel, conditions), {"error", "write"})
        /\ calls' # <<>>
    /\ UNCHANGED <<wanted, state, channel, retryDelayMs, timers, queue, sockets,
                   orphans, server, outages, gaveUp>>

\* handleWrite() on a socket with an error, or connected to itself, and
\* handleError(): try again.  In another state there is nothing to do.
HandleFailure ==
    /\ calls # <<>> /\ Head(calls) \in {"write", "error"}
    /\ \/ /\ state = kConnecting /\ server = "down"
          /\ removeAndResetChannel(queue)
          /\ retry(sockets, Members)
       \/ /\ state # kConnecting
          /\ UNCHANGED <<state, channel, retryDelayMs, timers, queue, sockets>>
    /\ calls' = Tail(calls)
    /\ UNCHANGED <<wanted, orphans, server, outages, gaveUp>>

\* handleWrite() on a socket that is connected: the socket leaves the
\* connector, to the new-connection callback if still wanted, else closed.
Connected ==
    /\ calls # <<>> /\ Head(calls) = "write" /\ state = kConnecting
    /\ server = "up"
    /\ removeAndResetChannel(queue)
    /\ state' = kConnected
    /\ sockets' = sockets - 1
    /\ calls' = Tail(calls)
    /\ UNCHANGED <<wanted, retryDelayMs, timers, orphans, server, outages, gaveUp>>

\* A retry timer runs startInLoop.
RetryTimer ==
    /\ Polling /\ timers > 0 /\ sockets <= MaxSockets
    /\ startInLoop([Members EXCEPT !.timers = @ - 1])
    /\ UNCHANGED <<wanted, queue, calls, server, outages>>

\* A queued start() reaches the loop.
RunStart ==
    /\ Idle /\ queue # <<>> /\ Head(queue) = "startInLoop"
    /\ queue' = Tail(queue)
    /\ startInLoop(Members)
    /\ UNCHANGED <<wanted, calls, server, outages>>

\* stopInLoop(): an attempt under way is ended like one that failed.
RunStop ==
    /\ Idle /\ queue # <<>> /\ Head(queue) = "stopInLoop"
    /\ \/ /\ state = kConnecting
          /\ removeAndResetChannel(Tail(queue))
          /\ retry(sockets, Members)
       \/ /\ state # kConnecting
          /\ queue' = Tail(queue)
          /\ UNCHANGED <<state, channel, retryDelayMs, timers, sockets>>
    /\ UNCHANGED <<wanted, calls, orphans, server, outages, gaveUp>>

\* resetChannel()
RunReset ==
    /\ Idle /\ queue # <<>> /\ Head(queue) = "resetChannel"
    /\ queue' = Tail(queue)
    /\ orphans' = orphans + Orphaned
    /\ channel' = NoChannel
    /\ UNCHANGED <<wanted, state, retryDelayMs, timers, calls, sockets, server, outages, gaveUp>>

\* External: the server starts or stops to accept.
ServerComesUp ==
    /\ server = "down" /\ Idle
    /\ server' = "up"
    /\ UNCHANGED <<wanted, state, channel, retryDelayMs, timers, queue, calls,
                   sockets, orphans, outages, gaveUp>>

ServerGoesDown ==
    /\ server = "up" /\ Idle /\ outages < MaxOutages
    /\ server' = "down"
    /\ outages' = outages + 1
    /\ UNCHANGED <<wanted, state, channel, retryDelayMs, timers, queue, calls,
                   sockets, orphans, gaveUp>>

-----------------------------------------------------------------------------
(* Entry points, called by the client.                                     *)

\* start() on the loop's thread, where runInLoop calls at once.
start ==
    /\ wanted' = TRUE
    /\ startInLoop([Members EXCEPT !.wanted = TRUE])

\* restart(), on the loop's thread: from the first delay.
restart ==
    /\ wanted' = TRUE
    /\ startInLoop([Members EXCEPT !.wanted = TRUE, !.state = kDisconnected,
                                   !.delay = kInitRetryDelayMs])

\* stop() on the loop's thread.
stop ==
    /\ wanted' = FALSE
    /\ queue' = Append(queue, "stopInLoop")

-----------------------------------------------------------------------------
(* Properties, for a client that starts the connector once.                *)

\* An attempt owns exactly one socket and a channel the poller knows, and no
\* attempt means no socket: retries, timers, failures reported twice in one
\* event and resetChannel tasks that come late neither leak a socket
\* (Connector::retry) nor destroy a channel that is in use
\* (Connector::resetChannel).
AttemptIsSound ==
    /\ orphans = 0
    /\ sockets = IF state = kConnecting THEN 1 ELSE 0
    /\ state = kConnecting =>
        /\ channel # NoChannel
        /\ channel.registered /\ "resetChannel" \notin {queue[i] : i \in DOMAIN queue}

=============================================================================
