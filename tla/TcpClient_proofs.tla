-------------------------- MODULE TcpClient_proofs --------------------------
(***************************************************************************)
(* Proofs about TcpClient and its Connector, for any number of calls and   *)
(* outages and for any program that uses the client in an orderly way.     *)
(***************************************************************************)
EXTENDS TcpClient, SequenceTheorems, TLAPS

\* A program that connects once, destroys its client while the connector has
\* no task queued, and calls from another thread only when the client does
\* not reconnect by itself.  Other programs can start two attempts at once,
\* leave tasks of a dead connector, or have a stop() overruled by restart().
Orderly(p) ==
    /\ p.calls \cap {"reconnect", "destroyInTask"} = {}
    /\ p.retry => p.onLoop

OrderlyPrograms == \A p \in Programs : Orderly(p)

\* The tasks of a queue.
In(q) == {q[i] : i \in 1 .. Len(q)}

\* A startInLoop from another thread is the first task there ever is.
StartFirst(q) == \A i \in 1 .. Len(q) : q[i] = "startInLoop" => i = 1

\* The channel of an attempt.
Watched(ch) ==
    /\ ch \in ChannelType
    /\ ch.index = kAdded /\ ch.registered /\ ch.events = {"write"}

\* The channel of an attempt that is over, until resetChannel destroys it.
Removed(ch) == ch \in ChannelType /\ ch.index = kNew

-----------------------------------------------------------------------------
(* The inductive invariant.                                                *)

ClientTypes ==
    /\ wanted \in BOOLEAN
    /\ state \in {kDisconnected, kConnecting, kConnected}
    /\ timers \in {0, 1}
    /\ queue \in Seq(ConnectorTasks)
    /\ calls \in Seq({"error", "write"}) \cup {<<"restart">>}
    /\ program \in Programs /\ made \in Nat
    /\ caller \in {"idle", "startInLoop", "stopInLoop"}
    /\ client \in {"alive", "dead"}
    /\ conn \in {"none", "up", "shut"}

\* The attempt, its socket and its channel.
AttemptInv ==
    /\ orphans = 0
    /\ sockets = IF state = kConnecting THEN 1 ELSE 0
    /\ state = kConnecting => Watched(channel) /\ "resetChannel" \notin In(queue)
    /\ state # kConnecting => \/ channel = NoChannel
                              \/ Removed(channel) /\ "resetChannel" \in In(queue)

\* There is one attempt at a time: a task to begin one, the attempt, a timer
\* for the next one, the connection it led to or the call to restart.
OneAttempt ==
    /\ timers = 1 => state = kDisconnected /\ conn = "none"
    /\ conn # "none" => state = kConnected
    /\ calls = <<"restart">> => state = kConnected /\ conn = "none" /\ queue = <<>>
    /\ StartFirst(queue)
    /\ caller = "startInLoop" => queue = <<>>
    /\ caller = "startInLoop" \/ "startInLoop" \in In(queue) =>
          /\ timers = 0 /\ state = kDisconnected /\ conn = "none" /\ channel = NoChannel
          /\ calls = <<>> /\ "resetChannel" \notin In(queue)

\* Before the first call nothing happens; a program on the loop's thread
\* leaves no call half way; only such a program restarts or ends its client.
Begun ==
    /\ made = 0 => /\ caller = "idle" /\ queue = <<>> /\ timers = 0 /\ calls = <<>>
                   /\ state = kDisconnected /\ conn = "none" /\ channel = NoChannel
                   /\ ~stopped /\ client = "alive"
    /\ program.onLoop => caller = "idle" /\ "startInLoop" \notin In(queue)
    /\ client = "dead" \/ calls = <<"restart">> => program.onLoop

\* Whoever stops a client leaves nothing that would begin again.
Stopping == stopped \/ "stopInLoop" \in In(queue) \/ caller = "stopInLoop"

StopInv ==
    Stopping => /\ ~wanted /\ calls # <<"restart">>
                /\ ~askedToConnect \/ (client = "dead" /\ conn = "none")

\* A dead client's connection does not know it, its connector is stopped or
\* has nothing to do, and is held for as long as it has.
DeadInv ==
    /\ ~deadCall
    /\ client = "dead" =>
          /\ calls # <<"restart">>
          /\ conn # "none" => closeCallback = "detail"
          /\ wanted => timers = 0 /\ state # kConnecting
          /\ state = kConnecting => "stopInLoop" \in In(queue)
          /\ ~hold => channel = NoChannel /\ queue = <<>>

ClientInv ==
    ClientTypes /\ AttemptInv /\ OneAttempt /\ Begun /\ StopInv /\ DeadInv

USE DEF kDisconnected, kConnecting, kConnected

-----------------------------------------------------------------------------
(* Queues and channels.                                                    *)

(* A task that is put at the end.                                          *)
LEMMA PutLast ==
  ASSUME NEW q \in Seq(ConnectorTasks), NEW k \in ConnectorTasks
  PROVE  /\ Append(q, k) \in Seq(ConnectorTasks) /\ Append(q, k) # <<>>
         /\ In(Append(q, k)) = In(q) \cup {k}
         /\ StartFirst(q) /\ (k = "startInLoop" => q = <<>>) => StartFirst(Append(q, k))
<1>1. /\ Append(q, k) \in Seq(ConnectorTasks) /\ Len(Append(q, k)) = Len(q) + 1
      /\ \A i \in 1 .. Len(q) : Append(q, k)[i] = q[i]
      /\ Append(q, k)[Len(q) + 1] = k /\ Len(q) \in Nat
  BY AppendProperties
<1>2. PICK p : p = Append(q, k)
  OBVIOUS
<1>3. \A i \in 1 .. Len(p) : i \in 1 .. Len(q) \/ i = Len(q) + 1
  BY <1>1, <1>2
<1>4. Len(q) + 1 \in 1 .. Len(p) /\ \A i \in 1 .. Len(q) : i \in 1 .. Len(p)
  BY <1>1, <1>2
<1>5. In(p) = In(q) \cup {k}
  BY <1>1, <1>2, <1>3, <1>4 DEF In
<1>6. ASSUME StartFirst(q), k = "startInLoop" => q = <<>>, NEW i \in 1 .. Len(p),
             p[i] = "startInLoop"
      PROVE  i = 1
  <2>1. CASE i \in 1 .. Len(q)
    BY <1>1, <1>2, <1>6, <2>1 DEF StartFirst
  <2>2. CASE i = Len(q) + 1
    BY <1>1, <1>2, <1>6, <2>2
  <2> QED
    BY <1>3, <2>1, <2>2
<1>7. p # <<>>
  BY <1>1, <1>2
<1> QED
  BY <1>1, <1>2, <1>5, <1>6, <1>7 DEF StartFirst

(* The first task is taken out.                                            *)
LEMMA TakeFirst ==
  ASSUME NEW q \in Seq(ConnectorTasks), q # <<>>
  PROVE  /\ Tail(q) \in Seq(ConnectorTasks) /\ Head(q) \in ConnectorTasks
         /\ In(q) = In(Tail(q)) \cup {Head(q)}
         /\ StartFirst(q) => "startInLoop" \notin In(Tail(q)) /\ StartFirst(Tail(q))
<1>1. /\ Tail(q) \in Seq(ConnectorTasks) /\ Len(Tail(q)) = Len(q) - 1
      /\ \A i \in 1 .. Len(Tail(q)) : Tail(q)[i] = q[i + 1]
  BY HeadTailProperties
<1>2. Len(q) \in Nat /\ Len(q) > 0 /\ 1 \in 1 .. Len(q)
  BY EmptySeq
<1>3. Head(q) = q[1] /\ Head(q) \in ConnectorTasks
  BY <1>2
<1>4. \A i \in 1 .. Len(Tail(q)) : i + 1 \in 1 .. Len(q) /\ i + 1 # 1
  BY <1>1, <1>2
<1>5. ASSUME NEW i \in 1 .. Len(q), i # 1
      PROVE  i - 1 \in 1 .. Len(Tail(q)) /\ Tail(q)[i - 1] = q[i]
  <2>1. i - 1 \in 1 .. Len(Tail(q)) /\ (i - 1) + 1 = i
    BY <1>1, <1>2, <1>5
  <2> QED
    BY <1>1, <2>1
<1>6. In(q) = In(Tail(q)) \cup {Head(q)}
  <2>1. In(Tail(q)) \subseteq In(q)
    BY <1>1, <1>4 DEF In
  <2>2. In(q) \subseteq In(Tail(q)) \cup {Head(q)}
    BY <1>3, <1>5 DEF In
  <2>3. Head(q) \in In(q)
    BY <1>2, <1>3 DEF In
  <2> QED
    BY <2>1, <2>2, <2>3
<1>7. ASSUME StartFirst(q)
      PROVE  \A i \in 1 .. Len(Tail(q)) : Tail(q)[i] # "startInLoop"
  BY <1>1, <1>4, <1>7 DEF StartFirst
<1>8. StartFirst(q) => "startInLoop" \notin In(Tail(q)) /\ StartFirst(Tail(q))
  BY <1>7 DEF In, StartFirst
<1> QED
  BY <1>1, <1>3, <1>6, <1>8

(* An empty queue.                                                         *)
LEMMA NoTasks == <<>> \in Seq(ConnectorTasks) /\ In(<<>>) = {} /\ StartFirst(<<>>)
<1>1. <<>> \in Seq(ConnectorTasks) /\ Len(<<>>) = 0
  OBVIOUS
<1>2. 1 .. 0 = {}
  OBVIOUS
<1> QED
  BY <1>1, <1>2 DEF In, StartFirst

(* The channel of a new attempt, and of one that is over                   *)
(* (Connector::connecting, Connector::removeAndResetChannel).              *)
LEMMA WatchedChannel ==
  /\ Watched(enableWriting(NewChannel))
  /\ \A ch : Watched(ch) => Removed(removeChannel(disableAll(ch))) /\ ch # NoChannel
<1> USE DEF kNew, kAdded, kDeleted
<1>1. Watched(enableWriting(NewChannel))
  BY DEF Watched, enableWriting, NewChannel, UpdateChannel, EpollAdd, ChannelType, Interest
<1>2. ASSUME NEW ch, Watched(ch)
      PROVE  Removed(removeChannel(disableAll(ch)))
  <2>1. PICK d : d = disableAll(ch)
    OBVIOUS
  <2>2. d \in ChannelType
    BY <1>2, <2>1 DEF Watched, disableAll, UpdateChannel, EpollDel, isNonEvent, ChannelType,
                      Interest
  <2> QED
    BY <2>1, <2>2 DEF Removed, removeChannel, EpollDel, isNonEvent, ChannelType, Interest
<1>3. ASSUME NEW ch, Watched(ch)
      PROVE  ch # NoChannel
  BY <1>3 DEF Watched, NoChannel, ChannelType
<1> QED
  BY <1>1, <1>2, <1>3

(* The callbacks of the connector's channel.                               *)
LEMMA ConnectorCallbacks ==
  ASSUME NEW revents
  PROVE  Callbacks(revents, {"error", "write"}) \in Seq({"error", "write"})
<1> DEFINE S == {"error", "write"}
           e == IF "err" \in revents THEN <<"error">> ELSE <<>>
           w == IF "out" \in revents THEN <<"write">> ELSE <<>>
<1>1. Callbacks(revents, S) = ((<<>> \o e) \o <<>>) \o w
  BY DEF Callbacks
<1>2. e \in Seq(S) /\ w \in Seq(S) /\ <<>> \in Seq(S)
  <2>1. <<"error">> \in Seq(S) /\ <<"write">> \in Seq(S) /\ <<>> \in Seq(S)
    OBVIOUS
  <2> QED
    BY <2>1
<1> HIDE DEF e, w, S
<1>3. ((<<>> \o e) \o <<>>) \o w \in Seq(S)
  BY <1>2, ConcatProperties
<1> QED
  BY <1>1, <1>3 DEF S

(* Callbacks of the channel are not the call to restart.                   *)
LEMMA NoRestart ==
  ASSUME NEW s \in Seq({"error", "write"})
  PROVE  s # <<"restart">>
<1>1. SUFFICES ASSUME s = <<"restart">> PROVE FALSE
  OBVIOUS
<1>2. Len(<<"restart">>) = 1 /\ <<"restart">>[1] = "restart"
  OBVIOUS
<1>3. Len(s) = 1 /\ s[1] = "restart"
  BY <1>1, <1>2
<1>4. s[1] \in {"error", "write"}
  BY <1>3
<1> QED
  BY <1>3, <1>4

(* The rest of the callbacks.                                              *)
LEMMA RestOfCalls ==
  ASSUME ClientTypes, calls # <<>>, Head(calls) \in {"error", "write"}
  PROVE  calls \in Seq({"error", "write"}) /\ Tail(calls) \in Seq({"error", "write"})
<1>1. Head(<<"restart">>) = "restart"
  OBVIOUS
<1>2. calls \in Seq({"error", "write"})
  BY <1>1 DEF ClientTypes
<1>3. Tail(calls) \in Seq({"error", "write"})
  BY <1>2, HeadTailProperties
<1> QED
  BY <1>2, <1>3

-----------------------------------------------------------------------------
(* The beginning and the end of an attempt.                                *)

(* Connector::startInLoop, with the members it finds in m.                 *)
LEMMA StartShape ==
  ASSUME AttemptInv, NEW m, startInLoop(m), state # kConnecting, channel = NoChannel
  PROVE  /\ orphans' = 0
         /\ \/ /\ m.wanted /\ state' = kConnecting /\ sockets' = 1 /\ Watched(channel')
               /\ timers' = m.timers
            \/ /\ m.wanted /\ state' = kDisconnected /\ sockets' = 0
               /\ channel' = NoChannel /\ timers' = m.timers + 1
            \/ /\ state' = m.state /\ sockets' = 0
               /\ channel' = NoChannel /\ timers' = m.timers
<1>1. sockets = 0 /\ orphans = 0
  BY DEF AttemptInv
<1>2. CASE m.wanted /\ connecting /\ timers' = m.timers
  <2>1. Orphaned = 0
    BY DEF Orphaned, NoChannel, kAdded, kDeleted
  <2> QED
    BY <1>1, <1>2, <2>1, WatchedChannel DEF connecting
<1>3. CASE m.wanted /\ retry(sockets + 1, m) /\ UNCHANGED <<channel, orphans>>
  BY <1>1, <1>3 DEF retry
<1>4. CASE /\ state' = m.state /\ timers' = m.timers
           /\ UNCHANGED <<channel, sockets, orphans>>
  BY <1>1, <1>4
<1> QED
  BY <1>2, <1>3, <1>4 DEF startInLoop, connect

(* An attempt begins, or could not, or was not wanted.                     *)
LEMMA BeginKeeps ==
  ASSUME ClientInv, state # kConnecting, channel = NoChannel, conn = "none",
         NEW m, startInLoop(m), m.timers = 0, m.state \in {kDisconnected, kConnected},
         m.wanted = wanted', wanted' \in BOOLEAN,
         queue' \in Seq(ConnectorTasks), "startInLoop" \notin In(queue'),
         "resetChannel" \notin In(queue'), calls' = <<>>,
         caller' \in {"idle", "stopInLoop"}, program.onLoop => caller' = "idle",
         made' \in Nat \ {0},
         UNCHANGED <<program, client, conn, closeCallback, hold, deadCall>>,
         Stopping' => ~wanted' /\ (~askedToConnect' \/ client = "dead"),
         client = "dead" => ~wanted' /\ (~hold => queue' = <<>>)
  PROVE  ClientInv'
<1>1. /\ orphans' = 0
      /\ \/ /\ wanted' /\ state' = kConnecting /\ sockets' = 1 /\ Watched(channel')
            /\ timers' = 0
         \/ /\ wanted' /\ state' = kDisconnected /\ sockets' = 0
            /\ channel' = NoChannel /\ timers' = 1
         \/ /\ state' = m.state /\ sockets' = 0
            /\ channel' = NoChannel /\ timers' = 0
  BY StartShape DEF ClientInv
<1>2. <<>> \in Seq({"error", "write"}) /\ <<>> # <<"restart">>
  BY NoRestart
<1>3. ClientTypes'
  BY <1>1, <1>2 DEF ClientInv, ClientTypes
<1>4. AttemptInv'
  BY <1>1 DEF AttemptInv
<1>5. OneAttempt'
  <2>1. StartFirst(queue')
    BY DEF StartFirst, In
  <2> QED
    BY <1>1, <1>2, <2>1 DEF OneAttempt
<1>6. Begun'
  BY <1>2 DEF ClientInv, Begun
<1>7. StopInv'
  BY <1>2 DEF StopInv
<1>8. DeadInv'
  BY <1>1, <1>2 DEF ClientInv, DeadInv
<1> QED
  BY <1>3, <1>4, <1>5, <1>6, <1>7, <1>8 DEF ClientInv

(* An attempt ends: its channel is removed, its socket closed or handed on.*)
LEMMA EndKeeps ==
  ASSUME ClientInv, state = kConnecting,
         NEW rest \in Seq(ConnectorTasks), In(rest) \subseteq In(queue),
         removeAndResetChannel(rest), sockets' = sockets - 1,
         state' \in {kDisconnected, kConnected}, timers' \in {0, 1},
         timers' = 1 => state' = kDisconnected /\ conn' = "none" /\ wanted,
         conn' \in {"none", "up", "shut"}, conn' # "none" => state' = kConnected,
         calls' \in Seq({"error", "write"}), stopped' => Stopping,
         client = "dead" => conn' = "none", ~deadCall',
         UNCHANGED <<wanted, orphans, program, made, caller, client, hold, askedToConnect>>
  PROVE  ClientInv'
<1>1. /\ Removed(channel') /\ queue' \in Seq(ConnectorTasks)
      /\ In(queue') = In(rest) \cup {"resetChannel"}
  <2>1. Watched(channel)
    BY DEF ClientInv, AttemptInv
  <2>2. "resetChannel" \in ConnectorTasks
    BY DEF ConnectorTasks
  <2> QED
    BY <2>1, <2>2, WatchedChannel, PutLast DEF removeAndResetChannel
<1>2. calls' # <<"restart">>
  BY NoRestart
<1>3. caller # "startInLoop" /\ "startInLoop" \notin In(queue')
  BY <1>1 DEF ClientInv, OneAttempt
<1>4. channel # NoChannel
  BY WatchedChannel DEF ClientInv, AttemptInv
<1>5. ClientTypes'
  BY <1>1 DEF ClientInv, ClientTypes
<1>6. AttemptInv'
  BY <1>1 DEF ClientInv, AttemptInv
<1>7. OneAttempt'
  <2>1. StartFirst(queue')
    BY <1>3 DEF StartFirst, In
  <2> QED
    BY <1>2, <1>3, <2>1 DEF OneAttempt
<1>8. Begun'
  <2>1. made # 0
    BY DEF ClientInv, Begun
  <2> QED
    BY <1>2, <1>3, <2>1 DEF ClientInv, Begun
<1>9. StopInv'
  <2>1. Stopping' => Stopping
    BY <1>1 DEF Stopping
  <2> QED
    BY <1>2, <2>1 DEF ClientInv, StopInv
<1>10. DeadInv'
  BY <1>2, <1>4 DEF ClientInv, DeadInv
<1> QED
  BY <1>5, <1>6, <1>7, <1>8, <1>9, <1>10 DEF ClientInv

-----------------------------------------------------------------------------
(* Steps in which an attempt may begin.                                    *)

(* TcpClient::connect on the loop's thread.                                *)
LEMMA ConnectKeeps ==
  ASSUME OrderlyPrograms, ClientInv, ConnectOnLoop
  PROVE  ClientInv'
<1>1. made = 0 /\ made' = 1 /\ client = "alive" /\ caller = "idle"
  BY DEF ConnectOnLoop, MayCall, OrderlyPrograms, Orderly, ClientInv, ClientTypes
<1>2. /\ queue = <<>> /\ timers = 0 /\ calls = <<>> /\ state = kDisconnected
      /\ conn = "none" /\ channel = NoChannel
  BY <1>1 DEF ClientInv, Begun
<1>3. PICK m : m = [Members EXCEPT !.wanted = TRUE]
  OBVIOUS
<1>4. m.wanted = TRUE /\ m.state = kDisconnected /\ m.timers = 0
  BY <1>2, <1>3 DEF Members
<1>5. /\ startInLoop(m) /\ wanted' = TRUE /\ stopped' = FALSE
      /\ UNCHANGED <<queue, calls, program, caller, client, conn, closeCallback, hold, deadCall>>
  BY <1>3 DEF ConnectOnLoop, start
<1>6. ~Stopping'
  BY <1>1, <1>2, <1>5, NoTasks DEF Stopping
<1>7. /\ m.wanted = wanted' /\ wanted' \in BOOLEAN
      /\ caller' = "idle" /\ calls' = <<>>
      /\ client = "dead" => ~wanted' /\ (~hold => queue' = <<>>)
  BY <1>1, <1>2, <1>4, <1>5
<1>8. made' \in Nat \ {0}
  BY <1>1
<1>9. Stopping' => ~wanted' /\ (~askedToConnect' \/ client = "dead")
  BY <1>6
<1> QED
  BY <1>2, <1>4, <1>5, <1>7, <1>8, <1>9, NoTasks, BeginKeeps

(* A queued start() reaches the loop.                                      *)
LEMMA RunStartKeeps ==
  ASSUME ClientInv, RunStart, UNCHANGED clientVars
  PROVE  ClientInv'
<1>1. /\ queue \in Seq(ConnectorTasks) /\ queue # <<>> /\ Head(queue) = "startInLoop"
      /\ StartFirst(queue) /\ caller \in {"idle", "startInLoop", "stopInLoop"}
      /\ made \in Nat
  BY DEF ClientInv, ClientTypes, RunStart, OneAttempt
<1>2. /\ Tail(queue) \in Seq(ConnectorTasks) /\ In(queue) = In(Tail(queue)) \cup {Head(queue)}
      /\ "startInLoop" \notin In(Tail(queue))
  BY <1>1, TakeFirst
<1>3. /\ timers = 0 /\ state = kDisconnected /\ conn = "none" /\ channel = NoChannel
      /\ calls = <<>> /\ "resetChannel" \notin In(queue)
  BY <1>1, <1>2 DEF ClientInv, OneAttempt
<1>4. caller # "startInLoop" /\ made # 0 /\ ~program.onLoop /\ client # "dead"
  BY <1>1, <1>2 DEF ClientInv, OneAttempt, Begun
<1>5. Members.wanted = wanted /\ Members.state = state /\ Members.timers = timers
  BY DEF Members
<1>6. /\ startInLoop(Members) /\ queue' = Tail(queue)
      /\ UNCHANGED <<wanted, calls, program, made, caller, client, conn, closeCallback, hold,
                     deadCall, stopped, askedToConnect>>
  BY DEF RunStart, clientVars
<1>7. Stopping' => ~wanted' /\ (~askedToConnect' \/ client = "dead")
  <2>1. Stopping' => Stopping
    BY <1>2, <1>6 DEF Stopping
  <2> QED
    BY <1>6, <2>1 DEF ClientInv, StopInv
<1>8. wanted' \in BOOLEAN
  BY <1>6 DEF ClientInv, ClientTypes
<1> QED
  BY <1>1, <1>2, <1>3, <1>4, <1>5, <1>6, <1>7, <1>8, BeginKeeps

(* A retry timer.                                                          *)
LEMMA TimerKeeps ==
  ASSUME ClientInv, RetryTimer, UNCHANGED clientVars
  PROVE  ClientInv'
<1>1. timers = 1 /\ queue = <<>> /\ calls = <<>> /\ wanted \in BOOLEAN
      /\ caller \in {"idle", "startInLoop", "stopInLoop"} /\ made \in Nat
  BY DEF ClientInv, ClientTypes, RetryTimer, Polling, Idle
<1>2. state = kDisconnected /\ conn = "none" /\ caller # "startInLoop"
  BY <1>1 DEF ClientInv, OneAttempt
<1>3. channel = NoChannel
  BY <1>1, <1>2, NoTasks DEF ClientInv, AttemptInv
<1>4. made # 0 /\ (program.onLoop => caller = "idle")
  BY <1>1 DEF ClientInv, Begun
<1>5. PICK m : m = [Members EXCEPT !.timers = @ - 1]
  OBVIOUS
<1>6. m.wanted = wanted /\ m.state = kDisconnected /\ m.timers = 0
  BY <1>1, <1>2, <1>5 DEF Members
<1>7. /\ startInLoop(m)
      /\ UNCHANGED <<wanted, queue, calls, program, made, caller, client, conn, closeCallback,
                     hold, deadCall, stopped, askedToConnect>>
  BY <1>5 DEF RetryTimer, clientVars
<1>8. Stopping' => ~wanted' /\ (~askedToConnect' \/ client = "dead")
  BY <1>7 DEF ClientInv, StopInv, Stopping
<1>9. client = "dead" => ~wanted'
  BY <1>1, <1>7 DEF ClientInv, DeadInv
<1> QED
  BY <1>1, <1>2, <1>3, <1>4, <1>6, <1>7, <1>8, <1>9, NoTasks, BeginKeeps

(* Connector::restart, called by TcpClient::removeConnection.              *)
LEMMA RestartKeeps ==
  ASSUME ClientInv, Restart
  PROVE  ClientInv'
<1>1. calls = <<"restart">> /\ Tail(calls) = <<>>
  <2>1. ASSUME NEW s \in Seq({"error", "write"}), s # <<>>
        PROVE  Head(s) # "restart"
    BY <2>1
  <2>2. calls = <<"restart">>
    BY <2>1 DEF Restart, ClientInv, ClientTypes
  <2> QED
    BY <2>2
<1>2. state = kConnected /\ conn = "none" /\ queue = <<>> /\ timers = 0
  BY <1>1 DEF ClientInv, OneAttempt, ClientTypes
<1>3. /\ channel = NoChannel /\ program.onLoop /\ caller = "idle" /\ made # 0 /\ made \in Nat
      /\ ~Stopping /\ client # "dead"
  BY <1>1, <1>2, NoTasks DEF ClientInv, AttemptInv, Begun, StopInv, DeadInv, ClientTypes
<1>4. PICK m : m = [Members EXCEPT !.wanted = TRUE, !.state = kDisconnected,
                                   !.delay = kInitRetryDelayMs]
  OBVIOUS
<1>5. m.wanted /\ m.state = kDisconnected /\ m.timers = 0
  BY <1>2, <1>4 DEF Members
<1>6. /\ startInLoop(m) /\ wanted' = TRUE /\ calls' = <<>>
      /\ UNCHANGED <<queue, program, made, caller, client, conn, closeCallback,
                     hold, deadCall, stopped, askedToConnect>>
  BY <1>1, <1>4 DEF Restart, restart, clientVars
<1>7. ~Stopping'
  BY <1>3, <1>6 DEF Stopping
<1> QED
  BY <1>2, <1>3, <1>5, <1>6, <1>7, NoTasks, BeginKeeps

-----------------------------------------------------------------------------
(* Steps in which an attempt may end.                                      *)

(* handleError, and handleWrite on a socket that is not connected.         *)
LEMMA FailureKeeps ==
  ASSUME ClientInv, HandleFailure, UNCHANGED clientVars
  PROVE  ClientInv'
<1>1. /\ calls # <<>> /\ calls' = Tail(calls) /\ Head(calls) \in {"error", "write"}
      /\ UNCHANGED <<wanted, orphans, program, made, caller, askedToConnect, client, conn,
                     closeCallback, hold, stopped, deadCall>>
  BY DEF HandleFailure, clientVars
<1>2. calls' \in Seq({"error", "write"}) /\ calls # <<"restart">> /\ calls' # <<"restart">>
  BY <1>1, RestOfCalls, NoRestart DEF ClientInv
<1>3. CASE state = kConnecting /\ removeAndResetChannel(queue) /\ retry(sockets, Members)
  <2>1. queue \in Seq(ConnectorTasks) /\ timers = 0 /\ conn = "none" /\ wanted \in BOOLEAN
    BY <1>3 DEF ClientInv, ClientTypes, OneAttempt
  <2>2. /\ sockets' = sockets - 1 /\ state' = kDisconnected /\ timers' \in {0, 1}
        /\ timers' = 1 => wanted
    BY <1>3, <2>1 DEF retry, Members
  <2>3. ~deadCall /\ (stopped => Stopping)
    BY DEF ClientInv, DeadInv, Stopping
  <2> QED
    BY <1>1, <1>2, <1>3, <2>1, <2>2, <2>3, EndKeeps
<1>4. CASE UNCHANGED <<state, channel, retryDelayMs, timers, queue, sockets>>
  <2>1. ClientTypes' /\ AttemptInv'
    BY <1>1, <1>2, <1>4 DEF ClientInv, ClientTypes, AttemptInv
  <2>2. OneAttempt'
    BY <1>1, <1>2, <1>4 DEF ClientInv, OneAttempt
  <2>3. Begun'
    BY <1>1, <1>2, <1>4 DEF ClientInv, Begun
  <2>4. StopInv' /\ DeadInv'
    BY <1>1, <1>2, <1>4 DEF ClientInv, StopInv, Stopping, DeadInv
  <2> QED
    BY <2>1, <2>2, <2>3, <2>4 DEF ClientInv
<1> QED
  BY <1>3, <1>4 DEF HandleFailure

(* handleWrite on a connected socket, and TcpClient::newConnection.        *)
LEMMA NewConnectionKeeps ==
  ASSUME ClientInv, NewConnection
  PROVE  ClientInv'
<1>1. /\ calls # <<>> /\ calls' = Tail(calls) /\ Head(calls) = "write"
      /\ state = kConnecting /\ removeAndResetChannel(queue) /\ state' = kConnected
      /\ sockets' = sockets - 1
      /\ UNCHANGED <<wanted, timers, orphans, program, made, caller, askedToConnect, client,
                     hold, stopped>>
  BY DEF NewConnection, Connected
<1>2. calls' \in Seq({"error", "write"})
  BY <1>1, RestOfCalls DEF ClientInv
<1>3. queue \in Seq(ConnectorTasks) /\ timers = 0 /\ conn = "none" /\ wanted \in BOOLEAN
  BY <1>1 DEF ClientInv, ClientTypes, OneAttempt
<1>4. client = "dead" => ~wanted
  BY <1>1 DEF ClientInv, DeadInv
<1>5. conn' \in {"none", "up"} /\ (client = "dead" => conn' = "none") /\ ~deadCall'
  <2>1. ~deadCall
    BY DEF ClientInv, DeadInv
  <2>2. CASE wanted
    <3>1. conn' = "up" /\ client # "dead" /\ deadCall' = (deadCall \/ client = "dead")
      BY <1>4, <2>2 DEF NewConnection
    <3>2. ~deadCall'
      BY <2>1, <3>1
    <3> QED
      BY <3>1, <3>2
  <2>3. CASE ~wanted
    BY <1>3, <2>1, <2>3 DEF NewConnection
  <2> QED
    BY <2>2, <2>3
<1>6. stopped' => Stopping
  BY <1>1 DEF Stopping
<1> QED
  BY <1>1, <1>2, <1>3, <1>5, <1>6, EndKeeps

(* stopInLoop.                                                             *)
LEMMA RunStopKeeps ==
  ASSUME ClientInv, StopStep
  PROVE  ClientInv'
<1>1. /\ queue # <<>> /\ Head(queue) = "stopInLoop" /\ calls = <<>> /\ stopped' = TRUE
      /\ UNCHANGED <<wanted, calls, orphans, program, made, caller, askedToConnect, client,
                     conn, closeCallback, hold, deadCall>>
  BY DEF StopStep, RunStop, Idle
<1>2. queue \in Seq(ConnectorTasks) /\ StartFirst(queue) /\ wanted \in BOOLEAN
  BY DEF ClientInv, ClientTypes, OneAttempt
<1>3. /\ Tail(queue) \in Seq(ConnectorTasks) /\ In(queue) = In(Tail(queue)) \cup {Head(queue)}
      /\ StartFirst(Tail(queue))
  BY <1>1, <1>2, TakeFirst
<1>4. Stopping /\ In(Tail(queue)) \subseteq In(queue)
  BY <1>1, <1>3 DEF Stopping
<1>5. calls \in Seq({"error", "write"}) /\ calls # <<"restart">>
  BY <1>1, NoRestart
<1>6. CASE state = kConnecting /\ removeAndResetChannel(Tail(queue)) /\ retry(sockets, Members)
  <2>1. timers = 0 /\ conn = "none"
    BY <1>6 DEF ClientInv, ClientTypes, OneAttempt
  <2>2. /\ sockets' = sockets - 1 /\ state' = kDisconnected /\ timers' \in {0, 1}
        /\ timers' = 1 => wanted
    BY <1>2, <1>6, <2>1 DEF retry, Members
  <2>3. ~deadCall
    BY DEF ClientInv, DeadInv
  <2> QED
    BY <1>1, <1>3, <1>4, <1>5, <1>6, <2>1, <2>2, <2>3, EndKeeps
<1>7. CASE /\ state # kConnecting /\ queue' = Tail(queue)
           /\ UNCHANGED <<state, channel, timers, sockets>>
  <2>1. ClientTypes'
    BY <1>1, <1>3, <1>7 DEF ClientInv, ClientTypes
  <2>2. AttemptInv'
    BY <1>1, <1>3, <1>7 DEF ClientInv, AttemptInv
  <2>3. OneAttempt'
    BY <1>1, <1>3, <1>5, <1>7 DEF ClientInv, OneAttempt
  <2>4. Begun'
    BY <1>1, <1>3, <1>5, <1>7 DEF ClientInv, Begun
  <2>5. StopInv'
    BY <1>1, <1>4, <1>5 DEF ClientInv, StopInv
  <2>6. DeadInv'
    BY <1>1, <1>5, <1>7 DEF ClientInv, DeadInv
  <2> QED
    BY <2>1, <2>2, <2>3, <2>4, <2>5, <2>6 DEF ClientInv
<1> QED
  BY <1>6, <1>7 DEF StopStep, RunStop

-----------------------------------------------------------------------------
(* Steps beside an attempt.                                                *)

(* resetChannel.                                                           *)
LEMMA RunResetKeeps ==
  ASSUME ClientInv, RunReset, UNCHANGED clientVars
  PROVE  ClientInv'
<1>1. /\ queue # <<>> /\ Head(queue) = "resetChannel" /\ calls = <<>> /\ queue' = Tail(queue)
      /\ channel' = NoChannel /\ orphans' = orphans + Orphaned
      /\ UNCHANGED <<wanted, state, timers, calls, sockets, program, made, caller,
                     askedToConnect, client, conn, closeCallback, hold, stopped, deadCall>>
  BY DEF RunReset, Idle, clientVars
<1>2. queue \in Seq(ConnectorTasks) /\ StartFirst(queue)
  BY DEF ClientInv, ClientTypes, OneAttempt
<1>3. /\ Tail(queue) \in Seq(ConnectorTasks) /\ In(queue) = In(Tail(queue)) \cup {Head(queue)}
      /\ StartFirst(Tail(queue))
  BY <1>1, <1>2, TakeFirst
<1>4. state # kConnecting /\ orphans = 0
  BY <1>1, <1>3 DEF ClientInv, AttemptInv
<1>5. Orphaned = 0
  BY <1>4 DEF ClientInv, AttemptInv, Removed, Orphaned, NoChannel, kNew, kAdded, kDeleted
<1>6. calls # <<"restart">>
  BY <1>1, NoRestart
<1>7. ClientTypes'
  BY <1>1, <1>3 DEF ClientInv, ClientTypes
<1>8. AttemptInv'
  BY <1>1, <1>4, <1>5 DEF ClientInv, AttemptInv
<1>9. OneAttempt'
  BY <1>1, <1>3, <1>6 DEF ClientInv, OneAttempt
<1>10. Begun'
  BY <1>1, <1>3, <1>6 DEF ClientInv, Begun
<1>11. StopInv'
  <2>1. Stopping' => Stopping
    BY <1>1, <1>3 DEF Stopping
  <2> QED
    BY <1>1, <1>6, <2>1 DEF ClientInv, StopInv
<1>12. DeadInv'
  BY <1>1, <1>3, <1>4, <1>6 DEF ClientInv, DeadInv
<1> QED
  BY <1>7, <1>8, <1>9, <1>10, <1>11, <1>12 DEF ClientInv

(* The poller reports the connecting socket.                               *)
LEMMA EventKeeps ==
  ASSUME ClientInv, ConnectEvent, UNCHANGED clientVars
  PROVE  ClientInv'
<1>1. /\ queue = <<>> /\ calls = <<>> /\ channel # NoChannel
      /\ UNCHANGED <<wanted, state, channel, timers, queue, sockets, orphans, program, made,
                     caller, askedToConnect, client, conn, closeCallback, hold, stopped, deadCall>>
  BY DEF ConnectEvent, Polling, Idle, clientVars
<1>2. calls' \in Seq({"error", "write"})
  BY ConnectorCallbacks DEF ConnectEvent
<1>3. calls' # <<"restart">>
  BY <1>2, NoRestart
<1>4. state = kConnecting /\ made # 0
  BY <1>1, NoTasks DEF ClientInv, AttemptInv, Begun
<1>5. ClientTypes' /\ AttemptInv'
  BY <1>1, <1>2 DEF ClientInv, ClientTypes, AttemptInv
<1>6. OneAttempt'
  BY <1>1, <1>3, <1>4 DEF ClientInv, OneAttempt
<1>7. Begun'
  BY <1>1, <1>3, <1>4 DEF ClientInv, Begun
<1>8. StopInv' /\ DeadInv'
  BY <1>1, <1>3 DEF ClientInv, StopInv, Stopping, DeadInv
<1> QED
  BY <1>5, <1>6, <1>7, <1>8 DEF ClientInv

(* The connection closes.                                                  *)
LEMMA CloseKeeps ==
  ASSUME OrderlyPrograms, ClientInv, ConnectionCloses
  PROVE  ClientInv'
<1>1. /\ queue = <<>> /\ calls = <<>> /\ conn # "none" /\ conn' = "none"
      /\ calls' \in {<<>>, <<"restart">>}
      /\ calls' = <<"restart">> => closeCallback = "client" /\ program.retry /\ askedToConnect
      /\ deadCall' = (deadCall \/ (closeCallback = "client" /\ client = "dead"))
      /\ UNCHANGED <<wanted, state, channel, timers, queue, sockets, orphans, program, made,
                     caller, askedToConnect, client, closeCallback, hold, stopped>>
  <2>1. <<>> # <<"restart">>
    BY NoRestart
  <2> QED
    BY <2>1 DEF ConnectionCloses, Polling, Idle
<1>2. state = kConnected /\ timers = 0 /\ caller # "startInLoop" /\ made # 0
  BY <1>1 DEF ClientInv, OneAttempt, Begun, ClientTypes
<1>3. calls' = <<"restart">> => program.onLoop
  BY <1>1 DEF ClientInv, ClientTypes, OrderlyPrograms, Orderly
<1>4. client = "dead" => closeCallback = "detail"
  BY <1>1 DEF ClientInv, DeadInv
<1>5. ~deadCall'
  <2>1. ~deadCall /\ ~(closeCallback = "client" /\ client = "dead")
    BY <1>4 DEF ClientInv, DeadInv
  <2> QED
    BY <1>1, <2>1
<1>6. calls' = <<"restart">> => client # "dead" /\ ~Stopping
  BY <1>1, <1>4 DEF ClientInv, StopInv
<1>7. ClientTypes' /\ AttemptInv'
  <2>1. <<>> \in Seq({"error", "write"})
    OBVIOUS
  <2> QED
    BY <1>1, <2>1 DEF ClientInv, ClientTypes, AttemptInv
<1>8. OneAttempt'
  BY <1>1, <1>2, NoTasks DEF ClientInv, OneAttempt
<1>9. Begun'
  BY <1>1, <1>2, <1>3 DEF ClientInv, Begun
<1>10. StopInv'
  <2>1. Stopping' => Stopping
    BY <1>1 DEF Stopping
  <2> QED
    BY <1>1, <1>6, <2>1 DEF ClientInv, StopInv
<1>11. DeadInv'
  BY <1>1, <1>2, <1>5, <1>6 DEF ClientInv, DeadInv
<1> QED
  BY <1>7, <1>8, <1>9, <1>10, <1>11 DEF ClientInv

-----------------------------------------------------------------------------
(* Calls of the program.                                                   *)

(* TcpClient::stop on the loop's thread.                                   *)
LEMMA StopKeeps ==
  ASSUME ClientInv, StopOnLoop
  PROVE  ClientInv'
<1>1. /\ client = "alive" /\ caller = "idle" /\ calls = <<>> /\ made' = made + 1
      /\ askedToConnect' = FALSE /\ wanted' = FALSE /\ queue' = Append(queue, "stopInLoop")
      /\ UNCHANGED <<state, channel, timers, calls, sockets, orphans, program, caller, client,
                     conn, closeCallback, hold, stopped, deadCall>>
  BY DEF StopOnLoop, MayCall, Idle, stop
<1>2. queue \in Seq(ConnectorTasks) /\ StartFirst(queue) /\ "stopInLoop" \in ConnectorTasks
  BY DEF ClientInv, ClientTypes, OneAttempt, ConnectorTasks
<1>3. /\ queue' \in Seq(ConnectorTasks) /\ In(queue') = In(queue) \cup {"stopInLoop"}
      /\ StartFirst(queue')
  BY <1>1, <1>2, PutLast
<1>4. calls # <<"restart">> /\ made' # 0 /\ made' \in Nat
  BY <1>1, NoRestart DEF ClientInv, ClientTypes
<1>5. ClientTypes'
  BY <1>1, <1>3, <1>4 DEF ClientInv, ClientTypes
<1>6. AttemptInv'
  BY <1>1, <1>3 DEF ClientInv, AttemptInv
<1>7. OneAttempt'
  BY <1>1, <1>3, <1>4 DEF ClientInv, OneAttempt
<1>8. Begun'
  BY <1>1, <1>3, <1>4 DEF ClientInv, Begun
<1>9. StopInv' /\ DeadInv'
  BY <1>1, <1>4 DEF ClientInv, StopInv, DeadInv
<1> QED
  BY <1>5, <1>6, <1>7, <1>8, <1>9 DEF ClientInv

(* connect() and stop() on another thread.                                 *)
LEMMA ThreadKeeps ==
  ASSUME OrderlyPrograms, ClientInv, ThreadFlags
  PROVE  ClientInv'
<1>1. /\ client = "alive" /\ caller = "idle" /\ made' = made + 1 /\ ~program.onLoop
      /\ UNCHANGED <<state, channel, timers, queue, calls, sockets, orphans, program, client,
                     conn, closeCallback, hold, deadCall>>
  BY DEF ThreadFlags, MayCall
<1>2. calls # <<"restart">> /\ made' # 0 /\ made' \in Nat
  BY <1>1 DEF ClientInv, Begun, ClientTypes
<1>3. CASE made = 0 /\ wanted' = TRUE /\ stopped' = FALSE /\ caller' = "startInLoop"
  <2>1. /\ queue = <<>> /\ timers = 0 /\ calls = <<>> /\ state = kDisconnected
        /\ conn = "none" /\ channel = NoChannel
    BY <1>3 DEF ClientInv, Begun
  <2>2. ClientTypes' /\ AttemptInv'
    BY <1>1, <1>2, <1>3 DEF ClientInv, ClientTypes, AttemptInv
  <2>3. OneAttempt'
    BY <1>1, <1>2, <2>1, NoTasks DEF OneAttempt
  <2>4. Begun'
    BY <1>1, <1>2 DEF Begun
  <2>5. ~Stopping'
    BY <1>1, <1>3, <2>1, NoTasks DEF Stopping
  <2>6. StopInv' /\ DeadInv'
    BY <1>1, <2>5 DEF ClientInv, StopInv, DeadInv
  <2> QED
    BY <2>2, <2>3, <2>4, <2>6 DEF ClientInv
<1>4. CASE wanted' = FALSE /\ askedToConnect' = FALSE /\ caller' = "stopInLoop"
  <2>1. ClientTypes' /\ AttemptInv'
    BY <1>1, <1>2, <1>4 DEF ClientInv, ClientTypes, AttemptInv
  <2>2. OneAttempt'
    BY <1>1, <1>2, <1>4 DEF ClientInv, OneAttempt
  <2>3. Begun'
    BY <1>1, <1>2 DEF Begun
  <2>4. StopInv' /\ DeadInv'
    BY <1>1, <1>2, <1>4 DEF ClientInv, StopInv, DeadInv
  <2> QED
    BY <2>1, <2>2, <2>3, <2>4 DEF ClientInv
<1>5. \/ made = 0 /\ wanted' = TRUE /\ stopped' = FALSE /\ caller' = "startInLoop"
      \/ wanted' = FALSE /\ askedToConnect' = FALSE /\ caller' = "stopInLoop"
  BY DEF ThreadFlags, MayCall, OrderlyPrograms, Orderly, ClientInv, ClientTypes
<1> QED
  BY <1>3, <1>4, <1>5

(* The task of such a call is queued.                                      *)
LEMMA ThreadQueuesKeeps ==
  ASSUME ClientInv, ThreadQueues
  PROVE  ClientInv'
<1>1. /\ caller # "idle" /\ queue' = Append(queue, caller) /\ caller' = "idle"
      /\ UNCHANGED <<wanted, state, channel, timers, calls, sockets, orphans, program, made,
                     askedToConnect, client, conn, closeCallback, hold, stopped, deadCall>>
  BY DEF ThreadQueues
<1>2. /\ queue \in Seq(ConnectorTasks) /\ StartFirst(queue) /\ caller \in ConnectorTasks
      /\ caller = "startInLoop" => queue = <<>>
  BY <1>1 DEF ClientInv, ClientTypes, OneAttempt, ConnectorTasks
<1>3. /\ queue' \in Seq(ConnectorTasks) /\ In(queue') = In(queue) \cup {caller}
      /\ StartFirst(queue')
  BY <1>1, <1>2, PutLast
<1>4. /\ ~program.onLoop /\ client # "dead" /\ calls # <<"restart">> /\ made # 0
      /\ caller \in {"startInLoop", "stopInLoop"}
  BY <1>1 DEF ClientInv, Begun, ClientTypes
<1>5. ClientTypes'
  BY <1>1, <1>3 DEF ClientInv, ClientTypes
<1>6. AttemptInv'
  BY <1>1, <1>3, <1>4 DEF ClientInv, AttemptInv
<1>7. OneAttempt'
  BY <1>1, <1>3, <1>4, NoTasks DEF ClientInv, OneAttempt
<1>8. Begun'
  BY <1>1, <1>4 DEF Begun
<1>9. StopInv'
  <2>1. Stopping' => Stopping
    BY <1>1, <1>3, <1>4 DEF Stopping
  <2> QED
    BY <1>1, <2>1 DEF ClientInv, StopInv
<1>10. DeadInv'
  BY <1>1, <1>4 DEF ClientInv, DeadInv
<1> QED
  BY <1>5, <1>6, <1>7, <1>8, <1>9, <1>10 DEF ClientInv

(* TcpClient::disconnect.                                                  *)
LEMMA DisconnectKeeps ==
  ASSUME ClientInv, Disconnect
  PROVE  ClientInv'
<1>1. /\ client = "alive" /\ caller = "idle" /\ made' = made + 1 /\ askedToConnect' = FALSE
      /\ conn' = IF conn = "up" THEN "shut" ELSE conn
      /\ UNCHANGED <<wanted, state, channel, timers, queue, calls, sockets, orphans, program,
                     caller, client, closeCallback, hold, stopped, deadCall>>
  BY DEF Disconnect, MayCall, connectorVars
<1>2. made' # 0 /\ made' \in Nat /\ conn' \in {"none", "up", "shut"}
      /\ (conn' = "none" <=> conn = "none")
  BY <1>1 DEF ClientInv, ClientTypes
<1>3. ClientTypes' /\ AttemptInv'
  BY <1>1, <1>2 DEF ClientInv, ClientTypes, AttemptInv
<1>4. OneAttempt'
  BY <1>1, <1>2 DEF ClientInv, OneAttempt
<1>5. Begun'
  BY <1>1, <1>2 DEF ClientInv, Begun
<1>6. StopInv' /\ DeadInv'
  BY <1>1, <1>2 DEF ClientInv, StopInv, Stopping, DeadInv
<1> QED
  BY <1>3, <1>4, <1>5, <1>6 DEF ClientInv

(* TcpClient::~TcpClient.                                                  *)
LEMMA DestroyKeeps ==
  ASSUME OrderlyPrograms, ClientInv, Destroy
  PROVE  ClientInv'
<1>1. /\ client = "alive" /\ caller = "idle" /\ made' = made + 1 /\ program.onLoop
      /\ client' = "dead"
      /\ UNCHANGED <<program, caller, askedToConnect, stopped, deadCall>>
  BY DEF Destroy, MayCall
<1>2. queue = <<>> /\ calls = <<>>
  BY DEF Destroy, Polling, Idle, OrderlyPrograms, Orderly, ClientInv, ClientTypes
<1>3. made' # 0 /\ made' \in Nat /\ calls # <<"restart">>
  BY <1>1, <1>2, NoRestart DEF ClientInv, ClientTypes
<1>4. CASE /\ conn # "none" /\ closeCallback' = "detail" /\ conn' \in {conn, "shut"}
           /\ UNCHANGED <<connectorVars, hold>>
  <2>1. UNCHANGED <<wanted, state, channel, timers, queue, calls, sockets, orphans>>
    BY <1>4 DEF connectorVars
  <2>2. state = kConnected /\ timers = 0 /\ channel = NoChannel /\ conn' # "none"
    BY <1>2, <1>4, NoTasks DEF ClientInv, OneAttempt, AttemptInv, ClientTypes
  <2>3. ClientTypes' /\ AttemptInv'
    BY <1>1, <1>3, <1>4, <2>1 DEF ClientInv, ClientTypes, AttemptInv
  <2>4. OneAttempt'
    BY <1>1, <1>2, <1>3, <2>1, <2>2, NoTasks DEF OneAttempt
  <2>5. Begun'
    BY <1>1, <1>2, <1>3, <2>1, NoTasks DEF Begun
  <2>6. StopInv'
    <3>1. Stopping' => Stopping
      BY <1>1, <2>1 DEF Stopping
    <3> QED
      BY <1>1, <1>3, <2>1, <3>1 DEF ClientInv, StopInv
  <2>7. DeadInv'
    BY <1>1, <1>2, <1>3, <1>4, <2>1, <2>2 DEF ClientInv, DeadInv
  <2> QED
    BY <2>3, <2>4, <2>5, <2>6, <2>7 DEF ClientInv
<1>5. CASE /\ conn = "none" /\ stop /\ hold' = TRUE
           /\ UNCHANGED <<state, channel, timers, calls, sockets, orphans, conn, closeCallback>>
  <2>1. wanted' = FALSE /\ queue' = Append(<<>>, "stopInLoop")
    BY <1>2, <1>5 DEF stop
  <2>2. "stopInLoop" \in ConnectorTasks
    BY DEF ConnectorTasks
  <2>3. queue' \in Seq(ConnectorTasks) /\ In(queue') = {"stopInLoop"} /\ StartFirst(queue')
    BY <2>1, <2>2, PutLast, NoTasks
  <2>4. ClientTypes'
    BY <1>1, <1>3, <1>5, <2>1, <2>3 DEF ClientInv, ClientTypes
  <2>5. AttemptInv'
    BY <1>2, <1>5, <2>3, NoTasks DEF ClientInv, AttemptInv
  <2>6. OneAttempt'
    BY <1>1, <1>3, <1>5, <2>3 DEF ClientInv, OneAttempt
  <2>7. Begun'
    BY <1>1, <1>3, <1>5, <2>3 DEF Begun
  <2>8. StopInv' /\ DeadInv'
    BY <1>1, <1>3, <1>5, <2>1, <2>3 DEF ClientInv, StopInv, DeadInv
  <2> QED
    BY <2>4, <2>5, <2>6, <2>7, <2>8 DEF ClientInv
<1> QED
  BY <1>4, <1>5 DEF Destroy

(* The destructor's timer.                                                 *)
LEMMA HoldKeeps ==
  ASSUME ClientInv, HoldExpires
  PROVE  ClientInv'
<1>1. /\ queue = <<>> /\ calls = <<>> /\ hold' = FALSE
      /\ UNCHANGED <<wanted, state, channel, timers, queue, calls, sockets, orphans, program,
                     made, caller, askedToConnect, client, conn, closeCallback, stopped, deadCall>>
  BY DEF HoldExpires, Polling, Idle, connectorVars
<1>2. client = "dead" => state # kConnecting /\ channel = NoChannel
  BY <1>1, NoTasks DEF ClientInv, DeadInv, AttemptInv
<1>3. ClientTypes' /\ AttemptInv'
  BY <1>1 DEF ClientInv, ClientTypes, AttemptInv
<1>4. OneAttempt'
  BY <1>1 DEF ClientInv, OneAttempt
<1>5. Begun'
  BY <1>1 DEF ClientInv, Begun
<1>6. StopInv' /\ DeadInv'
  BY <1>1, <1>2 DEF ClientInv, StopInv, Stopping, DeadInv
<1> QED
  BY <1>3, <1>4, <1>5, <1>6 DEF ClientInv

(* Steps of the server, and none at all.                                   *)
LEMMA AsideKeeps ==
  ASSUME ClientInv, UNCHANGED <<wanted, state, channel, timers, queue, calls, sockets, orphans>>,
         UNCHANGED clientVars
  PROVE  ClientInv'
<1>1. UNCHANGED <<program, made, caller, askedToConnect, client, conn, closeCallback, hold,
                  stopped, deadCall>>
  BY DEF clientVars
<1>2. ClientTypes' /\ AttemptInv'
  BY <1>1 DEF ClientInv, ClientTypes, AttemptInv
<1>3. OneAttempt'
  BY <1>1 DEF ClientInv, OneAttempt
<1>4. Begun'
  BY <1>1 DEF ClientInv, Begun
<1>5. StopInv' /\ DeadInv'
  BY <1>1 DEF ClientInv, StopInv, Stopping, DeadInv
<1> QED
  BY <1>2, <1>3, <1>4, <1>5 DEF ClientInv

-----------------------------------------------------------------------------
(* The theorems.                                                           *)

(* Initially.                                                              *)
LEMMA ClientStarts ==
  ASSUME Init
  PROVE  ClientInv
<1> USE DEF Init, ConnectorInit
<1>1. <<>> \in Seq({"error", "write"}) /\ <<>> # <<"restart">>
  BY NoRestart
<1>2. ClientTypes
  BY <1>1, NoTasks DEF ClientTypes
<1>3. AttemptInv
  BY DEF AttemptInv
<1>4. OneAttempt
  BY <1>1, NoTasks DEF OneAttempt
<1>5. Begun
  BY <1>1, NoTasks DEF Begun
<1>6. StopInv /\ DeadInv
  BY NoTasks DEF StopInv, Stopping, DeadInv
<1> QED
  BY <1>2, <1>3, <1>4, <1>5, <1>6 DEF ClientInv

(* Every step of an orderly program, its loop and its server keeps the     *)
(* invariant.                                                              *)
LEMMA ClientKeeps ==
  ASSUME OrderlyPrograms, ClientInv, [Next]_vars
  PROVE  ClientInv'
<1>1. CASE ConnectOnLoop
  BY <1>1, ConnectKeeps
<1>2. CASE StopOnLoop
  BY <1>2, StopKeeps
<1>3. CASE ThreadFlags
  BY <1>3, ThreadKeeps
<1>4. CASE ThreadQueues
  BY <1>4, ThreadQueuesKeeps
<1>5. CASE Disconnect
  BY <1>5, DisconnectKeeps
<1>6. CASE Destroy
  BY <1>6, DestroyKeeps
<1>7. CASE ConnectorStep
  BY <1>7, EventKeeps, FailureKeeps, TimerKeeps, RunStartKeeps, RunResetKeeps
     DEF ConnectorStep
<1>8. CASE NewConnection
  BY <1>8, NewConnectionKeeps
<1>9. CASE StopStep
  BY <1>9, RunStopKeeps
<1>10. CASE HoldExpires
  BY <1>10, HoldKeeps
<1>11. CASE Restart
  BY <1>11, RestartKeeps
<1>12. CASE ConnectionCloses
  BY <1>12, CloseKeeps
<1>13. CASE ServerUpStep \/ ServerDownStep \/ UNCHANGED vars
  BY <1>13, AsideKeeps DEF ServerUpStep, ServerDownStep, ServerComesUp, ServerGoesDown, vars,
                           connectorVars
<1> QED
  BY <1>1, <1>2, <1>3, <1>4, <1>5, <1>6, <1>7, <1>8, <1>9, <1>10, <1>11, <1>12, <1>13
     DEF Next, LoopStep

(* An attempt has one socket and a channel the poller knows, and without   *)
(* an attempt there is neither, for every number of retries and outages    *)
(* (Connector::retry, Connector::resetChannel).                            *)
THEOREM AttemptAlwaysSound ==
  ASSUME OrderlyPrograms
  PROVE  Spec => []AttemptIsSound
<1>1. Init => ClientInv
  BY ClientStarts
<1>2. ClientInv /\ [Next]_vars => ClientInv'
  BY ClientKeeps
<1>3. ClientInv => AttemptIsSound
  <2> SUFFICES ASSUME ClientInv
               PROVE  AttemptIsSound
    OBVIOUS
  <2>1. {queue[i] : i \in DOMAIN queue} = In(queue)
    BY DEF ClientInv, ClientTypes, In
  <2>2. state = kConnecting => channel # NoChannel /\ channel.registered
    BY WatchedChannel DEF ClientInv, AttemptInv, Watched
  <2> QED
    BY <2>1, <2>2 DEF ClientInv, AttemptInv, AttemptIsSound
<1> QED
  BY <1>1, <1>2, <1>3, PTL DEF Spec

(* Nothing calls a client that was destroyed, and a connector nobody holds *)
(* has no channel and no task (TcpClient::~TcpClient,                      *)
(* detail::removeConnection, detail::removeConnector).                     *)
THEOREM NothingDeadIsEverUsed ==
  ASSUME OrderlyPrograms
  PROVE  Spec => []NothingDeadIsUsed
<1>1. Init => ClientInv
  BY ClientStarts
<1>2. ClientInv /\ [Next]_vars => ClientInv'
  BY ClientKeeps
<1>3. ClientInv => NothingDeadIsUsed
  BY DEF ClientInv, ClientTypes, DeadInv, NothingDeadIsUsed, ConnectorAlive
<1> QED
  BY <1>1, <1>2, <1>3, PTL DEF Spec

(* A step of a client that stays stopped begins no attempt.                *)
LEMMA StoppedBeginsNothing ==
  ASSUME ClientInv, [Next]_vars, stopped, stopped', state # kConnecting
  PROVE  state' # kConnecting
<1>1. ~wanted /\ calls # <<"restart">>
  BY DEF ClientInv, StopInv, Stopping
<1>2. ASSUME NEW m, startInLoop(m), m.wanted = wanted, m.state = state
      PROVE  state' # kConnecting
  BY <1>1, <1>2 DEF startInLoop
<1>3. CASE RetryTimer
  <2>1. PICK m : m = [Members EXCEPT !.timers = @ - 1]
    OBVIOUS
  <2>2. m.wanted = wanted /\ m.state = state /\ startInLoop(m)
    BY <1>3, <2>1 DEF Members, RetryTimer
  <2> QED
    BY <1>2, <2>2
<1>4. CASE RunStart
  BY <1>2, <1>4 DEF Members, RunStart
<1>5. CASE Restart
  <2>1. ASSUME NEW s \in Seq({"error", "write"}), s # <<>>
        PROVE  Head(s) # "restart"
    BY <2>1
  <2> QED
    BY <1>1, <1>5, <2>1 DEF Restart, ClientInv, ClientTypes
<1>6. CASE ConnectOnLoop
  BY <1>6 DEF ConnectOnLoop
<1>7. CASE HandleFailure \/ NewConnection \/ StopStep
  BY <1>7 DEF HandleFailure, NewConnection, Connected, StopStep, RunStop, retry
<1>8. CASE \/ StopOnLoop \/ ThreadFlags \/ ThreadQueues \/ Disconnect \/ Destroy
           \/ ConnectEvent \/ RunReset \/ HoldExpires \/ ConnectionCloses
           \/ ServerUpStep \/ ServerDownStep \/ UNCHANGED vars
  BY <1>8 DEF StopOnLoop, ThreadFlags, ThreadQueues, Disconnect, Destroy, ConnectEvent,
              RunReset, HoldExpires, ConnectionCloses, ServerUpStep, ServerDownStep,
              ServerComesUp, ServerGoesDown, vars, connectorVars
<1> QED
  BY <1>3, <1>4, <1>5, <1>6, <1>7, <1>8 DEF Next, LoopStep, ConnectorStep

(* A client that was stopped stays stopped until connect() is called       *)
(* again: no timer and no restart begins an attempt (Connector::retry,     *)
(* TcpClient::removeConnection).                                           *)
THEOREM StopAlwaysSticks ==
  ASSUME OrderlyPrograms
  PROVE  Spec => StopSticks
<1>1. Init => ClientInv
  BY ClientStarts
<1>2. ClientInv /\ [Next]_vars => ClientInv'
  BY ClientKeeps
<1>3. ClientInv /\ [Next]_vars =>
        [stopped /\ stopped' => ~(state # kConnecting /\ state' = kConnecting)]_vars
  BY StoppedBeginsNothing
<1> QED
  BY <1>1, <1>2, <1>3, PTL DEF Spec, StopSticks

=============================================================================
