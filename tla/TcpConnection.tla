---------------------------- MODULE TcpConnection ----------------------------
(***************************************************************************)
(* One TcpConnection (web/net/tcp/TcpConnection.cpp) of a server with a    *)
(* main loop and an I/O loop on another thread, its channel, the part of   *)
(* TcpServer that establishes and removes it, and its peer.                *)
(*                                                                         *)
(* The loops are what EventLoop promises: a loop runs the callbacks of one *)
(* report of events in order, and between reports its queued tasks, first  *)
(* in first out.  Calls by the user come from callbacks on the I/O loop's  *)
(* thread or from other threads; a call from another thread tests _state,  *)
(* and later acts on what it saw.                                          *)
(*                                                                         *)
(* Data are units numbered in the order the connection accepts them; what  *)
(* reached the socket is the sequence wire.  A file is a run of units that *)
(* sendfile moves.                                                         *)
(***************************************************************************)
EXTENDS Channel, Naturals

CONSTANTS
    Threads,        \* other threads that call into the connection
    Usages,         \* the ways programs use the connection
    HighWaterMark,  \* _highWaterMark, in units
    MaxCalls,       \* bound: calls the user makes
    MaxLen          \* bound: units of one send or one file

AllOps == {"send", "sendFile", "shutdown", "forceClose", "startRead", "stopRead"}

\* A program makes some calls from callbacks and some from other threads, and
\* may destroy its TcpServer while the connection exists.
UsageType == [loopOps : SUBSET AllOps, threadOps : SUBSET AllOps,
              destroyServer : BOOLEAN]

ASSUME ConnectionAssumption ==
    /\ Usages \subseteq UsageType
    /\ HighWaterMark \in Nat \ {0}
    /\ MaxCalls \in Nat
    /\ MaxLen \in Nat \ {0}

kConnecting == "kConnecting"
kConnected == "kConnected"
kDisconnecting == "kDisconnecting"
kDisconnected == "kDisconnected"
States == {kConnecting, kConnected, kDisconnecting, kDisconnected}

VARIABLES
    usage,          \* how this program uses the connection; never changes
    _state,
    _reading,
    channel,        \* _channel
    _outputBuffer,  \* units waiting in the output buffer
    _sendFile,      \* units of the pending file not yet sent: _sendLen of them
    wire,           \* units handed to the socket, in order
    accepted,       \* units accepted so far (numbers them)
    fin,            \* shutdownWrite was done
    peer,           \* "open", "closed" (sent FIN) or "reset"
    input,          \* the peer's data wait in the socket
    error,          \* the socket has an error to report (SO_ERROR)
    callbacks,      \* callbacks of the current report still to be made
    pending,        \* tasks queued in the I/O loop
    mainPending,    \* tasks queued in the main loop
    inServer,       \* TcpServer::_connections holds the connection
    server,         \* the TcpServer exists
    checked,        \* checked[t]: the call of thread t that passed its test
    calls,          \* calls made so far
    closes,         \* how often handleClose ran (history)
    overtaken       \* something was sent while a file was pending (history)

sendVars == <<_outputBuffer, _sendFile, wire, accepted>>
peerVars == <<peer, input, error>>
serverVars == <<mainPending, inServer, server>>
userVars == <<usage, checked, calls>>
vars == <<_state, _reading, channel, sendVars, fin, peerVars, callbacks,
          pending, serverVars, userVars, closes, overtaken>>

Units == 1 .. (MaxCalls * MaxLen)

\* Tasks of the I/O loop.  A send carries the length of its message.
Task(op) == [op |-> op, len |-> 0]
TaskType ==
    [op : AllOps \cup {"connectEstablished", "connectDestroyed",
                       "writeComplete", "highWaterMark"},
     len : 0 .. MaxLen]

None == [op |-> "none", len |-> 0]

TypeOK ==
    /\ usage \in Usages
    /\ _state \in States
    /\ _reading \in BOOLEAN
    /\ channel \in ChannelType
    /\ _outputBuffer \in Seq(Units) /\ _sendFile \in Seq(Units)
    /\ wire \in Seq(Units)
    /\ accepted \in 0 .. (MaxCalls * MaxLen)
    /\ fin \in BOOLEAN
    /\ peer \in {"open", "closed", "reset"}
    /\ input \in BOOLEAN /\ error \in BOOLEAN
    /\ callbacks \in Seq({"close", "error", "read", "write"})
    /\ pending \in Seq(TaskType)
    /\ mainPending \in Seq({"removeConnectionInLoop"})
    /\ inServer \in BOOLEAN /\ server \in BOOLEAN
    /\ checked \in [Threads -> TaskType \cup {None}]
    /\ calls \in 0 .. MaxCalls
    /\ closes \in Nat
    /\ overtaken \in BOOLEAN

\* TcpServer::newConnection: the connection is made, entered into
\* _connections, and connectEstablished queued in its loop.
Init ==
    /\ usage \in Usages
    /\ _state = kConnecting
    /\ _reading = TRUE
    /\ channel = NewChannel
    /\ _outputBuffer = <<>> /\ _sendFile = <<>>
    /\ wire = <<>> /\ accepted = 0
    /\ fin = FALSE
    /\ peer = "open" /\ input = FALSE /\ error = FALSE
    /\ callbacks = <<>>
    /\ pending = <<Task("connectEstablished")>>
    /\ mainPending = <<>>
    /\ inServer = TRUE /\ server = TRUE
    /\ checked = [t \in Threads |-> None]
    /\ calls = 0
    /\ closes = 0
    /\ overtaken = FALSE

-----------------------------------------------------------------------------
(* The peer and the socket.                                                *)

PeerSends ==
    /\ peer = "open" /\ ~input
    /\ input' = TRUE
    /\ UNCHANGED <<_state, _reading, channel, sendVars, fin, peer, error,
                   callbacks, pending, serverVars, userVars, closes, overtaken>>

PeerCloses ==
    /\ peer = "open"
    /\ peer' = "closed"
    /\ UNCHANGED <<_state, _reading, channel, sendVars, fin, input, error,
                   callbacks, pending, serverVars, userVars, closes, overtaken>>

PeerResets ==
    /\ peer \in {"open", "closed"}
    /\ peer' = "reset"
    /\ error' = TRUE
    /\ UNCHANGED <<_state, _reading, channel, sendVars, fin, input, callbacks,
                   pending, serverVars, userVars, closes, overtaken>>

\* A write on this socket fails with EPIPE or ECONNRESET.
Broken == fin \/ peer = "reset"

\* The conditions epoll sees: a hangup is a reset, or both directions shut.
Conditions(writable) ==
    (IF peer = "reset" \/ (fin /\ peer = "closed") THEN {"hup"} ELSE {})
    \cup (IF error THEN {"err"} ELSE {})
    \cup (IF input \/ peer # "open" THEN {"in"} ELSE {})
    \cup (IF writable \/ Broken THEN {"out"} ELSE {})

-----------------------------------------------------------------------------
(* Output.                                                                 *)

\* Units newly accepted, in order.
NewUnits(len) == [i \in 1 .. len |-> accepted + i]

Drop(s, n) == SubSeq(s, n + 1, Len(s))
Take(s, n) == SubSeq(s, 1, n)

\* The task a complete write queues.
Complete(queue) == Append(queue, Task("writeComplete"))

\* Mutant of WritesDirectly: what waits is overtaken.
WritesAlways == TRUE

\* Nothing waits, so the socket is tried at once.
WritesDirectly == ~isWriting(channel) /\ _outputBuffer = <<>>

\* sendInLoop(message, len), where the socket takes n units at once; queue
\* is what waits in the loop.
sendInLoop(len, n, queue) ==
    LET data == NewUnits(len)
        direct == WritesDirectly
        fault == direct /\ Broken
        k == IF direct /\ ~fault THEN n ELSE 0
        rest == Drop(data, k)
        keep == ~fault /\ rest # <<>>
        old == Len(_outputBuffer)
        high == old + Len(rest) >= HighWaterMark /\ old < HighWaterMark
    IN  IF _state = kDisconnected
        THEN pending' = queue /\ UNCHANGED <<sendVars, channel, overtaken>>
        ELSE /\ n \in 0 .. len
             /\ accepted' = accepted + len
             /\ wire' = wire \o Take(data, k)
             /\ _outputBuffer' = IF keep THEN _outputBuffer \o rest ELSE _outputBuffer
             /\ channel' = IF keep /\ ~isWriting(channel) THEN enableWriting(channel)
                           ELSE channel
             /\ pending' = IF direct /\ k = len THEN Complete(queue)
                           ELSE IF keep /\ high
                                THEN Append(queue, Task("highWaterMark"))
                                ELSE queue
             /\ overtaken' = (overtaken \/ _sendFile # <<>>)
             /\ UNCHANGED _sendFile

\* sendFileInLoop() on the file in file, where sendfile takes n units.
sendFileInLoop(file, n) ==
    LET direct == WritesDirectly
        fault == direct /\ Broken
        k == IF direct /\ ~fault THEN n ELSE 0
        rest == Drop(file, k)
    IN  IF _state = kDisconnected
        THEN _sendFile' = file /\ UNCHANGED <<wire, channel>>
        ELSE /\ n \in 0 .. Len(file)
             /\ wire' = wire \o Take(file, k)
             /\ _sendFile' = rest
             /\ channel' = IF ~fault /\ rest # <<>> /\ ~isWriting(channel)
                           THEN enableWriting(channel) ELSE channel

\* shutdownInLoop() with the channel as ch.
shutdownInLoop(ch) == fin' = IF isWriting(ch) THEN fin ELSE TRUE

-----------------------------------------------------------------------------
(* handleClose(), also reached from handleRead and forceCloseInLoop.  The  *)
(* close callback is TcpServer::removeConnection, which hands              *)
(* removeConnectionInLoop to the main loop.                                *)
handleClose ==
    /\ _state' = kDisconnected
    /\ channel' = disableAll(channel)
    /\ mainPending' = Append(mainPending, "removeConnectionInLoop")
    /\ closes' = closes + 1
    /\ UNCHANGED <<inServer, server>>

\* Mutant of forceCloseInLoop: without the test of _state.
forceCloseUnchecked == handleClose

forceCloseInLoop ==
    IF _state \in {kConnected, kDisconnecting}
    THEN handleClose
    ELSE UNCHANGED <<_state, channel, serverVars, closes>>

-----------------------------------------------------------------------------
(* The I/O loop.  A report is handled to the end before the next task.     *)

Idle == callbacks = <<>>

\* epoll_wait reports the channel; whether the socket has room is the
\* peer's doing.
PollReports(writable) ==
    /\ Idle
    /\ callbacks' = Callbacks(Reported(channel, Conditions(writable)), EveryCallback)
    /\ callbacks' # <<>>
    /\ UNCHANGED <<_state, _reading, channel, sendVars, fin, peerVars, pending,
                   serverVars, userVars, closes, overtaken>>

\* The next callback of the report is cb.
NextCallback(cb) == callbacks # <<>> /\ Head(callbacks) = cb /\ callbacks' = Tail(callbacks)

\* handleRead: data, for the message callback; an error, which is only logged;
\* 0 when the peer is gone and its error, if any, was told.
HandleRead ==
    /\ NextCallback("read")
    /\ \/ /\ input
          /\ input' = FALSE
          /\ UNCHANGED <<_state, channel, serverVars, closes, error>>
       \/ /\ ~input /\ error
          /\ error' = FALSE
          /\ UNCHANGED <<_state, channel, serverVars, closes, input>>
       \/ /\ ~input /\ ~error /\ peer # "open"
          /\ handleClose
          /\ UNCHANGED <<input, error>>
    /\ UNCHANGED <<_reading, sendVars, fin, peer, pending, userVars, overtaken>>

HandleCloseEvent ==
    /\ NextCallback("close")
    /\ handleClose
    /\ UNCHANGED <<_reading, sendVars, fin, peerVars, pending, userVars, overtaken>>

\* handleError reads SO_ERROR, which clears it, and logs.
HandleError ==
    /\ NextCallback("error")
    /\ error' = FALSE
    /\ UNCHANGED <<_state, _reading, channel, sendVars, fin, peer, input, pending,
                   serverVars, userVars, closes, overtaken>>

\* handleWrite when nothing can or need be written: only a log line.
HandleWriteNothing ==
    /\ NextCallback("write")
    /\ ~isWriting(channel) \/ (_outputBuffer # <<>> /\ Broken)
    /\ UNCHANGED <<_state, _reading, channel, sendVars, fin, peerVars, pending,
                   serverVars, userVars, closes, overtaken>>

\* Mutant of OutputDone: a shutdown that waited for the output is forgotten.
OutputDoneNoShutdown ==
    /\ channel' = disableWriting(channel)
    /\ UNCHANGED fin

\* The end of the output: stop writing and, when the connection is shutting
\* down, shut down the write side.
OutputDone ==
    /\ channel' = disableWriting(channel)
    /\ IF _state = kDisconnecting THEN shutdownInLoop(channel') ELSE UNCHANGED fin

\* handleWrite: n units of the output buffer.
HandleWriteBuffer(n) ==
    /\ NextCallback("write")
    /\ isWriting(channel) /\ _outputBuffer # <<>> /\ ~Broken
    /\ n \in 1 .. Len(_outputBuffer)
    /\ wire' = wire \o Take(_outputBuffer, n)
    /\ _outputBuffer' = Drop(_outputBuffer, n)
    /\ IF _outputBuffer' = <<>> /\ _sendFile = <<>>
       THEN OutputDone /\ pending' = Complete(pending)
       ELSE UNCHANGED <<channel, fin, pending>>
    /\ UNCHANGED <<_state, _reading, _sendFile, accepted, peerVars, serverVars,
                   userVars, closes, overtaken>>

\* handleWrite: the buffer is empty, so it is the file's turn; n units.
HandleWriteFile(n) ==
    /\ NextCallback("write")
    /\ isWriting(channel) /\ _outputBuffer = <<>> /\ ~Broken
    /\ n \in 1 .. Len(_sendFile)
    /\ wire' = wire \o Take(_sendFile, n)
    /\ _sendFile' = Drop(_sendFile, n)
    /\ IF _sendFile' = <<>> THEN OutputDone ELSE UNCHANGED <<channel, fin>>
    /\ UNCHANGED <<_state, _reading, _outputBuffer, accepted, peerVars, pending,
                   serverVars, userVars, closes, overtaken>>

\* handleWrite: sendfile failed (the socket, or the file): give the file up.
HandleWriteFileFails ==
    /\ NextCallback("write")
    /\ isWriting(channel) /\ _outputBuffer = <<>>
    /\ _sendFile' = <<>>
    /\ channel' = disableWriting(channel)
    /\ UNCHANGED <<_state, _reading, _outputBuffer, wire, accepted, fin,
                   peerVars, pending, serverVars, userVars, closes, overtaken>>

-----------------------------------------------------------------------------
(* Tasks of the I/O loop.                                                  *)

NextTask(op) == Idle /\ pending # <<>> /\ Head(pending).op = op

ConnectEstablished ==
    /\ NextTask("connectEstablished")
    /\ pending' = Tail(pending)
    /\ _state' = kConnected
    /\ channel' = enableReading(channel)
    /\ UNCHANGED <<_reading, sendVars, fin, peerVars, callbacks, serverVars,
                   userVars, closes, overtaken>>

ConnectDestroyed ==
    /\ NextTask("connectDestroyed")
    /\ pending' = Tail(pending)
    /\ IF _state = kConnected
       THEN /\ _state' = kDisconnected
            /\ channel' = removeChannel(disableAll(channel))
       ELSE /\ channel' = removeChannel(channel)
            /\ UNCHANGED _state
    /\ UNCHANGED <<_reading, sendVars, fin, peerVars, callbacks, serverVars,
                   userVars, closes, overtaken>>

\* The user's writeComplete and highWaterMark callbacks.
UserCallback ==
    /\ NextTask("writeComplete") \/ NextTask("highWaterMark")
    /\ pending' = Tail(pending)
    /\ UNCHANGED <<_state, _reading, channel, sendVars, fin, peerVars,
                   callbacks, serverVars, userVars, closes, overtaken>>

\* The queued half of a call, n units going to the socket at once.
InLoop(op, len, n, queue) ==
    \/ /\ op = "send"
       /\ sendInLoop(len, n, queue)
       /\ UNCHANGED <<_state, _reading, fin, serverVars, closes>>
    \/ /\ op = "sendFile"
       /\ sendFileInLoop(_sendFile, n)
       /\ pending' = queue
       /\ UNCHANGED <<_state, _reading, _outputBuffer, accepted, fin, serverVars,
                      closes, overtaken>>
    \/ /\ op = "shutdown" /\ n = 0
       /\ shutdownInLoop(channel)
       /\ pending' = queue
       /\ UNCHANGED <<_state, _reading, channel, sendVars, serverVars, closes,
                      overtaken>>
    \/ /\ op = "forceClose" /\ n = 0
       /\ forceCloseInLoop
       /\ pending' = queue
       /\ UNCHANGED <<_reading, sendVars, fin, overtaken>>
    \/ /\ op = "startRead" /\ n = 0
       /\ IF ~_reading \/ ~isReading(channel)
          THEN channel' = enableReading(channel) /\ _reading' = TRUE
          ELSE UNCHANGED <<channel, _reading>>
       /\ pending' = queue
       /\ UNCHANGED <<_state, sendVars, fin, serverVars, closes, overtaken>>
    \/ /\ op = "stopRead" /\ n = 0
       /\ IF _reading \/ isReading(channel)
          THEN channel' = disableReading(channel) /\ _reading' = FALSE
          ELSE UNCHANGED <<channel, _reading>>
       /\ pending' = queue
       /\ UNCHANGED <<_state, sendVars, fin, serverVars, closes, overtaken>>

RunTask(n) ==
    /\ Idle /\ pending # <<>> /\ Head(pending).op \in AllOps
    /\ InLoop(Head(pending).op, Head(pending).len, n, Tail(pending))
    /\ UNCHANGED <<peerVars, callbacks, userVars>>

-----------------------------------------------------------------------------
(* The user.                                                               *)

\* Mutant of Allowed: forceClose makes no test either.
AllowedForceClose(op) ==
    op \in {"send", "sendFile", "shutdown"} => _state = kConnected

\* The test a call makes of _state; startRead and stopRead make none.
Allowed(op) ==
    CASE op \in {"send", "sendFile", "shutdown"} -> _state = kConnected
      [] op = "forceClose" -> _state \in {kConnected, kDisconnecting}
      [] OTHER -> TRUE

Lengths(op) == IF op \in {"send", "sendFile"} THEN 1 .. MaxLen ELSE {0}

NewCall == calls < MaxCalls /\ calls' = calls + 1

\* What a call does in the caller's thread before its queued half: shutdown
\* and forceClose set the state, sendFile the descriptor and the length.
CallerHalf(op, len) ==
    /\ _state' = IF op \in {"shutdown", "forceClose"} THEN kDisconnecting ELSE _state
    /\ IF op = "sendFile"
       THEN /\ _sendFile' = NewUnits(len)
            /\ accepted' = accepted + len
            /\ overtaken' = (overtaken \/ _sendFile # <<>>)
       ELSE UNCHANGED <<_sendFile, accepted, overtaken>>

\* A callback on the I/O loop's thread calls send, startRead or stopRead:
\* the queued half runs at once.
LoopCall(op, len, n) ==
    /\ op \in usage.loopOps \cap {"send", "startRead", "stopRead"}
    /\ _state # kConnecting /\ NewCall /\ Allowed(op) /\ len \in Lengths(op)
    /\ InLoop(op, len, n, pending)
    /\ UNCHANGED <<peerVars, callbacks, usage, checked>>

\* sendFile from a callback.
LoopSendFile(len, n) ==
    /\ "sendFile" \in usage.loopOps
    /\ NewCall /\ Allowed("sendFile") /\ len \in Lengths("sendFile")
    /\ accepted' = accepted + len
    /\ overtaken' = (overtaken \/ _sendFile # <<>>)
    /\ sendFileInLoop(NewUnits(len), n)
    /\ UNCHANGED <<_state, _reading, _outputBuffer, fin, peerVars, callbacks,
                   pending, serverVars, usage, checked, closes>>

\* shutdown from a callback.
LoopShutdown ==
    /\ "shutdown" \in usage.loopOps
    /\ NewCall /\ Allowed("shutdown")
    /\ _state' = kDisconnecting
    /\ shutdownInLoop(channel)
    /\ UNCHANGED <<_reading, channel, sendVars, peerVars, callbacks, pending,
                   serverVars, usage, checked, closes, overtaken>>

\* forceClose from a callback: its second half is queued even there.
LoopForceClose ==
    /\ "forceClose" \in usage.loopOps
    /\ NewCall /\ Allowed("forceClose")
    /\ CallerHalf("forceClose", 0)
    /\ pending' = Append(pending, Task("forceClose"))
    /\ UNCHANGED <<_reading, channel, _outputBuffer, wire, fin, peerVars,
                   callbacks, serverVars, usage, checked, closes>>

\* Another thread calls: it tests _state ...
ThreadTest(t, op, len) ==
    /\ checked[t] = None /\ op \in usage.threadOps
    /\ NewCall /\ Allowed(op) /\ len \in Lengths(op)
    /\ checked' = [checked EXCEPT ![t] = [op |-> op, len |-> len]]
    /\ UNCHANGED <<_state, _reading, channel, sendVars, fin, peerVars,
                   callbacks, pending, serverVars, usage, closes, overtaken>>

\* ... and then acts, whatever _state has become.
ThreadActs(t) ==
    /\ checked[t] # None
    /\ CallerHalf(checked[t].op, checked[t].len)
    /\ pending' = Append(pending, checked[t])
    /\ checked' = [checked EXCEPT ![t] = None]
    /\ UNCHANGED <<_reading, channel, _outputBuffer, wire, fin, peerVars,
                   callbacks, serverVars, usage, calls, closes>>

-----------------------------------------------------------------------------
(* TcpServer, on the main loop's thread.                                   *)

\* Mutant of RemoveConnectionInLoop: connectDestroyed is not queued.
RemoveConnectionOnly ==
    /\ mainPending # <<>> /\ server
    /\ mainPending' = Tail(mainPending)
    /\ inServer' = FALSE
    /\ UNCHANGED <<_state, _reading, channel, sendVars, fin, peerVars, pending,
                   callbacks, server, userVars, closes, overtaken>>

\* removeConnectionInLoop: forget the connection, queue connectDestroyed.
\* The task holds the server's address: what it does once the server is
\* destroyed is undefined and not followed further.
RemoveConnectionInLoop ==
    /\ mainPending # <<>> /\ server
    /\ mainPending' = Tail(mainPending)
    /\ inServer' = FALSE
    /\ pending' = Append(pending, Task("connectDestroyed"))
    /\ UNCHANGED <<_state, _reading, channel, sendVars, fin, peerVars,
                   callbacks, server, userVars, closes, overtaken>>

\* ~TcpServer: hand connectDestroyed to the loop of every connection left.
ServerDestroyed ==
    /\ usage.destroyServer /\ server
    /\ server' = FALSE
    /\ inServer' = FALSE
    /\ pending' = IF inServer THEN Append(pending, Task("connectDestroyed")) ELSE pending
    /\ UNCHANGED <<_state, _reading, channel, sendVars, fin, peerVars,
                   callbacks, mainPending, userVars, closes, overtaken>>

-----------------------------------------------------------------------------
Sizes == 0 .. (MaxCalls * MaxLen)

Handlers ==
    \/ HandleRead \/ HandleCloseEvent \/ HandleError \/ HandleWriteNothing
    \/ \E n \in Sizes : HandleWriteBuffer(n) \/ HandleWriteFile(n)
    \/ HandleWriteFileFails

Tasks ==
    \/ \E n \in Sizes : RunTask(n)
    \/ ConnectEstablished \/ ConnectDestroyed \/ UserCallback

UserStep ==
    \/ \E op \in usage.loopOps, len \in 0 .. MaxLen, n \in 0 .. MaxLen : LoopCall(op, len, n)
    \/ \E len \in 1 .. MaxLen, n \in 0 .. MaxLen : LoopSendFile(len, n)
    \/ LoopShutdown \/ LoopForceClose
    \/ \E t \in Threads, op \in usage.threadOps, len \in 0 .. MaxLen : ThreadTest(t, op, len)

PeerStep == PeerSends \/ PeerCloses \/ PeerResets

Next ==
    \/ Handlers
    \/ Tasks
    \/ \E writable \in BOOLEAN : PollReports(writable)
    \/ \E t \in Threads : ThreadActs(t)
    \/ UserStep
    \/ PeerStep
    \/ RemoveConnectionInLoop
    \/ ServerDestroyed

Spec == Init /\ [][Next]_vars

(* Both loops and the threads inside a call keep running.  The I/O loop    *)
(* runs its tasks in every turn (EventLoop.cpp:124), however many reports  *)
(* it handles: strong fairness of Tasks.  Room in the socket, once there,  *)
(* stays until something is written, and a peer that does not go away      *)
(* makes room sooner or later: strong fairness of the report of it.        *)
(* Nothing is assumed of what the user calls or when the peer acts.        *)
Fairness ==
    /\ WF_vars(Handlers)
    /\ SF_vars(Tasks)
    /\ SF_vars(PollReports(TRUE))
    /\ WF_vars(RemoveConnectionInLoop)
    /\ \A t \in Threads : WF_vars(ThreadActs(t))

FairSpec == Spec /\ Fairness

-----------------------------------------------------------------------------
(* Properties.                                                             *)

(* Once the poller has removed the channel (index kNew), epoll no longer   *)
(* watches the descriptor: "make sure disableAll was called before this    *)
(* function" (Channel.cpp:116).                                            *)
RemovedIsUnwatched == channel.index = kNew => ~channel.registered

(* handleClose runs at most once, so that the user and the server are told *)
(* of the end of the connection once: the assertion                        *)
(* "_state == kConnected || _state == kDisconnecting" of                   *)
(* TcpConnection.cpp:331.                                                  *)
ClosedOnce == closes <= 1 /\ RemovedIsUnwatched

(* A connection that was closed stays closed: the state diagram of         *)
(* TcpConnection.h:88-95 has no way out of Disconnected.                   *)
DisconnectedIsFinal == [][_state = kDisconnected => _state' = kDisconnected]_vars

(* Data that wait are being waited for: while the connection is up the     *)
(* channel watches for writability exactly when the output buffer or the   *)
(* file has something left, so output neither stalls nor spins             *)
(* (TcpConnection.cpp:130-149, 264-313, 399-408).                          *)
WritingIffPending ==
    _state \in {kConnected, kDisconnecting} /\ ~Broken =>
        (isWriting(channel) <=> _outputBuffer # <<>> \/ _sendFile # <<>>)

(* A graceful shutdown loses nothing: when the write side is shut, all     *)
(* that was accepted before is on the wire (TcpConnection.cpp:281, 418).   *)
FinAfterData ==
    fin /\ peer # "reset" => _outputBuffer = <<>> /\ _sendFile = <<>>

(* What reaches the socket is what was accepted, in the order it was       *)
(* accepted: the output buffer, the file and the direct write never        *)
(* overtake one another, as long as the user sends nothing while a file is *)
(* under way.  And nothing is left out, as long as no write has failed and *)
(* no file was given up (TcpConnection.cpp:266-305, 366-408).  What waits  *)
(* is waited for, and the write side is shut after the data.               *)
WireInOrder ==
    /\ ~overtaken =>
        /\ \A i, j \in DOMAIN wire : i < j => wire[i] < wire[j]
        /\ \A i \in DOMAIN wire, j \in DOMAIN _outputBuffer : wire[i] < _outputBuffer[j]
        /\ \A i \in DOMAIN wire, j \in DOMAIN _sendFile : wire[i] < _sendFile[j]
    /\ "sendFile" \notin usage.loopOps \cup usage.threadOps /\ ~Broken =>
        wire \o _outputBuffer = [i \in 1 .. accepted |-> i]
    /\ WritingIffPending /\ FinAfterData

(* shutdown() comes to its end: the write side is shut or the connection   *)
(* closed.                                                                 *)
ShutdownCompletes ==
    (_state = kDisconnecting) ~> (fin \/ _state = kDisconnected)

(* A connection that is closed while the server holds it comes to be       *)
(* forgotten by the server and by the poller (TcpServer.cpp:99-112,        *)
(* TcpConnection.cpp:215-223).                                             *)
ClosedIsForgotten ==
    (_state = kDisconnected /\ inServer) ~> (~inServer /\ channel.index = kNew)

=============================================================================
