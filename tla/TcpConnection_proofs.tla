------------------------- MODULE TcpConnection_proofs -------------------------
(***************************************************************************)
(* Proofs about TcpConnection, for any number of threads, calls and units, *)
(* and for any program that uses the connection in an orderly way.         *)
(***************************************************************************)
EXTENDS TcpConnection, SequenceTheorems, TLAPS

\* A program that does not stop and restart reading, that calls from other
\* threads only to send, and that does not end a connection itself when it
\* destroys the server under it.  Other programs can make handleClose run
\* twice, or end a connection that is already closed.
Orderly(u) ==
    /\ u.loopOps \cap {"startRead", "stopRead"} = {}
    /\ u.threadOps \subseteq {"send"}
    /\ u.destroyServer => u.loopOps \cap {"shutdown", "forceClose"} = {}

OrderlyUse == \A u \in Usages : Orderly(u)

-----------------------------------------------------------------------------
(* The channel of a connection.                                            *)

\* The channel of a connection that is up: watched for reading at least.
Open(ch) ==
    /\ ch \in ChannelType
    /\ ch.index = kAdded /\ ch.registered = TRUE
    /\ "read" \in ch.events /\ ch.mask = ch.events

\* The channel of a connection that is closed.
Shut(ch) ==
    /\ ch \in ChannelType
    /\ ch.index \in {kNew, kDeleted} /\ ch.registered = FALSE
    /\ ch.events = {}

(* connectEstablished begins to watch the channel                          *)
(* (TcpConnection.cpp:199-213).                                            *)
LEMMA EstablishOpens == Open(enableReading(NewChannel))
  BY DEF Open, NewChannel, enableReading, UpdateChannel, EpollAdd, ChannelType,
         Interest, kNew, kAdded, kDeleted

(* Switching the interest in writing keeps the channel open.               *)
LEMMA WritingKeepsOpen ==
  ASSUME NEW ch, Open(ch)
  PROVE  /\ Open(enableWriting(ch)) /\ isWriting(enableWriting(ch))
         /\ Open(disableWriting(ch)) /\ ~isWriting(disableWriting(ch))
  BY DEF Open, enableWriting, disableWriting, isWriting, UpdateChannel,
         EpollMod, isNonEvent, ChannelType, Interest, kNew, kAdded, kDeleted

(* disableAll of an open channel takes it out of the epoll set             *)
(* (TcpConnection.cpp:329-341).                                            *)
LEMMA DisableAllShuts ==
  ASSUME NEW ch, Open(ch)
  PROVE  Shut(disableAll(ch))
  BY DEF Open, Shut, disableAll, UpdateChannel, EpollDel, isNonEvent,
         ChannelType, Interest, kNew, kAdded, kDeleted

(* connectDestroyed removes a closed channel (TcpConnection.cpp:215-223).  *)
LEMMA RemoveKeepsShut ==
  ASSUME NEW ch, Shut(ch)
  PROVE  Shut(removeChannel(ch))
  BY DEF Shut, removeChannel, EpollDel, isNonEvent, ChannelType, Interest,
         kNew, kAdded, kDeleted

(* A channel that is shut is neither reported nor written.                 *)
LEMMA ShutIsSilent ==
  ASSUME NEW ch, Shut(ch) \/ ch = NewChannel, NEW conditions
  PROVE  ~isWriting(ch) /\ Reported(ch, conditions) = {}
  BY DEF Shut, NewChannel, isWriting, Reported

-----------------------------------------------------------------------------
(* Reports.                                                                *)

\* A report without the close callback, in which the input is looked at at
\* most once.
Reports ==
    {s \in Seq({"error", "read", "write"}) :
        \A i, j \in 1 .. Len(s) : s[i] = "read" /\ s[j] = "read" => i = j}

(* A sequence whose elements are in a set is a sequence over that set.     *)
LEMMA SeqOf ==
  ASSUME NEW S, NEW T, NEW s \in Seq(S), \A i \in 1 .. Len(s) : s[i] \in T
  PROVE  s \in Seq(T)
<1>1. s \in [1 .. Len(s) -> S] /\ Len(s) \in Nat
  BY LenProperties
<1>2. s \in [1 .. Len(s) -> T]
  BY <1>1
<1> QED
  BY <1>1, <1>2

(* A report without a hangup, or with input, is one of them                *)
(* (Channel.cpp:51-85).                                                    *)
LEMMA ReportShape ==
  ASSUME NEW revents, "hup" \in revents => "in" \in revents
  PROVE  Callbacks(revents, EveryCallback) \in Reports
<1> DEFINE e == IF "err" \in revents THEN <<"error">> ELSE <<>>
           r == IF "in" \in revents THEN <<"read">> ELSE <<>>
           w == IF "out" \in revents THEN <<"write">> ELSE <<>>
           c == IF "hup" \in revents /\ "in" \notin revents THEN <<"close">> ELSE <<>>
           T == {"error", "read", "write"}
<1>1. Callbacks(revents, EveryCallback) = ((c \o e) \o r) \o w
  BY DEF Callbacks, EveryCallback
<1>2. /\ e \in Seq({"error"}) /\ w \in Seq({"write"}) /\ r \in Seq({"read"})
      /\ Len(r) <= 1
      /\ e \in Seq(T) /\ w \in Seq(T) /\ r \in Seq(T) /\ c = <<>>
  <2>1. <<"error">> \in Seq({"error"}) /\ <<"error">> \in Seq(T)
    OBVIOUS
  <2>2. <<"write">> \in Seq({"write"}) /\ <<"write">> \in Seq(T)
    OBVIOUS
  <2>3. <<"read">> \in Seq({"read"}) /\ <<"read">> \in Seq(T) /\ Len(<<"read">>) = 1
    OBVIOUS
  <2>4. <<>> \in Seq({"error"}) /\ <<>> \in Seq({"write"}) /\ <<>> \in Seq({"read"})
        /\ <<>> \in Seq(T) /\ Len(<<>>) = 0
    OBVIOUS
  <2>5. e \in Seq({"error"}) /\ e \in Seq(T)
    BY <2>1, <2>4
  <2>6. w \in Seq({"write"}) /\ w \in Seq(T)
    BY <2>2, <2>4
  <2>7. r \in Seq({"read"}) /\ r \in Seq(T) /\ Len(r) <= 1
    <3>1. CASE "in" \in revents
      BY <3>1, <2>3
    <3>2. CASE "in" \notin revents
      BY <3>2, <2>4
    <3> QED
      BY <3>1, <3>2
  <2> QED
    BY <2>5, <2>6, <2>7
<1> HIDE DEF e, r, w, c
<1>3. c \o e = e
  BY <1>2, ConcatEmptySeq
<1>4. /\ e \o r \in Seq(T)
      /\ Len(e \o r) = Len(e) + Len(r)
      /\ \A i \in 1 .. Len(e) + Len(r) :
            (e \o r)[i] = IF i <= Len(e) THEN e[i] ELSE r[i - Len(e)]
  BY <1>2, ConcatProperties
<1>5. /\ (e \o r) \o w \in Seq(T)
      /\ Len((e \o r) \o w) = Len(e \o r) + Len(w)
      /\ \A i \in 1 .. Len(e \o r) + Len(w) :
            ((e \o r) \o w)[i] = IF i <= Len(e \o r) THEN (e \o r)[i]
                                 ELSE w[i - Len(e \o r)]
  BY <1>2, <1>4, ConcatProperties
<1>6. Len(e) \in Nat /\ Len(r) \in Nat /\ Len(w) \in Nat
  BY <1>2
<1>7. ASSUME NEW i \in 1 .. Len((e \o r) \o w), ((e \o r) \o w)[i] = "read"
      PROVE  i = Len(e) + 1
  <2>1. i <= Len(e \o r)
    <3>1. i \in Nat /\ Len(e \o r) \in Nat
      BY <1>4, <1>6, <1>5
    <3>2. SUFFICES ASSUME i > Len(e \o r) PROVE FALSE
      BY <3>1
    <3>3. ((e \o r) \o w)[i] = w[i - Len(e \o r)] /\ i - Len(e \o r) \in 1 .. Len(w)
      BY <3>1, <3>2, <1>5, <1>6
    <3>4. w[i - Len(e \o r)] \in {"write"}
      BY <3>3, <1>2, ElementOfSeq
    <3> QED
      BY <3>3, <3>4, <1>7
  <2>2. ((e \o r) \o w)[i] = (e \o r)[i] /\ i \in 1 .. Len(e) + Len(r)
    BY <2>1, <1>4, <1>5, <1>6
  <2>3. i > Len(e)
    <3>1. SUFFICES ASSUME i <= Len(e) PROVE FALSE
      BY <2>2, <1>6
    <3>2. (e \o r)[i] = e[i] /\ i \in 1 .. Len(e)
      BY <3>1, <2>2, <1>4, <1>6
    <3>3. e[i] \in {"error"}
      BY <3>2, <1>2, ElementOfSeq
    <3> QED
      BY <3>2, <3>3, <2>2, <1>7
  <2> QED
    BY <2>2, <2>3, <1>2, <1>6
<1> QED
  BY <1>1, <1>3, <1>5, <1>7 DEF Reports

(* What remains of a report is one; what remains after the input was       *)
(* looked at does not look at it again.                                    *)
LEMMA ReportTail ==
  ASSUME NEW s \in Reports, s # <<>>
  PROVE  /\ Tail(s) \in Reports
         /\ Head(s) # "close"
         /\ Head(s) = "read" => Tail(s) \in Seq({"error", "write"})
<1> DEFINE T == {"error", "read", "write"}
<1>1. s \in Seq(T) /\ Len(s) \in Nat /\ Len(s) > 0
  BY DEF Reports
<1>2. /\ Head(s) \in T /\ Head(s) = s[1] /\ Tail(s) \in Seq(T)
      /\ Len(Tail(s)) = Len(s) - 1
      /\ \A i \in 1 .. Len(Tail(s)) : Tail(s)[i] = s[i + 1]
  BY <1>1, HeadTailProperties
<1>3. \A i, j \in 1 .. Len(s) : s[i] = "read" /\ s[j] = "read" => i = j
  BY DEF Reports
<1>4. Tail(s) \in Reports
  <2> SUFFICES ASSUME NEW i \in 1 .. Len(Tail(s)), NEW j \in 1 .. Len(Tail(s)),
                      Tail(s)[i] = "read", Tail(s)[j] = "read"
               PROVE  i = j
    BY <1>2 DEF Reports
  <2>1. i + 1 \in 1 .. Len(s) /\ j + 1 \in 1 .. Len(s)
    BY <1>1, <1>2
  <2>2. s[i + 1] = "read" /\ s[j + 1] = "read"
    BY <1>2
  <2> QED
    BY <2>1, <2>2, <1>3
<1>5. ASSUME Head(s) = "read"
      PROVE  Tail(s) \in Seq({"error", "write"})
  <2>1. ASSUME NEW i \in 1 .. Len(Tail(s))
        PROVE  Tail(s)[i] \in {"error", "write"}
    <3>1. i + 1 \in 1 .. Len(s) /\ i + 1 # 1 /\ 1 \in 1 .. Len(s)
      BY <1>1, <1>2
    <3>2. s[i + 1] \in T /\ s[i + 1] # "read"
      BY <3>1, <1>1, <1>2, <1>3, <1>5, ElementOfSeq
    <3> QED
      BY <3>2, <1>2
  <2> QED
    BY <2>1, <1>2, SeqOf
<1> QED
  BY <1>2, <1>4, <1>5

-----------------------------------------------------------------------------
(* The life of the connection.                                             *)

Up == _state \in {kConnected, kDisconnecting}

\* The channel is watched while the connection is up and only then.
ChannelInv ==
    /\ _state = kConnecting => channel = NewChannel /\ callbacks = <<>>
    /\ Up => Open(channel)
    /\ _state = kDisconnected => Shut(channel)

\* The end of the input is told once, so that it closes once.
CallbackInv ==
    /\ callbacks \in Reports
    /\ _state = kDisconnected => callbacks \in Seq({"error", "write"})

\* What may wait in the I/O loop once the connection is established.  The
\* server has a connection destroyed that is closed, or all of them.
Queued ==
    {k \in TaskType :
        /\ k.op \in {"connectDestroyed", "send", "forceClose", "writeComplete",
                     "highWaterMark"}
        /\ k.op = "connectDestroyed" => usage.destroyServer \/ _state = kDisconnected}

\* connectEstablished is the first task of all.
TaskInv ==
    /\ _state = kConnecting =>
        /\ pending \in Seq(TaskType) /\ pending # <<>>
        /\ Head(pending).op = "connectEstablished" /\ Tail(pending) \in Seq(Queued)
    /\ _state # kConnecting => pending \in Seq(Queued)

ThreadInv ==
    /\ checked \in [Threads -> TaskType \cup {None}]
    /\ \A t \in Threads : checked[t] # None => checked[t].op = "send"

\* Nobody but the server ends a connection of a server that is destroyed, and
\* handleClose is what tells the server.
EndInv ==
    /\ usage.destroyServer => _state # kDisconnecting
    /\ mainPending # <<>> => _state = kDisconnected
    /\ mainPending \in Seq({"removeConnectionInLoop"})
    /\ closes = 0 \/ (closes = 1 /\ _state = kDisconnected)

LifeInv ==
    /\ usage \in Usages /\ Orderly(usage) /\ _state \in States
    /\ ChannelInv /\ CallbackInv /\ TaskInv /\ ThreadInv /\ EndInv

(* Initially.                                                              *)
LEMMA LifeInit ==
  ASSUME OrderlyUse, Init
  PROVE  LifeInv
<1> USE DEF Init
<1>1. usage \in Usages /\ Orderly(usage) /\ _state \in States
  BY DEF OrderlyUse, States
<1>2. ChannelInv
  BY DEF ChannelInv, Up, kConnecting, kConnected, kDisconnecting, kDisconnected
<1>3. CallbackInv
  BY DEF CallbackInv, Reports, kConnecting, kDisconnected
<1>4. TaskInv
  <2>1. Task("connectEstablished") \in TaskType
    BY ConnectionAssumption DEF Task, TaskType
  <2>2. pending \in Seq(TaskType) /\ pending # <<>>
    BY <2>1
  <2>3. Head(pending) = Task("connectEstablished") /\ Tail(pending) = <<>>
    OBVIOUS
  <2> QED
    BY <2>2, <2>3 DEF TaskInv, Task
<1>5. ThreadInv
  BY DEF ThreadInv
<1>6. EndInv
  BY DEF EndInv, kConnecting, kDisconnecting
<1> QED
  BY <1>1, <1>2, <1>3, <1>4, <1>5, <1>6 DEF LifeInv

(* A queue with a task at its end, and one without its first task.         *)
LEMMA QueueEnds ==
  ASSUME NEW S, NEW q \in Seq(S), q # <<>>, NEW k \in S
  PROVE  /\ Head(Append(q, k)) = Head(q)
         /\ Tail(Append(q, k)) = Append(Tail(q), k)
         /\ Append(q, k) # <<>> /\ Append(q, k) \in Seq(S)
<1>1. Len(q) \in Nat /\ Len(q) > 0
  OBVIOUS
<1>2. /\ Append(q, k) \in Seq(S) /\ Len(Append(q, k)) = Len(q) + 1
      /\ \A i \in 1 .. Len(q) : Append(q, k)[i] = q[i]
      /\ Append(q, k)[Len(q) + 1] = k /\ Append(q, k) # <<>>
  BY AppendProperties
<1>3. /\ Tail(q) \in Seq(S) /\ Len(Tail(q)) = Len(q) - 1 /\ Head(q) = q[1]
      /\ \A i \in 1 .. Len(Tail(q)) : Tail(q)[i] = q[i + 1]
  BY HeadTailProperties
<1>4. /\ Tail(Append(q, k)) \in Seq(S) /\ Len(Tail(Append(q, k))) = Len(q)
      /\ Head(Append(q, k)) = Append(q, k)[1]
      /\ \A i \in 1 .. Len(q) : Tail(Append(q, k))[i] = Append(q, k)[i + 1]
  BY <1>1, <1>2, HeadTailProperties
<1>5. /\ Append(Tail(q), k) \in Seq(S) /\ Len(Append(Tail(q), k)) = Len(q)
      /\ \A i \in 1 .. Len(q) - 1 : Append(Tail(q), k)[i] = Tail(q)[i]
      /\ Append(Tail(q), k)[Len(q)] = k
  BY <1>1, <1>3, AppendProperties
<1>6. \A i \in 1 .. Len(q) : Tail(Append(q, k))[i] = Append(Tail(q), k)[i]
  <2> TAKE i \in 1 .. Len(q)
  <2>1. CASE i = Len(q)
    BY <2>1, <1>1, <1>2, <1>4, <1>5
  <2>2. CASE i # Len(q)
    <3>0. i \in Nat /\ 1 <= i /\ i < Len(q)
      BY <2>2, <1>1
    <3>1. i \in 1 .. Len(q) - 1 /\ i + 1 \in 1 .. Len(q) /\ i \in 1 .. Len(Tail(q))
      BY <3>0, <1>1, <1>3
    <3> QED
      BY <3>1, <1>2, <1>3, <1>4, <1>5
  <2> QED
    BY <2>1, <2>2
<1>7. Tail(Append(q, k)) = Append(Tail(q), k)
  BY <1>4, <1>5, <1>6, SeqEqual
<1> QED
  BY <1>1, <1>2, <1>3, <1>4, <1>7

\* The tasks stay in order when one is queued, or the first one taken and
\* perhaps one queued.
QueueMoves ==
    \/ pending' = pending
    \/ \E k \in Queued' : pending' = Append(pending, k)
    \/ /\ _state # kConnecting /\ pending # <<>>
       /\ \/ pending' = Tail(pending)
          \/ \E k \in Queued' : pending' = Append(Tail(pending), k)

(* The queue of the loop keeps its order.                                  *)
LEMMA TasksKept ==
  ASSUME TaskInv, usage' = usage, QueueMoves,
         _state' = kConnecting <=> _state = kConnecting,
         _state = kDisconnected => _state' = kDisconnected
  PROVE  TaskInv'
<1>1. Queued \subseteq Queued' /\ Queued' \subseteq TaskType
  BY DEF Queued
<1>2. ASSUME _state = kConnecting
      PROVE  TaskInv'
  <2>1. /\ pending \in Seq(TaskType) /\ pending # <<>>
        /\ Head(pending).op = "connectEstablished" /\ Tail(pending) \in Seq(Queued)
    BY <1>2 DEF TaskInv
  <2>2. Tail(pending) \in Seq(Queued')
    BY <2>1, <1>1, SeqMonotonic
  <2>3. CASE pending' = pending
    BY <2>1, <2>2, <2>3, <1>2 DEF TaskInv
  <2>4. CASE \E k \in Queued' : pending' = Append(pending, k)
    <3>1. PICK k \in Queued' : pending' = Append(pending, k)
      BY <2>4
    <3>2. /\ Head(pending') = Head(pending) /\ Tail(pending') = Append(Tail(pending), k)
          /\ pending' # <<>> /\ pending' \in Seq(TaskType)
      BY <3>1, <2>1, <1>1, QueueEnds
    <3>3. Tail(pending') \in Seq(Queued')
      <4>1. k \in Queued' /\ Append(Tail(pending), k) \in Seq(Queued')
        BY <3>1, <2>2, AppendProperties
      <4> QED
        BY <3>2, <4>1
    <3> QED
      BY <3>2, <3>3, <2>1, <1>2 DEF TaskInv
  <2> QED
    BY <2>3, <2>4, <1>2 DEF QueueMoves
<1>3. ASSUME _state # kConnecting
      PROVE  TaskInv'
  <2>1. pending \in Seq(Queued)
    BY <1>3 DEF TaskInv
  <2>2. pending \in Seq(Queued')
    BY <2>1, <1>1, SeqMonotonic
  <2>3. pending # <<>> => Tail(pending) \in Seq(Queued')
    BY <2>2, HeadTailProperties
  <2>4. pending' \in Seq(Queued')
    <3>1. CASE pending' = pending
      BY <3>1, <2>2
    <3>2. CASE \E k \in Queued' : pending' = Append(pending, k)
      BY <3>2, <2>2, AppendProperties
    <3>3. CASE pending # <<>> /\ pending' = Tail(pending)
      BY <3>3, <2>3
    <3>4. CASE pending # <<>> /\ \E k \in Queued' : pending' = Append(Tail(pending), k)
      BY <3>4, <2>3, AppendProperties
    <3> QED
      BY <3>1, <3>2, <3>3, <3>4 DEF QueueMoves
  <2> QED
    BY <2>4, <1>3 DEF TaskInv
<1> QED
  BY <1>2, <1>3

(* A step that leaves the state of the connection alone keeps the life     *)
(* invariant.                                                              *)
LEMMA LifeKept ==
  ASSUME LifeInv, UNCHANGED <<usage, _state, mainPending, closes>>, QueueMoves,
         ThreadInv',
         channel' = channel \/ (Up /\ Open(channel')),
         callbacks' = callbacks \/ (callbacks # <<>> /\ callbacks' = Tail(callbacks))
  PROVE  LifeInv'
<1> USE DEF LifeInv
<1>1. ChannelInv'
  <2>1. _state = kConnecting => callbacks' = <<>>
    BY DEF ChannelInv
  <2>2. Up <=> Up'
    BY DEF Up
  <2>3. Up => Open(channel')
    BY DEF ChannelInv
  <2>4. ~Up => channel' = channel
    OBVIOUS
  <2>5. Up => _state # kConnecting /\ _state # kDisconnected
    BY DEF Up, kConnecting, kConnected, kDisconnecting, kDisconnected
  <2> QED
    BY <2>1, <2>2, <2>3, <2>4, <2>5 DEF ChannelInv
<1>2. CallbackInv'
  <2>1. callbacks' \in Reports
    BY ReportTail DEF CallbackInv
  <2>2. _state = kDisconnected => callbacks' \in Seq({"error", "write"})
    BY HeadTailProperties DEF CallbackInv
  <2> QED
    BY <2>1, <2>2 DEF CallbackInv
<1>3. TaskInv'
  BY TasksKept
<1>4. EndInv'
  BY DEF EndInv
<1>5. usage' \in Usages /\ Orderly(usage') /\ _state' \in States
  OBVIOUS
<1> QED
  BY <1>1, <1>2, <1>3, <1>4, <1>5

(* Closing a connection that is up (TcpConnection.cpp:329-341).            *)
LEMMA CloseKeepsLife ==
  ASSUME LifeInv, Up, handleClose, UNCHANGED <<usage, checked>>, QueueMoves,
         callbacks' \in Reports, callbacks' \in Seq({"error", "write"})
  PROVE  LifeInv'
<1> USE DEF LifeInv, handleClose
<1>0. /\ _state # kConnecting /\ _state # kDisconnected /\ _state' = kDisconnected
      /\ kDisconnected \in States /\ kDisconnected # kConnecting
      /\ kDisconnected # kDisconnecting /\ ~Up'
  BY DEF Up, States, kConnecting, kConnected, kDisconnecting, kDisconnected
<1>1. ChannelInv'
  BY <1>0, DisableAllShuts DEF ChannelInv
<1>2. CallbackInv'
  BY DEF CallbackInv
<1>3. TaskInv'
  BY <1>0, TasksKept
<1>4. ThreadInv'
  BY DEF ThreadInv
<1>5. EndInv'
  <2>1. mainPending' \in Seq({"removeConnectionInLoop"})
    BY AppendProperties DEF EndInv
  <2>2. closes' = 1
    BY <1>0 DEF EndInv
  <2> QED
    BY <2>1, <2>2, <1>0 DEF EndInv
<1> QED
  BY <1>0, <1>1, <1>2, <1>3, <1>4, <1>5

(* A program ends its connection: it is disconnecting                      *)
(* (TcpConnection.cpp:151-172).                                            *)
LEMMA EndingKeepsLife ==
  ASSUME LifeInv, Up, _state' = kDisconnecting, ~usage.destroyServer,
         UNCHANGED <<usage, channel, callbacks, checked, mainPending, closes>>,
         QueueMoves
  PROVE  LifeInv'
<1> USE DEF LifeInv
<1>0. /\ _state # kConnecting /\ _state # kDisconnected /\ _state' = kDisconnecting
      /\ kDisconnecting \in States /\ kDisconnecting # kConnecting
      /\ kDisconnected # kDisconnecting
  BY DEF Up, States, kConnecting, kConnected, kDisconnecting, kDisconnected
<1>1. ChannelInv'
  BY <1>0 DEF ChannelInv
<1>2. CallbackInv'
  BY <1>0 DEF CallbackInv
<1>3. TaskInv'
  BY <1>0, TasksKept
<1>4. ThreadInv'
  BY DEF ThreadInv
<1>5. EndInv'
  BY <1>0 DEF EndInv
<1> QED
  BY <1>0, <1>1, <1>2, <1>3, <1>4, <1>5

(* The tasks that output queues.                                           *)
LEMMA OutputTasks ==
  /\ Task("writeComplete") \in Queued /\ Task("highWaterMark") \in Queued
  /\ Task("writeComplete") \in Queued' /\ Task("highWaterMark") \in Queued'
  /\ Task("forceClose") \in Queued /\ Task("forceClose") \in Queued'
  BY ConnectionAssumption DEF Task, Queued, TaskType, AllOps

(* sendInLoop starts to watch for writability at most, and queues at most  *)
(* one task of the user (TcpConnection.cpp:230-316).                       *)
LEMMA SendKeepsOpen ==
  ASSUME LifeInv, _state # kConnecting, NEW len, NEW n, NEW queue,
         sendInLoop(len, n, queue)
  PROVE  /\ channel' = channel \/ (Up /\ Open(channel'))
         /\ \/ pending' = queue
            \/ pending' = Append(queue, Task("writeComplete"))
            \/ pending' = Append(queue, Task("highWaterMark"))
<1>1. CASE _state = kDisconnected
  BY <1>1 DEF sendInLoop
<1>2. CASE _state # kDisconnected
  <2>1. Up /\ Open(channel)
    BY <1>2 DEF LifeInv, ChannelInv, States, Up
  <2>2. Open(enableWriting(channel))
    BY <2>1, WritingKeepsOpen
  <2>3. channel' = channel \/ channel' = enableWriting(channel)
    BY <1>2 DEF sendInLoop
  <2>4. \/ pending' = queue
        \/ pending' = Append(queue, Task("writeComplete"))
        \/ pending' = Append(queue, Task("highWaterMark"))
    BY <1>2 DEF sendInLoop, Complete
  <2> QED
    BY <2>1, <2>2, <2>3, <2>4
<1> QED
  BY <1>1, <1>2

(* So does sendFileInLoop (TcpConnection.cpp:366-409).                     *)
LEMMA SendFileKeepsOpen ==
  ASSUME LifeInv, _state # kConnecting, NEW file, NEW n, sendFileInLoop(file, n)
  PROVE  channel' = channel \/ (Up /\ Open(channel'))
<1>1. CASE _state = kDisconnected
  BY <1>1 DEF sendFileInLoop
<1>2. CASE _state # kDisconnected
  <2>1. Up /\ Open(channel)
    BY <1>2 DEF LifeInv, ChannelInv, States, Up
  <2>2. Open(enableWriting(channel))
    BY <2>1, WritingKeepsOpen
  <2>3. channel' = channel \/ channel' = enableWriting(channel)
    BY <1>2 DEF sendFileInLoop
  <2> QED
    BY <2>1, <2>2, <2>3
<1> QED
  BY <1>1, <1>2

(* epoll_wait reports an open channel only; a hangup comes with input.     *)
LEMMA PollKeepsLife ==
  ASSUME LifeInv, NEW writable, PollReports(writable)
  PROVE  LifeInv'
<1> USE DEF PollReports, LifeInv, serverVars, userVars
<1> DEFINE revents == Reported(channel, Conditions(writable))
<1>1. Up
  <2>1. SUFFICES ASSUME ~Up PROVE callbacks' = <<>>
    OBVIOUS
  <2>2. Shut(channel) \/ channel = NewChannel
    BY <2>1 DEF ChannelInv, Up, States
  <2>3. revents = {}
    BY <2>2, ShutIsSilent
  <2>4. Callbacks({}, EveryCallback) = ((<<>> \o <<>>) \o <<>>) \o <<>>
    BY DEF Callbacks
  <2>5. ((<<>> \o <<>>) \o <<>>) \o <<>> = <<>>
    OBVIOUS
  <2> QED
    BY <2>3, <2>4, <2>5
<1>2. Open(channel)
  BY <1>1 DEF ChannelInv
<1>3. "hup" \in revents => "in" \in revents
  BY <1>2 DEF Open, Reported, Conditions
<1>4. callbacks' \in Reports
  BY <1>3, ReportShape
<1>5. _state # kConnecting /\ _state # kDisconnected
  BY <1>1 DEF Up, kConnecting, kConnected, kDisconnecting, kDisconnected
<1>6. ChannelInv'
  BY <1>5, <1>2 DEF ChannelInv
<1>7. CallbackInv'
  BY <1>4, <1>5 DEF CallbackInv
<1>8. TaskInv'
  BY TasksKept DEF QueueMoves
<1>9. ThreadInv' /\ EndInv'
  BY DEF ThreadInv, EndInv
<1> QED
  BY <1>6, <1>7, <1>8, <1>9

(* A callback is made for a connection that was established; the close     *)
(* callback never is (Channel.cpp:55-61).                                  *)
LEMMA CallbackOfUp ==
  ASSUME LifeInv, NEW cb, NextCallback(cb)
  PROVE  /\ callbacks # <<>> /\ callbacks' = Tail(callbacks)
         /\ callbacks' \in Reports /\ cb # "close"
         /\ _state # kConnecting
         /\ cb = "read" => Up /\ callbacks' \in Seq({"error", "write"})
<1> USE DEF LifeInv, NextCallback
<1>1. /\ callbacks' \in Reports /\ cb # "close"
      /\ cb = "read" => callbacks' \in Seq({"error", "write"})
  BY ReportTail DEF CallbackInv
<1>2. _state # kConnecting
  BY DEF ChannelInv
<1>3. cb = "read" => _state # kDisconnected
  BY HeadTailProperties DEF CallbackInv
<1> QED
  BY <1>1, <1>2, <1>3 DEF Up, States

(* handleRead (TcpConnection.cpp:239-262).                                 *)
LEMMA HandleReadKeepsLife ==
  ASSUME LifeInv, HandleRead
  PROVE  LifeInv'
<1> USE DEF HandleRead, serverVars, userVars
<1>1. /\ callbacks # <<>> /\ callbacks' = Tail(callbacks) /\ Up
      /\ callbacks' \in Reports /\ callbacks' \in Seq({"error", "write"})
  BY CallbackOfUp
<1>2. QueueMoves
  BY DEF QueueMoves
<1>3. ThreadInv'
  BY DEF LifeInv, ThreadInv
<1>4. CASE handleClose
  BY <1>4, <1>1, <1>2, CloseKeepsLife
<1>5. CASE UNCHANGED <<_state, channel, serverVars, closes>>
  BY <1>5, <1>1, <1>2, <1>3, LifeKept
<1> QED
  BY <1>4, <1>5

(* The callbacks of an error and of room to write                          *)
(* (TcpConnection.cpp:264-313, 343-351).                                   *)
LEMMA OtherCallbacksKeepLife ==
  ASSUME LifeInv,
         \/ HandleError \/ HandleWriteNothing \/ HandleWriteFileFails
         \/ \E n \in Sizes : HandleWriteBuffer(n) \/ HandleWriteFile(n)
  PROVE  LifeInv'
<1>1. ASSUME NEW cb, NextCallback(cb), UNCHANGED <<_state, serverVars, userVars, closes>>,
             \/ channel' = channel
             \/ channel' = disableWriting(channel) /\ isWriting(channel),
             pending' = pending \/ pending' = Complete(pending)
      PROVE  LifeInv'
  <2>1. /\ callbacks # <<>> /\ callbacks' = Tail(callbacks)
        /\ _state # kConnecting
    BY <1>1, CallbackOfUp
  <2>2. isWriting(channel) => Up
    BY ShutIsSilent DEF LifeInv, ChannelInv, Up, States
  <2>3. channel' = channel \/ (Up /\ Open(channel'))
    BY <1>1, <2>2, WritingKeepsOpen DEF LifeInv, ChannelInv
  <2>4. QueueMoves
    BY <1>1, OutputTasks DEF QueueMoves, Complete
  <2>5. ThreadInv'
    BY <1>1 DEF LifeInv, ThreadInv, userVars
  <2> QED
    BY <1>1, <2>1, <2>3, <2>4, <2>5, LifeKept DEF serverVars, userVars
<1>2. CASE HandleError
  BY <1>2, <1>1 DEF HandleError
<1>3. CASE HandleWriteNothing
  BY <1>3, <1>1 DEF HandleWriteNothing
<1>4. CASE HandleWriteFileFails
  BY <1>4, <1>1 DEF HandleWriteFileFails
<1>5. ASSUME NEW n, HandleWriteBuffer(n)
      PROVE  LifeInv'
  <2>1. /\ NextCallback("write") /\ UNCHANGED <<_state, serverVars, userVars, closes>>
        /\ isWriting(channel)
    BY <1>5 DEF HandleWriteBuffer
  <2>2. channel' = channel \/ channel' = disableWriting(channel)
    BY <1>5 DEF HandleWriteBuffer, OutputDone
  <2>3. pending' = pending \/ pending' = Complete(pending)
    BY <1>5 DEF HandleWriteBuffer
  <2> QED
    BY <2>1, <2>2, <2>3, <1>1
<1>6. ASSUME NEW n, HandleWriteFile(n)
      PROVE  LifeInv'
  <2>1. /\ NextCallback("write") /\ UNCHANGED <<_state, serverVars, userVars, closes>>
        /\ isWriting(channel) /\ pending' = pending
    BY <1>6 DEF HandleWriteFile
  <2>2. channel' = channel \/ channel' = disableWriting(channel)
    BY <1>6 DEF HandleWriteFile, OutputDone
  <2> QED
    BY <2>1, <2>2, <1>1
<1> QED
  BY <1>2, <1>3, <1>4, <1>5, <1>6

(* connectEstablished (TcpConnection.cpp:199-213).                         *)
LEMMA EstablishedKeepsLife ==
  ASSUME LifeInv, ConnectEstablished
  PROVE  /\ LifeInv' /\ _state = kConnecting
         /\ _state' = kConnected /\ ~isWriting(channel')
<1> USE DEF ConnectEstablished, NextTask, Idle, serverVars, userVars
<1>1. _state = kConnecting
  <2>1. SUFFICES ASSUME _state # kConnecting PROVE FALSE
    OBVIOUS
  <2>2. pending \in Seq(Queued) /\ pending # <<>>
    BY <2>1 DEF LifeInv, TaskInv
  <2>3. Head(pending) \in Queued
    BY <2>2, HeadTailProperties
  <2>4. Head(pending).op # "connectEstablished"
    BY <2>3 DEF Queued
  <2> QED
    BY <2>4
<1>2. channel = NewChannel /\ Open(channel')
  BY <1>1, EstablishOpens DEF LifeInv, ChannelInv
<1>3. /\ _state' = kConnected /\ Up' /\ kConnected \in States
      /\ kConnected # kConnecting /\ kConnected # kDisconnected
      /\ kConnected # kDisconnecting /\ kConnecting # kDisconnected
  BY DEF Up, States, kConnecting, kConnected, kDisconnecting, kDisconnected
<1>4. ChannelInv'
  BY <1>2, <1>3 DEF ChannelInv
<1>5. CallbackInv'
  BY <1>3 DEF LifeInv, CallbackInv
<1>6. TaskInv'
  <2>1. pending' \in Seq(Queued)
    BY <1>1 DEF LifeInv, TaskInv
  <2>2. Queued \subseteq Queued'
    BY <1>1, <1>3 DEF Queued
  <2>3. pending' \in Seq(Queued')
    BY <2>1, <2>2, SeqMonotonic
  <2> QED
    BY <2>3, <1>3 DEF TaskInv
<1>7. ThreadInv' /\ EndInv'
  BY <1>1, <1>3 DEF LifeInv, ThreadInv, EndInv
<1>8. ~isWriting(channel')
  BY <1>2 DEF NewChannel, isWriting, enableReading, UpdateChannel, EpollAdd,
              kNew, kDeleted
<1> QED
  BY <1>1, <1>3, <1>4, <1>5, <1>6, <1>7, <1>8 DEF LifeInv

(* A task other than connectEstablished runs once the connection is        *)
(* established.                                                            *)
LEMMA TaskOfEstablished ==
  ASSUME LifeInv, pending # <<>>, Head(pending).op # "connectEstablished"
  PROVE  /\ _state # kConnecting /\ pending \in Seq(Queued)
         /\ Head(pending) \in Queued
<1>1. _state # kConnecting
  BY DEF LifeInv, TaskInv
<1>2. pending \in Seq(Queued)
  BY <1>1 DEF LifeInv, TaskInv
<1> QED
  BY <1>1, <1>2, HeadTailProperties

(* connectDestroyed: the connection is closed, or closes here because the  *)
(* server is destroyed (TcpConnection.cpp:215-223).                        *)
LEMMA DestroyedKeepsLife ==
  ASSUME LifeInv, ConnectDestroyed
  PROVE  LifeInv' /\ _state' = kDisconnected /\ Shut(channel')
<1> USE DEF ConnectDestroyed, NextTask, Idle, serverVars, userVars
<1>1. /\ _state # kConnecting /\ pending \in Seq(Queued)
      /\ Head(pending) \in Queued
  BY TaskOfEstablished
<1>2. usage.destroyServer \/ _state = kDisconnected
  BY <1>1 DEF Queued
<1>3. _state = kConnected \/ _state = kDisconnected
  BY <1>1, <1>2 DEF LifeInv, EndInv, States
<1>4. /\ kConnected # kDisconnected /\ kDisconnected \in States
      /\ kDisconnected # kConnecting /\ kDisconnected # kDisconnecting
  BY DEF States, kConnecting, kConnected, kDisconnecting, kDisconnected
<1>5. _state' = kDisconnected /\ ~Up'
  BY <1>3, <1>4 DEF Up, kConnected, kDisconnecting, kDisconnected
<1>6. Shut(channel')
  <2>1. CASE _state = kConnected
    <3>1. Open(channel)
      BY <2>1 DEF LifeInv, ChannelInv, Up
    <3>2. Shut(disableAll(channel))
      BY <3>1, DisableAllShuts
    <3> QED
      BY <3>2, <2>1, RemoveKeepsShut
  <2>2. CASE _state = kDisconnected
    BY <2>2, <1>4, RemoveKeepsShut DEF LifeInv, ChannelInv
  <2> QED
    BY <2>1, <2>2, <1>3
<1>7. ChannelInv'
  BY <1>4, <1>5, <1>6 DEF ChannelInv
<1>8. CallbackInv'
  BY DEF LifeInv, CallbackInv
<1>9. TaskInv'
  <2>1. QueueMoves
    BY <1>1 DEF QueueMoves
  <2> QED
    BY <2>1, <1>1, <1>4, <1>5, TasksKept DEF LifeInv
<1>10. ThreadInv' /\ EndInv'
  BY <1>4, <1>5 DEF LifeInv, ThreadInv, EndInv
<1> QED
  BY <1>4, <1>5, <1>6, <1>7, <1>8, <1>9, <1>10 DEF LifeInv

(* The user's callbacks of the output (TcpConnection.cpp:117-128).         *)
LEMMA UserCallbackKeepsLife ==
  ASSUME LifeInv, UserCallback
  PROVE  LifeInv'
<1> USE DEF UserCallback, NextTask, Idle, serverVars, userVars
<1>1. _state # kConnecting /\ pending # <<>>
  BY TaskOfEstablished
<1>2. QueueMoves
  BY <1>1 DEF QueueMoves
<1>3. ThreadInv'
  BY DEF LifeInv, ThreadInv
<1> QED
  BY <1>2, <1>3, LifeKept

(* The queued half of a send or of a forced close.                         *)
LEMMA RunTaskKeepsLife ==
  ASSUME LifeInv, NEW n, RunTask(n)
  PROVE  LifeInv'
<1> USE DEF RunTask, Idle, userVars
<1>1. /\ _state # kConnecting /\ pending \in Seq(Queued)
      /\ Head(pending) \in Queued
  BY TaskOfEstablished DEF AllOps
<1>2. Head(pending).op \in {"send", "forceClose"}
  BY <1>1 DEF Queued, AllOps
<1>3. ThreadInv'
  BY DEF LifeInv, ThreadInv
<1>4. CASE Head(pending).op = "send"
  <2>1. /\ sendInLoop(Head(pending).len, n, Tail(pending))
        /\ UNCHANGED <<_state, serverVars, closes>>
    BY <1>4 DEF InLoop
  <2>2. channel' = channel \/ (Up /\ Open(channel'))
    BY <1>1, <2>1, SendKeepsOpen
  <2>3. \/ pending' = Tail(pending)
        \/ pending' = Append(Tail(pending), Task("writeComplete"))
        \/ pending' = Append(Tail(pending), Task("highWaterMark"))
    BY <1>1, <2>1, SendKeepsOpen
  <2>4. QueueMoves
    BY <1>1, <2>3, OutputTasks DEF QueueMoves
  <2> QED
    BY <1>3, <2>1, <2>2, <2>4, LifeKept DEF serverVars
<1>5. CASE Head(pending).op = "forceClose"
  <2>1. forceCloseInLoop /\ pending' = Tail(pending)
    BY <1>5 DEF InLoop
  <2>2. QueueMoves
    BY <1>1, <2>1 DEF QueueMoves
  <2>3. CASE Up
    <3>1. handleClose
      BY <2>1, <2>3 DEF forceCloseInLoop, Up
    <3>2. callbacks' \in Reports /\ callbacks' \in Seq({"error", "write"})
      BY DEF LifeInv, CallbackInv
    <3> QED
      BY <2>2, <2>3, <3>1, <3>2, CloseKeepsLife
  <2>4. CASE ~Up
    <3>1. UNCHANGED <<_state, channel, serverVars, closes>>
      BY <2>1, <2>4 DEF forceCloseInLoop, Up
    <3> QED
      BY <1>3, <2>2, <3>1, LifeKept DEF serverVars
  <2> QED
    BY <2>3, <2>4
<1> QED
  BY <1>2, <1>4, <1>5

(* The calls a program makes from callbacks (TcpConnection.cpp:53-115,     *)
(* 151-172, 353-364).                                                      *)
LEMMA LoopCallsKeepLife ==
  ASSUME LifeInv,
         \/ \E op, len, n : LoopCall(op, len, n)
         \/ \E len, n : LoopSendFile(len, n)
         \/ LoopShutdown \/ LoopForceClose
  PROVE  LifeInv'
<1> USE DEF serverVars
<1>0. usage \in Usages /\ Orderly(usage) /\ _state \in States
  BY DEF LifeInv
<1>1. ASSUME NEW op, NEW len, NEW n, LoopCall(op, len, n)
      PROVE  LifeInv'
  <2>1. op = "send" /\ _state # kConnecting
    BY <1>0, <1>1 DEF LoopCall, Orderly
  <2>2. /\ sendInLoop(len, n, pending)
        /\ UNCHANGED <<_state, serverVars, closes, callbacks, usage, checked>>
    BY <1>1, <2>1 DEF LoopCall, InLoop
  <2>3. /\ channel' = channel \/ (Up /\ Open(channel'))
        /\ \/ pending' = pending
           \/ pending' = Append(pending, Task("writeComplete"))
           \/ pending' = Append(pending, Task("highWaterMark"))
    BY <2>1, <2>2, SendKeepsOpen
  <2>4. QueueMoves
    BY <2>3, OutputTasks DEF QueueMoves
  <2>5. ThreadInv'
    BY <2>2 DEF LifeInv, ThreadInv
  <2> QED
    BY <2>2, <2>3, <2>4, <2>5, LifeKept
<1>2. ASSUME NEW len, NEW n, LoopSendFile(len, n)
      PROVE  LifeInv'
  <2>1. /\ sendFileInLoop(NewUnits(len), n) /\ _state = kConnected
        /\ UNCHANGED <<_state, callbacks, pending, serverVars, usage, checked, closes>>
    BY <1>2 DEF LoopSendFile, Allowed
  <2>2. channel' = channel \/ (Up /\ Open(channel'))
    BY <2>1, SendFileKeepsOpen DEF kConnecting, kConnected
  <2>3. QueueMoves /\ ThreadInv'
    BY <2>1 DEF QueueMoves, LifeInv, ThreadInv
  <2> QED
    BY <2>1, <2>2, <2>3, LifeKept
<1>3. CASE LoopShutdown
  <2>1. /\ _state = kConnected /\ _state' = kDisconnecting /\ ~usage.destroyServer
        /\ UNCHANGED <<usage, channel, callbacks, checked, pending, mainPending, closes>>
    BY <1>0, <1>3 DEF LoopShutdown, Allowed, Orderly
  <2>2. Up /\ QueueMoves
    BY <2>1 DEF Up, QueueMoves
  <2> QED
    BY <2>1, <2>2, EndingKeepsLife
<1>4. CASE LoopForceClose
  <2>1. /\ _state \in {kConnected, kDisconnecting} /\ _state' = kDisconnecting
        /\ ~usage.destroyServer
        /\ UNCHANGED <<usage, channel, callbacks, checked, mainPending, closes>>
        /\ pending' = Append(pending, Task("forceClose"))
    BY <1>0, <1>4 DEF LoopForceClose, Allowed, Orderly, CallerHalf
  <2>2. Up /\ QueueMoves
    BY <2>1, OutputTasks DEF Up, QueueMoves
  <2> QED
    BY <2>1, <2>2, EndingKeepsLife
<1> QED
  BY <1>1, <1>2, <1>3, <1>4

(* Another thread sends: what it saw of _state may be out of date when it  *)
(* queues the rest (TcpConnection.cpp:53-115).                             *)
LEMMA ThreadsKeepLife ==
  ASSUME LifeInv,
         \/ \E t \in Threads : \E op, len : ThreadTest(t, op, len)
         \/ \E t \in Threads : ThreadActs(t)
  PROVE  LifeInv'
<1> USE DEF serverVars
<1>0. /\ usage \in Usages /\ Orderly(usage) /\ _state \in States
      /\ checked \in [Threads -> TaskType \cup {None}]
      /\ \A t \in Threads : checked[t] # None => checked[t].op = "send"
  BY DEF LifeInv, ThreadInv
<1>1. ASSUME NEW t \in Threads, NEW op, NEW len, ThreadTest(t, op, len)
      PROVE  LifeInv'
  <2>1. /\ op = "send" /\ len \in 0 .. MaxLen
        /\ checked' = [checked EXCEPT ![t] = [op |-> op, len |-> len]]
        /\ UNCHANGED <<_state, channel, callbacks, pending, serverVars, usage, closes>>
    BY <1>0, <1>1, ConnectionAssumption DEF ThreadTest, Orderly, Lengths
  <2>2. ThreadInv'
    BY <1>0, <2>1 DEF ThreadInv, TaskType, AllOps
  <2>3. QueueMoves
    BY <2>1 DEF QueueMoves
  <2> QED
    BY <2>1, <2>2, <2>3, LifeKept
<1>2. ASSUME NEW t \in Threads, ThreadActs(t)
      PROVE  LifeInv'
  <2>1. /\ checked[t] # None /\ checked[t].op = "send" /\ checked[t] \in TaskType
        /\ checked' = [checked EXCEPT ![t] = None]
        /\ pending' = Append(pending, checked[t])
        /\ UNCHANGED <<channel, callbacks, serverVars, usage, closes>>
    BY <1>0, <1>2 DEF ThreadActs
  <2>2. _state' = _state
    BY <1>2, <2>1 DEF ThreadActs, CallerHalf
  <2>3. ThreadInv'
    BY <1>0, <2>1 DEF ThreadInv
  <2>4. checked[t] \in Queued'
    BY <2>1 DEF Queued
  <2>5. QueueMoves
    BY <2>1, <2>4 DEF QueueMoves
  <2> QED
    BY <2>1, <2>2, <2>3, <2>5, LifeKept
<1> QED
  BY <1>1, <1>2

(* The server forgets a connection that is closed, or all of them          *)
(* (TcpServer.cpp:31-41, 99-112).                                          *)
LEMMA ServerKeepsLife ==
  ASSUME LifeInv, RemoveConnectionInLoop \/ ServerDestroyed
  PROVE  LifeInv'
<1> USE DEF userVars
<1>1. ASSUME usage.destroyServer \/ _state = kDisconnected, usage' = usage, _state' = _state
      PROVE  Task("connectDestroyed") \in Queued'
  BY <1>1, ConnectionAssumption DEF Task, Queued, TaskType, AllOps
<1>2. CASE RemoveConnectionInLoop
  <2> USE <1>2 DEF RemoveConnectionInLoop
  <2>1. _state = kDisconnected
    BY DEF LifeInv, EndInv
  <2>2. QueueMoves
    BY <2>1, <1>1 DEF QueueMoves
  <2>3. TaskInv'
    BY <2>2, TasksKept DEF LifeInv
  <2>4. mainPending' \in Seq({"removeConnectionInLoop"})
    BY HeadTailProperties DEF LifeInv, EndInv
  <2>5. EndInv'
    BY <2>1, <2>4 DEF LifeInv, EndInv
  <2>6. ChannelInv' /\ CallbackInv' /\ ThreadInv'
    BY DEF LifeInv, ChannelInv, CallbackInv, ThreadInv, Up
  <2> QED
    BY <2>3, <2>5, <2>6 DEF LifeInv
<1>3. CASE ServerDestroyed
  <2> USE <1>3 DEF ServerDestroyed
  <2>1. QueueMoves
    BY <1>1 DEF QueueMoves
  <2>2. ThreadInv'
    BY DEF LifeInv, ThreadInv
  <2> QED
    BY <2>1, <2>2, LifeKept
<1> QED
  BY <1>2, <1>3

(* Every step keeps the life invariant.                                    *)
LEMMA LifeNext ==
  ASSUME LifeInv, [Next]_vars
  PROVE  LifeInv'
<1>1. CASE Handlers
  <2>1. CASE HandleRead
    BY <2>1, HandleReadKeepsLife
  <2>2. CASE HandleCloseEvent
    BY <2>2, CallbackOfUp DEF HandleCloseEvent
  <2> QED
    BY <1>1, <2>1, <2>2, OtherCallbacksKeepLife DEF Handlers
<1>2. CASE Tasks
  BY <1>2, RunTaskKeepsLife, EstablishedKeepsLife, DestroyedKeepsLife,
     UserCallbackKeepsLife DEF Tasks
<1>3. CASE \E writable \in BOOLEAN : PollReports(writable)
  BY <1>3, PollKeepsLife
<1>4. CASE \E t \in Threads : ThreadActs(t)
  BY <1>4, ThreadsKeepLife
<1>5. CASE UserStep
  BY <1>5, LoopCallsKeepLife, ThreadsKeepLife DEF UserStep
<1>6. CASE PeerStep \/ UNCHANGED vars
  <2>1. UNCHANGED <<_state, channel, callbacks, pending, mainPending, usage, checked,
                    closes>>
    BY <1>6 DEF PeerStep, PeerSends, PeerCloses, PeerResets, vars, serverVars, userVars
  <2>2. QueueMoves /\ ThreadInv'
    BY <2>1 DEF QueueMoves, LifeInv, ThreadInv
  <2> QED
    BY <2>1, <2>2, LifeKept
<1>7. CASE RemoveConnectionInLoop \/ ServerDestroyed
  BY <1>7, ServerKeepsLife
<1> QED
  BY <1>1, <1>2, <1>3, <1>4, <1>5, <1>6, <1>7 DEF Next

(* A connection that is used in an orderly way is closed at most once, and *)
(* a channel that was removed is out of the epoll set: the assertions of   *)
(* TcpConnection.cpp:331 and Channel.cpp:116.                              *)
THEOREM ConnectionClosedOnce ==
  ASSUME OrderlyUse
  PROVE  Spec => []ClosedOnce
<1>1. Init => LifeInv
  BY LifeInit
<1>2. LifeInv /\ [Next]_vars => LifeInv'
  BY LifeNext
<1>3. LifeInv => ClosedOnce
  <2>1. LifeInv => closes <= 1
    BY DEF LifeInv, EndInv
  <2>2. LifeInv => RemovedIsUnwatched
    BY DEF LifeInv, ChannelInv, RemovedIsUnwatched, Open, Shut, NewChannel, Up,
           States, kNew, kAdded
  <2> QED
    BY <2>1, <2>2 DEF ClosedOnce
<1> QED
  BY <1>1, <1>2, <1>3, PTL DEF Spec

(* A step of a closed connection leaves it closed.                         *)
LEMMA ClosedStaysClosed ==
  ASSUME LifeInv, _state = kDisconnected, [Next]_vars
  PROVE  _state' = kDisconnected
<1> USE DEF kConnecting, kConnected, kDisconnecting, kDisconnected
<1>1. CASE Handlers
  BY <1>1 DEF Handlers, HandleRead, HandleCloseEvent, HandleError,
     HandleWriteNothing, HandleWriteBuffer, HandleWriteFile,
     HandleWriteFileFails, handleClose
<1>2. CASE Tasks
  <2>1. CASE ConnectEstablished
    BY <2>1, EstablishedKeepsLife
  <2>2. CASE ConnectDestroyed
    BY <2>2, DestroyedKeepsLife
  <2>3. ASSUME NEW n, RunTask(n)
        PROVE  _state' = _state
    BY <2>3 DEF RunTask, InLoop, forceCloseInLoop
  <2> QED
    BY <1>2, <2>1, <2>2, <2>3 DEF Tasks, UserCallback
<1>3. ASSUME NEW t \in Threads, ThreadActs(t)
      PROVE  _state' = _state
  <2>1. checked[t].op = "send"
    BY <1>3 DEF ThreadActs, LifeInv, ThreadInv
  <2> QED
    BY <1>3, <2>1 DEF ThreadActs, CallerHalf
<1>4. CASE UserStep
  <2>1. ASSUME NEW op, NEW len, NEW n, LoopCall(op, len, n)
        PROVE  _state' = _state
    BY <2>1 DEF LoopCall, InLoop
  <2> QED
    BY <1>4, <2>1 DEF UserStep, LoopSendFile, LoopShutdown, LoopForceClose, ThreadTest,
       Allowed
<1> QED
  BY <1>1, <1>2, <1>3, <1>4 DEF Next, PollReports, PeerStep, PeerSends,
     PeerCloses, PeerResets, RemoveConnectionInLoop, ServerDestroyed, vars

(* A connection that was closed stays closed: there is no way out of       *)
(* Disconnected in the diagram of TcpConnection.h:88-95.                   *)
THEOREM ClosedForGood ==
  ASSUME OrderlyUse
  PROVE  Spec => DisconnectedIsFinal
<1>1. Init => LifeInv
  BY LifeInit
<1>2. LifeInv /\ [Next]_vars => LifeInv'
  BY LifeNext
<1>3. LifeInv /\ [Next]_vars => [_state = kDisconnected => _state' = kDisconnected]_vars
  BY ClosedStaysClosed
<1> QED
  BY <1>1, <1>2, <1>3, PTL DEF Spec, DisconnectedIsFinal

-----------------------------------------------------------------------------
(* Sequences of units.                                                     *)

\* The units of s come in the order they were accepted, those of s before
\* those of t, and none of them after the first n.
Rising(s) == \A i, j \in 1 .. Len(s) : i < j => s[i] < s[j]
Under(s, t) == \A i \in 1 .. Len(s), j \in 1 .. Len(t) : s[i] < t[j]
UpTo(s, n) == \A i \in 1 .. Len(s) : s[i] <= n

(* A prefix and the rest of a sequence of units.                           *)
LEMMA TakeAndDrop ==
  ASSUME NEW s \in Seq(Nat), NEW n \in 0 .. Len(s)
  PROVE  /\ Take(s, n) \in Seq(Nat) /\ Len(Take(s, n)) = n
         /\ \A i \in 1 .. n : Take(s, n)[i] = s[i]
         /\ Drop(s, n) \in Seq(Nat) /\ Len(Drop(s, n)) = Len(s) - n
         /\ \A i \in 1 .. Len(s) - n : Drop(s, n)[i] = s[n + i]
         /\ Take(s, n) \o Drop(s, n) = s
<1>1. Len(s) \in Nat /\ n \in Nat /\ n <= Len(s)
  OBVIOUS
<1>2. \A i \in 1 .. Len(s) : s[i] \in Nat
  BY ElementOfSeq
<1>3. /\ Take(s, n) \in Seq(Nat) /\ Len(Take(s, n)) = n
      /\ \A i \in 1 .. n : Take(s, n)[i] = s[i]
  <2>1. \A i \in 1 .. n : s[i] \in Nat
    BY <1>1, <1>2
  <2>2. /\ SubSeq(s, 1, n) \in Seq(Nat)
        /\ Len(SubSeq(s, 1, n)) = IF 1 <= n THEN n - 1 + 1 ELSE 0
        /\ \A i \in 1 .. n - 1 + 1 : SubSeq(s, 1, n)[i] = s[1 + i - 1]
    BY <1>1, <2>1, SubSeqProperties
  <2> QED
    BY <1>1, <2>2 DEF Take
<1>4. /\ Drop(s, n) \in Seq(Nat) /\ Len(Drop(s, n)) = Len(s) - n
      /\ \A i \in 1 .. Len(s) - n : Drop(s, n)[i] = s[n + i]
  <2>1. \A i \in n + 1 .. Len(s) : s[i] \in Nat
    BY <1>1, <1>2
  <2>2. /\ SubSeq(s, n + 1, Len(s)) \in Seq(Nat)
        /\ Len(SubSeq(s, n + 1, Len(s))) =
              IF n + 1 <= Len(s) THEN Len(s) - (n + 1) + 1 ELSE 0
        /\ \A i \in 1 .. Len(s) - (n + 1) + 1 :
              SubSeq(s, n + 1, Len(s))[i] = s[n + 1 + i - 1]
    <3>1. n + 1 \in Int /\ Len(s) \in Int
      BY <1>1
    <3> QED
      BY <3>1, <2>1, SubSeqProperties
  <2>3. PICK d : d = SubSeq(s, n + 1, Len(s))
    OBVIOUS
  <2>4. d \in Seq(Nat) /\ Len(d) = Len(s) - n
    BY <1>1, <2>2, <2>3
  <2>5. ASSUME NEW i \in 1 .. Len(s) - n
        PROVE  d[i] = s[n + i]
    <3>1. n + 1 + i - 1 = n + i /\ i \in 1 .. Len(s) - (n + 1) + 1
      BY <1>1
    <3> QED
      BY <2>2, <2>3, <3>1
  <2>6. Drop(s, n) = d
    BY <2>3 DEF Drop
  <2> QED
    BY <2>4, <2>5, <2>6
<1>5. Take(s, n) \o Drop(s, n) = s
  <2>1. 1 \in 1 .. Len(s) + 1 /\ n \in 1 - 1 .. Len(s) /\ Len(s) \in n .. Len(s)
    BY <1>1
  <2>2. SubSeq(s, 1, n) \o SubSeq(s, n + 1, Len(s)) = SubSeq(s, 1, Len(s))
    BY <2>1, ConcatAdjacentSubSeq
  <2> QED
    BY <2>2, SubSeqFull DEF Take, Drop
<1> QED
  BY <1>3, <1>4, <1>5

(* The order of a sequence that is cut in two.                             *)
LEMMA CutInOrder ==
  ASSUME NEW s \in Seq(Nat), NEW n \in 0 .. Len(s), NEW u \in Seq(Nat), NEW m \in Nat
  PROVE  /\ Rising(s) => /\ Rising(Take(s, n)) /\ Rising(Drop(s, n))
                         /\ Under(Take(s, n), Drop(s, n))
         /\ Under(s, u) => Under(Take(s, n), u) /\ Under(Drop(s, n), u)
         /\ Under(u, s) => Under(u, Take(s, n)) /\ Under(u, Drop(s, n))
         /\ UpTo(s, m) => UpTo(Take(s, n), m) /\ UpTo(Drop(s, n), m)
<1> DEFINE a == Take(s, n)
           b == Drop(s, n)
<1>1. /\ Len(a) = n /\ \A i \in 1 .. n : a[i] = s[i]
      /\ Len(b) = Len(s) - n /\ \A i \in 1 .. Len(s) - n : b[i] = s[n + i]
  BY TakeAndDrop
<1>2. Len(s) \in Nat /\ n \in Nat /\ n <= Len(s) /\ Len(u) \in Nat
  OBVIOUS
<1> HIDE DEF a, b
<1>3. \A i \in 1 .. n : i \in 1 .. Len(s)
  BY <1>2
<1>4. \A i \in 1 .. Len(s) - n : n + i \in 1 .. Len(s)
  BY <1>2
<1>5. ASSUME Rising(s)
      PROVE  Rising(a) /\ Rising(b) /\ Under(a, b)
  <2>1. Rising(a)
    BY <1>1, <1>2, <1>3, <1>5 DEF Rising
  <2>2. Rising(b)
    <3> SUFFICES ASSUME NEW i \in 1 .. Len(b), NEW j \in 1 .. Len(b), i < j
                 PROVE  b[i] < b[j]
      BY DEF Rising
    <3>1. /\ n + i \in 1 .. Len(s) /\ n + j \in 1 .. Len(s) /\ n + i < n + j
          /\ b[i] = s[n + i] /\ b[j] = s[n + j]
      BY <1>1, <1>2
    <3> QED
      BY <3>1, <1>5 DEF Rising
  <2>3. Under(a, b)
    <3> SUFFICES ASSUME NEW i \in 1 .. Len(a), NEW j \in 1 .. Len(b)
                 PROVE  a[i] < b[j]
      BY DEF Under
    <3>1. /\ i \in 1 .. Len(s) /\ n + j \in 1 .. Len(s) /\ i < n + j
          /\ a[i] = s[i] /\ b[j] = s[n + j]
      BY <1>1, <1>2
    <3> QED
      BY <3>1, <1>5 DEF Rising
  <2> QED
    BY <2>1, <2>2, <2>3
<1>6. Under(s, u) => Under(a, u) /\ Under(b, u)
  BY <1>1, <1>3, <1>4 DEF Under
<1>7. Under(u, s) => Under(u, a) /\ Under(u, b)
  BY <1>1, <1>3, <1>4 DEF Under
<1>8. UpTo(s, m) => UpTo(a, m) /\ UpTo(b, m)
  BY <1>1, <1>3, <1>4 DEF UpTo
<1> QED
  BY <1>5, <1>6, <1>7, <1>8 DEF a, b

(* The order of two sequences that are joined.                             *)
LEMMA JoinInOrder ==
  ASSUME NEW s \in Seq(Nat), NEW t \in Seq(Nat), NEW u \in Seq(Nat), NEW m \in Nat
  PROVE  /\ s \o t \in Seq(Nat)
         /\ Rising(s) /\ Rising(t) /\ Under(s, t) => Rising(s \o t)
         /\ Under(s, u) /\ Under(t, u) => Under(s \o t, u)
         /\ Under(u, s) /\ Under(u, t) => Under(u, s \o t)
         /\ UpTo(s, m) /\ UpTo(t, m) => UpTo(s \o t, m)
<1> DEFINE st == s \o t
<1>1. /\ st \in Seq(Nat) /\ Len(st) = Len(s) + Len(t)
      /\ \A i \in 1 .. Len(s) + Len(t) :
            st[i] = IF i <= Len(s) THEN s[i] ELSE t[i - Len(s)]
  BY ConcatProperties
<1>2. Len(s) \in Nat /\ Len(t) \in Nat /\ Len(u) \in Nat
  OBVIOUS
<1> HIDE DEF st
<1>3. ASSUME NEW i \in 1 .. Len(st)
      PROVE  \/ i \in 1 .. Len(s) /\ st[i] = s[i]
             \/ i > Len(s) /\ i - Len(s) \in 1 .. Len(t) /\ st[i] = t[i - Len(s)]
  BY <1>1, <1>2
<1>4. ASSUME Rising(s), Rising(t), Under(s, t)
      PROVE  Rising(st)
  <2> SUFFICES ASSUME NEW i \in 1 .. Len(st), NEW j \in 1 .. Len(st), i < j
               PROVE  st[i] < st[j]
    BY DEF Rising
  <2>1. CASE i \in 1 .. Len(s) /\ j \in 1 .. Len(s)
    <3>1. st[i] = s[i] /\ st[j] = s[j]
      BY <2>1, <1>2, <1>3
    <3> QED
      BY <3>1, <2>1, <1>4 DEF Rising
  <2>2. CASE i \in 1 .. Len(s) /\ j > Len(s)
    <3>1. st[i] = s[i] /\ st[j] = t[j - Len(s)] /\ j - Len(s) \in 1 .. Len(t)
      BY <2>2, <1>2, <1>3
    <3> QED
      BY <3>1, <2>2, <1>4 DEF Under
  <2>3. CASE i > Len(s) /\ j > Len(s)
    <3>1. i - Len(s) \in 1 .. Len(t) /\ j - Len(s) \in 1 .. Len(t)
          /\ i - Len(s) < j - Len(s) /\ st[i] = t[i - Len(s)] /\ st[j] = t[j - Len(s)]
      BY <2>3, <1>2, <1>3
    <3> QED
      BY <3>1, <1>4 DEF Rising
  <2> QED
    BY <2>1, <2>2, <2>3, <1>1, <1>2
<1>5. Under(s, u) /\ Under(t, u) => Under(st, u)
  BY <1>3 DEF Under
<1>6. Under(u, s) /\ Under(u, t) => Under(u, st)
  BY <1>3 DEF Under
<1>7. UpTo(s, m) /\ UpTo(t, m) => UpTo(st, m)
  BY <1>3 DEF UpTo
<1> QED
  BY <1>1, <1>4, <1>5, <1>6, <1>7 DEF st

(* Joining is associative.                                                 *)
LEMMA JoinAssociates ==
  ASSUME NEW s \in Seq(Nat), NEW t \in Seq(Nat), NEW u \in Seq(Nat)
  PROVE  (s \o t) \o u = s \o (t \o u)
<1> DEFINE l == (s \o t) \o u
           r == s \o (t \o u)
<1>1. s \o t \in Seq(Nat) /\ Len(s \o t) = Len(s) + Len(t)
  BY ConcatProperties
<1>2. t \o u \in Seq(Nat) /\ Len(t \o u) = Len(t) + Len(u)
  BY ConcatProperties
<1>3. l \in Seq(Nat) /\ Len(l) = Len(s \o t) + Len(u)
  BY <1>1, ConcatProperties
<1>4. r \in Seq(Nat) /\ Len(r) = Len(s) + Len(t \o u)
  BY <1>2, ConcatProperties
<1>5. Len(s) \in Nat /\ Len(t) \in Nat /\ Len(u) \in Nat
  OBVIOUS
<1>6. ASSUME NEW i \in 1 .. Len(l)
      PROVE  l[i] = r[i]
  BY <1>1, <1>2, <1>3, <1>4, <1>5, ConcatProperties
<1>7. Len(l) = Len(r)
  BY <1>1, <1>2, <1>3, <1>4, <1>5
<1> QED
  BY <1>3, <1>4, <1>6, <1>7, SeqEqual

(* Units newly accepted come after all units accepted before.              *)
LEMMA NewInOrder ==
  ASSUME accepted \in Nat, NEW len \in Nat, NEW s \in Seq(Nat), UpTo(s, accepted)
  PROVE  /\ NewUnits(len) \in Seq(Nat) /\ Len(NewUnits(len)) = len
         /\ Rising(NewUnits(len)) /\ UpTo(NewUnits(len), accepted + len)
         /\ Under(s, NewUnits(len)) /\ UpTo(s, accepted + len)
<1>1. /\ NewUnits(len) \in Seq(Nat) /\ Len(NewUnits(len)) = len
      /\ \A i \in 1 .. len : NewUnits(len)[i] = accepted + i
  BY DEF NewUnits
<1>2. Rising(NewUnits(len))
  BY <1>1 DEF Rising
<1>3. UpTo(NewUnits(len), accepted + len)
  BY <1>1 DEF UpTo
<1>4. \A i \in 1 .. Len(s) : s[i] \in Nat /\ s[i] <= accepted
  BY ElementOfSeq DEF UpTo
<1>5. UpTo(s, accepted + len)
  BY <1>4 DEF UpTo
<1>6. Under(s, NewUnits(len))
  BY <1>1, <1>4 DEF Under
<1> QED
  BY <1>1, <1>2, <1>3, <1>5, <1>6

-----------------------------------------------------------------------------
(* The output of the connection.                                           *)

DataInv ==
    /\ accepted \in Nat /\ wire \in Seq(Nat)
    /\ _outputBuffer \in Seq(Nat) /\ _sendFile \in Seq(Nat)
    /\ fin \in BOOLEAN /\ overtaken \in BOOLEAN

\* The write side is shut by a connection that is ending, once it has written
\* everything; a connection that is not yet established has nothing to write.
OutputInv ==
    /\ _state = kConnecting => _outputBuffer = <<>> /\ _sendFile = <<>>
    /\ fin => _state \in {kDisconnecting, kDisconnected}
    /\ WritingIffPending
    /\ fin /\ peer # "reset" =>
        ~isWriting(channel) /\ _outputBuffer = <<>> /\ _sendFile = <<>>

\* What is on the wire was accepted before what is in the buffer, and that
\* before the file.
InOrder ==
    /\ Rising(wire) /\ Rising(_outputBuffer) /\ Rising(_sendFile)
    /\ Under(wire, _outputBuffer) /\ Under(wire, _sendFile)
    /\ Under(_outputBuffer, _sendFile)

OrderInv ==
    /\ UpTo(wire, accepted) /\ UpTo(_outputBuffer, accepted) /\ UpTo(_sendFile, accepted)
    /\ ~overtaken => InOrder

NoFiles == "sendFile" \notin usage.loopOps \cup usage.threadOps

CompleteInv ==
    NoFiles =>
        /\ _sendFile = <<>>
        /\ ~Broken => wire \o _outputBuffer = [i \in 1 .. accepted |-> i]

WireInv == DataInv /\ OutputInv /\ OrderInv /\ CompleteInv

(* Initially.                                                              *)
LEMMA WireInit ==
  ASSUME Init
  PROVE  WireInv
<1> USE DEF Init
<1>1. DataInv
  <2>1. accepted \in Nat
    OBVIOUS
  <2>2. wire \in Seq(Nat) /\ _outputBuffer \in Seq(Nat) /\ _sendFile \in Seq(Nat)
    BY EmptySeq
  <2>3. fin \in BOOLEAN /\ overtaken \in BOOLEAN
    BY Zenon
  <2> QED
    BY <2>1, <2>2, <2>3 DEF DataInv
<1>2. OutputInv
  BY DEF OutputInv, WritingIffPending, kConnecting, kConnected, kDisconnecting
<1>3. OrderInv
  BY DEF OrderInv, InOrder, UpTo, Rising, Under
<1>4. CompleteInv
  <2>1. wire \o _outputBuffer = <<>> /\ [i \in 1 .. accepted |-> i] = <<>>
    OBVIOUS
  <2> QED
    BY <2>1 DEF CompleteInv
<1> QED
  BY <1>1, <1>2, <1>3, <1>4 DEF WireInv

\* The connection stays as it is, is ended, or is closed.
StateMoves ==
    \/ UNCHANGED <<_state, channel>>
    \/ Up /\ _state' = kDisconnecting /\ channel' = channel
    \/ _state' = kDisconnected /\ Shut(channel')

(* A step that writes nothing and accepts nothing, whatever the peer does. *)
LEMMA WireKept ==
  ASSUME WireInv, UNCHANGED <<usage, sendVars, fin, overtaken>>, StateMoves,
         peer' # "reset" => peer # "reset"
  PROVE  WireInv'
<1> USE DEF sendVars
<1>0. /\ kConnected # kDisconnected /\ kDisconnecting # kDisconnected
      /\ kConnecting # kDisconnecting /\ kConnecting # kDisconnected
      /\ kConnecting # kConnected
  BY DEF kConnecting, kConnected, kDisconnecting, kDisconnected
<1>1. DataInv'
  BY DEF WireInv, DataInv
<1>2. OrderInv'
  BY DEF WireInv, OrderInv, InOrder, Rising, Under, UpTo
<1>3. ~Broken' => ~Broken
  BY DEF Broken
<1>4. CompleteInv'
  BY <1>3 DEF WireInv, CompleteInv, NoFiles
<1>5. ASSUME UNCHANGED <<_state, channel>> \/ (Up /\ _state' = kDisconnecting /\ channel' = channel)
      PROVE  OutputInv'
  <2>1. /\ channel' = channel
        /\ _state' \in {kConnected, kDisconnecting} => Up
        /\ _state' = kConnecting => _state = kConnecting
        /\ _state \in {kDisconnecting, kDisconnected} =>
              _state' \in {kDisconnecting, kDisconnected}
    BY <1>0, <1>5 DEF Up
  <2>2. WritingIffPending'
    BY <2>1, <1>3 DEF WireInv, OutputInv, WritingIffPending, Up
  <2> QED
    BY <2>1, <2>2 DEF WireInv, OutputInv
<1>6. ASSUME _state' = kDisconnected, Shut(channel')
      PROVE  OutputInv'
  <2>1. WritingIffPending'
    BY <1>0, <1>6 DEF WritingIffPending
  <2>2. ~isWriting(channel')
    BY <1>6, ShutIsSilent
  <2> QED
    BY <1>0, <1>6, <2>1, <2>2 DEF WireInv, OutputInv
<1> QED
  BY <1>1, <1>2, <1>4, <1>5, <1>6 DEF WireInv, StateMoves

(* sendInLoop keeps the order: it writes at once only when nothing waits,  *)
(* keeps what the socket did not take, and watches for room for it         *)
(* (TcpConnection.cpp:230-316).                                            *)
LEMMA SendKeepsWire ==
  ASSUME LifeInv, WireInv, _state # kConnecting, NEW len \in Nat, NEW n, NEW queue,
         sendInLoop(len, n, queue), UNCHANGED <<usage, _state, fin, peer>>
  PROVE  WireInv'
<1>1. CASE _state = kDisconnected
  <2>1. UNCHANGED <<sendVars, channel, overtaken>>
    BY <1>1 DEF sendInLoop
  <2>2. StateMoves
    BY <2>1 DEF StateMoves
  <2> QED
    BY <2>1, <2>2, WireKept
<1>2. CASE _state # kDisconnected
  <2> DEFINE data == NewUnits(len)
             direct == WritesDirectly
             fault == direct /\ Broken
             k == IF direct /\ ~fault THEN n ELSE 0
             rest == Drop(data, k)
             keep == ~fault /\ rest # <<>>
             a == Take(data, k)
             b == IF keep THEN rest ELSE <<>>
  <2>1. /\ n \in 0 .. len /\ accepted' = accepted + len /\ wire' = wire \o a
        /\ _outputBuffer' = IF keep THEN _outputBuffer \o rest ELSE _outputBuffer
        /\ channel' = IF keep /\ ~isWriting(channel) THEN enableWriting(channel)
                      ELSE channel
        /\ overtaken' = (overtaken \/ _sendFile # <<>>)
        /\ _sendFile' = _sendFile
    BY <1>2 DEF sendInLoop
  <2>2. Up /\ Open(channel)
    BY <1>2 DEF LifeInv, ChannelInv, States, Up
  <2>3. /\ accepted \in Nat /\ wire \in Seq(Nat)
        /\ _outputBuffer \in Seq(Nat) /\ _sendFile \in Seq(Nat)
        /\ UpTo(wire, accepted) /\ UpTo(_outputBuffer, accepted)
        /\ UpTo(_sendFile, accepted)
    BY DEF WireInv, DataInv, OrderInv
  <2>4. k \in 0 .. len
    BY <2>1
  <2>5. /\ data \in Seq(Nat) /\ Len(data) = len /\ Rising(data)
        /\ UpTo(data, accepted + len) /\ Under(wire, data) /\ UpTo(wire, accepted + len)
    BY <2>3, NewInOrder
  <2>6. /\ Under(_outputBuffer, data) /\ UpTo(_outputBuffer, accepted + len)
        /\ Under(_sendFile, data) /\ UpTo(_sendFile, accepted + len)
    BY <2>3, NewInOrder
  <2>7. k > 0 => ~isWriting(channel) /\ _outputBuffer = <<>> /\ ~Broken
    BY DEF WritesDirectly
  <2>8. fault => k = 0 /\ Broken
    OBVIOUS
  <2>9. fin = fin' /\ Broken' = Broken
    BY DEF Broken
  <2> HIDE DEF data, k
  <2>10. /\ a \in Seq(Nat) /\ Len(a) = k /\ rest \in Seq(Nat) /\ Len(rest) = len - k
         /\ a \o rest = data
    BY <2>4, <2>5, TakeAndDrop
  <2>11. b \in Seq(Nat) /\ (b = rest \/ b = <<>>)
    BY <2>10
  <2>12. _outputBuffer' = _outputBuffer \o b
    BY <2>1, <2>3, ConcatEmptySeq
  <2>13. DataInv'
    <3>1. wire' \in Seq(Nat) /\ _outputBuffer' \in Seq(Nat) /\ _sendFile' \in Seq(Nat)
      BY <2>1, <2>3, <2>10, <2>11, <2>12, ConcatProperties
    <3>2. accepted' \in Nat
      BY <2>1, <2>3
    <3>3. overtaken' \in BOOLEAN /\ fin' \in BOOLEAN
      BY <2>1, <2>9 DEF WireInv, DataInv
    <3> QED
      BY <3>1, <3>2, <3>3 DEF DataInv
  <2>14. OrderInv'
    <3>0. accepted + len \in Nat
      BY <2>3
    <3>1. /\ Rising(a) /\ Rising(rest) /\ Under(a, rest)
          /\ Under(wire, a) /\ Under(wire, rest)
          /\ UpTo(a, accepted + len) /\ UpTo(rest, accepted + len)
      BY <2>3, <2>4, <2>5, <3>0, CutInOrder
    <3>2. Under(_outputBuffer, rest)
      BY <2>3, <2>4, <2>5, <2>6, <3>0, CutInOrder
    <3>3. /\ Rising(b) /\ Under(a, b) /\ Under(wire, b) /\ UpTo(b, accepted + len)
          /\ Under(_outputBuffer, b)
      BY <2>11, <3>1, <3>2 DEF Rising, Under, UpTo
    <3>4. UpTo(wire', accepted')
      BY <2>1, <2>3, <2>5, <2>10, <3>0, <3>1, JoinInOrder
    <3>5. UpTo(_outputBuffer', accepted')
      BY <2>1, <2>3, <2>6, <2>11, <2>12, <3>0, <3>3, JoinInOrder
    <3>6. UpTo(_sendFile', accepted')
      BY <2>1, <2>6
    <3>7. ASSUME ~overtaken'
          PROVE  InOrder'
      <4>1. InOrder /\ _sendFile = <<>>
        BY <2>1, <3>7 DEF WireInv, OrderInv
      <4>2. Rising(wire')
        BY <2>1, <2>3, <2>10, <3>1, <4>1, JoinInOrder DEF InOrder
      <4>3. Rising(_outputBuffer')
        BY <2>3, <2>11, <2>12, <3>3, <4>1, JoinInOrder DEF InOrder
      <4>4. Under(wire, _outputBuffer')
        BY <2>3, <2>11, <2>12, <3>3, <4>1, JoinInOrder DEF InOrder
      <4>5. Under(a, _outputBuffer)
        <5>1. k = 0 \/ _outputBuffer = <<>>
          BY <2>4, <2>7
        <5> QED
          BY <5>1, <2>10 DEF Under
      <4>6. Under(a, _outputBuffer')
        BY <2>3, <2>10, <2>11, <2>12, <3>3, <4>5, JoinInOrder
      <4>7. _outputBuffer' \in Seq(Nat)
        BY <2>13 DEF DataInv
      <4>8. Under(wire', _outputBuffer')
        BY <2>1, <2>3, <2>10, <4>4, <4>6, <4>7, JoinInOrder
      <4>9. _sendFile' = <<>> /\ Rising(<<>>) /\ Under(wire', <<>>)
            /\ Under(_outputBuffer', <<>>)
        BY <2>1, <4>1 DEF Rising, Under
      <4> QED
        BY <4>2, <4>3, <4>8, <4>9 DEF InOrder
    <3> QED
      BY <3>4, <3>5, <3>6, <3>7 DEF OrderInv
  <2>15. OutputInv'
    <3>1. ASSUME ~Broken
          PROVE  isWriting(channel)' <=> (_outputBuffer' # <<>> \/ _sendFile' # <<>>)
      <4>1. isWriting(channel) <=> _outputBuffer # <<>> \/ _sendFile # <<>>
        BY <2>2, <3>1 DEF WireInv, OutputInv, WritingIffPending, Up
      <4>2. CASE keep
        <5>1. isWriting(channel')
          BY <2>1, <2>2, <4>2, WritingKeepsOpen
        <5>2. _outputBuffer' # <<>>
          BY <2>1, <2>3, <2>10, <4>2, ConcatEqualIffEmpty
        <5> QED
          BY <5>1, <5>2
      <4>3. CASE ~keep
        BY <2>1, <4>1, <4>3
      <4> QED
        BY <4>2, <4>3
    <3>2. WritingIffPending'
      BY <3>1, <2>9 DEF WritingIffPending
    <3>3. ASSUME fin, peer # "reset"
          PROVE  ~isWriting(channel') /\ _outputBuffer' = <<>> /\ _sendFile' = <<>>
      <4>1. ~isWriting(channel) /\ _outputBuffer = <<>> /\ _sendFile = <<>>
        BY <3>3 DEF WireInv, OutputInv
      <4>2. fault
        BY <3>3, <4>1 DEF WritesDirectly, Broken
      <4> QED
        BY <4>1, <4>2, <2>1
    <3> QED
      BY <3>2, <3>3 DEF WireInv, OutputInv
  <2>16. CompleteInv'
    <3> SUFFICES ASSUME NoFiles, ~Broken
                 PROVE  wire' \o _outputBuffer' = [i \in 1 .. accepted' |-> i]
      BY <2>1, <2>9 DEF CompleteInv, WireInv, NoFiles
    <3>1. wire \o _outputBuffer = [i \in 1 .. accepted |-> i]
      BY DEF WireInv, CompleteInv
    <3>2. b = rest
      <4>1. ~fault
        BY <2>8
      <4> QED
        BY <4>1
    <3>3. wire' \o _outputBuffer' = (wire \o _outputBuffer) \o data
      <4>1. CASE k = 0
        <5>1. a = <<>>
          BY <4>1, <2>10
        <5>2. wire' = wire /\ rest = data
          BY <5>1, <2>1, <2>3, <2>10, ConcatEmptySeq
        <5>3. wire \o (_outputBuffer \o data) = (wire \o _outputBuffer) \o data
          BY <2>3, <2>5, JoinAssociates, Zenon
        <5> QED
          BY <5>2, <5>3, <3>2, <2>12
      <4>2. CASE k # 0
        <5>1. _outputBuffer = <<>>
          BY <4>2, <2>4, <2>7
        <5>2. _outputBuffer' = rest /\ wire \o _outputBuffer = wire
          BY <5>1, <2>3, <2>10, <2>12, <3>2, ConcatEmptySeq
        <5>3. (wire \o a) \o rest = wire \o (a \o rest)
          BY <2>3, <2>10, JoinAssociates, Zenon
        <5> QED
          BY <5>2, <5>3, <2>1, <2>10
      <4> QED
        BY <4>1, <4>2
    <3>4. [i \in 1 .. accepted |-> i] \o data = [i \in 1 .. accepted + len |-> i]
      BY <2>3 DEF data, NewUnits
    <3> QED
      BY <3>1, <3>3, <3>4, <2>1
  <2> QED
    BY <2>13, <2>14, <2>15, <2>16 DEF WireInv
<1> QED
  BY <1>1, <1>2

(* sendFile from a callback: the file is written at once only when nothing *)
(* waits, and comes after the buffer otherwise (TcpConnection.cpp:353-409).*)
LEMMA SendFileKeepsWire ==
  ASSUME LifeInv, WireInv, NEW len \in 1 .. MaxLen, NEW n, LoopSendFile(len, n)
  PROVE  WireInv'
<1> DEFINE data == NewUnits(len)
           direct == WritesDirectly
           fault == direct /\ Broken
           k == IF direct /\ ~fault THEN n ELSE 0
           rest == Drop(data, k)
           a == Take(data, k)
<1>0. /\ _state = kConnected /\ UNCHANGED <<usage, _state, fin, peer, _outputBuffer>>
      /\ accepted' = accepted + len /\ overtaken' = (overtaken \/ _sendFile # <<>>)
      /\ "sendFile" \in usage.loopOps /\ sendFileInLoop(data, n)
  BY DEF LoopSendFile, Allowed, peerVars
<1>1. len \in Nat /\ len > 0
  BY ConnectionAssumption
<1>2. /\ accepted \in Nat /\ wire \in Seq(Nat)
      /\ _outputBuffer \in Seq(Nat) /\ _sendFile \in Seq(Nat)
      /\ UpTo(wire, accepted) /\ UpTo(_outputBuffer, accepted)
  BY DEF WireInv, DataInv, OrderInv
<1>3. /\ data \in Seq(Nat) /\ Len(data) = len /\ Rising(data)
      /\ UpTo(data, accepted + len) /\ Under(wire, data) /\ UpTo(wire, accepted + len)
  BY <1>1, <1>2, NewInOrder
<1>4. Under(_outputBuffer, data) /\ UpTo(_outputBuffer, accepted + len)
  BY <1>1, <1>2, NewInOrder
<1>5. /\ n \in 0 .. Len(data) /\ wire' = wire \o a /\ _sendFile' = rest
      /\ channel' = IF ~fault /\ rest # <<>> /\ ~isWriting(channel)
                    THEN enableWriting(channel) ELSE channel
  BY <1>0 DEF sendFileInLoop, kConnected, kDisconnected
<1>6. k \in 0 .. len
  BY <1>1, <1>3, <1>5
<1>7. Up /\ Open(channel)
  BY <1>0 DEF LifeInv, ChannelInv, Up
<1>8. ~fin
  BY <1>0 DEF WireInv, OutputInv, kConnected, kDisconnecting, kDisconnected
<1>9. Broken' = Broken /\ accepted + len \in Nat
  BY <1>0, <1>1, <1>2 DEF Broken
<1>10. k > 0 => _outputBuffer = <<>> /\ ~isWriting(channel)
  BY DEF WritesDirectly
<1> HIDE DEF data, k
<1>11. /\ a \in Seq(Nat) /\ Len(a) = k /\ rest \in Seq(Nat) /\ Len(rest) = len - k
  BY <1>3, <1>6, TakeAndDrop
<1>12. DataInv'
  <2>1. wire' \in Seq(Nat) /\ _outputBuffer' \in Seq(Nat) /\ _sendFile' \in Seq(Nat)
    BY <1>0, <1>2, <1>5, <1>11, ConcatProperties
  <2>2. overtaken' \in BOOLEAN /\ fin' \in BOOLEAN
    BY <1>0 DEF WireInv, DataInv
  <2> QED
    BY <2>1, <2>2, <1>0, <1>9 DEF DataInv
<1>13. OrderInv'
  <2>1. /\ Rising(a) /\ Rising(rest) /\ Under(a, rest)
        /\ Under(wire, a) /\ Under(wire, rest)
        /\ UpTo(a, accepted + len) /\ UpTo(rest, accepted + len)
    BY <1>2, <1>3, <1>6, <1>9, CutInOrder
  <2>2. Under(_outputBuffer, rest)
    BY <1>2, <1>3, <1>4, <1>6, <1>9, CutInOrder
  <2>3. UpTo(wire', accepted')
    BY <1>0, <1>2, <1>3, <1>5, <1>9, <1>11, <2>1, JoinInOrder
  <2>4. UpTo(_outputBuffer', accepted') /\ UpTo(_sendFile', accepted')
    BY <1>0, <1>4, <1>5, <2>1
  <2>5. ASSUME ~overtaken'
        PROVE  InOrder'
    <3>1. InOrder
      BY <1>0, <2>5 DEF WireInv, OrderInv
    <3>2. Rising(wire')
      BY <1>2, <1>5, <1>11, <2>1, <3>1, JoinInOrder DEF InOrder
    <3>3. Under(a, _outputBuffer)
      <4>1. k = 0 \/ _outputBuffer = <<>>
        BY <1>6, <1>10
      <4> QED
        BY <4>1, <1>11 DEF Under
    <3>4. Under(wire', _outputBuffer)
      BY <1>2, <1>5, <1>11, <3>1, <3>3, JoinInOrder DEF InOrder
    <3>5. Under(wire', rest)
      BY <1>2, <1>5, <1>11, <2>1, JoinInOrder
    <3> QED
      BY <1>0, <1>5, <2>1, <2>2, <3>1, <3>2, <3>4, <3>5 DEF InOrder
  <2> QED
    BY <2>3, <2>4, <2>5 DEF OrderInv
<1>14. OutputInv'
  <2>1. ASSUME ~Broken
        PROVE  isWriting(channel)' <=> (_outputBuffer' # <<>> \/ _sendFile' # <<>>)
    <3>1. isWriting(channel) <=> _outputBuffer # <<>> \/ _sendFile # <<>>
      BY <1>7, <2>1 DEF WireInv, OutputInv, WritingIffPending, Up
    <3>2. CASE rest # <<>>
      <4>1. isWriting(channel')
        BY <1>5, <1>7, <2>1, <3>2, WritingKeepsOpen
      <4> QED
        BY <4>1, <3>2, <1>5
    <3>3. CASE rest = <<>>
      <4>1. k > 0
        BY <3>3, <1>1, <1>6, <1>11
      <4>2. ~isWriting(channel) /\ channel' = channel /\ _outputBuffer' = <<>>
        BY <4>1, <3>3, <1>0, <1>5, <1>10
      <4> QED
        BY <4>2, <3>3, <1>5
    <3> QED
      BY <3>2, <3>3
  <2>2. WritingIffPending'
    BY <2>1, <1>9 DEF WritingIffPending
  <2> QED
    BY <2>2, <1>0, <1>8 DEF OutputInv, kConnecting, kConnected
<1>15. CompleteInv'
  BY <1>0 DEF CompleteInv, NoFiles
<1> QED
  BY <1>12, <1>13, <1>14, <1>15 DEF WireInv

(* handleWrite moves units from the front of the buffer to the wire        *)
(* (TcpConnection.cpp:264-313).                                            *)
LEMMA WriteBufferKeepsWire ==
  ASSUME LifeInv, WireInv, NEW n, HandleWriteBuffer(n)
  PROVE  WireInv'
<1> DEFINE a == Take(_outputBuffer, n)
           rest == Drop(_outputBuffer, n)
<1>0. /\ isWriting(channel) /\ _outputBuffer # <<>> /\ ~Broken
      /\ n \in 1 .. Len(_outputBuffer)
      /\ wire' = wire \o a /\ _outputBuffer' = rest
      /\ UNCHANGED <<_state, _sendFile, accepted, peer, usage, overtaken>>
      /\ IF _outputBuffer' = <<>> /\ _sendFile = <<>> THEN OutputDone
         ELSE UNCHANGED <<channel, fin>>
  BY DEF HandleWriteBuffer, peerVars, userVars
<1>1. /\ accepted \in Nat /\ wire \in Seq(Nat)
      /\ _outputBuffer \in Seq(Nat) /\ _sendFile \in Seq(Nat)
      /\ UpTo(wire, accepted) /\ UpTo(_outputBuffer, accepted)
      /\ UpTo(_sendFile, accepted) /\ fin \in BOOLEAN /\ overtaken \in BOOLEAN
  BY DEF WireInv, DataInv, OrderInv
<1>2. n \in 0 .. Len(_outputBuffer) /\ Len(_outputBuffer) \in Nat
  BY <1>0, <1>1
<1>3. a \in Seq(Nat) /\ rest \in Seq(Nat) /\ a \o rest = _outputBuffer
  BY <1>1, <1>2, TakeAndDrop
<1>4. Up /\ Open(channel)
  BY <1>0, ShutIsSilent DEF LifeInv, ChannelInv, Up, States
<1>5. ~fin /\ peer # "reset"
  BY <1>0 DEF Broken
<1>6. /\ Open(disableWriting(channel)) /\ ~isWriting(disableWriting(channel))
  BY <1>4, WritingKeepsOpen
<1>7. fin' => /\ _outputBuffer' = <<>> /\ _sendFile' = <<>> /\ ~isWriting(channel')
              /\ _state' = kDisconnecting
  BY <1>0, <1>5, <1>6 DEF OutputDone
<1>8. ~fin' => (isWriting(channel') <=> (_outputBuffer' # <<>> \/ _sendFile' # <<>>))
  <2>1. CASE _outputBuffer' = <<>> /\ _sendFile = <<>>
    BY <2>1, <1>0, <1>6 DEF OutputDone
  <2>2. CASE ~(_outputBuffer' = <<>> /\ _sendFile = <<>>)
    BY <2>2, <1>0
  <2> QED
    BY <2>1, <2>2
<1>9. fin' \in BOOLEAN
  BY <1>0, <1>1 DEF OutputDone, shutdownInLoop
<1>10. DataInv'
  <2>1. wire' \in Seq(Nat)
    BY <1>0, <1>1, <1>3, ConcatProperties
  <2> QED
    BY <2>1, <1>0, <1>1, <1>3, <1>9 DEF DataInv
<1>11. OutputInv'
  <2>1. WritingIffPending'
    BY <1>8 DEF WritingIffPending, Broken
  <2>2. _state' # kConnecting
    BY <1>0, <1>4 DEF Up, kConnecting, kConnected, kDisconnecting
  <2> QED
    BY <2>1, <2>2, <1>7 DEF OutputInv
<1>12. OrderInv'
  <2>1. UpTo(a, accepted) /\ UpTo(rest, accepted)
    BY <1>1, <1>2, CutInOrder
  <2>2. UpTo(wire', accepted') /\ UpTo(_outputBuffer', accepted') /\ UpTo(_sendFile', accepted')
    BY <1>0, <1>1, <1>3, <2>1, JoinInOrder
  <2>3. ASSUME ~overtaken'
        PROVE  InOrder'
    <3>1. InOrder
      BY <1>0, <2>3 DEF WireInv, OrderInv
    <3>2. /\ Rising(a) /\ Rising(rest) /\ Under(a, rest)
          /\ Under(wire, a) /\ Under(wire, rest)
      BY <1>1, <1>2, <3>1, CutInOrder DEF InOrder
    <3>3. Under(a, _sendFile) /\ Under(rest, _sendFile)
      BY <1>1, <1>2, <3>1, CutInOrder DEF InOrder
    <3>4. Rising(wire') /\ Under(wire', rest)
      BY <1>0, <1>1, <1>3, <3>1, <3>2, JoinInOrder DEF InOrder
    <3>5. Under(wire', _sendFile)
      BY <1>0, <1>1, <1>3, <3>1, <3>3, JoinInOrder DEF InOrder
    <3> QED
      BY <1>0, <3>1, <3>2, <3>3, <3>4, <3>5 DEF InOrder
  <2> QED
    BY <2>2, <2>3 DEF OrderInv
<1>13. CompleteInv'
  <2> SUFFICES ASSUME NoFiles
               PROVE  /\ _sendFile' = <<>>
                      /\ wire' \o _outputBuffer' = [i \in 1 .. accepted' |-> i]
    BY <1>0 DEF CompleteInv, NoFiles
  <2>1. _sendFile = <<>> /\ wire \o _outputBuffer = [i \in 1 .. accepted |-> i]
    BY <1>0 DEF WireInv, CompleteInv
  <2>2. (wire \o a) \o rest = wire \o (a \o rest)
    BY <1>1, <1>3, JoinAssociates, Zenon
  <2> QED
    BY <1>0, <1>3, <2>1, <2>2
<1> QED
  BY <1>10, <1>11, <1>12, <1>13 DEF WireInv

(* handleWrite moves units of the file, once the buffer is empty           *)
(* (TcpConnection.cpp:290-307).                                            *)
LEMMA WriteFileKeepsWire ==
  ASSUME LifeInv, WireInv, NEW n, HandleWriteFile(n)
  PROVE  WireInv'
<1> DEFINE a == Take(_sendFile, n)
           rest == Drop(_sendFile, n)
<1>0. /\ isWriting(channel) /\ _outputBuffer = <<>> /\ ~Broken
      /\ n \in 1 .. Len(_sendFile)
      /\ wire' = wire \o a /\ _sendFile' = rest
      /\ UNCHANGED <<_state, _outputBuffer, accepted, peer, usage, overtaken>>
      /\ IF _sendFile' = <<>> THEN OutputDone ELSE UNCHANGED <<channel, fin>>
  BY DEF HandleWriteFile, peerVars, userVars
<1>1. /\ accepted \in Nat /\ wire \in Seq(Nat)
      /\ _outputBuffer \in Seq(Nat) /\ _sendFile \in Seq(Nat)
      /\ UpTo(wire, accepted) /\ UpTo(_outputBuffer, accepted)
      /\ UpTo(_sendFile, accepted) /\ fin \in BOOLEAN /\ overtaken \in BOOLEAN
  BY DEF WireInv, DataInv, OrderInv
<1>2. n \in 0 .. Len(_sendFile) /\ Len(_sendFile) \in Nat /\ _sendFile # <<>>
  BY <1>0, <1>1
<1>3. a \in Seq(Nat) /\ rest \in Seq(Nat)
  BY <1>1, <1>2, TakeAndDrop
<1>4. Up /\ Open(channel)
  BY <1>0, ShutIsSilent DEF LifeInv, ChannelInv, Up, States
<1>5. ~fin /\ peer # "reset"
  BY <1>0 DEF Broken
<1>6. /\ Open(disableWriting(channel)) /\ ~isWriting(disableWriting(channel))
  BY <1>4, WritingKeepsOpen
<1>7. fin' => /\ _outputBuffer' = <<>> /\ _sendFile' = <<>> /\ ~isWriting(channel')
              /\ _state' = kDisconnecting
  BY <1>0, <1>5, <1>6 DEF OutputDone
<1>8. ~fin' => (isWriting(channel') <=> (_outputBuffer' # <<>> \/ _sendFile' # <<>>))
  <2>1. CASE _sendFile' = <<>>
    BY <2>1, <1>0, <1>6 DEF OutputDone
  <2>2. CASE _sendFile' # <<>>
    BY <2>2, <1>0
  <2> QED
    BY <2>1, <2>2
<1>9. fin' \in BOOLEAN
  BY <1>0, <1>1 DEF OutputDone, shutdownInLoop
<1>10. DataInv'
  <2>1. wire' \in Seq(Nat)
    BY <1>0, <1>1, <1>3, ConcatProperties
  <2> QED
    BY <2>1, <1>0, <1>1, <1>3, <1>9 DEF DataInv
<1>11. OutputInv'
  <2>1. WritingIffPending'
    BY <1>8 DEF WritingIffPending, Broken
  <2>2. _state' # kConnecting
    BY <1>0, <1>4 DEF Up, kConnecting, kConnected, kDisconnecting
  <2> QED
    BY <2>1, <2>2, <1>7 DEF OutputInv
<1>12. OrderInv'
  <2>1. UpTo(a, accepted) /\ UpTo(rest, accepted)
    BY <1>1, <1>2, CutInOrder
  <2>2. UpTo(wire', accepted') /\ UpTo(_outputBuffer', accepted') /\ UpTo(_sendFile', accepted')
    BY <1>0, <1>1, <1>3, <2>1, JoinInOrder
  <2>3. ASSUME ~overtaken'
        PROVE  InOrder'
    <3>1. InOrder
      BY <1>0, <2>3 DEF WireInv, OrderInv
    <3>2. /\ Rising(a) /\ Rising(rest) /\ Under(a, rest)
          /\ Under(wire, a) /\ Under(wire, rest)
      BY <1>1, <1>2, <3>1, CutInOrder DEF InOrder
    <3>3. Rising(wire') /\ Under(wire', rest)
      BY <1>0, <1>1, <1>3, <3>1, <3>2, JoinInOrder DEF InOrder
    <3>4. Under(wire', <<>>) /\ Rising(<<>>) /\ Under(<<>>, rest)
      BY DEF Under, Rising
    <3> QED
      BY <1>0, <3>2, <3>3, <3>4 DEF InOrder
  <2> QED
    BY <2>2, <2>3 DEF OrderInv
<1>13. CompleteInv'
  BY <1>0, <1>2 DEF WireInv, CompleteInv, NoFiles
<1> QED
  BY <1>10, <1>11, <1>12, <1>13 DEF WireInv

(* handleWrite gives the file up when sendfile fails                       *)
(* (TcpConnection.cpp:290-307).                                            *)
LEMMA FileFailsKeepsWire ==
  ASSUME LifeInv, WireInv, HandleWriteFileFails
  PROVE  WireInv'
<1>0. /\ isWriting(channel) /\ _outputBuffer = <<>> /\ _sendFile' = <<>>
      /\ channel' = disableWriting(channel)
      /\ UNCHANGED <<_state, _outputBuffer, wire, accepted, fin, peer, usage, overtaken>>
  BY DEF HandleWriteFileFails, peerVars, userVars
<1>1. Up /\ Open(channel)
  BY <1>0, ShutIsSilent DEF LifeInv, ChannelInv, Up, States
<1>2. ~isWriting(channel')
  BY <1>0, <1>1, WritingKeepsOpen
<1>3. DataInv'
  BY <1>0, EmptySeq DEF WireInv, DataInv
<1>4. OutputInv'
  <2>1. WritingIffPending'
    BY <1>0, <1>2 DEF WritingIffPending
  <2> QED
    BY <2>1, <1>0, <1>2 DEF WireInv, OutputInv
<1>5. OrderInv'
  <2>1. UpTo(<<>>, accepted) /\ Rising(<<>>) /\ Under(wire, <<>>)
        /\ Under(_outputBuffer, <<>>)
    BY DEF UpTo, Rising, Under
  <2>2. InOrder => InOrder'
    BY <1>0, <2>1 DEF InOrder
  <2> QED
    BY <1>0, <2>1, <2>2 DEF WireInv, OrderInv
<1>6. CompleteInv'
  BY <1>0 DEF WireInv, CompleteInv, NoFiles, Broken
<1> QED
  BY <1>3, <1>4, <1>5, <1>6 DEF WireInv

(* shutdown from a callback shuts the write side at once only when nothing *)
(* waits (TcpConnection.cpp:151-158, 411-422).                             *)
LEMMA ShutdownKeepsWire ==
  ASSUME LifeInv, WireInv, LoopShutdown
  PROVE  WireInv'
<1>0. /\ _state = kConnected /\ _state' = kDisconnecting
      /\ fin' = IF isWriting(channel) THEN fin ELSE TRUE
      /\ UNCHANGED <<channel, sendVars, peer, usage, overtaken>>
  BY DEF LoopShutdown, Allowed, shutdownInLoop, peerVars
<1>1. ~fin
  BY <1>0 DEF WireInv, OutputInv, kConnected, kDisconnecting, kDisconnected
<1>2. peer # "reset" => (isWriting(channel) <=> _outputBuffer # <<>> \/ _sendFile # <<>>)
  BY <1>0, <1>1 DEF WireInv, OutputInv, WritingIffPending, Broken
<1>3. fin' \in BOOLEAN
  BY <1>0 DEF WireInv, DataInv
<1>4. DataInv' /\ OrderInv'
  BY <1>0, <1>3 DEF WireInv, DataInv, OrderInv, InOrder, sendVars
<1>5. OutputInv'
  <2>1. WritingIffPending'
    BY <1>0, <1>2 DEF WritingIffPending, Broken, sendVars
  <2>2. fin' => ~isWriting(channel)
    BY <1>0, <1>1
  <2> QED
    BY <2>1, <2>2, <1>0, <1>2 DEF OutputInv, sendVars, kConnecting, kDisconnecting
<1>6. CompleteInv'
  BY <1>0, <1>1 DEF WireInv, CompleteInv, NoFiles, Broken, sendVars
<1> QED
  BY <1>4, <1>5, <1>6 DEF WireInv

(* connectEstablished: nothing has been sent yet (TcpConnection.cpp:199).  *)
LEMMA EstablishedKeepsWire ==
  ASSUME LifeInv, WireInv, ConnectEstablished
  PROVE  WireInv'
<1>1. /\ _state = kConnecting /\ _state' = kConnected /\ ~isWriting(channel')
  BY EstablishedKeepsLife
<1>2. UNCHANGED <<sendVars, fin, peer, usage, overtaken>>
  BY DEF ConnectEstablished, peerVars, userVars
<1>3. _outputBuffer = <<>> /\ _sendFile = <<>> /\ ~fin
  BY <1>1 DEF WireInv, OutputInv, kConnecting, kDisconnecting, kDisconnected
<1>4. DataInv' /\ OrderInv'
  BY <1>2 DEF WireInv, DataInv, OrderInv, InOrder, sendVars
<1>5. OutputInv'
  <2>1. WritingIffPending'
    BY <1>1, <1>2, <1>3 DEF WritingIffPending, sendVars
  <2> QED
    BY <2>1, <1>2, <1>3 DEF OutputInv, sendVars
<1>6. CompleteInv'
  BY <1>2 DEF WireInv, CompleteInv, NoFiles, Broken, sendVars
<1> QED
  BY <1>4, <1>5, <1>6 DEF WireInv

(* Every step keeps the output invariant.                                  *)
LEMMA WireNext ==
  ASSUME LifeInv, WireInv, [Next]_vars
  PROVE  WireInv'
<1> USE DEF peerVars, userVars, serverVars
<1>0. usage \in Usages /\ Orderly(usage) /\ _state \in States
  BY DEF LifeInv
<1>1. ASSUME UNCHANGED <<usage, sendVars, fin, overtaken, _state, channel>>,
             peer' # "reset" => peer # "reset"
      PROVE  WireInv'
  BY <1>1, WireKept DEF StateMoves
<1>2. ASSUME Up, handleClose, UNCHANGED <<usage, sendVars, fin, overtaken, peer>>
      PROVE  WireInv'
  <2>1. _state' = kDisconnected /\ Shut(channel')
    BY <1>2, DisableAllShuts DEF handleClose, LifeInv, ChannelInv
  <2> QED
    BY <2>1, <1>2, WireKept DEF StateMoves
<1>3. CASE HandleRead
  <2>1. Up
    BY <1>3, CallbackOfUp DEF HandleRead
  <2> QED
    BY <1>1, <1>2, <1>3, <2>1 DEF HandleRead
<1>4. CASE HandleCloseEvent
  BY <1>4, CallbackOfUp DEF HandleCloseEvent
<1>5. CASE HandleError \/ HandleWriteNothing
  BY <1>5, <1>1 DEF HandleError, HandleWriteNothing
<1>6. ASSUME NEW n, RunTask(n)
      PROVE  WireInv'
  <2>1. /\ _state # kConnecting /\ Head(pending) \in Queued
        /\ UNCHANGED <<usage, peer>>
    BY <1>6, TaskOfEstablished DEF RunTask, AllOps
  <2>2. /\ Head(pending).op \in {"send", "forceClose"}
        /\ Head(pending).len \in Nat
    BY <1>6, <2>1 DEF Queued, TaskType, RunTask, AllOps
  <2>3. InLoop(Head(pending).op, Head(pending).len, n, Tail(pending))
    BY <1>6 DEF RunTask
  <2>4. CASE Head(pending).op = "send"
    <3>1. sendInLoop(Head(pending).len, n, Tail(pending)) /\ UNCHANGED <<_state, fin>>
      BY <2>3, <2>4 DEF InLoop
    <3> QED
      BY <2>1, <2>2, <3>1, SendKeepsWire
  <2>5. CASE Head(pending).op = "forceClose"
    <3>1. forceCloseInLoop /\ UNCHANGED <<sendVars, fin, overtaken>>
      BY <2>3, <2>5 DEF InLoop
    <3> QED
      BY <2>1, <3>1, <1>1, <1>2 DEF forceCloseInLoop, Up
  <2> QED
    BY <2>2, <2>4, <2>5
<1>7. CASE ConnectDestroyed
  <2>1. _state' = kDisconnected /\ Shut(channel')
    BY <1>7, DestroyedKeepsLife
  <2> QED
    BY <1>7, <2>1, WireKept DEF ConnectDestroyed, StateMoves
<1>8. CASE UserCallback \/ \E writable \in BOOLEAN : PollReports(writable)
  BY <1>8, <1>1 DEF UserCallback, PollReports
<1>9. ASSUME NEW op, NEW len, NEW n, LoopCall(op, len, n)
      PROVE  WireInv'
  <2>1. op = "send" /\ _state # kConnecting /\ len \in Nat
    BY <1>0, <1>9, ConnectionAssumption DEF LoopCall, Orderly, Lengths
  <2>2. sendInLoop(len, n, pending) /\ UNCHANGED <<_state, fin, usage, peer>>
    BY <1>9, <2>1 DEF LoopCall, InLoop
  <2> QED
    BY <2>1, <2>2, SendKeepsWire
<1>10. CASE LoopForceClose
  <2>1. /\ Up /\ _state' = kDisconnecting
        /\ UNCHANGED <<usage, channel, sendVars, fin, overtaken, peer>>
    BY <1>10 DEF LoopForceClose, Allowed, Up, CallerHalf, sendVars
  <2> QED
    BY <2>1, WireKept DEF StateMoves
<1>11. ASSUME NEW t \in Threads, ThreadActs(t)
       PROVE  WireInv'
  <2>1. checked[t].op = "send"
    BY <1>11 DEF ThreadActs, LifeInv, ThreadInv
  <2>2. UNCHANGED <<usage, sendVars, fin, overtaken, _state, channel, peer>>
    BY <1>11, <2>1 DEF ThreadActs, CallerHalf, sendVars
  <2> QED
    BY <2>2, <1>1
<1>12. ASSUME NEW t \in Threads, NEW op, NEW len, ThreadTest(t, op, len)
       PROVE  WireInv'
  BY <1>12, <1>1 DEF ThreadTest
<1>13. CASE PeerStep
  BY <1>13, <1>1 DEF PeerStep, PeerSends, PeerCloses, PeerResets
<1>14. CASE RemoveConnectionInLoop \/ ServerDestroyed \/ UNCHANGED vars
  BY <1>14, <1>1 DEF RemoveConnectionInLoop, ServerDestroyed, vars
<1>15. CASE Handlers
  BY <1>15, <1>3, <1>4, <1>5, WriteBufferKeepsWire, WriteFileKeepsWire,
     FileFailsKeepsWire DEF Handlers
<1>16. CASE Tasks
  BY <1>16, <1>6, <1>7, <1>8, EstablishedKeepsWire DEF Tasks
<1>17. CASE UserStep
  BY <1>17, <1>9, <1>10, <1>12, SendFileKeepsWire, ShutdownKeepsWire DEF UserStep
<1> QED
  BY <1>8, <1>11, <1>13, <1>14, <1>15, <1>16, <1>17 DEF Next

(* Bytes reach the socket in the order they were accepted, none is left    *)
(* out while the socket works, what waits is waited for, and the write     *)
(* side is shut after the data: TcpConnection.cpp:230-316, 366-422.        *)
THEOREM WireAlwaysInOrder ==
  ASSUME OrderlyUse
  PROVE  Spec => []WireInOrder
<1>1. Init => LifeInv /\ WireInv
  BY LifeInit, WireInit
<1>2. LifeInv /\ WireInv /\ [Next]_vars => (LifeInv /\ WireInv)'
  BY LifeNext, WireNext
<1>3. WireInv => WireInOrder
  <2> SUFFICES ASSUME WireInv PROVE WireInOrder
    OBVIOUS
  <2>1. /\ DOMAIN wire = 1 .. Len(wire)
        /\ DOMAIN _outputBuffer = 1 .. Len(_outputBuffer)
        /\ DOMAIN _sendFile = 1 .. Len(_sendFile)
    BY DEF WireInv, DataInv
  <2>2. ~overtaken =>
          /\ \A i, j \in DOMAIN wire : i < j => wire[i] < wire[j]
          /\ \A i \in DOMAIN wire, j \in DOMAIN _outputBuffer : wire[i] < _outputBuffer[j]
          /\ \A i \in DOMAIN wire, j \in DOMAIN _sendFile : wire[i] < _sendFile[j]
    BY <2>1 DEF WireInv, OrderInv, InOrder, Rising, Under
  <2>3. WritingIffPending /\ FinAfterData
    BY DEF WireInv, OutputInv, FinAfterData
  <2>4. "sendFile" \notin usage.loopOps \cup usage.threadOps /\ ~Broken =>
            wire \o _outputBuffer = [i \in 1 .. accepted |-> i]
    BY DEF WireInv, CompleteInv, NoFiles
  <2> QED
    BY <2>2, <2>3, <2>4 DEF WireInOrder
<1> QED
  BY <1>1, <1>2, <1>3, PTL DEF Spec

=============================================================================
