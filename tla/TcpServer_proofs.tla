-------------------------- MODULE TcpServer_proofs --------------------------
(***************************************************************************)
(* What the server promises, for any number of clients and I/O loops: the  *)
(* way a connection comes and goes between the main loop and its own.      *)
(***************************************************************************)
EXTENDS TcpServer, FiniteSetTheorems, SequenceTheorems, TLAPS

ConnStates == {"none", "kConnecting", "kConnected", "kDisconnected"}

TaskOps == {"connectEstablished", "removeConnectionInLoop", "connectDestroyed"}

ServerTasks == [op : TaskOps, conn : Clients]

\* The tasks of a queue.
Elem(q) == {q[i] : i \in 1 .. Len(q)}

\* connectEstablished comes before everything else about its connection.
EstablishedFirst(q) ==
    \A i, j \in 1 .. Len(q) :
        q[i].op = "connectEstablished" /\ q[j].conn = q[i].conn => i <= j

\* What the user was told of a connection in state s
ToldAt(s) ==
    CASE s = "kConnected" -> <<"UP">>
      [] s = "kDisconnected" -> <<"UP", "DOWN">>
      [] OTHER -> <<>>

-----------------------------------------------------------------------------
(* The inductive invariant.                                                *)

ServerTypes ==
    /\ threadNum \in ThreadNums
    /\ backlog \in Seq(Clients) /\ _connections \subseteq Clients
    /\ conn \in [Clients -> [state : ConnStates, loop : Loops, known : BOOLEAN]]
    /\ told \in [Clients -> {<<>>, <<"UP">>, <<"UP", "DOWN">>}]
    /\ client \in [Clients -> {"away", "here", "closed", "refused"}]
    /\ waiting \in [Loops -> Seq(ServerTasks)]
    /\ loopAt \in [Loops -> {"poll", "accepted", "tasks", "over"}]
    /\ todo \in [Loops -> Nat]

\* A client waits in the backlog at most once and has no connection yet.
BacklogInv ==
    /\ \A i, j \in 1 .. Len(backlog) : backlog[i] = backlog[j] => i = j
    /\ \A i \in 1 .. Len(backlog) :
          conn[backlog[i]].state = "none" /\ client[backlog[i]] # "away"
    /\ \A c \in Clients : client[c] = "away" => conn[c].state = "none"
    /\ refusing = "accept" => backlog # <<>>
    /\ refusing # "no" => loopAt[Main] = "poll"

\* The connection of a task is in the state its handler expects.
TaskFits(l, k) ==
    /\ conn[k.conn].state # "none"
    /\ k.op # "removeConnectionInLoop" => conn[k.conn].loop = l
    /\ k.op = "connectEstablished" => conn[k.conn].state = "kConnecting"
    /\ k.op = "removeConnectionInLoop" => conn[k.conn].state = "kDisconnected"
    /\ k.op = "connectDestroyed" => k.conn \notin _connections

QueueInv ==
    \A l \in Loops :
        /\ \A k \in Elem(waiting[l]) : TaskFits(l, k)
        /\ EstablishedFirst(waiting[l])
        /\ loopAt[l] = "tasks" => todo[l] <= Len(waiting[l])

\* A connection the map does not hold is about to be destroyed, or was.
Destroying(c) ==
    \/ ServerTask("connectDestroyed", c) \in Elem(waiting[conn[c].loop])
    \/ conn[c].state = "kDisconnected" /\ ~conn[c].known

ConnInv(c) ==
    /\ told[c] = ToldAt(conn[c].state)
    /\ conn[c].state = "none" => c \notin _connections
    /\ conn[c].state \in {"none", "kConnecting"} => ~conn[c].known
    /\ conn[c].state = "kConnected" => conn[c].known
    /\ loopAt[conn[c].loop] # "over" =>
          /\ conn[c].state = "kConnecting" =>
                ServerTask("connectEstablished", c) \in Elem(waiting[conn[c].loop])
          /\ conn[c].state # "none" /\ c \notin _connections => Destroying(c)

ConnsInv == \A c \in Clients : ConnInv(c)

\* The loops take turns: the ones before _next have one connection more.
On(l) == {c \in Clients : conn[c].state # "none" /\ conn[c].loop = l}

TurnInv ==
    /\ nextLoop \in Nat /\ (threadNum > 0 => nextLoop < threadNum)
    /\ \E q \in Nat : \A l \in 1 .. threadNum :
          Cardinality(On(l)) = IF l <= nextLoop THEN q + 1 ELSE q

ServerInv == ServerTypes /\ BacklogInv /\ QueueInv /\ ConnsInv /\ TurnInv

-----------------------------------------------------------------------------
(* Queues of tasks.                                                        *)

(* The places a queue has.                                                 *)
LEMMA QueuePlaces ==
  ASSUME NEW q \in Seq(ServerTasks)
  PROVE  /\ Len(q) \in Nat
         /\ \A i \in 1 .. Len(q) : q[i] \in ServerTasks /\ q[i] \in Elem(q)
         /\ Elem(q) \subseteq ServerTasks
         /\ Len(q) > 0 <=> q # <<>>
<1>1. Len(q) \in Nat /\ \A i \in 1 .. Len(q) : q[i] \in ServerTasks
  OBVIOUS
<1>2. Len(q) > 0 <=> q # <<>>
  BY <1>1, EmptySeq
<1> QED
  BY <1>1, <1>2 DEF Elem

(* A task that is put at the end.                                          *)
LEMMA PutTask ==
  ASSUME NEW q \in Seq(ServerTasks), NEW k \in ServerTasks
  PROVE  /\ Append(q, k) \in Seq(ServerTasks) /\ Len(Append(q, k)) = Len(q) + 1
         /\ Elem(Append(q, k)) = Elem(q) \cup {k}
<1>1. /\ Append(q, k) \in Seq(ServerTasks) /\ Len(Append(q, k)) = Len(q) + 1
      /\ \A i \in 1 .. Len(q) : Append(q, k)[i] = q[i]
      /\ Append(q, k)[Len(q) + 1] = k /\ Len(q) \in Nat
  BY AppendProperties
<1>2. \A i \in 1 .. Len(q) + 1 : i \in 1 .. Len(q) \/ i = Len(q) + 1
  BY <1>1
<1>3. Len(q) + 1 \in 1 .. Len(q) + 1 /\ \A i \in 1 .. Len(q) : i \in 1 .. Len(q) + 1
  BY <1>1
<1> QED
  BY <1>1, <1>2, <1>3 DEF Elem

(* ... keeps connectEstablished in front of all other tasks of its         *)
(* connection, if that one's task is there already or is this one.         *)
LEMMA PutKeepsFirst ==
  ASSUME NEW q \in Seq(ServerTasks), NEW k \in ServerTasks, EstablishedFirst(q),
         k.op = "connectEstablished" => \A m \in Elem(q) : m.conn # k.conn
  PROVE  EstablishedFirst(Append(q, k))
<1>1. /\ Len(Append(q, k)) = Len(q) + 1
      /\ \A i \in 1 .. Len(q) : Append(q, k)[i] = q[i]
      /\ Append(q, k)[Len(q) + 1] = k /\ Len(q) \in Nat
  BY AppendProperties
<1> DEFINE p == Append(q, k)
<1>2. ASSUME NEW i \in 1 .. Len(p), NEW j \in 1 .. Len(p),
             p[i].op = "connectEstablished", p[j].conn = p[i].conn
      PROVE  i <= j
  <2>1. CASE i \in 1 .. Len(q) /\ j \in 1 .. Len(q)
    BY <1>1, <1>2, <2>1 DEF EstablishedFirst
  <2>2. CASE i \in 1 .. Len(q) /\ j \notin 1 .. Len(q)
    BY <1>1, <2>2
  <2>3. CASE i \notin 1 .. Len(q) /\ j \in 1 .. Len(q)
    <3>1. i = Len(q) + 1 /\ p[i] = k /\ p[j] = q[j] /\ q[j] \in Elem(q)
      BY <1>1, <2>3, QueuePlaces
    <3> QED
      BY <1>2, <3>1
  <2>4. CASE i \notin 1 .. Len(q) /\ j \notin 1 .. Len(q)
    BY <1>1, <2>4
  <2> QED
    BY <2>1, <2>2, <2>3, <2>4
<1> QED
  BY <1>2 DEF EstablishedFirst

(* The task in front is taken out.                                         *)
LEMMA TakeTask ==
  ASSUME NEW q \in Seq(ServerTasks), q # <<>>
  PROVE  /\ Tail(q) \in Seq(ServerTasks) /\ Len(Tail(q)) = Len(q) - 1
         /\ Head(q) \in Elem(q) /\ Head(q) = q[1] /\ 1 \in 1 .. Len(q)
         /\ Elem(q) = Elem(Tail(q)) \cup {Head(q)}
         /\ EstablishedFirst(q) => EstablishedFirst(Tail(q))
<1>1. /\ Tail(q) \in Seq(ServerTasks) /\ Len(Tail(q)) = Len(q) - 1
      /\ \A i \in 1 .. Len(Tail(q)) : Tail(q)[i] = q[i + 1]
  BY HeadTailProperties
<1>2. Len(q) \in Nat /\ Len(q) > 0 /\ 1 \in 1 .. Len(q)
  BY QueuePlaces
<1>3. Head(q) = q[1]
  BY <1>2
<1>4. \A i \in 1 .. Len(Tail(q)) : i + 1 \in 1 .. Len(q)
  BY <1>1, <1>2
<1>5. ASSUME NEW i \in 1 .. Len(q)
      PROVE  i = 1 \/ (i - 1 \in 1 .. Len(Tail(q)) /\ Tail(q)[i - 1] = q[i])
  <2>1. CASE i # 1
    <3>1. i - 1 \in 1 .. Len(Tail(q)) /\ (i - 1) + 1 = i
      BY <1>1, <1>2, <2>1
    <3> QED
      BY <1>1, <3>1
  <2> QED
    BY <2>1
<1>6. Elem(Tail(q)) \subseteq Elem(q)
  BY <1>1, <1>4 DEF Elem
<1>7. Elem(q) \subseteq Elem(Tail(q)) \cup {Head(q)}
  BY <1>3, <1>5 DEF Elem
<1>8. Head(q) \in Elem(q)
  BY <1>2, <1>3 DEF Elem
<1>9. ASSUME EstablishedFirst(q), NEW i \in 1 .. Len(Tail(q)), NEW j \in 1 .. Len(Tail(q)),
             Tail(q)[i].op = "connectEstablished", Tail(q)[j].conn = Tail(q)[i].conn
      PROVE  i <= j
  <2>1. i + 1 <= j + 1
    BY <1>1, <1>4, <1>9 DEF EstablishedFirst
  <2> QED
    BY <2>1
<1> QED
  BY <1>1, <1>2, <1>3, <1>6, <1>7, <1>8, <1>9 DEF EstablishedFirst

(* When connectEstablished of a connection is in front, none is behind; no *)
(* other task of that connection can be in front of it.                    *)
LEMMA FrontTask ==
  ASSUME NEW q \in Seq(ServerTasks), q # <<>>, EstablishedFirst(q)
  PROVE  /\ ServerTask("connectEstablished", Head(q).conn) \in Elem(q) =>
               Head(q).op = "connectEstablished"
         /\ Head(q).op = "connectEstablished" =>
               ServerTask("connectEstablished", Head(q).conn) \notin Elem(Tail(q))
<1>1. /\ Head(q) = q[1] /\ 1 \in 1 .. Len(q) /\ Len(q) \in Nat
      /\ Len(Tail(q)) = Len(q) - 1
  BY TakeTask, QueuePlaces
<1>2. \A i \in 1 .. Len(Tail(q)) : Tail(q)[i] = q[i + 1] /\ i + 1 \in 1 .. Len(q)
  BY <1>1, HeadTailProperties
<1> DEFINE k == ServerTask("connectEstablished", Head(q).conn)
<1>3. k.op = "connectEstablished" /\ k.conn = Head(q).conn
  BY DEF ServerTask
<1> HIDE DEF k
<1>4. ASSUME k \in Elem(q)
      PROVE  Head(q).op = "connectEstablished"
  <2>1. PICK i \in 1 .. Len(q) : q[i] = k
    BY <1>4 DEF Elem
  <2>2. i <= 1
    BY <1>1, <1>3, <2>1 DEF EstablishedFirst
  <2>3. i = 1
    BY <2>2, <1>1
  <2> QED
    BY <1>1, <1>3, <2>1, <2>3
<1>5. ASSUME Head(q).op = "connectEstablished", k \in Elem(Tail(q))
      PROVE  FALSE
  <2>1. PICK i \in 1 .. Len(Tail(q)) : Tail(q)[i] = k
    BY <1>5 DEF Elem
  <2>2. q[i + 1] = k /\ i + 1 \in 1 .. Len(q)
    BY <1>2, <2>1
  <2>3. i + 1 <= 1
    BY <1>1, <1>3, <2>2 DEF EstablishedFirst
  <2> QED
    BY <2>3
<1> QED
  BY <1>4, <1>5 DEF k

-----------------------------------------------------------------------------
(* What a step leaves alone.                                               *)

(* The loops are numbered from 0, and no server has more of them.          *)
LEMMA LoopNumbers ==
  /\ Max(ThreadNums) \in Nat /\ \A n \in ThreadNums : n \in Nat /\ n <= Max(ThreadNums)
  /\ Main \in Loops
  /\ \A n \in ThreadNums : \A l \in 0 .. n : l \in Loops /\ l \in Nat
<1>1. /\ Max(ThreadNums) \in ThreadNums
      /\ \A n \in ThreadNums : Max(ThreadNums) >= n
  BY ServerAssumption DEF Max
<1>2. /\ Max(ThreadNums) \in Nat
      /\ \A n \in ThreadNums : n \in Nat /\ n <= Max(ThreadNums)
  BY <1>1, ServerAssumption
<1> HIDE DEF Max
<1> QED
  BY <1>2 DEF Loops, Main

(* Connections that are left alone stay in order, also when a loop ends.   *)
LEMMA ConnsKept ==
  ASSUME ServerTypes, ConnsInv, UNCHANGED <<conn, told, waiting, _connections>>,
         \A l \in Loops : loopAt[l] = "over" => loopAt'[l] = "over"
  PROVE  ConnsInv'
<1> SUFFICES ASSUME NEW c \in Clients
             PROVE  ConnInv(c)'
  BY DEF ConnsInv
<1>1. conn[c].loop \in Loops
  BY DEF ServerTypes
<1>2. loopAt'[conn[c].loop] # "over" => loopAt[conn[c].loop] # "over"
  BY <1>1
<1>3. ConnInv(c)
  BY DEF ConnsInv
<1> QED
  BY <1>2, <1>3 DEF ConnInv, Destroying

(* Queues that are left alone.                                             *)
LEMMA QueuesKept ==
  ASSUME QueueInv, UNCHANGED <<conn, waiting, _connections>>,
         \A l \in Loops : loopAt'[l] = "tasks" => todo'[l] <= Len(waiting[l])
  PROVE  QueueInv'
BY DEF QueueInv, TaskFits

(* The backlog, when no connection is made.                                *)
LEMMA BacklogKept ==
  ASSUME BacklogInv, UNCHANGED <<backlog, client, refusing>>,
         ServerTypes, \A c \in Clients : conn'[c].state = "none" <=> conn[c].state = "none",
         refusing # "no" => loopAt'[Main] = "poll"
  PROVE  BacklogInv'
<1>1. \A i \in 1 .. Len(backlog) : backlog[i] \in Clients
  BY DEF ServerTypes
<1> QED
  BY <1>1 DEF BacklogInv

(* The turns, when no connection is made.                                  *)
LEMMA TurnKept ==
  ASSUME TurnInv, UNCHANGED <<threadNum, nextLoop>>,
         \A c \in Clients : /\ conn'[c].state = "none" <=> conn[c].state = "none"
                            /\ conn'[c].loop = conn[c].loop
  PROVE  TurnInv'
<1>1. ASSUME NEW l
      PROVE  On(l)' = On(l)
  BY DEF On
<1> QED
  BY <1>1 DEF TurnInv

(* Steps that touch none of it: files, the listening socket, _quit.        *)
LEMMA AsideKeeps ==
  ASSUME ServerInv,
         UNCHANGED <<threadNum, backlog, client, conn, nextLoop, _connections, waiting,
                     loopAt, todo, told, refusing>>
  PROVE  ServerInv'
<1>1. ServerTypes'
  BY DEF ServerInv, ServerTypes
<1>2. ConnsInv'
  BY ConnsKept DEF ServerInv
<1>3. QueueInv'
  BY QueuesKept DEF ServerInv, QueueInv
<1>4. BacklogInv'
  BY BacklogKept DEF ServerInv, BacklogInv
<1>5. TurnInv'
  BY TurnKept DEF ServerInv
<1> QED
  BY <1>1, <1>2, <1>3, <1>4, <1>5 DEF ServerInv

(* Initially.                                                              *)
LEMMA ServerStarts ==
  ASSUME ServerInit
  PROVE  ServerInv
<1> USE DEF ServerInit, AcceptorInit, LoopsInit
<1>1. threadNum \in ThreadNums /\ threadNum \in Nat /\ Main \in Loops
  BY LoopNumbers
<1>2. /\ \A c \in Clients : conn[c].state = "none" /\ conn[c].loop = Main /\ ~conn[c].known
      /\ conn \in [Clients -> [state : ConnStates, loop : Loops, known : BOOLEAN]]
  BY <1>1 DEF NoConn, ConnStates
<1>3. ServerTypes
  <2>1. <<>> \in Seq(ServerTasks) /\ <<>> \in Seq(Clients)
    OBVIOUS
  <2>2. /\ waiting \in [Loops -> Seq(ServerTasks)] /\ todo \in [Loops -> Nat]
        /\ loopAt \in [Loops -> {"poll", "accepted", "tasks", "over"}]
    BY <2>1
  <2>3. /\ told \in [Clients -> {<<>>, <<"UP">>, <<"UP", "DOWN">>}]
        /\ client \in [Clients -> {"away", "here", "closed", "refused"}]
    OBVIOUS
  <2> QED
    BY <1>1, <1>2, <2>1, <2>2, <2>3 DEF ServerTypes
<1>4. \A l \in Loops : waiting[l] = <<>> /\ Len(waiting[l]) = 0 /\ loopAt[l] = "poll"
  OBVIOUS
<1>5. BacklogInv
  <2>1. Len(backlog) = 0
    OBVIOUS
  <2> QED
    BY <1>2, <2>1 DEF BacklogInv
<1>6. QueueInv
  BY <1>4 DEF QueueInv, Elem, EstablishedFirst
<1>7. ConnsInv
  BY <1>2 DEF ConnsInv, ConnInv, ToldAt
<1>8. TurnInv
  <2>1. \A l : On(l) = {}
    BY <1>2 DEF On
  <2>2. \A l \in 1 .. threadNum : ~(l <= 0)
    BY <1>1
  <2>3. \A l \in 1 .. threadNum : Cardinality(On(l)) = IF l <= nextLoop THEN 0 + 1 ELSE 0
    BY <2>1, <2>2, FS_EmptySet
  <2> QED
    BY <1>1, <2>3 DEF TurnInv
<1> QED
  BY <1>3, <1>5, <1>6, <1>7, <1>8 DEF ServerInv

(* Clients come and go.                                                    *)
LEMMA ClientsKeep ==
  ASSUME ServerInv, NEW c \in Clients, ClientConnects(c) \/ ClientCloses(c)
  PROVE  ServerInv'
<1>1. UNCHANGED <<threadNum, conn, nextLoop, _connections, waiting, loopAt, todo, told,
                  refusing>>
  BY DEF ClientConnects, ClientCloses, fdVars, loopVars
<1>2. ConnsInv' /\ QueueInv' /\ TurnInv'
  BY <1>1, ConnsKept, QueuesKept, TurnKept DEF ServerInv, QueueInv
<1>3. /\ backlog \in Seq(Clients) /\ Len(backlog) \in Nat
      /\ \A i \in 1 .. Len(backlog) : backlog[i] \in Clients
      /\ client \in [Clients -> {"away", "here", "closed", "refused"}]
  BY DEF ServerInv, ServerTypes
<1>4. CASE ClientConnects(c)
  <2>1. /\ client[c] = "away" /\ client' = [client EXCEPT ![c] = "here"]
        /\ backlog' = Append(backlog, c)
    BY <1>4 DEF ClientConnects
  <2>2. /\ backlog' \in Seq(Clients) /\ Len(backlog') = Len(backlog) + 1
        /\ \A i \in 1 .. Len(backlog) : backlog'[i] = backlog[i]
        /\ backlog'[Len(backlog) + 1] = c
    BY <1>3, <2>1, AppendProperties
  <2>3. /\ client' \in [Clients -> {"away", "here", "closed", "refused"}]
        /\ client'[c] = "here" /\ \A d \in Clients : d # c => client'[d] = client[d]
    BY <1>3, <2>1
  <2>4. ServerTypes'
    BY <1>1, <2>2, <2>3 DEF ServerInv, ServerTypes
  <2>5. \A i \in 1 .. Len(backlog') : \/ i \in 1 .. Len(backlog) /\ backlog'[i] = backlog[i]
                                      \/ i = Len(backlog) + 1 /\ backlog'[i] = c
    BY <1>3, <2>2
  <2>6. conn[c].state = "none" /\ \A i \in 1 .. Len(backlog) : backlog[i] # c
    BY <2>1 DEF ServerInv, BacklogInv
  <2>7. \A i, j \in 1 .. Len(backlog') : backlog'[i] = backlog'[j] => i = j
    BY <2>5, <2>6 DEF ServerInv, BacklogInv
  <2>8. \A i \in 1 .. Len(backlog') :
           conn[backlog'[i]].state = "none" /\ client'[backlog'[i]] # "away"
    BY <1>3, <2>3, <2>5, <2>6 DEF ServerInv, BacklogInv
  <2>9. \A d \in Clients : client'[d] = "away" => conn[d].state = "none"
    BY <2>3 DEF ServerInv, BacklogInv
  <2>10. backlog' # <<>>
    BY <1>3, <2>2, EmptySeq
  <2>11. BacklogInv'
    BY <1>1, <2>7, <2>8, <2>9, <2>10 DEF ServerInv, BacklogInv
  <2> QED
    BY <1>2, <2>4, <2>11 DEF ServerInv
<1>5. CASE ClientCloses(c)
  <2>1. backlog' = backlog /\ client' = [client EXCEPT ![c] = "closed"] /\ client[c] = "here"
    BY <1>5 DEF ClientCloses
  <2>2. /\ client' \in [Clients -> {"away", "here", "closed", "refused"}]
        /\ \A d \in Clients : client'[d] = "away" <=> client[d] = "away"
    BY <1>3, <2>1
  <2>3. ServerTypes'
    BY <1>1, <2>1, <2>2 DEF ServerInv, ServerTypes
  <2>4. BacklogInv'
    BY <1>1, <1>3, <2>1, <2>2 DEF ServerInv, BacklogInv
  <2> QED
    BY <1>2, <2>3, <2>4 DEF ServerInv
<1> QED
  BY <1>4, <1>5

(* The spare descriptor: accept fails, a client is refused.                *)
LEMMA RefusingKeeps ==
  ASSUME ServerInv, TooManyFiles \/ RefuseClient \/ ReopenSpare
  PROVE  ServerInv'
<1>1. UNCHANGED <<threadNum, conn, nextLoop, _connections, waiting, todo, told>>
  BY DEF TooManyFiles, RefuseClient, ReopenSpare, loopVars
<1>2. Main \in Loops /\ loopAt \in [Loops -> {"poll", "accepted", "tasks", "over"}]
  BY LoopNumbers DEF ServerInv, ServerTypes
<1>3. /\ loopAt' \in [Loops -> {"poll", "accepted", "tasks", "over"}]
      /\ \A l \in Loops : (loopAt'[l] = "over" <=> loopAt[l] = "over")
                          /\ (loopAt'[l] = "tasks" <=> loopAt[l] = "tasks")
  <2>1. CASE loopAt' = loopAt
    BY <1>2, <2>1
  <2>2. CASE ReopenSpare
    <3>1. loopAt[Main] = "poll" /\ loopAt' = [loopAt EXCEPT ![Main] = "accepted"]
      BY <2>2 DEF ReopenSpare, Accepted, ServerInv, BacklogInv
    <3> QED
      BY <1>2, <3>1
  <2> QED
    BY <2>1, <2>2 DEF TooManyFiles, RefuseClient, loopVars
<1>4. ConnsInv' /\ QueueInv' /\ TurnInv'
  BY <1>1, <1>3, ConnsKept, QueuesKept, TurnKept DEF ServerInv, QueueInv
<1>5. /\ backlog \in Seq(Clients) /\ Len(backlog) \in Nat
      /\ \A i \in 1 .. Len(backlog) : backlog[i] \in Clients
      /\ client \in [Clients -> {"away", "here", "closed", "refused"}]
  BY DEF ServerInv, ServerTypes
<1>6. CASE UNCHANGED <<backlog, client>>
  <2>1. ServerTypes'
    BY <1>1, <1>3, <1>6 DEF ServerInv, ServerTypes
  <2>2. (refusing' = "accept" => backlog # <<>>) /\ (refusing' # "no" => loopAt'[Main] = "poll")
    BY DEF TooManyFiles, RefuseClient, ReopenSpare, CanAccept, loopVars, ServerInv, BacklogInv
  <2>3. BacklogInv'
    BY <1>1, <1>6, <2>2 DEF ServerInv, BacklogInv
  <2> QED
    BY <1>4, <2>1, <2>3 DEF ServerInv
<1>7. CASE /\ refusing = "accept" /\ backlog' = Tail(backlog) /\ refusing' = "reopen"
           /\ client' = [client EXCEPT ![Head(backlog)] = "refused"]
           /\ loopAt' = loopAt
  <2>1. backlog # <<>> /\ loopAt[Main] = "poll"
    BY <1>7 DEF ServerInv, BacklogInv
  <2>2. /\ Head(backlog) \in Clients /\ backlog' \in Seq(Clients)
        /\ Len(backlog') = Len(backlog) - 1
        /\ \A i \in 1 .. Len(backlog') : backlog'[i] = backlog[i + 1]
    BY <1>5, <1>7, <2>1, HeadTailProperties
  <2>3. \A i \in 1 .. Len(backlog') : i + 1 \in 1 .. Len(backlog)
    BY <1>5, <2>2
  <2>4. /\ client' \in [Clients -> {"away", "here", "closed", "refused"}]
        /\ \A d \in Clients : client'[d] = "away" => client[d] = "away"
    BY <1>5, <1>7, <2>2
  <2>5. ServerTypes'
    BY <1>1, <1>3, <2>2, <2>4 DEF ServerInv, ServerTypes
  <2>6. ASSUME NEW i \in 1 .. Len(backlog'), NEW j \in 1 .. Len(backlog'),
               backlog'[i] = backlog'[j]
        PROVE  i = j
    <3>1. i + 1 = j + 1
      BY <2>2, <2>3, <2>6 DEF ServerInv, BacklogInv
    <3> QED
      BY <3>1
  <2>7. \A i \in 1 .. Len(backlog') :
           conn[backlog'[i]].state = "none" /\ client'[backlog'[i]] # "away"
    BY <1>5, <2>2, <2>3, <2>4 DEF ServerInv, BacklogInv
  <2>8. \A d \in Clients : client'[d] = "away" => conn[d].state = "none"
    BY <2>4 DEF ServerInv, BacklogInv
  <2>9. BacklogInv'
    BY <1>1, <1>7, <2>1, <2>6, <2>7, <2>8 DEF BacklogInv
  <2> QED
    BY <1>4, <2>5, <2>9 DEF ServerInv
<1> QED
  BY <1>6, <1>7 DEF TooManyFiles, RefuseClient, ReopenSpare, kernelVars, loopVars

(* doPendingTask takes what waits; the iteration ends, and with _quit the  *)
(* loop, whose waiting tasks go with it unless it is the main loop.        *)
LEMMA TurnsKeep ==
  ASSUME ServerInv, NEW n \in 0 .. threadNum, TakeTasks(n) \/ EndIteration(n)
  PROVE  ServerInv'
<1>1. UNCHANGED <<threadNum, conn, nextLoop, _connections, told, backlog, client, refusing>>
  BY DEF TakeTasks, EndIteration, kernelVars, fdVars
<1>2. /\ n \in Loops /\ loopAt \in [Loops -> {"poll", "accepted", "tasks", "over"}]
      /\ todo \in [Loops -> Nat] /\ waiting \in [Loops -> Seq(ServerTasks)]
  BY LoopNumbers DEF ServerInv, ServerTypes
<1>3. loopAt[n] # "over"
  BY DEF TakeTasks, EndIteration, Polling
<1>4. TurnInv'
  BY <1>1, TurnKept DEF ServerInv
<1>5. BacklogInv'
  <2>1. refusing # "no" => n # Main
    BY DEF TakeTasks, EndIteration, Polling, ServerInv, BacklogInv
  <2>2. n # Main => loopAt'[Main] = loopAt[Main]
    BY <1>2, LoopNumbers DEF TakeTasks, EndIteration
  <2>3. refusing # "no" => loopAt'[Main] = "poll"
    BY <2>1, <2>2 DEF ServerInv, BacklogInv
  <2> QED
    BY <1>1, <2>3, BacklogKept DEF ServerInv
<1>6. CASE waiting' = waiting
  <2>1. /\ loopAt' \in [Loops -> {"poll", "accepted", "tasks", "over"}]
        /\ todo' \in [Loops -> Nat]
        /\ \A l \in Loops : l # n => loopAt'[l] = loopAt[l] /\ todo'[l] = todo[l]
    <3>1. Len(waiting[n]) \in Nat
      BY <1>2
    <3> QED
      BY <1>2, <3>1 DEF TakeTasks, EndIteration
  <2>2. loopAt'[n] = "tasks" => todo'[n] <= Len(waiting[n])
    <3>1. Len(waiting[n]) \in Nat
      BY <1>2
    <3> QED
      BY <1>2, <3>1 DEF TakeTasks, EndIteration
  <2>3. ServerTypes'
    BY <1>1, <1>6, <2>1 DEF ServerInv, ServerTypes
  <2>4. ConnsInv'
    BY <1>1, <1>3, <1>6, <2>1, ConnsKept DEF ServerInv
  <2>5. \A l \in Loops : loopAt'[l] = "tasks" => todo'[l] <= Len(waiting[l])
    BY <2>1, <2>2 DEF ServerInv, QueueInv
  <2>6. QueueInv'
    BY <1>1, <1>6, <2>5, QueuesKept DEF ServerInv
  <2> QED
    BY <1>4, <1>5, <2>3, <2>4, <2>6 DEF ServerInv
<1>7. CASE /\ waiting' = [waiting EXCEPT ![n] = <<>>] /\ todo' = todo
           /\ loopAt' = [loopAt EXCEPT ![n] = "over"]
  <2>1. /\ loopAt' \in [Loops -> {"poll", "accepted", "tasks", "over"}]
        /\ loopAt'[n] = "over" /\ waiting'[n] = <<>>
        /\ waiting' \in [Loops -> Seq(ServerTasks)]
        /\ \A l \in Loops : l # n => loopAt'[l] = loopAt[l] /\ waiting'[l] = waiting[l]
    <3>1. <<>> \in Seq(ServerTasks)
      OBVIOUS
    <3> QED
      BY <1>2, <1>7, <3>1
  <2>2. ServerTypes'
    BY <1>1, <1>2, <1>7, <2>1 DEF ServerInv, ServerTypes
  <2>3. Elem(waiting'[n]) = {} /\ EstablishedFirst(waiting'[n])
    <3>1. Len(waiting'[n]) = 0
      BY <2>1
    <3> QED
      BY <3>1 DEF Elem, EstablishedFirst
  <2>4. QueueInv'
    BY <1>1, <1>7, <2>1, <2>3 DEF ServerInv, QueueInv, TaskFits
  <2>5. ConnsInv'
    <3> SUFFICES ASSUME NEW c \in Clients
                 PROVE  ConnInv(c)'
      BY DEF ConnsInv
    <3>1. conn[c].loop \in Loops /\ ConnInv(c)
      BY DEF ServerInv, ServerTypes, ConnsInv
    <3> QED
      BY <1>1, <2>1, <3>1 DEF ConnInv, Destroying
  <2> QED
    BY <1>4, <1>5, <2>2, <2>4, <2>5 DEF ServerInv
<1> QED
  BY <1>6, <1>7 DEF TakeTasks, EndIteration

(* A connection nothing happens to, while tasks of other connections come  *)
(* and go.                                                                 *)
LEMMA OtherConn ==
  ASSUME ServerTypes, NEW d \in Clients, ConnInv(d),
         conn'[d] = conn[d], told'[d] = told[d], d \in _connections' <=> d \in _connections,
         \A l \in Loops : loopAt[l] = "over" => loopAt'[l] = "over",
         \A l \in Loops, op \in TaskOps :
            ServerTask(op, d) \in Elem(waiting[l]) => ServerTask(op, d) \in Elem(waiting'[l])
  PROVE  ConnInv(d)'
<1>1. conn[d].loop \in Loops
  BY DEF ServerTypes
<1>2. "connectEstablished" \in TaskOps /\ "connectDestroyed" \in TaskOps
  BY DEF TaskOps
<1> QED
  BY <1>1, <1>2 DEF ConnInv, Destroying

(* A task of a connection nothing happens to.                              *)
LEMMA OtherTask ==
  ASSUME NEW l, NEW k, TaskFits(l, k), conn'[k.conn] = conn[k.conn],
         k.conn \in _connections' => k.conn \in _connections
  PROVE  TaskFits(l, k)'
BY DEF TaskFits

(* Tasks name their connection.                                            *)
LEMMA TaskOf ==
  ASSUME NEW op \in TaskOps, NEW c \in Clients
  PROVE  /\ ServerTask(op, c) \in ServerTasks
         /\ ServerTask(op, c).op = op /\ ServerTask(op, c).conn = c
BY DEF ServerTask, ServerTasks

(* What was there stays where it was.                                      *)
LEMMA AppendStart ==
  ASSUME NEW S, NEW u \in Seq(S), NEW y \in S
  PROVE  \A i \in 1 .. Len(u) : Append(u, y)[i] = u[i]
BY AppendProperties

(* A sequence of two.                                                      *)
LEMMA PairIs ==
  ASSUME NEW S, NEW u \in Seq(S), NEW y \in S, Len(u) = 1,
         NEW b \in Seq(S), Len(b) = 2, b[1] = u[1], b[2] = y
  PROVE  Append(u, y) = b
<1>1. /\ Append(u, y) \in Seq(S) /\ Len(Append(u, y)) = Len(u) + 1
      /\ \A i \in 1 .. Len(u) : Append(u, y)[i] = u[i]
      /\ Append(u, y)[Len(u) + 1] = y
  <2>1. Append(u, y) \in Seq(S)
    BY AppendProperties
  <2>2. Len(Append(u, y)) = Len(u) + 1
    BY AppendProperties
  <2>3. \A i \in 1 .. Len(u) : Append(u, y)[i] = u[i]
    BY AppendStart
  <2>4. Append(u, y)[Len(u) + 1] = y
    BY AppendProperties
  <2> QED
    BY <2>1, <2>2, <2>3, <2>4
<1>2. Len(Append(u, y)) = 2 /\ Append(u, y)[1] = u[1] /\ Append(u, y)[2] = y
  <2>1. 1 \in 1 .. Len(u) /\ Len(u) + 1 = 2
    OBVIOUS
  <2> QED
    BY <1>1, <2>1
<1>3. \A i \in 1 .. 2 : i = 1 \/ i = 2
  OBVIOUS
<1> QED
  BY <1>1, <1>2, <1>3, SeqEqual

(* What a user was told, step by step.                                     *)
LEMMA ToldNext ==
  /\ ToldAt("none") = <<>> /\ ToldAt("kConnecting") = <<>>
  /\ ToldAt("kConnected") = <<"UP">> /\ ToldAt("kDisconnected") = <<"UP", "DOWN">>
  /\ Append(<<>>, "UP") = <<"UP">> /\ Append(<<"UP">>, "DOWN") = <<"UP", "DOWN">>
<1>1. ToldAt("none") = <<>> /\ ToldAt("kConnecting") = <<>>
  BY DEF ToldAt
<1>2. ToldAt("kConnected") = <<"UP">>
  BY DEF ToldAt
<1>3. ToldAt("kDisconnected") = <<"UP", "DOWN">>
  BY DEF ToldAt
<1>4. Append(<<>>, "UP") = <<"UP">>
  OBVIOUS
<1>5. Append(<<"UP">>, "DOWN") = <<"UP", "DOWN">>
  <2> DEFINE S == {"UP", "DOWN"}
  <2>1. /\ <<"UP">> \in Seq(S) /\ Len(<<"UP">>) = 1 /\ <<"UP">>[1] = "UP" /\ "DOWN" \in S
        /\ <<"UP", "DOWN">> \in Seq(S) /\ Len(<<"UP", "DOWN">>) = 2
        /\ <<"UP", "DOWN">>[1] = "UP" /\ <<"UP", "DOWN">>[2] = "DOWN"
    OBVIOUS
  <2> HIDE DEF S
  <2> QED
    BY <2>1, PairIs
<1> QED
  BY <1>1, <1>2, <1>3, <1>4, <1>5

(* newConnection (TcpServer.cpp), part one: the map, the queue and the     *)
(* connection.                                                             *)
LEMMA AcceptShape ==
  ASSUME ServerInv, handleNewConnection
  PROVE  \E c \in Clients, r \in [state : {"kConnecting", "kConnected"}, loop : Loops,
                                  known : BOOLEAN] :
           /\ c = Head(backlog) /\ backlog' = Tail(backlog) /\ backlog # <<>>
           /\ conn' = [conn EXCEPT ![c] = r] /\ _connections' = _connections \cup {c}
           /\ r.loop = getNextLoop /\ nextLoop' = NextAfter
           /\ \/ /\ r.state = "kConnected" /\ r.known
                 /\ told' = [told EXCEPT ![c] = Append(@, "UP")] /\ waiting' = waiting
              \/ /\ r.state = "kConnecting" /\ ~r.known /\ told' = told
                 /\ waiting' = [waiting EXCEPT ![r.loop] =
                                  Append(@, ServerTask("connectEstablished", c))]
           /\ loopAt' = [loopAt EXCEPT ![Main] = "accepted"] /\ loopAt[Main] = "poll"
           /\ refusing = "no"
           /\ UNCHANGED <<threadNum, client, refusing, todo>>
<1> DEFINE c == Head(backlog)
           loop == getNextLoop
<1>1. backlog # <<>> /\ loopAt[Main] = "poll" /\ refusing = "no"
  BY DEF handleNewConnection, CanAccept
<1>2. c \in Clients
  BY <1>1, HeadTailProperties DEF ServerInv, ServerTypes
<1>3. loop \in Loops
  <2>1. threadNum \in ThreadNums /\ threadNum \in Nat /\ nextLoop \in Nat
        /\ (threadNum > 0 => nextLoop < threadNum)
    BY LoopNumbers DEF ServerInv, ServerTypes, TurnInv
  <2>2. loop \in 0 .. threadNum
    BY <2>1 DEF getNextLoop, Main
  <2> QED
    BY <2>1, <2>2, LoopNumbers
<1>4. /\ backlog' = Tail(backlog) /\ _connections' = _connections \cup {c}
      /\ nextLoop' = NextAfter /\ loopAt' = [loopAt EXCEPT ![Main] = "accepted"]
      /\ UNCHANGED <<threadNum, client, refusing, todo>>
  BY DEF handleNewConnection, newConnection, Accepted, fdVars
<1>5. conn \in [Clients -> [state : ConnStates, loop : Loops, known : BOOLEAN]]
  BY DEF ServerInv, ServerTypes
<1>6. CASE loop = Main
  <2> DEFINE r == [state |-> "kConnected", loop |-> loop, known |-> TRUE]
  <2>1. conn' = [conn EXCEPT ![c] = r]
    BY <1>2, <1>5, <1>6 DEF handleNewConnection, newConnection, NewConn
  <2>2. told' = [told EXCEPT ![c] = Append(@, "UP")] /\ waiting' = waiting
    BY <1>6 DEF handleNewConnection, newConnection
  <2>3. /\ r \in [state : {"kConnecting", "kConnected"}, loop : Loops, known : BOOLEAN]
        /\ r.state = "kConnected" /\ r.known /\ r.loop = getNextLoop
    BY <1>3
  <2> QED
    BY <1>1, <1>2, <1>4, <2>1, <2>2, <2>3
<1>7. CASE loop # Main
  <2> DEFINE r == NewConn(loop)
  <2>1. /\ conn' = [conn EXCEPT ![c] = r] /\ told' = told
        /\ waiting' = [waiting EXCEPT ![loop] =
                         Append(@, ServerTask("connectEstablished", c))]
    BY <1>7 DEF handleNewConnection, newConnection
  <2>2. /\ r \in [state : {"kConnecting", "kConnected"}, loop : Loops, known : BOOLEAN]
        /\ r.state = "kConnecting" /\ ~r.known /\ r.loop = getNextLoop
    BY <1>3 DEF NewConn
  <2> HIDE DEF r
  <2> QED
    BY <1>1, <1>2, <1>4, <2>1, <2>2
<1> QED
  BY <1>6, <1>7

(* Only known clients wait, and none of them twice, after the first one    *)
(* was accepted.                                                           *)
LEMMA BacklogShrinks ==
  ASSUME ServerInv, NEW c \in Clients, backlog # <<>>, c = Head(backlog),
         backlog' = Tail(backlog),
         \A d \in Clients : d # c => conn'[d] = conn[d],
         UNCHANGED <<client, refusing>>, refusing = "no"
  PROVE  BacklogInv' /\ backlog' \in Seq(Clients) /\ conn[c].state = "none"
<1>1. /\ backlog \in Seq(Clients) /\ Len(backlog) \in Nat
      /\ \A i \in 1 .. Len(backlog) : backlog[i] \in Clients
  BY DEF ServerInv, ServerTypes
<1>2. /\ Tail(backlog) \in Seq(Clients) /\ Len(Tail(backlog)) = Len(backlog) - 1
      /\ \A i \in 1 .. Len(Tail(backlog)) : Tail(backlog)[i] = backlog[i + 1]
  BY <1>1, HeadTailProperties
<1>3. Len(backlog) > 0 /\ 1 \in 1 .. Len(backlog)
  BY <1>1, EmptySeq
<1>4. c = backlog[1]
  BY <1>3
<1>5. \A i \in 1 .. Len(backlog') : /\ i + 1 \in 1 .. Len(backlog) /\ i + 1 # 1
                                    /\ backlog'[i] = backlog[i + 1]
  BY <1>1, <1>2
<1>6. conn[c].state = "none" /\ client[c] # "away"
  BY <1>3, <1>4 DEF ServerInv, BacklogInv
<1>7. \A i \in 1 .. Len(backlog') : backlog'[i] # c /\ backlog'[i] \in Clients
  BY <1>1, <1>3, <1>4, <1>5 DEF ServerInv, BacklogInv
<1>8. ASSUME NEW i \in 1 .. Len(backlog'), NEW j \in 1 .. Len(backlog'),
             backlog'[i] = backlog'[j]
      PROVE  i = j
  <2>1. i + 1 = j + 1
    BY <1>5, <1>8 DEF ServerInv, BacklogInv
  <2> QED
    BY <2>1
<1>9. \A i \in 1 .. Len(backlog') :
         conn'[backlog'[i]].state = "none" /\ client'[backlog'[i]] # "away"
  BY <1>5, <1>7 DEF ServerInv, BacklogInv
<1>10. \A d \in Clients : client'[d] = "away" => conn'[d].state = "none"
  BY <1>6 DEF ServerInv, BacklogInv
<1> QED
  BY <1>2, <1>6, <1>8, <1>9, <1>10 DEF BacklogInv

(* getNextLoop spreads the connections evenly.                             *)
LEMMA TurnGoesOn ==
  ASSUME ServerTypes, TurnInv, NEW c \in Clients, conn[c].state = "none",
         \A d \in Clients : d # c => conn'[d] = conn[d],
         conn'[c].state # "none", conn'[c].loop = getNextLoop,
         nextLoop' = NextAfter, threadNum' = threadNum
  PROVE  TurnInv'
<1>1. /\ threadNum \in Nat /\ nextLoop \in Nat
      /\ (threadNum > 0 => nextLoop < threadNum)
  BY LoopNumbers DEF ServerTypes, TurnInv
<1>2. PICK q \in Nat : \A l \in 1 .. threadNum :
          Cardinality(On(l)) = IF l <= nextLoop THEN q + 1 ELSE q
  BY DEF TurnInv
<1>3. CASE threadNum = 0
  <2>1. nextLoop' = 0
    BY <1>1, <1>3 DEF NextAfter
  <2>2. \A l \in 1 .. threadNum' :
          Cardinality(On(l)') = IF l <= nextLoop' THEN 0 + 1 ELSE 0
    BY <1>3
  <2> QED
    BY <1>3, <2>1, <2>2 DEF TurnInv
<1>4. CASE threadNum > 0
  <2>0. PICK n \in Nat : n = nextLoop + 1
    BY <1>1
  <2>1. getNextLoop = n /\ n \in 1 .. threadNum /\ n \in Nat
    BY <1>1, <1>4, <2>0 DEF getNextLoop
  <2>2. \A l \in 1 .. threadNum : l # n => On(l)' = On(l)
    BY <2>1 DEF On
  <2>3. On(n)' = On(n) \cup {c} /\ c \notin On(n)
    BY <2>1 DEF On
  <2>4. IsFiniteSet(On(n))
    <3>1. On(n) \subseteq Clients
      BY DEF On
    <3>2. IsFiniteSet(Clients)
      <4>1. 1 \in Int /\ MaxClients \in Int
        BY ServerAssumption
      <4> QED
        BY <4>1, FS_Interval DEF Clients
    <3> QED
      BY <3>1, <3>2, FS_Subset
  <2>5. Cardinality(On(n)') = Cardinality(On(n)) + 1
    BY <2>3, <2>4, FS_AddElement
  <2>6. Cardinality(On(n)) = q
    <3>1. ~(n <= nextLoop)
      BY <1>1, <2>0
    <3> QED
      BY <1>2, <2>1, <3>1
  <2>7. CASE n >= threadNum
    <3>1. nextLoop' = 0 /\ n = threadNum
      BY <1>1, <2>0, <2>1, <2>7 DEF NextAfter
    <3>2. ASSUME NEW l \in 1 .. threadNum
          PROVE  Cardinality(On(l)') = q + 1 /\ ~(l <= 0)
      <4>0. ~(l <= 0)
        BY <1>1
      <4>1. CASE l = n
        BY <2>5, <2>6, <4>0, <4>1
      <4>2. CASE l # n
        <5>1. l <= nextLoop
          BY <1>1, <2>0, <3>1, <4>2
        <5> QED
          BY <1>2, <2>2, <4>0, <4>2, <5>1
      <4> QED
        BY <4>1, <4>2
    <3>3. \A l \in 1 .. threadNum' :
            Cardinality(On(l)') = IF l <= nextLoop' THEN (q + 1) + 1 ELSE q + 1
      BY <3>1, <3>2
    <3>4. q + 1 \in Nat
      OBVIOUS
    <3> QED
      BY <1>4, <3>1, <3>3, <3>4 DEF TurnInv
  <2>8. CASE ~(n >= threadNum)
    <3>1. nextLoop' = n /\ n < threadNum
      BY <1>1, <2>0, <2>1, <2>8 DEF NextAfter
    <3>2. ASSUME NEW l \in 1 .. threadNum
          PROVE  Cardinality(On(l)') = IF l <= n THEN q + 1 ELSE q
      <4>1. CASE l = n
        <5>1. l <= n
          BY <4>1
        <5> QED
          BY <2>5, <2>6, <4>1, <5>1
      <4>2. CASE l # n
        <5>1. l <= nextLoop <=> l <= n
          BY <1>1, <2>0, <4>2
        <5> QED
          BY <1>2, <2>2, <4>2, <5>1
      <4> QED
        BY <4>1, <4>2
    <3> QED
      BY <2>1, <3>1, <3>2 DEF TurnInv
  <2> QED
    BY <2>7, <2>8
<1> QED
  BY <1>1, <1>3, <1>4

(* A connection is accepted (Acceptor::handleNewConnection,                *)
(* TcpServer::newConnection).                                              *)
LEMMA AcceptKeeps ==
  ASSUME ServerInv, handleNewConnection
  PROVE  ServerInv'
<1>1. PICK c \in Clients, r \in [state : {"kConnecting", "kConnected"}, loop : Loops,
                                  known : BOOLEAN] :
           /\ c = Head(backlog) /\ backlog' = Tail(backlog) /\ backlog # <<>>
           /\ conn' = [conn EXCEPT ![c] = r] /\ _connections' = _connections \cup {c}
           /\ r.loop = getNextLoop /\ nextLoop' = NextAfter
           /\ \/ /\ r.state = "kConnected" /\ r.known
                 /\ told' = [told EXCEPT ![c] = Append(@, "UP")] /\ waiting' = waiting
              \/ /\ r.state = "kConnecting" /\ ~r.known /\ told' = told
                 /\ waiting' = [waiting EXCEPT ![r.loop] =
                                  Append(@, ServerTask("connectEstablished", c))]
           /\ loopAt' = [loopAt EXCEPT ![Main] = "accepted"] /\ loopAt[Main] = "poll"
           /\ refusing = "no"
           /\ UNCHANGED <<threadNum, client, refusing, todo>>
  BY AcceptShape
<1>2. /\ conn \in [Clients -> [state : ConnStates, loop : Loops, known : BOOLEAN]]
      /\ told \in [Clients -> {<<>>, <<"UP">>, <<"UP", "DOWN">>}]
      /\ waiting \in [Loops -> Seq(ServerTasks)]
      /\ loopAt \in [Loops -> {"poll", "accepted", "tasks", "over"}]
      /\ Main \in Loops
  BY LoopNumbers DEF ServerInv, ServerTypes
<1>3. /\ conn'[c] = r /\ \A d \in Clients : d # c => conn'[d] = conn[d]
      /\ conn' \in [Clients -> [state : ConnStates, loop : Loops, known : BOOLEAN]]
      /\ r.state \in {"kConnecting", "kConnected"} /\ r.loop \in Loops /\ r.known \in BOOLEAN
  <2>1. r \in [state : ConnStates, loop : Loops, known : BOOLEAN]
    BY DEF ConnStates
  <2> QED
    BY <1>1, <1>2, <2>1
<1>4. BacklogInv' /\ backlog' \in Seq(Clients) /\ conn[c].state = "none"
  BY <1>1, <1>3, BacklogShrinks
<1>5. TurnInv'
  BY <1>1, <1>3, <1>4, TurnGoesOn DEF ServerInv
<1>6. told[c] = <<>> /\ \A l \in Loops : \A k \in Elem(waiting[l]) : k.conn # c
  <2>1. told[c] = <<>>
    BY <1>4 DEF ServerInv, ConnsInv, ConnInv, ToldAt
  <2>2. \A l \in Loops : \A k \in Elem(waiting[l]) : k.conn # c
    BY <1>4 DEF ServerInv, QueueInv, TaskFits
  <2> QED
    BY <2>1, <2>2
<1>7. /\ told' \in [Clients -> {<<>>, <<"UP">>, <<"UP", "DOWN">>}]
      /\ told'[c] = ToldAt(r.state) /\ \A d \in Clients : d # c => told'[d] = told[d]
  <2>1. CASE told' = [told EXCEPT ![c] = Append(@, "UP")] /\ r.state = "kConnected"
    <3>1. told' = [told EXCEPT ![c] = <<"UP">>]
      BY <1>6, <2>1, ToldNext
    <3> QED
      BY <1>2, <2>1, <3>1, ToldNext
  <2>2. CASE told' = told /\ r.state = "kConnecting"
    BY <1>2, <1>6, <2>2, ToldNext
  <2> QED
    BY <1>1, <2>1, <2>2
<1>8. /\ loopAt' \in [Loops -> {"poll", "accepted", "tasks", "over"}]
      /\ \A l \in Loops : /\ loopAt'[l] = "over" <=> loopAt[l] = "over"
                          /\ loopAt'[l] = "tasks" <=> loopAt[l] = "tasks"
  BY <1>1, <1>2
<1> DEFINE k == ServerTask("connectEstablished", c)
           m == r.loop
<1>9. k \in ServerTasks /\ k.op = "connectEstablished" /\ k.conn = c
  BY TaskOf DEF TaskOps
<1>10. /\ waiting' \in [Loops -> Seq(ServerTasks)]
       /\ \A l \in Loops :
            \/ waiting'[l] = waiting[l]
            \/ /\ r.state = "kConnecting" /\ l = m /\ waiting'[l] = Append(waiting[l], k)
               /\ waiting[l] \in Seq(ServerTasks)
       /\ r.state = "kConnecting" => waiting'[m] = Append(waiting[m], k)
  <2>1. CASE waiting' = waiting /\ r.state = "kConnected"
    BY <1>2, <2>1
  <2>2. CASE /\ waiting' = [waiting EXCEPT ![m] = Append(@, k)] /\ r.state = "kConnecting"
    <3>1. Append(waiting[m], k) \in Seq(ServerTasks)
      BY <1>2, <1>3, <1>9, PutTask
    <3> QED
      BY <1>2, <1>3, <2>2, <3>1
  <2> QED
    BY <1>1, <2>1, <2>2
<1> HIDE DEF k, m
<1>11. ServerTypes'
  <2>1. _connections' \subseteq Clients
    BY <1>1 DEF ServerInv, ServerTypes
  <2> QED
    BY <1>1, <1>3, <1>4, <1>7, <1>8, <1>10, <2>1 DEF ServerInv, ServerTypes
<1>12. ASSUME NEW l \in Loops
       PROVE  Elem(waiting[l]) \subseteq Elem(waiting'[l])
  <2>1. CASE waiting'[l] = waiting[l]
    BY <2>1
  <2>2. CASE waiting'[l] = Append(waiting[l], k) /\ waiting[l] \in Seq(ServerTasks)
    BY <1>9, <2>2, PutTask
  <2> QED
    BY <1>10, <2>1, <2>2
<1>13. QueueInv'
  <2> SUFFICES ASSUME NEW l \in Loops
               PROVE  /\ \A t \in Elem(waiting'[l]) : TaskFits(l, t)'
                      /\ EstablishedFirst(waiting'[l])
                      /\ loopAt'[l] = "tasks" => todo'[l] <= Len(waiting'[l])
    BY DEF QueueInv
  <2>1. /\ \A t \in Elem(waiting[l]) : TaskFits(l, t) /\ t.conn # c /\ t.conn \in Clients
        /\ EstablishedFirst(waiting[l])
        /\ loopAt[l] = "tasks" => todo[l] <= Len(waiting[l])
        /\ waiting[l] \in Seq(ServerTasks) /\ todo[l] \in Nat /\ Len(waiting[l]) \in Nat
    <3>1. waiting[l] \in Seq(ServerTasks) /\ todo[l] \in Nat
      BY <1>2 DEF ServerInv, ServerTypes
    <3>2. Elem(waiting[l]) \subseteq ServerTasks /\ Len(waiting[l]) \in Nat
      BY <3>1, QueuePlaces
    <3> QED
      BY <1>6, <3>1, <3>2 DEF ServerInv, QueueInv, ServerTasks
  <2>2. ASSUME NEW t \in Elem(waiting[l])
        PROVE  TaskFits(l, t)'
    BY <1>1, <1>3, <2>1, OtherTask
  <2>3. CASE waiting'[l] = waiting[l]
    BY <1>1, <1>8, <2>1, <2>2, <2>3
  <2>4. CASE r.state = "kConnecting" /\ l = m /\ waiting'[l] = Append(waiting[l], k)
    <3>1. /\ Elem(waiting'[l]) = Elem(waiting[l]) \cup {k}
          /\ Len(waiting'[l]) = Len(waiting[l]) + 1
      BY <1>9, <2>1, <2>4, PutTask
    <3>2. TaskFits(l, k)'
      BY <1>3, <1>9, <2>4 DEF TaskFits, m
    <3>3. EstablishedFirst(waiting'[l])
      BY <1>9, <2>1, <2>4, PutKeepsFirst
    <3>4. loopAt'[l] = "tasks" => todo'[l] <= Len(waiting'[l])
      BY <1>1, <1>8, <2>1, <3>1
    <3> QED
      BY <2>2, <3>1, <3>2, <3>3, <3>4
  <2> QED
    BY <1>10, <2>3, <2>4
<1>14. ConnsInv'
  <2>1. ASSUME NEW d \in Clients, d # c
        PROVE  ConnInv(d)'
    <3>1. ConnInv(d) /\ ServerTypes /\ (d \in _connections' <=> d \in _connections)
      BY <1>1, <2>1 DEF ServerInv, ConnsInv
    <3> QED
      BY <1>3, <1>7, <1>8, <1>12, <2>1, <3>1, OtherConn
  <2>2. ConnInv(c)'
    <3>1. r.state = "kConnecting" => k \in Elem(waiting'[m])
      <4>1. waiting[m] \in Seq(ServerTasks)
        BY <1>2, <1>3 DEF m
      <4> QED
        BY <1>9, <1>10, <4>1, PutTask
    <3>2. c \in _connections' /\ (r.state = "kConnecting" => ~r.known)
          /\ (r.state = "kConnected" => r.known)
      BY <1>1
    <3> QED
      BY <1>3, <1>7, <3>1, <3>2 DEF ConnInv, k, m
  <2> QED
    BY <2>1, <2>2 DEF ConnsInv
<1> QED
  BY <1>4, <1>5, <1>11, <1>13, <1>14 DEF ServerInv

-----------------------------------------------------------------------------
(* The end of a connection.                                                *)

ConnSet == [state : ConnStates, loop : Loops, known : BOOLEAN]

(* A task about c joins the queue of loop m.                               *)
LEMMA QueuesGrow ==
  ASSUME ServerTypes, NEW m \in Loops, NEW k \in ServerTasks,
         waiting' = [waiting EXCEPT ![m] = Append(@, k)]
  PROVE  /\ waiting' \in [Loops -> Seq(ServerTasks)]
         /\ \A l \in Loops : l # m => waiting'[l] = waiting[l]
         /\ waiting'[m] = Append(waiting[m], k)
         /\ Elem(waiting'[m]) = Elem(waiting[m]) \cup {k}
         /\ Len(waiting'[m]) = Len(waiting[m]) + 1
         /\ \A l \in Loops : Elem(waiting[l]) \subseteq Elem(waiting'[l])
<1>1. waiting \in [Loops -> Seq(ServerTasks)] /\ waiting[m] \in Seq(ServerTasks)
  BY DEF ServerTypes
<1>2. /\ Append(waiting[m], k) \in Seq(ServerTasks)
      /\ Len(Append(waiting[m], k)) = Len(waiting[m]) + 1
      /\ Elem(Append(waiting[m], k)) = Elem(waiting[m]) \cup {k}
  BY <1>1, PutTask
<1>3. /\ waiting' \in [Loops -> Seq(ServerTasks)]
      /\ \A l \in Loops : l # m => waiting'[l] = waiting[l]
      /\ waiting'[m] = Append(waiting[m], k)
  BY <1>1, <1>2
<1>4. \A l \in Loops : Elem(waiting[l]) \subseteq Elem(waiting'[l])
  BY <1>2, <1>3
<1> QED
  BY <1>2, <1>3, <1>4

(* What handleClose does, on the main loop and on another one.             *)
LEMMA CloseShape ==
  ASSUME ServerInv, NEW c \in Clients, handleClose(c)
  PROVE  /\ conn[c].state = "kConnected" /\ conn[c].known
         /\ conn' \in [Clients -> ConnSet]
         /\ conn'[c].state = "kDisconnected" /\ conn'[c].loop = conn[c].loop
         /\ conn'[c].known = conn[c].known
         /\ \A d \in Clients : d # c => conn'[d] = conn[d]
         /\ told' = [told EXCEPT ![c] = Append(@, "DOWN")]
         /\ \/ /\ conn[c].loop = Main /\ _connections' = _connections \ {c}
               /\ waiting' = [waiting EXCEPT ![Main] =
                                Append(@, ServerTask("connectDestroyed", c))]
            \/ /\ _connections' = _connections
               /\ waiting' = [waiting EXCEPT ![Main] =
                                Append(@, ServerTask("removeConnectionInLoop", c))]
         /\ UNCHANGED <<threadNum, backlog, client, refusing, nextLoop, todo, loopAt>>
<1>1. conn \in [Clients -> ConnSet]
  BY DEF ServerInv, ServerTypes, ConnSet
<1>2. conn' = [conn EXCEPT ![c].state = "kDisconnected"]
  BY DEF handleClose
<1>3. /\ conn' \in [Clients -> ConnSet]
      /\ conn'[c].state = "kDisconnected" /\ conn'[c].loop = conn[c].loop
      /\ conn'[c].known = conn[c].known
      /\ \A d \in Clients : d # c => conn'[d] = conn[d]
  <2>1. [conn[c] EXCEPT !.state = "kDisconnected"] \in ConnSet
    BY <1>1 DEF ConnSet, ConnStates
  <2>2. conn' \in [Clients -> ConnSet] /\ \A d \in Clients : d # c => conn'[d] = conn[d]
    BY <1>1, <1>2, <2>1
  <2>3. /\ conn'[c].state = "kDisconnected" /\ conn'[c].loop = conn[c].loop
        /\ conn'[c].known = conn[c].known
    BY <1>1, <1>2 DEF ConnSet
  <2> QED
    BY <2>2, <2>3
<1>4. /\ conn[c].state = "kConnected" /\ conn[c].known
      /\ told' = [told EXCEPT ![c] = Append(@, "DOWN")]
      /\ UNCHANGED <<threadNum, backlog, client, refusing, nextLoop, todo, loopAt>>
  BY DEF handleClose, kernelVars, fdVars, loopVars
<1>5. \/ /\ conn[c].loop = Main /\ _connections' = _connections \ {c}
         /\ waiting' = [waiting EXCEPT ![Main] =
                          Append(@, ServerTask("connectDestroyed", c))]
      \/ /\ _connections' = _connections
         /\ waiting' = [waiting EXCEPT ![Main] =
                          Append(@, ServerTask("removeConnectionInLoop", c))]
  <2>1. CASE conn[c].loop = Main
    BY <2>1 DEF handleClose, removeConnectionInLoop
  <2>2. CASE conn[c].loop # Main
    BY <2>2 DEF handleClose
  <2> QED
    BY <2>1, <2>2
<1> QED
  BY <1>3, <1>4, <1>5

(* handleClose and removeConnection.                                       *)
LEMMA CloseKeeps ==
  ASSUME ServerInv, NEW c \in Clients, handleClose(c)
  PROVE  ServerInv'
<1>1. /\ conn[c].state = "kConnected" /\ conn[c].known
      /\ conn' \in [Clients -> ConnSet]
      /\ conn'[c].state = "kDisconnected" /\ conn'[c].loop = conn[c].loop
      /\ conn'[c].known = conn[c].known
      /\ \A d \in Clients : d # c => conn'[d] = conn[d]
      /\ told' = [told EXCEPT ![c] = Append(@, "DOWN")]
      /\ UNCHANGED <<threadNum, backlog, client, refusing, nextLoop, todo, loopAt>>
  BY CloseShape
<1>2. PICK k \in ServerTasks :
        /\ k.conn = c /\ k.op \in {"connectDestroyed", "removeConnectionInLoop"}
        /\ waiting' = [waiting EXCEPT ![Main] = Append(@, k)]
        /\ \/ /\ k = ServerTask("connectDestroyed", c) /\ conn[c].loop = Main
              /\ _connections' = _connections \ {c}
           \/ k.op = "removeConnectionInLoop" /\ _connections' = _connections
  <2>1. /\ ServerTask("connectDestroyed", c) \in ServerTasks
        /\ ServerTask("connectDestroyed", c).conn = c
        /\ ServerTask("connectDestroyed", c).op = "connectDestroyed"
        /\ ServerTask("removeConnectionInLoop", c) \in ServerTasks
        /\ ServerTask("removeConnectionInLoop", c).conn = c
        /\ ServerTask("removeConnectionInLoop", c).op = "removeConnectionInLoop"
    BY TaskOf DEF TaskOps
  <2>2. \/ /\ conn[c].loop = Main /\ _connections' = _connections \ {c}
           /\ waiting' = [waiting EXCEPT ![Main] =
                            Append(@, ServerTask("connectDestroyed", c))]
        \/ /\ _connections' = _connections
           /\ waiting' = [waiting EXCEPT ![Main] =
                            Append(@, ServerTask("removeConnectionInLoop", c))]
    BY CloseShape
  <2> QED
    BY <2>1, <2>2
<1>3. /\ Main \in Loops /\ ServerTypes
      /\ told \in [Clients -> {<<>>, <<"UP">>, <<"UP", "DOWN">>}]
      /\ waiting \in [Loops -> Seq(ServerTasks)] /\ todo \in [Loops -> Nat]
      /\ conn[c].loop \in Loops
  BY LoopNumbers DEF ServerInv, ServerTypes
<1>4. /\ waiting' \in [Loops -> Seq(ServerTasks)]
      /\ \A l \in Loops : l # Main => waiting'[l] = waiting[l]
      /\ waiting'[Main] = Append(waiting[Main], k)
      /\ Elem(waiting'[Main]) = Elem(waiting[Main]) \cup {k}
      /\ Len(waiting'[Main]) = Len(waiting[Main]) + 1
      /\ \A l \in Loops : Elem(waiting[l]) \subseteq Elem(waiting'[l])
  BY <1>2, <1>3, QueuesGrow
<1>5. told[c] = <<"UP">>
  BY <1>1, ToldNext DEF ServerInv, ConnsInv, ConnInv
<1>6. /\ told' \in [Clients -> {<<>>, <<"UP">>, <<"UP", "DOWN">>}]
      /\ told'[c] = <<"UP", "DOWN">> /\ \A d \in Clients : d # c => told'[d] = told[d]
  <2>1. told' = [told EXCEPT ![c] = <<"UP", "DOWN">>]
    BY <1>1, <1>5, ToldNext
  <2> QED
    BY <1>3, <2>1
<1>7. BacklogInv' /\ TurnInv'
  <2>1. \A d \in Clients : /\ conn'[d].state = "none" <=> conn[d].state = "none"
                           /\ conn'[d].loop = conn[d].loop
    BY <1>1
  <2>2. BacklogInv'
    BY <1>1, <2>1, BacklogKept DEF ServerInv, BacklogInv
  <2>3. TurnInv'
    BY <1>1, <2>1, TurnKept DEF ServerInv
  <2> QED
    BY <2>2, <2>3
<1>8. ServerTypes'
  <2>1. _connections' \subseteq Clients
    BY <1>2 DEF ServerInv, ServerTypes
  <2> QED
    BY <1>1, <1>4, <1>6, <2>1 DEF ServerInv, ServerTypes, ConnSet
<1>9. QueueInv'
  <2> SUFFICES ASSUME NEW l \in Loops
               PROVE  /\ \A t \in Elem(waiting'[l]) : TaskFits(l, t)'
                      /\ EstablishedFirst(waiting'[l])
                      /\ loopAt'[l] = "tasks" => todo'[l] <= Len(waiting'[l])
    BY DEF QueueInv
  <2>1. /\ waiting[l] \in Seq(ServerTasks) /\ todo[l] \in Nat /\ Len(waiting[l]) \in Nat
        /\ \A t \in Elem(waiting[l]) : TaskFits(l, t) /\ t \in ServerTasks
        /\ EstablishedFirst(waiting[l])
        /\ loopAt[l] = "tasks" => todo[l] <= Len(waiting[l])
    <3>1. waiting[l] \in Seq(ServerTasks) /\ todo[l] \in Nat
      BY <1>3
    <3>2. Elem(waiting[l]) \subseteq ServerTasks /\ Len(waiting[l]) \in Nat
      BY <3>1, QueuePlaces
    <3> QED
      BY <3>1, <3>2 DEF ServerInv, QueueInv
  <2>2. ASSUME NEW t \in Elem(waiting[l])
        PROVE  TaskFits(l, t)'
    <3>1. t \in ServerTasks /\ TaskFits(l, t) /\ t.conn \in Clients
      BY <2>1 DEF ServerTasks
    <3>2. CASE t.conn # c
      BY <1>1, <1>2, <3>1, <3>2, OtherTask
    <3>3. CASE t.conn = c
      <4>1. t.op \notin {"connectEstablished", "removeConnectionInLoop"}
        BY <1>1, <3>1, <3>3 DEF TaskFits
      <4>2. t.conn \in _connections' => t.conn \in _connections
        BY <1>2
      <4> QED
        BY <1>1, <3>1, <3>3, <4>1, <4>2 DEF TaskFits
    <3> QED
      BY <3>2, <3>3
  <2>3. CASE l # Main
    BY <1>1, <1>4, <2>1, <2>2, <2>3
  <2>4. CASE l = Main
    <3>1. TaskFits(l, k)'
      <4>1. k.op = "connectDestroyed" => conn[c].loop = Main /\ c \notin _connections'
        BY <1>2 DEF ServerTask
      <4> QED
        BY <1>1, <1>2, <2>4, <4>1 DEF TaskFits
    <3>2. EstablishedFirst(waiting'[l])
      BY <1>2, <1>4, <2>1, <2>4, PutKeepsFirst
    <3>3. loopAt'[l] = "tasks" => todo'[l] <= Len(waiting'[l])
      BY <1>1, <1>4, <2>1, <2>4
    <3> QED
      BY <1>4, <2>2, <2>4, <3>1, <3>2, <3>3
  <2> QED
    BY <2>3, <2>4
<1>10. ConnsInv'
  <2>1. ASSUME NEW d \in Clients, d # c
        PROVE  ConnInv(d)'
    <3>1. ConnInv(d) /\ (d \in _connections' <=> d \in _connections)
      BY <1>2, <2>1 DEF ServerInv, ConnsInv
    <3> QED
      BY <1>1, <1>3, <1>4, <1>6, <2>1, <3>1, OtherConn
  <2>2. ConnInv(c)'
    <3>1. ConnInv(c)
      BY DEF ServerInv, ConnsInv
    <3>2. ASSUME loopAt[conn[c].loop] # "over", c \notin _connections'
          PROVE  ServerTask("connectDestroyed", c) \in Elem(waiting'[conn[c].loop])
      <4>1. CASE c \in _connections
        BY <1>2, <1>4, <3>2, <4>1
      <4>2. CASE c \notin _connections
        BY <1>1, <1>3, <1>4, <3>1, <3>2, <4>2 DEF ConnInv, Destroying
      <4> QED
        BY <4>1, <4>2
    <3> QED
      BY <1>1, <1>6, <3>2, ToldNext DEF ConnInv, Destroying
  <2> QED
    BY <2>1, <2>2 DEF ConnsInv
<1> QED
  BY <1>7, <1>8, <1>9, <1>10 DEF ServerInv

(* A loop that has tasks to run finds one in front.                        *)
LEMMA FrontThere ==
  ASSUME ServerInv, NEW l \in Loops, loopAt[l] = "tasks", todo[l] > 0
  PROVE  /\ waiting[l] \in Seq(ServerTasks) /\ waiting[l] # <<>>
         /\ Head(waiting[l]) \in ServerTasks /\ Head(waiting[l]) \in Elem(waiting[l])
         /\ TaskFits(l, Head(waiting[l]))
         /\ EstablishedFirst(waiting[l]) /\ EstablishedFirst(Tail(waiting[l]))
         /\ Tail(waiting[l]) \in Seq(ServerTasks)
         /\ Elem(waiting[l]) = Elem(Tail(waiting[l])) \cup {Head(waiting[l])}
         /\ todo[l] - 1 \in Nat /\ todo[l] - 1 <= Len(Tail(waiting[l]))
<1>1. waiting[l] \in Seq(ServerTasks) /\ todo[l] \in Nat
  BY DEF ServerInv, ServerTypes
<1>2. Len(waiting[l]) \in Nat /\ Elem(waiting[l]) \subseteq ServerTasks
  BY <1>1, QueuePlaces
<1>3. todo[l] <= Len(waiting[l]) /\ EstablishedFirst(waiting[l])
  BY DEF ServerInv, QueueInv
<1>4. waiting[l] # <<>>
  BY <1>1, <1>2, <1>3, QueuePlaces
<1>5. /\ Tail(waiting[l]) \in Seq(ServerTasks) /\ Len(Tail(waiting[l])) = Len(waiting[l]) - 1
      /\ Head(waiting[l]) \in Elem(waiting[l])
      /\ Elem(waiting[l]) = Elem(Tail(waiting[l])) \cup {Head(waiting[l])}
      /\ EstablishedFirst(Tail(waiting[l]))
  BY <1>1, <1>3, <1>4, TakeTask
<1>6. Head(waiting[l]) \in ServerTasks /\ TaskFits(l, Head(waiting[l]))
  BY <1>2, <1>5 DEF ServerInv, QueueInv
<1>7. todo[l] - 1 \in Nat /\ todo[l] - 1 <= Len(Tail(waiting[l]))
  BY <1>1, <1>2, <1>3, <1>5
<1> QED
  BY <1>1, <1>3, <1>4, <1>5, <1>6, <1>7

(* A loop takes the task in front, which is about c; c changes and nothing *)
(* else does.                                                              *)
LEMMA TaskTaken ==
  ASSUME ServerInv, NEW l \in Loops, loopAt[l] = "tasks", todo[l] > 0,
         NEW c \in Clients, Head(waiting[l]).conn = c,
         todo' = [todo EXCEPT ![l] = @ - 1], waiting' = [waiting EXCEPT ![l] = Tail(@)],
         conn' \in [Clients -> ConnSet], conn'[c].loop = conn[c].loop,
         conn'[c].state # "none",
         \A d \in Clients : d # c => conn'[d] = conn[d] /\ told'[d] = told[d],
         told' \in [Clients -> {<<>>, <<"UP">>, <<"UP", "DOWN">>}],
         \A t \in Elem(Tail(waiting[l])) : t.conn = c => t.op # "connectEstablished",
         \A m \in Loops : \A t \in Elem(waiting[m]) :
            t.conn = c /\ t.op = "removeConnectionInLoop" => conn'[c].state = "kDisconnected",
         ConnInv(c)',
         UNCHANGED <<threadNum, backlog, client, refusing, nextLoop, loopAt, _connections>>
  PROVE  ServerInv'
<1>1. /\ waiting[l] # <<>> /\ TaskFits(l, Head(waiting[l]))
      /\ Head(waiting[l]) \in Elem(waiting[l]) /\ EstablishedFirst(Tail(waiting[l]))
      /\ Tail(waiting[l]) \in Seq(ServerTasks)
      /\ Elem(waiting[l]) = Elem(Tail(waiting[l])) \cup {Head(waiting[l])}
      /\ todo[l] - 1 \in Nat /\ todo[l] - 1 <= Len(Tail(waiting[l]))
  BY FrontThere
<1>2. /\ waiting \in [Loops -> Seq(ServerTasks)] /\ todo \in [Loops -> Nat] /\ ServerTypes
  BY DEF ServerInv, ServerTypes
<1>3. /\ waiting' \in [Loops -> Seq(ServerTasks)] /\ waiting'[l] = Tail(waiting[l])
      /\ \A m \in Loops : m # l => waiting'[m] = waiting[m]
      /\ todo' \in [Loops -> Nat] /\ todo'[l] = todo[l] - 1
      /\ \A m \in Loops : m # l => todo'[m] = todo[m]
  BY <1>1, <1>2
<1>4. conn[c].state # "none"
  BY <1>1 DEF TaskFits
<1>5. \A d \in Clients : /\ conn'[d].state = "none" <=> conn[d].state = "none"
                         /\ conn'[d].loop = conn[d].loop
  BY <1>4
<1>6. BacklogInv' /\ TurnInv'
  BY <1>5, BacklogKept, TurnKept DEF ServerInv, BacklogInv
<1>7. ServerTypes'
  BY <1>3 DEF ServerInv, ServerTypes, ConnSet
<1>8. \A m \in Loops : Elem(waiting'[m]) \subseteq Elem(waiting[m])
  BY <1>1, <1>3
<1>9. QueueInv'
  <2> SUFFICES ASSUME NEW m \in Loops
               PROVE  /\ \A t \in Elem(waiting'[m]) : TaskFits(m, t)'
                      /\ EstablishedFirst(waiting'[m])
                      /\ loopAt'[m] = "tasks" => todo'[m] <= Len(waiting'[m])
    BY DEF QueueInv
  <2>1. ASSUME NEW t \in Elem(waiting'[m])
        PROVE  TaskFits(m, t)'
    <3>1. t \in Elem(waiting[m]) /\ TaskFits(m, t) /\ t.conn \in Clients
      <4>1. t \in Elem(waiting[m]) /\ waiting[m] \in Seq(ServerTasks)
        BY <1>2, <1>8
      <4>2. t \in ServerTasks
        BY <4>1, QueuePlaces
      <4> QED
        BY <4>1, <4>2 DEF ServerInv, QueueInv, ServerTasks
    <3>2. CASE t.conn # c
      BY <3>1, <3>2, OtherTask
    <3>3. CASE t.conn = c
      <4>1. t.op # "connectEstablished"
        <5>1. CASE m = l
          BY <1>3, <3>3, <5>1
        <5>2. CASE m # l
          <6>1. t.op = "connectEstablished" => conn[c].loop = m /\ conn[c].state = "kConnecting"
            BY <3>1, <3>3 DEF TaskFits
          <6>2. Head(waiting[l]).op # "removeConnectionInLoop" => conn[c].loop = l
            BY <1>1 DEF TaskFits
          <6>3. Head(waiting[l]).op = "removeConnectionInLoop" =>
                  conn[c].state = "kDisconnected"
            BY <1>1 DEF TaskFits
          <6> QED
            BY <5>2, <6>1, <6>2, <6>3
        <5> QED
          BY <5>1, <5>2
      <4>2. t.op = "removeConnectionInLoop" => conn'[c].state = "kDisconnected"
        BY <3>1, <3>3
      <4> QED
        BY <3>1, <3>3, <4>1, <4>2 DEF TaskFits
    <3> QED
      BY <3>2, <3>3
  <2>2. CASE m = l
    BY <1>1, <1>3, <2>1, <2>2
  <2>3. CASE m # l
    BY <1>3, <2>1, <2>3 DEF ServerInv, QueueInv
  <2> QED
    BY <2>2, <2>3
<1>10. ConnsInv'
  <2>1. ASSUME NEW d \in Clients, d # c
        PROVE  ConnInv(d)'
    <3>1. ConnInv(d)
      BY DEF ServerInv, ConnsInv
    <3>2. ASSUME NEW m \in Loops, NEW op \in TaskOps, ServerTask(op, d) \in Elem(waiting[m])
          PROVE  ServerTask(op, d) \in Elem(waiting'[m])
      <4>1. ServerTask(op, d) # Head(waiting[l])
        BY <2>1, TaskOf
      <4> QED
        BY <1>1, <1>3, <3>2, <4>1
    <3> QED
      BY <1>2, <2>1, <3>1, <3>2, OtherConn
  <2> QED
    BY <2>1 DEF ConnsInv
<1> QED
  BY <1>6, <1>7, <1>9, <1>10 DEF ServerInv

(* A loop runs connectEstablished (TcpConnection.cpp).                     *)
LEMMA EstablishKeeps ==
  ASSUME ServerInv, NEW l \in Loops, RunServerTask(l),
         Head(waiting[l]).op = "connectEstablished"
  PROVE  ServerInv'
<1>1. loopAt[l] = "tasks" /\ todo[l] > 0
  BY DEF RunServerTask
<1>2. /\ waiting[l] \in Seq(ServerTasks) /\ waiting[l] # <<>>
      /\ Head(waiting[l]) \in ServerTasks /\ TaskFits(l, Head(waiting[l]))
      /\ EstablishedFirst(waiting[l])
      /\ Elem(waiting[l]) = Elem(Tail(waiting[l])) \cup {Head(waiting[l])}
  BY <1>1, FrontThere
<1>3. PICK c \in Clients : c = Head(waiting[l]).conn
  BY <1>2 DEF ServerTasks
<1>4. /\ conn' = [conn EXCEPT ![c].state = "kConnected", ![c].known = TRUE]
      /\ told' = [told EXCEPT ![c] = Append(@, "UP")]
      /\ waiting' = [waiting EXCEPT ![l] = Tail(@)] /\ _connections' = _connections
      /\ todo' = [todo EXCEPT ![l] = @ - 1]
      /\ UNCHANGED <<threadNum, backlog, client, refusing, nextLoop, loopAt>>
  BY <1>3 DEF RunServerTask, connectEstablished, kernelVars, fdVars
<1>5. conn[c].state = "kConnecting" /\ conn[c].loop = l
  BY <1>2, <1>3 DEF TaskFits
<1>6. conn \in [Clients -> ConnSet] /\ told \in [Clients -> {<<>>, <<"UP">>, <<"UP", "DOWN">>}]
      /\ waiting \in [Loops -> Seq(ServerTasks)]
  BY DEF ServerInv, ServerTypes, ConnSet
<1>7. /\ conn' \in [Clients -> ConnSet] /\ conn'[c].state = "kConnected"
      /\ conn'[c].known /\ conn'[c].loop = conn[c].loop
      /\ \A d \in Clients : d # c => conn'[d] = conn[d]
  BY <1>3, <1>4, <1>6 DEF ConnSet, ConnStates
<1>8. told[c] = <<>> /\ ConnInv(c)
  BY <1>3, <1>5, ToldNext DEF ServerInv, ConnsInv, ConnInv
<1>9. /\ told' \in [Clients -> {<<>>, <<"UP">>, <<"UP", "DOWN">>}] /\ told'[c] = <<"UP">>
      /\ \A d \in Clients : d # c => told'[d] = told[d]
  <2>1. told' = [told EXCEPT ![c] = <<"UP">>]
    BY <1>4, <1>8, ToldNext
  <2> QED
    BY <1>3, <1>6, <2>1
<1>10. \A t \in Elem(Tail(waiting[l])) : t.conn = c => t.op # "connectEstablished"
  <2> SUFFICES ASSUME NEW t \in Elem(Tail(waiting[l])), t.conn = c,
                      t.op = "connectEstablished"
               PROVE  FALSE
    OBVIOUS
  <2>1. t \in ServerTasks
    BY <1>2, QueuePlaces
  <2>2. t = ServerTask("connectEstablished", c)
    BY <2>1 DEF ServerTasks, ServerTask
  <2> QED
    BY <1>2, <1>3, <2>2, FrontTask
<1>11. \A m \in Loops : \A t \in Elem(waiting[m]) :
          t.conn = c => t.op # "removeConnectionInLoop"
  BY <1>5 DEF ServerInv, QueueInv, TaskFits
<1>12. ConnInv(c)'
  <2>1. /\ c \notin _connections =>
             ServerTask("connectDestroyed", c) \in Elem(waiting[l])
    BY <1>1, <1>5, <1>8 DEF ConnInv, Destroying
  <2>2. ServerTask("connectDestroyed", c) # Head(waiting[l])
    BY DEF ServerTask
  <2>3. c \notin _connections => ServerTask("connectDestroyed", c) \in Elem(waiting'[l])
    <3>1. waiting'[l] = Tail(waiting[l])
      BY <1>4, <1>6
    <3> QED
      BY <1>2, <2>1, <2>2, <3>1
  <2>4. told'[c] = ToldAt(conn'[c].state)
    BY <1>7, <1>9, ToldNext
  <2>5. conn'[c].loop = l /\ _connections' = _connections /\ loopAt' = loopAt
    BY <1>4, <1>5, <1>7
  <2>6. c \notin _connections' => Destroying(c)'
    BY <2>3, <2>5 DEF Destroying
  <2>7. conn'[c].state = "kConnected" /\ conn'[c].known
    BY <1>7
  <2>8. /\ conn'[c].state # "none" /\ conn'[c].state # "kConnecting"
        /\ conn'[c].state # "kDisconnected"
    BY <1>7
  <2> QED
    BY <2>4, <2>6, <2>7, <2>8 DEF ConnInv
<1>13. /\ \A m \in Loops : \A t \in Elem(waiting[m]) :
            t.conn = c /\ t.op = "removeConnectionInLoop" => conn'[c].state = "kDisconnected"
       /\ conn'[c].state # "none"
       /\ \A d \in Clients : d # c => conn'[d] = conn[d] /\ told'[d] = told[d]
  BY <1>7, <1>9, <1>11
<1>14. /\ todo' = [todo EXCEPT ![l] = @ - 1] /\ waiting' = [waiting EXCEPT ![l] = Tail(@)]
       /\ UNCHANGED <<threadNum, backlog, client, refusing, nextLoop, loopAt, _connections>>
  BY <1>4
<1>15. Head(waiting[l]).conn = c
  BY <1>3
<1> QED
  BY <1>1, <1>7, <1>9, <1>10, <1>12, <1>13, <1>14, <1>15, TaskTaken

(* The main loop runs removeConnectionInLoop: the map lets go of the       *)
(* connection, and connectDestroyed is handed to its loop.                 *)
LEMMA RemoveKeeps ==
  ASSUME ServerInv, NEW l \in Loops, RunServerTask(l),
         Head(waiting[l]).op = "removeConnectionInLoop"
  PROVE  ServerInv'
<1>1. loopAt[l] = "tasks" /\ todo[l] > 0
  BY DEF RunServerTask
<1>2. /\ waiting[l] \in Seq(ServerTasks) /\ waiting[l] # <<>>
      /\ Head(waiting[l]) \in ServerTasks /\ TaskFits(l, Head(waiting[l]))
      /\ EstablishedFirst(Tail(waiting[l])) /\ Tail(waiting[l]) \in Seq(ServerTasks)
      /\ Elem(waiting[l]) = Elem(Tail(waiting[l])) \cup {Head(waiting[l])}
      /\ todo[l] - 1 \in Nat /\ todo[l] - 1 <= Len(Tail(waiting[l]))
  BY <1>1, FrontThere
<1>3. PICK c \in Clients : c = Head(waiting[l]).conn
  BY <1>2 DEF ServerTasks
<1>4. PICK rest : rest = [waiting EXCEPT ![l] = Tail(@)]
  OBVIOUS
<1>5. PICK m \in Loops : m = conn[c].loop
  BY DEF ServerInv, ServerTypes
<1>6. PICK k \in ServerTasks : k = ServerTask("connectDestroyed", c)
  BY TaskOf DEF TaskOps
<1>7. k.op = "connectDestroyed" /\ k.conn = c
  BY <1>6 DEF ServerTask
<1>8. /\ conn' = conn /\ told' = told
      /\ waiting' = [rest EXCEPT ![m] = Append(@, k)] /\ _connections' = _connections \ {c}
      /\ todo' = [todo EXCEPT ![l] = @ - 1]
      /\ UNCHANGED <<threadNum, backlog, client, refusing, nextLoop, loopAt>>
  BY <1>3, <1>4, <1>5, <1>6 DEF RunServerTask, removeConnectionInLoop, kernelVars, fdVars
<1>9. waiting \in [Loops -> Seq(ServerTasks)] /\ todo \in [Loops -> Nat] /\ ServerTypes
  BY DEF ServerInv, ServerTypes
<1>10. /\ rest \in [Loops -> Seq(ServerTasks)] /\ rest[l] = Tail(waiting[l])
       /\ \A x \in Loops : x # l => rest[x] = waiting[x]
       /\ todo' \in [Loops -> Nat] /\ todo'[l] = todo[l] - 1
       /\ \A x \in Loops : x # l => todo'[x] = todo[x]
  BY <1>2, <1>4, <1>8, <1>9
<1>11. /\ Append(rest[m], k) \in Seq(ServerTasks) /\ Len(Append(rest[m], k)) = Len(rest[m]) + 1
       /\ Elem(Append(rest[m], k)) = Elem(rest[m]) \cup {k} /\ Len(rest[m]) \in Nat
  <2>1. rest[m] \in Seq(ServerTasks)
    BY <1>10
  <2> QED
    BY <2>1, PutTask, QueuePlaces
<1>12. /\ waiting' \in [Loops -> Seq(ServerTasks)] /\ waiting'[m] = Append(rest[m], k)
       /\ \A x \in Loops : x # m => waiting'[x] = rest[x]
  BY <1>8, <1>10, <1>11
<1>13. /\ \A x \in Loops : Elem(rest[x]) \subseteq Elem(waiting[x])
       /\ \A x \in Loops : EstablishedFirst(rest[x])
       /\ \A x \in Loops : loopAt[x] = "tasks" => todo'[x] <= Len(rest[x])
  <2> SUFFICES ASSUME NEW x \in Loops
               PROVE  /\ Elem(rest[x]) \subseteq Elem(waiting[x])
                      /\ EstablishedFirst(rest[x])
                      /\ loopAt[x] = "tasks" => todo'[x] <= Len(rest[x])
    OBVIOUS
  <2>1. CASE x = l
    BY <1>2, <1>10, <2>1
  <2>2. CASE x # l
    BY <1>10, <2>2 DEF ServerInv, QueueInv
  <2> QED
    BY <2>1, <2>2
<1>14. conn[c].state = "kDisconnected" /\ ConnInv(c)
  BY <1>2, <1>3 DEF TaskFits, ServerInv, ConnsInv
<1>15. BacklogInv' /\ TurnInv'
  <2>1. \A d \in Clients : /\ conn'[d].state = "none" <=> conn[d].state = "none"
                           /\ conn'[d].loop = conn[d].loop
    BY <1>8
  <2>2. BacklogInv'
    BY <1>8, <2>1, BacklogKept DEF ServerInv, BacklogInv
  <2>3. TurnInv'
    BY <1>8, <2>1, TurnKept DEF ServerInv
  <2> QED
    BY <2>2, <2>3
<1>16. ServerTypes'
  BY <1>8, <1>10, <1>12 DEF ServerInv, ServerTypes
<1>17. QueueInv'
  <2> SUFFICES ASSUME NEW x \in Loops
               PROVE  /\ \A t \in Elem(waiting'[x]) : TaskFits(x, t)'
                      /\ EstablishedFirst(waiting'[x])
                      /\ loopAt'[x] = "tasks" => todo'[x] <= Len(waiting'[x])
    BY DEF QueueInv
  <2>1. ASSUME NEW t \in Elem(rest[x])
        PROVE  TaskFits(x, t)'
    <3>1. TaskFits(x, t)
      BY <1>13, <2>1 DEF ServerInv, QueueInv
    <3> QED
      BY <1>8, <3>1, OtherTask
  <2>2. CASE x # m
    BY <1>8, <1>12, <1>13, <2>1, <2>2
  <2>3. CASE x = m
    <3>1. TaskFits(x, k)'
      BY <1>5, <1>7, <1>8, <1>14, <2>3 DEF TaskFits
    <3>2. EstablishedFirst(waiting'[x])
      BY <1>7, <1>10, <1>12, <1>13, <2>3, PutKeepsFirst
    <3>3. loopAt'[x] = "tasks" => todo'[x] <= Len(waiting'[x])
      BY <1>8, <1>10, <1>11, <1>12, <1>13, <2>3
    <3> QED
      BY <1>11, <1>12, <2>1, <2>3, <3>1, <3>2, <3>3
  <2> QED
    BY <2>2, <2>3
<1>18. ConnsInv'
  <2>1. ASSUME NEW d \in Clients, d # c
        PROVE  ConnInv(d)'
    <3>1. ConnInv(d)
      BY DEF ServerInv, ConnsInv
    <3>2. ASSUME NEW x \in Loops, NEW op \in TaskOps, ServerTask(op, d) \in Elem(waiting[x])
          PROVE  ServerTask(op, d) \in Elem(waiting'[x])
      <4>1. ServerTask(op, d) # Head(waiting[l])
        BY <1>3, <2>1, TaskOf
      <4>2. ServerTask(op, d) \in Elem(rest[x])
        BY <1>2, <1>10, <3>2, <4>1
      <4> QED
        BY <1>11, <1>12, <4>2
    <3> QED
      BY <1>8, <1>9, <2>1, <3>1, <3>2, OtherConn
  <2>2. ConnInv(c)'
    <3>1. ServerTask("connectDestroyed", c) \in Elem(waiting'[conn'[c].loop])
      BY <1>5, <1>6, <1>8, <1>11, <1>12
    <3>2. conn'[c] = conn[c] /\ told'[c] = told[c]
      BY <1>8
    <3> QED
      BY <1>14, <3>1, <3>2 DEF ConnInv, Destroying
  <2> QED
    BY <2>1, <2>2 DEF ConnsInv
<1> QED
  BY <1>15, <1>16, <1>17, <1>18 DEF ServerInv

(* What connectDestroyed does to the connections in cs.                    *)
LEMMA DestroyShape ==
  ASSUME ServerInv, NEW cs \in SUBSET Clients, ConnectDestroyed(cs)
  PROVE  /\ conn' \in [Clients -> ConnSet]
         /\ told' \in [Clients -> {<<>>, <<"UP">>, <<"UP", "DOWN">>}]
         /\ \A c \in Clients \ cs : conn'[c] = conn[c] /\ told'[c] = told[c]
         /\ \A c \in cs :
              /\ conn[c].state = "kConnected" => conn'[c].state = "kDisconnected"
              /\ conn[c].state # "kConnected" => conn'[c].state = conn[c].state
              /\ conn'[c].loop = conn[c].loop /\ ~conn'[c].known
              /\ told'[c] = ToldAt(conn'[c].state)
<1>1. /\ conn \in [Clients -> ConnSet]
      /\ told \in [Clients -> {<<>>, <<"UP">>, <<"UP", "DOWN">>}]
  BY DEF ServerInv, ServerTypes, ConnSet
<1>2. PICK open : open = {c \in cs : conn[c].state = "kConnected"}
  OBVIOUS
<1>3. /\ conn' = [c \in Clients |->
                      IF c \notin cs THEN conn[c]
                      ELSE [conn[c] EXCEPT !.known = FALSE,
                              !.state = IF c \in open THEN "kDisconnected" ELSE @]]
      /\ told' = [c \in Clients |->
                      IF c \in open THEN Append(told[c], "DOWN") ELSE told[c]]
  BY <1>2 DEF ConnectDestroyed
<1>4. ASSUME NEW c \in cs
      PROVE  /\ conn'[c] \in ConnSet /\ conn'[c].loop = conn[c].loop /\ ~conn'[c].known
             /\ conn[c].state = "kConnected" => conn'[c].state = "kDisconnected"
             /\ conn[c].state # "kConnected" => conn'[c].state = conn[c].state
             /\ told'[c] \in {<<>>, <<"UP">>, <<"UP", "DOWN">>}
             /\ told'[c] = ToldAt(conn'[c].state)
  <2>1. ConnInv(c) /\ c \in Clients
    BY DEF ServerInv, ConnsInv
  <2>2. conn[c] \in ConnSet /\ conn[c].state \in ConnStates /\ "kDisconnected" \in ConnStates
    BY <1>1, <2>1 DEF ConnSet, ConnStates
  <2>3. CASE conn[c].state = "kConnected"
    <3>1. c \in open /\ told[c] = <<"UP">>
      BY <1>2, <2>1, <2>3, ToldNext DEF ConnInv
    <3>2. told'[c] = <<"UP", "DOWN">>
      <4>1. told'[c] = Append(told[c], "DOWN")
        BY <1>3, <2>1, <3>1
      <4> QED
        BY <3>1, <4>1, ToldNext
    <3>3. conn'[c] = [conn[c] EXCEPT !.known = FALSE, !.state = "kDisconnected"]
      BY <1>3, <2>1, <3>1
    <3>4. /\ conn'[c] \in ConnSet /\ conn'[c].state = "kDisconnected"
          /\ conn'[c].loop = conn[c].loop /\ ~conn'[c].known
      <4>1. PICK r \in ConnSet : r = conn[c]
        BY <2>2
      <4>2. PICK d : d = [r EXCEPT !.known = FALSE, !.state = "kDisconnected"]
        OBVIOUS
      <4>3. "kDisconnected" \in ConnStates
        BY <2>2
      <4>4. d \in ConnSet /\ d.state = "kDisconnected" /\ d.loop = r.loop /\ ~d.known
        BY <4>2, <4>3 DEF ConnSet
      <4> QED
        BY <3>3, <4>1, <4>2, <4>4
    <3>5. told'[c] = ToldAt(conn'[c].state)
      BY <3>2, <3>4, ToldNext
    <3> QED
      BY <2>3, <3>2, <3>4, <3>5
  <2>4. CASE conn[c].state # "kConnected"
    <3>1. c \notin open /\ told[c] = ToldAt(conn[c].state)
      BY <1>2, <2>1, <2>4 DEF ConnInv
    <3>2. told'[c] = told[c] /\ told[c] \in {<<>>, <<"UP">>, <<"UP", "DOWN">>}
      BY <1>1, <1>3, <2>1, <3>1
    <3>3. conn'[c] = [conn[c] EXCEPT !.known = FALSE, !.state = conn[c].state]
      BY <1>3, <2>1, <2>2, <3>1 DEF ConnSet
    <3>4. /\ conn'[c] \in ConnSet /\ conn'[c].state = conn[c].state
          /\ conn'[c].loop = conn[c].loop /\ ~conn'[c].known
      <4>1. PICK r \in ConnSet : r = conn[c]
        BY <2>2
      <4>2. PICK s \in ConnStates : s = conn[c].state
        BY <2>2
      <4>3. PICK d : d = [r EXCEPT !.known = FALSE, !.state = s]
        OBVIOUS
      <4>4. d \in ConnSet /\ d.state = s /\ d.loop = r.loop /\ ~d.known
        BY <4>3 DEF ConnSet
      <4> QED
        BY <3>3, <4>1, <4>2, <4>3, <4>4
    <3> QED
      BY <2>4, <3>1, <3>2, <3>4
  <2> QED
    BY <2>3, <2>4
<1>5. \A c \in Clients \ cs : conn'[c] = conn[c] /\ told'[c] = told[c]
  BY <1>2, <1>3
<1>6. conn' \in [Clients -> ConnSet]
  <2>1. \A c \in Clients : conn'[c] \in ConnSet
    BY <1>1, <1>4, <1>5
  <2>2. conn' = [c \in Clients |-> conn'[c]]
    BY <1>3
  <2> QED
    BY <2>1, <2>2
<1>7. told' \in [Clients -> {<<>>, <<"UP">>, <<"UP", "DOWN">>}]
  <2>1. told' = [c \in Clients |-> told'[c]]
    BY <1>3
  <2>2. \A c \in Clients : told'[c] \in {<<>>, <<"UP">>, <<"UP", "DOWN">>}
    BY <1>1, <1>4, <1>5
  <2> QED
    BY <2>1, <2>2
<1> QED
  BY <1>4, <1>5, <1>6, <1>7

(* A loop runs connectDestroyed.                                           *)
LEMMA DestroyKeeps ==
  ASSUME ServerInv, NEW l \in Loops, RunServerTask(l),
         Head(waiting[l]).op = "connectDestroyed"
  PROVE  ServerInv'
<1>1. loopAt[l] = "tasks" /\ todo[l] > 0
  BY DEF RunServerTask
<1>2. /\ waiting[l] \in Seq(ServerTasks) /\ waiting[l] # <<>>
      /\ Head(waiting[l]) \in ServerTasks /\ TaskFits(l, Head(waiting[l]))
      /\ EstablishedFirst(waiting[l])
      /\ Elem(waiting[l]) = Elem(Tail(waiting[l])) \cup {Head(waiting[l])}
  BY <1>1, FrontThere
<1>3. PICK c \in Clients : c = Head(waiting[l]).conn
  BY <1>2 DEF ServerTasks
<1>4. /\ ConnectDestroyed({c})
      /\ waiting' = [waiting EXCEPT ![l] = Tail(@)] /\ _connections' = _connections
      /\ todo' = [todo EXCEPT ![l] = @ - 1]
      /\ UNCHANGED <<threadNum, backlog, client, refusing, nextLoop, loopAt>>
  BY <1>3 DEF RunServerTask, kernelVars, fdVars
<1>5. conn[c].state # "none" /\ conn[c].loop = l /\ c \notin _connections /\ ConnInv(c)
  BY <1>2, <1>3 DEF TaskFits, ServerInv, ConnsInv
<1>6. ServerTask("connectEstablished", c) \notin Elem(waiting[l])
  BY <1>2, <1>3, FrontTask
<1>7. conn[c].state \in {"kConnected", "kDisconnected"}
  <2>1. conn[c].state # "kConnecting"
    BY <1>1, <1>5, <1>6 DEF ConnInv
  <2>2. conn[c].state \in ConnStates
    BY DEF ServerInv, ServerTypes
  <2> QED
    BY <1>5, <2>1, <2>2 DEF ConnStates
<1>8. /\ conn' \in [Clients -> ConnSet]
      /\ told' \in [Clients -> {<<>>, <<"UP">>, <<"UP", "DOWN">>}]
      /\ \A d \in Clients : d # c => conn'[d] = conn[d] /\ told'[d] = told[d]
      /\ conn'[c].state = "kDisconnected" /\ ~conn'[c].known
      /\ conn'[c].loop = conn[c].loop /\ told'[c] = ToldAt(conn'[c].state)
  <2>1. {c} \in SUBSET Clients
    OBVIOUS
  <2>2. /\ conn' \in [Clients -> ConnSet]
        /\ told' \in [Clients -> {<<>>, <<"UP">>, <<"UP", "DOWN">>}]
        /\ \A d \in Clients \ {c} : conn'[d] = conn[d] /\ told'[d] = told[d]
        /\ \A d \in {c} :
              /\ conn[d].state = "kConnected" => conn'[d].state = "kDisconnected"
              /\ conn[d].state # "kConnected" => conn'[d].state = conn[d].state
              /\ conn'[d].loop = conn[d].loop /\ ~conn'[d].known
              /\ told'[d] = ToldAt(conn'[d].state)
    BY <1>4, <2>1, DestroyShape
  <2> QED
    BY <1>7, <2>2
<1>9. \A t \in Elem(Tail(waiting[l])) : t.conn = c => t.op # "connectEstablished"
  BY <1>2, <1>7 DEF ServerInv, QueueInv, TaskFits
<1>10. ConnInv(c)'
  BY <1>4, <1>5, <1>8 DEF ConnInv, Destroying
<1> QED
  BY <1>1, <1>3, <1>4, <1>8, <1>9, <1>10, TaskTaken

(* A loop runs a task.                                                     *)
LEMMA RunKeeps ==
  ASSUME ServerInv, NEW l \in Loops, RunServerTask(l)
  PROVE  ServerInv'
<1>1. loopAt[l] = "tasks" /\ todo[l] > 0
  BY DEF RunServerTask
<1>2. Head(waiting[l]).op \in TaskOps
  BY <1>1, FrontThere DEF ServerTasks
<1> QED
  BY <1>2, EstablishKeeps, RemoveKeeps, DestroyKeeps DEF TaskOps

(* A finite set in some order: every member has a place, and nothing else  *)
(* has one.                                                                *)
LEMMA SetInOrder ==
  ASSUME NEW S, IsFiniteSet(S)
  PROVE  /\ SetToSeq(S) \in Seq(S) /\ Len(SetToSeq(S)) = Cardinality(S)
         /\ DOMAIN SetToSeq(S) = 1 .. Cardinality(S) /\ Cardinality(S) \in Nat
         /\ \A c \in S : \E i \in 1 .. Cardinality(S) : SetToSeq(S)[i] = c
<1> DEFINE n == Cardinality(S)
<1>1. n \in Nat /\ \E f : f \in Bijection(1 .. n, S)
  <2>1. n \in Nat /\ ExistsBijection(1 .. n, S)
    BY FS_CardinalityType
  <2> QED
    BY <2>1 DEF ExistsBijection
<1>2. \E f \in [1 .. n -> S] : IsInjective(f)
  BY <1>1 DEF Bijection, Injection
<1>3. PICK g : g = SetToSeq(S)
  OBVIOUS
<1>4. g \in [1 .. n -> S] /\ IsInjective(g)
  BY <1>2, <1>3 DEF SetToSeq
<1>5. g \in Surjection(1 .. n, S)
  <2>1. IsFiniteSet(1 .. n) /\ Cardinality(1 .. n) = n
    <3>1. /\ 1 \in Int /\ n \in Int
          /\ IsFiniteSet(1 .. n) /\ Cardinality(1 .. n) = IF 1 > n THEN 0 ELSE n - 1 + 1
      BY <1>1, FS_Interval
    <3> QED
      BY <1>1, <3>1
  <2>2. g \in Injection(1 .. n, S)
    BY <1>4 DEF Injection
  <2>3. Cardinality(S) = Cardinality(1 .. n) <=> g \in Surjection(1 .. n, S)
    BY <2>1, <2>2, FS_Injection
  <2> QED
    BY <2>1, <2>3
<1>6. \A c \in S : \E i \in 1 .. n : g[i] = c
  BY <1>5 DEF Surjection
<1>7. g \in Seq(S) /\ Len(g) = n /\ DOMAIN g = 1 .. n
  BY <1>1, <1>4
<1> QED
  BY <1>1, <1>3, <1>6, <1>7

(* Tasks that are put at the end in a row.                                 *)
LEMMA PutTasks ==
  ASSUME NEW q \in Seq(ServerTasks), NEW p \in Seq(ServerTasks), EstablishedFirst(q),
         \A k \in Elem(p) : k.op # "connectEstablished"
  PROVE  /\ q \o p \in Seq(ServerTasks) /\ Len(q) <= Len(q \o p)
         /\ Elem(q \o p) = Elem(q) \cup Elem(p) /\ EstablishedFirst(q \o p)
<1>1. /\ q \o p \in Seq(ServerTasks) /\ Len(q \o p) = Len(q) + Len(p)
      /\ \A i \in 1 .. Len(q) + Len(p) :
            (q \o p)[i] = IF i <= Len(q) THEN q[i] ELSE p[i - Len(q)]
      /\ Len(q) \in Nat /\ Len(p) \in Nat
  BY ConcatProperties
<1>2. PICK s : s = q \o p
  OBVIOUS
<1>3. \A i \in 1 .. Len(q) : i \in 1 .. Len(s) /\ s[i] = q[i]
  BY <1>1, <1>2
<1>4. ASSUME NEW i \in 1 .. Len(p)
      PROVE  i + Len(q) \in 1 .. Len(s) /\ s[i + Len(q)] = p[i]
  <2>1. i + Len(q) \in 1 .. Len(q) + Len(p) /\ ~(i + Len(q) <= Len(q))
        /\ (i + Len(q)) - Len(q) = i
    BY <1>1
  <2> QED
    BY <1>1, <1>2, <2>1
<1>5. ASSUME NEW i \in 1 .. Len(s), i \notin 1 .. Len(q)
      PROVE  i - Len(q) \in 1 .. Len(p) /\ s[i] = p[i - Len(q)] /\ i > Len(q)
  BY <1>1, <1>2, <1>5
<1>6. Elem(s) = Elem(q) \cup Elem(p)
  <2>1. Elem(q) \subseteq Elem(s)
    BY <1>3 DEF Elem
  <2>2. Elem(p) \subseteq Elem(s)
    BY <1>4 DEF Elem
  <2>3. Elem(s) \subseteq Elem(q) \cup Elem(p)
    BY <1>3, <1>5 DEF Elem
  <2> QED
    BY <2>1, <2>2, <2>3
<1>7. ASSUME NEW i \in 1 .. Len(s), NEW j \in 1 .. Len(s),
             s[i].op = "connectEstablished", s[j].conn = s[i].conn
      PROVE  i <= j
  <2>1. i \in 1 .. Len(q)
    BY <1>5, <1>7 DEF Elem
  <2>2. CASE j \in 1 .. Len(q)
    BY <1>3, <1>7, <2>1, <2>2 DEF EstablishedFirst
  <2>3. CASE j \notin 1 .. Len(q)
    BY <1>1, <1>5, <2>1, <2>3
  <2> QED
    BY <2>2, <2>3
<1> QED
  BY <1>1, <1>2, <1>6, <1>7 DEF EstablishedFirst

(* connectDestroyed for every connection of a set.                         *)
LEMMA TasksFor ==
  ASSUME NEW S \in SUBSET Clients, NEW p,
         p = [i \in DOMAIN SetToSeq(S) |-> ServerTask("connectDestroyed", SetToSeq(S)[i])]
  PROVE  /\ p \in Seq(ServerTasks)
         /\ \A k \in Elem(p) : k.op = "connectDestroyed" /\ k.conn \in S
         /\ \A c \in S : ServerTask("connectDestroyed", c) \in Elem(p)
<1>1. IsFiniteSet(S)
  <2>1. IsFiniteSet(Clients)
    BY FS_Interval, ServerAssumption DEF Clients
  <2> QED
    BY <2>1, FS_Subset
<1>2. PICK n \in Nat : n = Cardinality(S)
  BY <1>1, SetInOrder
<1>3. PICK g \in Seq(S) : g = SetToSeq(S)
  BY <1>1, SetInOrder
<1>4. /\ Len(g) = n /\ DOMAIN g = 1 .. n
      /\ \A c \in S : \E i \in 1 .. n : g[i] = c
  BY <1>1, <1>2, <1>3, SetInOrder
<1>5. \A i \in 1 .. n : g[i] \in S
  BY <1>4
<1>6. p = [i \in 1 .. n |-> ServerTask("connectDestroyed", g[i])]
  BY <1>3, <1>4
<1>7. \A c \in S : /\ ServerTask("connectDestroyed", c) \in ServerTasks
                   /\ ServerTask("connectDestroyed", c).op = "connectDestroyed"
                   /\ ServerTask("connectDestroyed", c).conn = c
  BY TaskOf DEF TaskOps
<1>8. p \in [1 .. n -> ServerTasks]
  BY <1>5, <1>6, <1>7
<1>9. p \in Seq(ServerTasks) /\ Len(p) = n
  BY <1>8
<1>10. \A i \in 1 .. n : p[i] = ServerTask("connectDestroyed", g[i])
  BY <1>6
<1>11. ASSUME NEW i \in 1 .. n
       PROVE  p[i].op = "connectDestroyed" /\ p[i].conn \in S
  <2>1. PICK c \in S : c = g[i]
    BY <1>5
  <2>2. p[i] = ServerTask("connectDestroyed", c)
    BY <1>10, <2>1
  <2> QED
    BY <1>7, <2>2
<1>12. \A k \in Elem(p) : k.op = "connectDestroyed" /\ k.conn \in S
  BY <1>9, <1>11 DEF Elem
<1>13. ASSUME NEW c \in S
       PROVE  ServerTask("connectDestroyed", c) \in Elem(p)
  <2>1. PICK i \in 1 .. n : g[i] = c
    BY <1>4
  <2>2. p[i] = ServerTask("connectDestroyed", c)
    BY <1>10, <2>1
  <2>3. i \in 1 .. Len(p)
    BY <1>9, <2>1
  <2>4. p[i] \in Elem(p)
    BY <2>3 DEF Elem
  <2> QED
    BY <2>2, <2>4
<1> QED
  BY <1>9, <1>12, <1>13

(* ~TcpServer: what it does to the queues.                                 *)
LEMMA DestroyQueues ==
  ASSUME ServerInv, DestroyServer
  PROVE  /\ waiting' \in [Loops -> Seq(ServerTasks)]
         /\ \A l \in Loops :
              /\ Elem(waiting[l]) \subseteq Elem(waiting'[l])
              /\ Len(waiting[l]) <= Len(waiting'[l])
              /\ EstablishedFirst(waiting'[l])
              /\ \A k \in Elem(waiting'[l]) :
                    \/ k \in Elem(waiting[l])
                    \/ k.op = "connectDestroyed" /\ k.conn \in _connections
                       /\ conn[k.conn].loop = l
              /\ \A c \in _connections : l # Main /\ conn[c].loop = l =>
                    ServerTask("connectDestroyed", c) \in Elem(waiting'[l])
<1>1. waiting \in [Loops -> Seq(ServerTasks)] /\ _connections \subseteq Clients
  BY DEF ServerInv, ServerTypes
<1>2. ASSUME NEW l \in Loops
      PROVE  /\ waiting'[l] \in Seq(ServerTasks)
             /\ Elem(waiting[l]) \subseteq Elem(waiting'[l])
             /\ Len(waiting[l]) <= Len(waiting'[l])
             /\ EstablishedFirst(waiting'[l])
             /\ \A k \in Elem(waiting'[l]) :
                   \/ k \in Elem(waiting[l])
                   \/ k.op = "connectDestroyed" /\ k.conn \in _connections
                      /\ conn[k.conn].loop = l
             /\ \A c \in _connections : l # Main /\ conn[c].loop = l =>
                   ServerTask("connectDestroyed", c) \in Elem(waiting'[l])
  <2>1. /\ waiting[l] \in Seq(ServerTasks) /\ EstablishedFirst(waiting[l])
        /\ Len(waiting[l]) \in Nat
    <3>1. waiting[l] \in Seq(ServerTasks)
      BY <1>1
    <3> QED
      BY <3>1, QueuePlaces DEF ServerInv, QueueInv
  <2>2. CASE l = Main
    <3>1. waiting'[l] = waiting[l]
      BY <2>2 DEF DestroyServer
    <3> QED
      BY <2>1, <2>2, <3>1
  <2>3. CASE l # Main
    <3>1. PICK S : S = {c \in _connections : conn[c].loop = l}
      OBVIOUS
    <3>2. PICK p : p = [i \in DOMAIN SetToSeq(S) |->
                          ServerTask("connectDestroyed", SetToSeq(S)[i])]
      OBVIOUS
    <3>3. S \in SUBSET Clients
      BY <1>1, <3>1
    <3>4. /\ p \in Seq(ServerTasks)
          /\ \A k \in Elem(p) : k.op = "connectDestroyed" /\ k.conn \in S
          /\ \A c \in S : ServerTask("connectDestroyed", c) \in Elem(p)
      BY <3>2, <3>3, TasksFor
    <3>5. waiting'[l] = waiting[l] \o p
      BY <2>3, <3>1, <3>2 DEF DestroyServer
    <3>6. \A k \in Elem(p) : k.op # "connectEstablished"
      BY <3>4
    <3>7. /\ waiting[l] \o p \in Seq(ServerTasks) /\ Len(waiting[l]) <= Len(waiting[l] \o p)
          /\ Elem(waiting[l] \o p) = Elem(waiting[l]) \cup Elem(p)
          /\ EstablishedFirst(waiting[l] \o p)
      BY <2>1, <3>4, <3>6, PutTasks
    <3> QED
      BY <3>1, <3>4, <3>5, <3>7
  <2> QED
    BY <2>2, <2>3
<1>3. waiting' \in [Loops -> Seq(ServerTasks)]
  <2>1. waiting' = [l \in Loops |-> waiting'[l]]
    BY DEF DestroyServer
  <2>2. \A l \in Loops : waiting'[l] \in Seq(ServerTasks)
    BY <1>2
  <2> QED
    BY <2>1, <2>2
<1> QED
  BY <1>2, <1>3

(* ~TcpServer.                                                             *)
LEMMA DestroyServerKeeps ==
  ASSUME ServerInv, DestroyServer
  PROVE  ServerInv'
<1>1. /\ loopAt[Main] = "over" /\ _connections' = {}
      /\ UNCHANGED <<threadNum, backlog, client, refusing, nextLoop, todo, loopAt>>
  BY DEF DestroyServer, kernelVars, fdVars, loopVars
<1>2. PICK here \in SUBSET Clients : here = {c \in _connections : conn[c].loop = Main}
  BY DEF ServerInv, ServerTypes
<1>3. ConnectDestroyed(here)
  BY <1>2 DEF DestroyServer
<1>4. /\ conn' \in [Clients -> ConnSet]
      /\ told' \in [Clients -> {<<>>, <<"UP">>, <<"UP", "DOWN">>}]
      /\ \A c \in Clients \ here : conn'[c] = conn[c] /\ told'[c] = told[c]
      /\ \A c \in here :
            /\ conn[c].state = "kConnected" => conn'[c].state = "kDisconnected"
            /\ conn[c].state # "kConnected" => conn'[c].state = conn[c].state
            /\ conn'[c].loop = conn[c].loop /\ ~conn'[c].known
            /\ told'[c] = ToldAt(conn'[c].state)
  BY <1>3, DestroyShape
<1>5. /\ waiting' \in [Loops -> Seq(ServerTasks)]
      /\ \A l \in Loops :
           /\ Elem(waiting[l]) \subseteq Elem(waiting'[l])
           /\ Len(waiting[l]) <= Len(waiting'[l])
           /\ EstablishedFirst(waiting'[l])
           /\ \A k \in Elem(waiting'[l]) :
                 \/ k \in Elem(waiting[l])
                 \/ k.op = "connectDestroyed" /\ k.conn \in _connections
                    /\ conn[k.conn].loop = l
           /\ \A c \in _connections : l # Main /\ conn[c].loop = l =>
                 ServerTask("connectDestroyed", c) \in Elem(waiting'[l])
  BY DestroyQueues
<1>6. \A d \in Clients : /\ conn'[d].state = "none" <=> conn[d].state = "none"
                         /\ conn'[d].loop = conn[d].loop
                         /\ conn[d].state # "kConnected" => conn'[d].state = conn[d].state
  BY <1>4
<1>7. BacklogInv'
  <2>1. refusing # "no" => loopAt'[Main] = "poll"
    BY <1>1 DEF ServerInv, BacklogInv
  <2> QED
    BY <1>1, <1>6, <2>1, BacklogKept DEF ServerInv
<1>8. TurnInv'
  BY <1>1, <1>6, TurnKept DEF ServerInv
<1>9. ServerTypes'
  BY <1>1, <1>4, <1>5 DEF ServerInv, ServerTypes, ConnSet
<1>10. QueueInv'
  <2> SUFFICES ASSUME NEW l \in Loops
               PROVE  /\ \A t \in Elem(waiting'[l]) : TaskFits(l, t)'
                      /\ EstablishedFirst(waiting'[l])
                      /\ loopAt'[l] = "tasks" => todo'[l] <= Len(waiting'[l])
    BY DEF QueueInv
  <2>1. /\ waiting[l] \in Seq(ServerTasks) /\ waiting'[l] \in Seq(ServerTasks)
        /\ todo[l] \in Nat
    BY <1>5 DEF ServerInv, ServerTypes
  <2>2. /\ Len(waiting[l]) \in Nat /\ Len(waiting'[l]) \in Nat
        /\ Elem(waiting[l]) \subseteq ServerTasks /\ Elem(waiting'[l]) \subseteq ServerTasks
    BY <2>1, QueuePlaces
  <2>3. ASSUME NEW t \in Elem(waiting'[l])
        PROVE  TaskFits(l, t)'
    <3>1. t.conn \in Clients /\ t \in ServerTasks
      BY <2>2 DEF ServerTasks
    <3>2. CASE t \in Elem(waiting[l])
      <4>1. TaskFits(l, t)
        BY <3>2 DEF ServerInv, QueueInv
      <4>2. t.conn \notin _connections'
        BY <1>1
      <4> QED
        BY <1>6, <3>1, <4>1, <4>2 DEF TaskFits
    <3>3. CASE t.op = "connectDestroyed" /\ t.conn \in _connections /\ conn[t.conn].loop = l
      <4>1. ConnInv(t.conn) /\ t.conn \notin _connections'
        BY <1>1, <3>1 DEF ServerInv, ConnsInv
      <4>2. conn[t.conn].state # "none"
        BY <3>3, <4>1 DEF ConnInv
      <4> QED
        BY <1>6, <3>1, <3>3, <4>1, <4>2 DEF TaskFits
    <3> QED
      BY <1>5, <3>2, <3>3
  <2>4. loopAt'[l] = "tasks" => todo'[l] <= Len(waiting'[l])
    <3>1. loopAt[l] = "tasks" => todo[l] <= Len(waiting[l])
      BY DEF ServerInv, QueueInv
    <3>2. Len(waiting[l]) <= Len(waiting'[l])
      BY <1>5
    <3> QED
      BY <1>1, <2>1, <2>2, <3>1, <3>2
  <2> QED
    BY <1>5, <2>3, <2>4
<1>11. ConnsInv'
  <2> SUFFICES ASSUME NEW c \in Clients
               PROVE  ConnInv(c)'
    BY DEF ConnsInv
  <2>1. ConnInv(c) /\ conn[c].loop \in Loops
    BY DEF ServerInv, ConnsInv, ServerTypes
  <2>2. c \notin _connections'
    BY <1>1
  <2>3. CASE conn[c].loop = Main
    <3>1. loopAt'[conn'[c].loop] = "over"
      BY <1>1, <1>6, <2>3
    <3>2. CASE c \in here
      <4>1. conn'[c].state # "kConnected" /\ told'[c] = ToldAt(conn'[c].state) /\ ~conn'[c].known
        BY <1>4, <3>2
      <4> QED
        BY <2>2, <3>1, <4>1 DEF ConnInv
    <3>3. CASE c \notin here
      <4>1. conn'[c] = conn[c] /\ told'[c] = told[c]
        BY <1>4, <3>3
      <4> QED
        BY <2>1, <2>2, <3>1, <4>1 DEF ConnInv
    <3> QED
      BY <3>2, <3>3
  <2>4. CASE conn[c].loop # Main
    <3>1. conn'[c] = conn[c] /\ told'[c] = told[c] /\ loopAt' = loopAt
      BY <1>1, <1>2, <1>4, <2>4
    <3>2. PICK l \in Loops : l = conn[c].loop
      BY <2>1
    <3>3. Elem(waiting[l]) \subseteq Elem(waiting'[l])
      BY <1>5
    <3>4. c \in _connections => ServerTask("connectDestroyed", c) \in Elem(waiting'[l])
      BY <1>5, <2>4, <3>2
    <3>5. ASSUME loopAt[l] # "over", conn[c].state # "none"
          PROVE  Destroying(c)'
      <4>1. CASE c \in _connections
        BY <3>1, <3>2, <3>4, <4>1 DEF Destroying
      <4>2. CASE c \notin _connections
        <5>1. Destroying(c)
          BY <2>1, <3>2, <3>5, <4>2 DEF ConnInv
        <5> QED
          BY <3>1, <3>2, <3>3, <5>1 DEF Destroying
      <4> QED
        BY <4>1, <4>2
    <3>6. conn[c].state = "kConnecting" /\ loopAt[l] # "over" =>
            ServerTask("connectEstablished", c) \in Elem(waiting'[l])
      BY <2>1, <3>2, <3>3 DEF ConnInv
    <3> QED
      BY <2>1, <2>2, <3>1, <3>2, <3>5, <3>6 DEF ConnInv
  <2> QED
    BY <2>3, <2>4
<1> QED
  BY <1>7, <1>8, <1>9, <1>10, <1>11 DEF ServerInv

-----------------------------------------------------------------------------
(* The theorem.                                                            *)

(* Every step of the server keeps its invariant.                           *)
LEMMA ServerKeeps ==
  ASSUME ServerInv, [ServerNext]_serverVars
  PROVE  ServerInv'
<1>1. threadNum \in ThreadNums /\ \A l \in 0 .. threadNum : l \in Loops
  BY LoopNumbers DEF ServerInv, ServerTypes
<1>2. CASE Start
  BY <1>2, AsideKeeps DEF Start, kernelVars, fdVars, loopVars
<1>3. CASE handleNewConnection
  BY <1>3, AcceptKeeps
<1>4. CASE TooManyFiles \/ RefuseClient \/ ReopenSpare
  BY <1>4, RefusingKeeps
<1>5. ASSUME NEW c \in Clients, ClientConnects(c) \/ ClientCloses(c)
      PROVE  ServerInv'
  BY <1>5, ClientsKeep
<1>6. ASSUME NEW c \in Clients, handleClose(c)
      PROVE  ServerInv'
  BY <1>6, CloseKeeps
<1>7. CASE FileOpens \/ FileCloses
  BY <1>7, AsideKeeps DEF FileOpens, FileCloses, kernelVars, fdVars, loopVars
<1>8. ASSUME NEW l \in 0 .. threadNum, TakeTasks(l) \/ EndIteration(l)
      PROVE  ServerInv'
  BY <1>8, TurnsKeep
<1>9. ASSUME NEW l \in Loops, RunServerTask(l)
      PROVE  ServerInv'
  BY <1>9, RunKeeps
<1>10. ASSUME NEW l \in Loops, QuitThread(l)
       PROVE  ServerInv'
  BY <1>10, AsideKeeps DEF QuitThread, kernelVars, fdVars
<1>11. CASE QuitMain
  BY <1>11, AsideKeeps DEF QuitMain, kernelVars, fdVars
<1>12. CASE DestroyServer
  BY <1>12, DestroyServerKeeps
<1>13. CASE DestroyAcceptor
  BY <1>13, AsideKeeps DEF DestroyAcceptor, kernelVars, loopVars
<1>14. CASE UNCHANGED serverVars
  BY <1>14, AsideKeeps DEF serverVars, kernelVars, fdVars, loopVars
<1> QED
  BY <1>1, <1>2, <1>3, <1>4, <1>5, <1>6, <1>7, <1>8, <1>9, <1>10, <1>11, <1>12, <1>13,
     <1>14 DEF ServerNext, Accepts, LoopTurns

(* What the invariant says of a single connection.                         *)
LEMMA ConnInOrder ==
  ASSUME ServerInv, NEW c \in Clients, loopAt[conn[c].loop] # "over"
  PROVE  /\ conn[c].known => Held(c)
         /\ Freed(c) => conn[c].state = "kDisconnected" /\ told[c] = <<"UP", "DOWN">>
<1>1. /\ ConnInv(c) /\ conn[c].loop \in Loops /\ conn[c].state \in ConnStates
      /\ conn[c].known \in BOOLEAN
  BY DEF ServerInv, ConnsInv, ServerTypes
<1>2. PICK l \in Loops : l = conn[c].loop
  BY <1>1
<1>3. waiting[l] \in Seq(ServerTasks)
  BY DEF ServerInv, ServerTypes
<1>4. ASSUME NEW op \in TaskOps, ServerTask(op, c) \in Elem(waiting[l])
      PROVE  Held(c)
  <2>1. PICK i \in 1 .. Len(waiting[l]) : waiting[l][i] = ServerTask(op, c)
    BY <1>4 DEF Elem
  <2>2. i \in DOMAIN waiting[l]
    BY <1>3, <2>1
  <2>3. waiting[l][i].conn = c
    BY <2>1 DEF ServerTask
  <2> QED
    BY <2>2, <2>3 DEF Held
<1>5. "connectEstablished" \in TaskOps /\ "connectDestroyed" \in TaskOps
  BY DEF TaskOps
<1>6. ASSUME ~Held(c), conn[c].state # "none"
      PROVE  conn[c].state = "kDisconnected" /\ ~conn[c].known
  <2>1. c \notin _connections
    BY <1>6 DEF Held
  <2>2. Destroying(c)
    BY <1>1, <1>6, <2>1 DEF ConnInv
  <2>3. ServerTask("connectDestroyed", c) \notin Elem(waiting[conn[c].loop])
    BY <1>2, <1>4, <1>5, <1>6
  <2> QED
    BY <2>2, <2>3 DEF Destroying
<1>7. conn[c].known => conn[c].state # "none"
  BY <1>1 DEF ConnInv
<1>8. conn[c].state = "kDisconnected" => told[c] = <<"UP", "DOWN">>
  BY <1>1, ToldNext DEF ConnInv
<1> QED
  BY <1>6, <1>7, <1>8 DEF Freed

(* The connection callbacks of every client are UP and then DOWN, a known  *)
(* channel of a running loop belongs to a connection that is held, a freed *)
(* connection is disconnected and its user knows (the assertion of         *)
(* ~TcpConnection), and the loops share the connections evenly: for every  *)
(* number of clients, threads, descriptors and files (TcpServer.cpp,       *)
(* EventLoopThreadPool.cpp, Acceptor.cpp).                                 *)
THEOREM ServerAlwaysInOrder == ServerSpec => []ServerInOrder
<1>1. ServerInit => ServerInv
  BY ServerStarts
<1>2. ServerInv /\ [ServerNext]_serverVars => ServerInv'
  BY ServerKeeps
<1>3. ServerInv => ServerInOrder
  <2> SUFFICES ASSUME ServerInv
               PROVE  ServerInOrder
    OBVIOUS
  <2>1. ASSUME NEW c \in Clients
        PROVE  told[c] \in {<<>>, <<"UP">>, <<"UP", "DOWN">>}
    BY DEF ServerInv, ServerTypes
  <2>2. ASSUME NEW l \in 1 .. threadNum, NEW k \in 1 .. threadNum
        PROVE  Cardinality(On(l)) <= Cardinality(On(k)) + 1
    <3>1. PICK q \in Nat : \A m \in 1 .. threadNum :
            Cardinality(On(m)) = IF m <= nextLoop THEN q + 1 ELSE q
      BY DEF ServerInv, TurnInv
    <3> QED
      BY <3>1
  <2> QED
    BY <2>1, <2>2, ConnInOrder DEF ServerInOrder, On
<1> QED
  BY <1>1, <1>2, <1>3, PTL DEF ServerSpec

=============================================================================
