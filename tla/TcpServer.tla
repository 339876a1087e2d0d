----------------------------- MODULE TcpServer -----------------------------
(***************************************************************************)
(* The server as a whole: the Acceptor with its spare descriptor, the      *)
(* round robin of the EventLoopThreadPool, the map of connections and the  *)
(* way a connection comes and goes between the main loop and its I/O loop  *)
(* (web/net/tcp: Acceptor, TcpServer, EventLoopThreadPool).                *)
(*                                                                         *)
(* What a connection does in between is in TcpConnection.  An iteration of *)
(* a loop handles events, takes the tasks that wait, runs them and looks   *)
(* at _quit; a connection lives as long as the map or a task holds it.     *)
(***************************************************************************)
EXTENDS Naturals, Sequences, FiniteSets, SequencesExt

CONSTANTS
    MaxClients,     \* bound: clients, numbered as they connect
    ThreadNums,     \* the arguments of setThreadNum to look at
    MaxFds,         \* descriptors the process may have for what follows
    MaxOpens        \* bound: files opened beside (sendFile, the log)

ASSUME ServerAssumption ==
    /\ MaxClients \in Nat /\ MaxFds \in Nat \ {0} /\ MaxOpens \in Nat
    /\ ThreadNums \subseteq Nat /\ \E m \in ThreadNums : \A n \in ThreadNums : m >= n

Clients == 1 .. MaxClients
Main == 0           \* the main loop; the I/O loops are numbered from 1
Loops == 0 .. Max(ThreadNums)

VARIABLES
    threadNum,      \* _numThreads
    listening,      \* _listening
    backlog,        \* clients the kernel holds for accept
    client,         \* client[c]: "away", "here", "closed" or "refused"
    idleFd,         \* the spare descriptor is open
    refusing,       \* where handleNewConnection is with it
    openFiles,      \* files open beside the connections
    opens,          \* how many were opened so far
    conn,           \* conn[c]: the TcpConnection of c
    nextLoop,       \* EventLoopThreadPool::_next
    _connections,   \* TcpServer::_connections
    waiting,        \* waiting[l]: the tasks queued in loop l
    todo,           \* todo[l]: how many of them the current iteration took
    loopAt,         \* loopAt[l]: "poll", "accepted", "tasks" or "over"
    quitting,       \* quitting[l]: _quit of loop l
    destroyed,      \* ~TcpServer ran
    told            \* told[c]: the connection callbacks made (history)

kernelVars == <<backlog, client>>
fdVars == <<idleFd, refusing, openFiles, opens>>
loopVars == <<todo, loopAt, quitting>>
serverVars == <<threadNum, listening, kernelVars, fdVars, conn, nextLoop,
                _connections, waiting, loopVars, destroyed, told>>

NoConn == [state |-> "none", loop |-> Main, known |-> FALSE]

\* A TcpConnection that was made for loop l
NewConn(l) == [state |-> "kConnecting", loop |-> l, known |-> FALSE]

\* The Acceptor, which opens its spare descriptor and does not listen yet
AcceptorInit ==
    /\ listening = FALSE
    /\ idleFd = TRUE /\ refusing = "no"

\* The loops.  The threads are there once start() was called, until then
\* nothing is queued in their loops.
LoopsInit ==
    /\ threadNum \in ThreadNums
    /\ nextLoop = 0
    /\ waiting = [l \in Loops |-> <<>>] /\ todo = [l \in Loops |-> 0]
    /\ loopAt = [l \in Loops |-> "poll"] /\ quitting = [l \in Loops |-> FALSE]

ServerInit ==
    /\ AcceptorInit /\ LoopsInit
    /\ backlog = <<>> /\ client = [c \in Clients |-> "away"]
    /\ openFiles = 0 /\ opens = 0
    /\ conn = [c \in Clients |-> NoConn]
    /\ _connections = {}
    /\ destroyed = FALSE
    /\ told = [c \in Clients |-> <<>>]

\* The map or a task holds the TcpConnection of c.
Held(c) ==
    \/ c \in _connections
    \/ \E l \in Loops : \E i \in DOMAIN waiting[l] : waiting[l][i].conn = c

\* The last holder let go: ~TcpConnection closed the socket.
Freed(c) == conn[c].state # "none" /\ ~Held(c)

FreeFds ==
    MaxFds - openFiles - (IF idleFd THEN 1 ELSE 0)
           - Cardinality({c \in Clients : conn[c].state # "none" /\ Held(c)})

ServerTask(op, c) == [op |-> op, conn |-> c]

-----------------------------------------------------------------------------
(* TcpConnection, as far as the server sees it.                            *)

connectEstablished(c) ==
    /\ conn' = [conn EXCEPT ![c].state = "kConnected", ![c].known = TRUE]
    /\ told' = [told EXCEPT ![c] = Append(@, "UP")]

\* connectDestroyed, for the connections in cs
ConnectDestroyed(cs) ==
    LET open == {c \in cs : conn[c].state = "kConnected"}
    IN  /\ conn' = [c \in Clients |->
                      IF c \notin cs THEN conn[c]
                      ELSE [conn[c] EXCEPT !.known = FALSE,
                              !.state = IF c \in open THEN "kDisconnected" ELSE @]]
        /\ told' = [c \in Clients |->
                      IF c \in open THEN Append(told[c], "DOWN") ELSE told[c]]

-----------------------------------------------------------------------------
(* The clients and the rest of the process.                                *)

ClientConnects(c) ==
    /\ listening /\ client[c] = "away"
    /\ \A d \in 1 .. c - 1 : client[d] # "away"
    /\ client' = [client EXCEPT ![c] = "here"]
    /\ backlog' = Append(backlog, c)
    /\ UNCHANGED <<threadNum, listening, fdVars, conn, nextLoop, _connections,
                   waiting, loopVars, destroyed, told>>

ClientCloses(c) ==
    /\ client[c] = "here"
    /\ client' = [client EXCEPT ![c] = "closed"]
    /\ UNCHANGED <<threadNum, listening, backlog, fdVars, conn, nextLoop,
                   _connections, waiting, loopVars, destroyed, told>>

FileOpens ==
    /\ opens < MaxOpens /\ FreeFds > 0
    /\ openFiles' = openFiles + 1 /\ opens' = opens + 1
    /\ UNCHANGED <<threadNum, listening, kernelVars, idleFd, refusing, conn,
                   nextLoop, _connections, waiting, loopVars, destroyed, told>>

FileCloses ==
    /\ openFiles > 0
    /\ openFiles' = openFiles - 1
    /\ UNCHANGED <<threadNum, listening, kernelVars, idleFd, refusing, opens,
                   conn, nextLoop, _connections, waiting, loopVars, destroyed, told>>

-----------------------------------------------------------------------------
(* The main loop: start, and the handler of the listening socket.          *)

\* start(), called on the main loop's thread: the threads, then listen()
Start ==
    /\ ~listening /\ loopAt[Main] # "over"
    /\ listening' = TRUE
    /\ UNCHANGED <<threadNum, kernelVars, fdVars, conn, nextLoop, _connections,
                   waiting, loopVars, destroyed, told>>

\* Loop l handles the events of a report, the listening socket once at most.
Polling(l) == loopAt[l] \in {"poll", "accepted"} /\ (l = Main => refusing = "no")
CanAccept == loopAt[Main] = "poll" /\ refusing = "no" /\ listening /\ backlog # <<>>

\* sockops::accept gives a descriptor or fails with EMFILE.
AcceptFails == FreeFds <= 0
Accepted == loopAt' = [loopAt EXCEPT ![Main] = "accepted"]

\* getNextLoop: the loop, and _next after it
getNextLoop == IF threadNum = 0 THEN Main ELSE nextLoop + 1
NextAfter == IF nextLoop + 1 >= threadNum THEN 0 ELSE nextLoop + 1

\* newConnection for c: runInLoop runs connectEstablished at once when the
\* loop is the main loop, and queues it otherwise.
newConnection(c) ==
    LET loop == getNextLoop
        new == [conn EXCEPT ![c] = NewConn(loop)]
    IN  /\ nextLoop' = NextAfter
        /\ _connections' = _connections \cup {c}
        /\ IF loop = Main
           THEN /\ conn' = [new EXCEPT ![c].state = "kConnected", ![c].known = TRUE]
                /\ told' = [told EXCEPT ![c] = Append(@, "UP")]
                /\ UNCHANGED waiting
           ELSE /\ conn' = new
                /\ waiting' = [waiting EXCEPT ![loop] =
                                  Append(@, ServerTask("connectEstablished", c))]
                /\ UNCHANGED told

handleNewConnection ==
    /\ CanAccept
    /\ ~AcceptFails
    /\ newConnection(Head(backlog))
    /\ backlog' = Tail(backlog)
    /\ Accepted
    /\ UNCHANGED <<threadNum, listening, client, fdVars, todo, quitting, destroyed>>

\* Mutant of TooManyFiles: the spare descriptor stays open.
TooManyFilesKeepsSpare ==
    /\ CanAccept
    /\ AcceptFails
    /\ refusing' = "accept"
    /\ UNCHANGED <<threadNum, listening, kernelVars, idleFd, openFiles, opens, conn,
                   nextLoop, _connections, waiting, loopVars, destroyed, told>>

\* handleNewConnection: accept fails with EMFILE, and the spare is closed, ...
TooManyFiles ==
    /\ CanAccept
    /\ AcceptFails
    /\ idleFd' = FALSE
    /\ refusing' = "accept"
    /\ UNCHANGED <<threadNum, listening, kernelVars, openFiles, opens, conn,
                   nextLoop, _connections, waiting, loopVars, destroyed, told>>

\* ... used to take the client and close it, unless another thread was quicker, ...
RefuseClient ==
    /\ refusing = "accept"
    /\ IF FreeFds > 0
       THEN /\ backlog' = Tail(backlog)
            /\ client' = [client EXCEPT ![Head(backlog)] = "refused"]
       ELSE UNCHANGED kernelVars
    /\ refusing' = "reopen"
    /\ UNCHANGED <<threadNum, listening, idleFd, openFiles, opens, conn, nextLoop,
                   _connections, waiting, loopVars, destroyed, told>>

\* ... and opened again, if that works.
ReopenSpare ==
    /\ refusing = "reopen"
    /\ idleFd' = (idleFd \/ FreeFds > 0)
    /\ refusing' = "no"
    /\ Accepted
    /\ UNCHANGED <<threadNum, listening, kernelVars, openFiles, opens, conn, nextLoop,
                   _connections, waiting, todo, quitting, destroyed, told>>

-----------------------------------------------------------------------------
(* The end of a connection.                                                *)

\* Mutant of removeConnectionInLoop: the connection is erased, and nobody
\* takes its channel out of the loop.
removeConnectionInLoopOnly(c, queues) ==
    /\ _connections' = _connections \ {c}
    /\ waiting' = queues

\* removeConnectionInLoop, with queues as what waits in the loops
removeConnectionInLoop(c, queues) ==
    /\ _connections' = _connections \ {c}
    /\ waiting' = [queues EXCEPT ![conn[c].loop] =
                      Append(@, ServerTask("connectDestroyed", c))]

\* handleClose on the loop of c, whose client closed, with the close callback
\* removeConnection, which hands removeConnectionInLoop to the main loop or,
\* on that loop, calls it.
handleClose(c) ==
    /\ Polling(conn[c].loop)
    /\ client[c] = "closed" /\ conn[c].state = "kConnected" /\ conn[c].known
    /\ conn' = [conn EXCEPT ![c].state = "kDisconnected"]
    /\ told' = [told EXCEPT ![c] = Append(@, "DOWN")]
    /\ IF conn[c].loop = Main
       THEN removeConnectionInLoop(c, waiting)
       ELSE /\ waiting' = [waiting EXCEPT ![Main] =
                              Append(@, ServerTask("removeConnectionInLoop", c))]
            /\ UNCHANGED _connections
    /\ UNCHANGED <<threadNum, listening, kernelVars, fdVars, nextLoop, loopVars,
                   destroyed>>

-----------------------------------------------------------------------------
(* The loops.                                                              *)

\* The events are handled; doPendingTask takes what waits.
TakeTasks(l) ==
    /\ Polling(l)
    /\ waiting[l] # <<>> \/ quitting[l] \/ loopAt[l] = "accepted"
    /\ loopAt' = [loopAt EXCEPT ![l] = "tasks"]
    /\ todo' = [todo EXCEPT ![l] = Len(waiting[l])]
    /\ UNCHANGED <<threadNum, listening, kernelVars, fdVars, conn, nextLoop,
                   _connections, waiting, quitting, destroyed, told>>

RunServerTask(l) ==
    LET task == Head(waiting[l])
        rest == [waiting EXCEPT ![l] = Tail(@)]
    IN  /\ loopAt[l] = "tasks" /\ todo[l] > 0
        /\ todo' = [todo EXCEPT ![l] = @ - 1]
        /\ CASE task.op = "connectEstablished" ->
                  /\ connectEstablished(task.conn)
                  /\ waiting' = rest /\ UNCHANGED _connections
             [] task.op = "removeConnectionInLoop" ->
                  /\ removeConnectionInLoop(task.conn, rest)
                  /\ UNCHANGED <<conn, told>>
             [] task.op = "connectDestroyed" ->
                  /\ ConnectDestroyed({task.conn})
                  /\ waiting' = rest /\ UNCHANGED _connections
        /\ UNCHANGED <<threadNum, listening, kernelVars, fdVars, nextLoop,
                       loopAt, quitting, destroyed>>

\* The tasks are run; _quit decides.  A thread that leaves its loop destroys
\* it, and with it the tasks that came since.
EndIteration(l) ==
    /\ loopAt[l] = "tasks" /\ todo[l] = 0
    /\ loopAt' = [loopAt EXCEPT ![l] = IF quitting[l] THEN "over" ELSE "poll"]
    /\ waiting' = IF quitting[l] /\ l # Main THEN [waiting EXCEPT ![l] = <<>>] ELSE waiting
    /\ UNCHANGED <<threadNum, listening, kernelVars, fdVars, conn, nextLoop,
                   _connections, todo, quitting, destroyed, told>>

\* The program ends its main loop, ...
QuitMain ==
    /\ ~quitting[Main]
    /\ quitting' = [quitting EXCEPT ![Main] = TRUE]
    /\ UNCHANGED <<threadNum, listening, kernelVars, fdVars, conn, nextLoop,
                   _connections, waiting, todo, loopAt, destroyed, told>>

\* ... then the server: ~TcpServer has every connection destroyed on its loop, ...
DestroyServer ==
    LET Here(l) == {c \in _connections : conn[c].loop = l}
        Tasks(l) == LET cs == SetToSeq(Here(l))
                    IN  [i \in DOMAIN cs |-> ServerTask("connectDestroyed", cs[i])]
    IN  /\ loopAt[Main] = "over" /\ ~destroyed
        /\ destroyed' = TRUE
        /\ ConnectDestroyed(Here(Main))
        /\ waiting' = [l \in Loops |-> IF l = Main THEN waiting[l]
                                       ELSE waiting[l] \o Tasks(l)]
        /\ _connections' = {}
        /\ UNCHANGED <<threadNum, listening, kernelVars, fdVars, nextLoop, loopVars>>

\* ... its threads, which quit and are joined one after the other, ...
QuitThread(l) ==
    /\ destroyed /\ listening /\ l # Main /\ ~quitting[l]
    /\ \A k \in 1 .. l - 1 : loopAt[k] = "over"
    /\ quitting' = [quitting EXCEPT ![l] = TRUE]
    /\ UNCHANGED <<threadNum, listening, kernelVars, fdVars, conn, nextLoop,
                   _connections, waiting, todo, loopAt, destroyed, told>>

\* ... and at last the Acceptor: its channel leaves the loop and both descriptors
\* are closed.
DestroyAcceptor ==
    /\ destroyed /\ (listening \/ idleFd)
    /\ listening => \A l \in 1 .. threadNum : loopAt[l] = "over"
    /\ listening' = FALSE /\ idleFd' = FALSE
    /\ UNCHANGED <<threadNum, kernelVars, refusing, openFiles, opens, conn, nextLoop,
                   _connections, waiting, loopVars, destroyed, told>>

Accepts == handleNewConnection \/ TooManyFiles \/ RefuseClient \/ ReopenSpare
LoopTurns(l) == TakeTasks(l) \/ RunServerTask(l) \/ EndIteration(l)

ServerNext ==
    \/ Start \/ Accepts
    \/ \E c \in Clients : ClientConnects(c) \/ ClientCloses(c) \/ handleClose(c)
    \/ FileOpens \/ FileCloses
    \/ \E l \in 0 .. threadNum : LoopTurns(l) \/ QuitThread(l)
    \/ QuitMain \/ DestroyServer \/ DestroyAcceptor

ServerSpec == ServerInit /\ [][ServerNext]_serverVars

-----------------------------------------------------------------------------
\* The callbacks of a connection are UP, then DOWN, at most once each;
\* a channel a running loop knows belongs to a connection somebody holds;
\* a connection is freed when it is disconnected and its user knows (the
\* assertion of ~TcpConnection), unless its loop ended before; and the
\* connections are spread evenly over the loops.
ServerInOrder ==
    LET Share(l) == Cardinality({c \in Clients : conn[c].state # "none" /\ conn[c].loop = l})
    IN  \A c \in Clients :
          /\ told[c] \in {<<>>, <<"UP">>, <<"UP", "DOWN">>}
          /\ loopAt[conn[c].loop] # "over" =>
               /\ conn[c].known => Held(c)
               /\ Freed(c) => conn[c].state = "kDisconnected" /\ told[c] = <<"UP", "DOWN">>
          /\ \A l, k \in 1 .. threadNum : Share(l) <= Share(k) + 1

\* All descriptors are taken, the spare one too.
NoSpare == ~idleFd /\ FreeFds <= 0

\* While the main loop runs, every client is accepted or refused in the end,
\* also when the descriptors run out, unless other threads took the spare one;
\* and what a client closes is freed, however the loops take turns.
ServerServes ==
    \/ loopAt[Main] = "over"
    \/ /\ backlog = <<>> \/ NoSpare
       /\ \A c \in Clients : client[c] = "closed" /\ conn[c].state # "none" => Freed(c)

=============================================================================
