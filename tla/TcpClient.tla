------------------------------ MODULE TcpClient ------------------------------
(***************************************************************************)
(* web/net/tcp/TcpClient.{h,cpp} over its Connector.                       *)
(*                                                                         *)
(* A program is a record: the calls it makes, whether they come from the   *)
(* loop's thread, and whether retry is enabled.  The TcpConnection is      *)
(* reduced to what the client sees of it (TcpConnection.tla has the rest): *)
(* it is there, and some time after that its close callback is made.       *)
(***************************************************************************)
EXTENDS Connector

CONSTANTS
    Programs,       \* the client programs that are considered
    MaxCalls        \* bound: calls a program makes

ASSUME ClientAssumption ==
    /\ MaxCalls \in Nat
    /\ \A p \in Programs :
        /\ p.calls \subseteq {"connect", "reconnect", "stop", "disconnect",
                           "destroy", "destroyInTask"}
        /\ p.onLoop \in BOOLEAN /\ p.retry \in BOOLEAN

VARIABLES
    program,        \* the program that runs; program.retry is retry_
    made,           \* number of calls it has made
    caller,         \* "idle", or what a call on another thread is half way through
    askedToConnect, \* connect_
    client,         \* the TcpClient object: "alive" or "dead"
    conn,           \* connection_: "none", "up" or "shut" (shutdown was called)
    closeCallback,  \* whom the connection's close callback goes to
    hold,           \* the one second timer of the destructor has the connector
    stopped,        \* stopInLoop has run since the last connect()
    deadCall        \* a callback was made on a dead client

clientVars == <<program, made, caller, askedToConnect, client, conn, closeCallback,
                hold, stopped, deadCall>>
vars == <<connectorVars, clientVars>>

ConnectorAlive == client = "alive" \/ hold \/ timers > 0

TypeOK ==
    /\ ConnectorTypeOK
    /\ program \in Programs
    /\ made \in 0 .. MaxCalls
    /\ caller \in {"idle", "startInLoop", "stopInLoop"}
    /\ askedToConnect \in BOOLEAN /\ hold \in BOOLEAN
    /\ stopped \in BOOLEAN /\ deadCall \in BOOLEAN
    /\ client \in {"alive", "dead"}
    /\ conn \in {"none", "up", "shut"}
    /\ closeCallback \in {"client", "detail"}

\* TcpClient::TcpClient
Init ==
    /\ ConnectorInit
    /\ program \in Programs
    /\ made = 0 /\ caller = "idle"
    /\ askedToConnect = TRUE
    /\ client = "alive" /\ conn = "none" /\ closeCallback = "client"
    /\ hold = FALSE /\ stopped = FALSE /\ deadCall = FALSE

-----------------------------------------------------------------------------
(* Calls of the program.                                                   *)

\* The program may make call c now: on the loop's thread between callbacks,
\* on another at any time.
MayCall(c) ==
    /\ c \in program.calls
    /\ client = "alive" /\ made < MaxCalls /\ caller = "idle"
    /\ program.onLoop => Idle
    /\ made' = made + 1

\* TcpClient::connect on the loop's thread.  A program that does not
\* reconnect calls it first and once.
ConnectOnLoop ==
    /\ MayCall("connect") /\ program.onLoop
    /\ made = 0 \/ "reconnect" \in program.calls
    /\ askedToConnect' = TRUE /\ stopped' = FALSE
    /\ start
    /\ UNCHANGED <<queue, calls, server, outages, program, caller, client, conn,
                   closeCallback, hold, deadCall>>

\* TcpClient::stop on the loop's thread.
StopOnLoop ==
    /\ MayCall("stop") /\ program.onLoop
    /\ askedToConnect' = FALSE
    /\ stop
    /\ UNCHANGED <<state, channel, retryDelayMs, timers, calls, sockets, orphans,
                   server, outages, gaveUp, program, caller, client, conn, closeCallback,
                   hold, stopped, deadCall>>

\* connect() and stop() on another thread: the flags first, the task later.
ThreadFlags ==
    /\ ~program.onLoop
    /\ \/ /\ MayCall("connect")
          /\ made = 0 \/ "reconnect" \in program.calls
          /\ askedToConnect' = TRUE /\ wanted' = TRUE
          /\ stopped' = FALSE /\ caller' = "startInLoop"
       \/ /\ MayCall("stop")
          /\ askedToConnect' = FALSE /\ wanted' = FALSE
          /\ caller' = "stopInLoop" /\ UNCHANGED stopped
    /\ UNCHANGED <<state, channel, retryDelayMs, timers, queue, calls, sockets,
                   orphans, server, outages, gaveUp, program, client, conn, closeCallback,
                   hold, deadCall>>

ThreadQueues ==
    /\ caller # "idle"
    /\ queue' = Append(queue, caller)
    /\ caller' = "idle"
    /\ UNCHANGED <<wanted, state, channel, retryDelayMs, timers, calls, sockets,
                   orphans, server, outages, gaveUp, program, made, askedToConnect, client,
                   conn, closeCallback, hold, stopped, deadCall>>

\* TcpClient::disconnect, on either thread.
Disconnect ==
    /\ MayCall("disconnect")
    /\ askedToConnect' = FALSE
    /\ conn' = IF conn = "up" THEN "shut" ELSE conn
    /\ UNCHANGED <<connectorVars, program, caller, client, closeCallback, hold,
                   stopped, deadCall>>

\* Mutant of Destroy: the connection keeps its close callback.
DestroyKeepsCallback ==
    /\ MayCall("destroy") /\ program.onLoop
    /\ Polling
    /\ client' = "dead"
    /\ \/ /\ conn # "none"
          /\ conn' \in {conn, "shut"}
          /\ UNCHANGED <<connectorVars, hold>>
       \/ /\ conn = "none"
          /\ stop
          /\ hold' = TRUE
          /\ UNCHANGED <<state, channel, retryDelayMs, timers, calls, sockets,
                         orphans, server, outages, gaveUp, conn>>
    /\ UNCHANGED <<program, caller, askedToConnect, closeCallback, stopped, deadCall>>

\* TcpClient::~TcpClient on the loop's thread.  Its connection, if there is
\* one, gets another close callback, and is shut down when nobody else has
\* it; if there is none the connector is stopped and kept for a second.
\* A careful program does this when no task of the connector is queued, from
\* an event's callback say: the tasks are bound to the connector's address.
Destroy ==
    /\ MayCall("destroy") /\ program.onLoop
    /\ Polling \/ "destroyInTask" \in program.calls
    /\ client' = "dead"
    /\ \/ /\ conn # "none"
          /\ closeCallback' = "detail"
          /\ conn' \in {conn, "shut"}
          /\ UNCHANGED <<connectorVars, hold>>
       \/ /\ conn = "none"
          /\ stop
          /\ hold' = TRUE
          /\ UNCHANGED <<state, channel, retryDelayMs, timers, calls, sockets,
                         orphans, server, outages, gaveUp, conn, closeCallback>>
    /\ UNCHANGED <<program, caller, askedToConnect, stopped, deadCall>>

-----------------------------------------------------------------------------
(* Steps of the loop.                                                      *)

\* The destructor's timer runs removeConnector, which lets the connector go.
HoldExpires ==
    /\ hold /\ Polling
    /\ hold' = FALSE
    /\ UNCHANGED <<connectorVars, program, made, caller, askedToConnect, client,
                   conn, closeCallback, stopped, deadCall>>

ConnectorStep ==
    /\ ConnectEvent \/ HandleFailure \/ RetryTimer \/ RunStart \/ RunReset
    /\ UNCHANGED clientVars

\* Connector::handleWrite on a connected socket, and TcpClient::newConnection
\* which it calls if the connection is still wanted.
NewConnection ==
    /\ Connected
    /\ \/ /\ wanted
          /\ conn' = "up" /\ closeCallback' = "client"
          /\ deadCall' = (deadCall \/ client = "dead")
       \/ /\ ~wanted
          /\ UNCHANGED <<conn, closeCallback, deadCall>>
    /\ UNCHANGED <<program, made, caller, askedToConnect, client, hold, stopped>>

StopStep ==
    /\ RunStop
    /\ stopped' = TRUE
    /\ UNCHANGED <<program, made, caller, askedToConnect, client, conn,
                   closeCallback, hold, deadCall>>

\* The connection closes: TcpClient::removeConnection up to its test of
\* retry_ and connect_, or detail::removeConnection.
ConnectionCloses ==
    /\ conn # "none" /\ Polling
    /\ conn' = "none"
    /\ calls' = IF closeCallback = "client" /\ program.retry /\ askedToConnect
                THEN <<"restart">> ELSE <<>>
    /\ deadCall' = (deadCall \/ (closeCallback = "client" /\ client = "dead"))
    /\ UNCHANGED <<wanted, state, channel, retryDelayMs, timers, queue, sockets,
                   orphans, server, outages, gaveUp, program, made, caller, askedToConnect,
                   client, closeCallback, hold, stopped>>

\* The rest of TcpClient::removeConnection: Connector::restart.
Restart ==
    /\ calls # <<>> /\ Head(calls) = "restart"
    /\ restart
    /\ calls' = Tail(calls)
    /\ UNCHANGED <<queue, server, outages, clientVars>>

ServerUpStep == ServerComesUp /\ UNCHANGED clientVars
ServerDownStep == ServerGoesDown /\ UNCHANGED clientVars

LoopStep ==
    ConnectorStep \/ NewConnection \/ StopStep \/ HoldExpires \/ Restart

Next ==
    \/ ConnectOnLoop \/ StopOnLoop \/ ThreadFlags \/ ThreadQueues
    \/ Disconnect \/ Destroy
    \/ LoopStep \/ ConnectionCloses \/ ServerUpStep \/ ServerDownStep

\* The loop goes on with its callbacks, timers and tasks; a thread ends the
\* call it is in; the server comes up in the end, the bound MaxOutages
\* ending its outages.
Fairness ==
    /\ WF_vars(LoopStep) /\ WF_vars(ThreadQueues) /\ SF_vars(ServerUpStep)

Spec == Init /\ [][Next]_vars /\ Fairness

-----------------------------------------------------------------------------
(* Properties.                                                             *)

\* After stopInLoop no attempt begins until connect() is called again: no
\* retry timer (Connector::retry) and no reconnect of
\* TcpClient::removeConnection brings a stopped client back.
StopSticks == [][stopped /\ stopped' => ~(state # kConnecting /\ state' = kConnecting)]_vars

\* A client that is destroyed is not called again, neither by the connector's
\* handleWrite nor by its connection's handleClose, and a connector that
\* nobody holds has no channel and no task left.
NothingDeadIsUsed ==
    /\ ~deadCall
    /\ ~ConnectorAlive => channel = NoChannel /\ queue = <<>>

\* A client that asked to connect gets its connection, through any number of
\* refused attempts, unless it was stopped or an error was not one to retry
\* (Connector::connect, Connector::retry).
ConnectsInTheEnd == wanted ~> state = kConnected \/ ~wanted \/ gaveUp

=============================================================================
