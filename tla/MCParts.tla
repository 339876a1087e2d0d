------------------------------- MODULE MCParts -------------------------------
(* The parts of the server that share no state, one of them at a time:     *)
(* part says which one runs, the others stand still.                       *)
EXTENDS AsyncLog, ConnectionPools, ThreadPool, Buffer, HttpRoute, TcpServer,
        HttpMultiPart

VARIABLE part

allVars == <<part, logVars, poolVars, threadPoolVars, bufferVars, routeVars,
             serverVars, multiPartVars>>

LogMessages == {<<1>>, <<2, 2>>}

RoutePatterns ==
    {<<"/">>, <<"/", "a">>, <<"/", ":x">>, <<"/", ":y">>, <<"/", "a", "/", "b">>,
     <<"/", "a", "/", ":y">>, <<"/", ":x", "/", "b">>, <<"/", ":x", "/", ":y">>,
     <<"/", "a", "/", "/", "b">>}
RoutePaths ==
    {<<"/">>, <<"/", "a">>, <<"/", "b">>, <<"/", "a", "/", "/", "b">>, <<"/", "a", "/">>}
    \cup {<<"/", n, "/", m>> : n, m \in {"a", "b"}}

\* Content that is empty, that fills the array, and that looks like the
\* beginning of a boundary.
Contents ==
    {<<>>, <<Token("x")>>, <<Token("CR")>>, <<Token("x"), Token("B")>>}
    \cup {<<Token(a), Token(b), Token(c)>> :
            a \in {"CR", "x"}, b \in {"LF", "x"}, c \in {"--", "CR"}}
FieldsNamed(n, data) == [name : {n}, file : {NoFile, "f"}, data : data]
UploadsOfTwo ==
    {<<>>} \cup {<<f, g>> : f \in FieldsNamed("a", Contents),
                            g \in FieldsNamed("b", {<<>>, <<Token("CR"), Token("LF"), Token("--")>>})}

Init ==
    /\ part \in {"log", "connections", "threads", "buffer", "routes", "server", "upload"}
    /\ LogInit /\ PoolInit /\ ThreadPoolInit /\ BufferInit /\ RouteInit /\ ServerInit
    /\ MultiPartInit
    /\ part # "threads" => kind = "base"
    /\ part # "server" => threadNum = 0
    /\ part # "upload" => upload = <<>>

Log == part = "log" /\ LogNext
       /\ UNCHANGED <<part, poolVars, threadPoolVars, bufferVars, routeVars, serverVars, multiPartVars>>
Pools == part = "connections" /\ PoolNext
         /\ UNCHANGED <<part, logVars, threadPoolVars, bufferVars, routeVars, serverVars, multiPartVars>>
Tasks == part = "threads" /\ ThreadPoolNext
         /\ UNCHANGED <<part, logVars, poolVars, bufferVars, routeVars, serverVars, multiPartVars>>
Bytes == part = "buffer" /\ BufferNext
         /\ UNCHANGED <<part, logVars, poolVars, threadPoolVars, routeVars, serverVars, multiPartVars>>
Routes == part = "routes" /\ RouteNext
          /\ UNCHANGED <<part, logVars, poolVars, threadPoolVars, bufferVars, serverVars, multiPartVars>>
Server == part = "server" /\ ServerNext
          /\ UNCHANGED <<part, logVars, poolVars, threadPoolVars, bufferVars, routeVars, multiPartVars>>
Upload == part = "upload" /\ MultiPartNext
          /\ UNCHANGED <<part, logVars, poolVars, threadPoolVars, bufferVars, routeVars, serverVars>>
Next == Log \/ Pools \/ Tasks \/ Bytes \/ Routes \/ Server \/ Upload

\* The writer, the servlets, the workers, the loops and the parser go on.  A loop handles what epoll
\* reports again in every report (level triggered), hence the strong fairness
\* of handleClose.  Nobody has to log, to add a task, to stop, to connect or to
\* close.
Fairness ==
    /\ WF_logVars(part = "log" /\ LogWriter)
    /\ \A t \in Threads :
          WF_poolVars(part = "connections" /\ ~undefined /\ Waiting(t) /\ LoginStep(t))
    /\ \A w \in PoolWorkers : WF_threadPoolVars(part = "threads" /\ PoolWorker(w))
    /\ WF_threadPoolVars(part = "threads" /\ (AddNotifies \/ StopNotifies))
    /\ WF_serverVars(part = "server" /\ Accepts)
    /\ \A c \in Clients : SF_serverVars(part = "server" /\ handleClose(c))
    /\ \A l \in Loops : WF_serverVars(part = "server" /\ LoopTurns(l))
    /\ WF_multiPartVars(part = "upload" /\ MultiPartNext)
Spec == Init /\ [][Next]_allVars /\ Fairness

\* Nobody waits for ever: again and again all lines logged so far are written
\* or dropped, also the last ones, which fill no buffer (writeThread); no login
\* waits for a connection (getRedisCache, getConnection); all tasks were run,
\* while a worker is left that no task has thrown out of its loop, and a pool
\* that was stopped is joined: no wake-up is lost between the queue, the flag
\* and the two kinds of notification.
WorkEnds ==
    []<>(/\ running => \A n \in 1 .. logged : Written(n)
         /\ undefined \/ \A t \in Threads : ~Waiting(t)
         /\ AllLost \/ \A n \in 1 .. added : done[n] > 0
         /\ stopping # "no" => Joined)

\* While the main loop runs, every client is accepted or refused in the end
\* (Acceptor::handleNewConnection), also when the descriptors run out, unless
\* other threads took the spare one; and what a client closes is freed,
\* however the loops take turns (removeConnection, connectDestroyed).
ServerProgress == []<>ServerServes

\* HttpMultiPart::parse comes to the end of an upload, with every value and
\* every file under its name and with its content byte for byte.
FieldsArrive == []<>(part = "upload" => Received)

=============================================================================
