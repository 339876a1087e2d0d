----------------------------- MODULE HttpServer -----------------------------
(***************************************************************************)
(* web/http/HttpServer.cpp and HttpContext: one connection, its parser and *)
(* the servlets.  TcpConnection.tla has the connection's own steps; here   *)
(* it is the state that send and shutdown look at.                         *)
(***************************************************************************)
EXTENDS HttpRequest, HttpService

CONSTANTS
    Streams,        \* the inputs that a client may send
    IdleTimeouts    \* auto_close_idle_connection_: TRUE starts onIdle timers

ASSUME HttpServerAssumption ==
    /\ IdleTimeouts \in BOOLEAN
    /\ Streams \subseteq Seq(Tokens)

VARIABLES
    stream,         \* what the client has still to send
    connected,      \* "kConnected", "kDisconnecting" or "kDisconnected"
    answers,        \* what was sent: records of kind "400" or "response"
    store,          \* see HttpService
    idleTimers      \* pending onIdle timers

serverVars == <<stream, connected, answers, store, idleTimers>>
vars == <<requestVars, serverVars>>

\* HttpServer::onConnection of a new connection: a fresh context.
Init ==
    /\ stream \in Streams
    /\ buf = <<>> /\ req = NewRequest /\ busy = "idle" /\ taken = <<>>
    /\ connected = "kConnected"
    /\ answers = <<>>
    /\ store = [users |-> {}, cache |-> {}, comments |-> <<>>]
    /\ idleTimers = IF IdleTimeouts THEN 1 ELSE 0

\* A message: some of the input arrives and onMessage calls parseRequest.
Receive(n) ==
    /\ busy = "idle" /\ connected # "kDisconnected"
    /\ buf' = buf \o SubSeq(stream, 1, n)
    /\ stream' = SubSeq(stream, n + 1, Len(stream))
    /\ busy' = "parsing"
    /\ UNCHANGED <<req, taken, connected, answers, store, idleTimers>>

Parse == ParseStep /\ UNCHANGED serverVars

\* TcpConnection::send and shutdown
Sent(answer) == IF connected = "kConnected" THEN Append(answers, answer) ELSE answers
Shut == IF connected = "kConnected" THEN "kDisconnecting" ELSE connected

\* onMessage when parseRequest has not completed a request, be it bad or
\* unfinished: HttpContext::parseRequest does not tell them apart.  A bad
\* request line is gone: the next line is read as one.
BadRequest ==
    /\ busy = "parsed" /\ req.state # "CHECK_DONE"
    /\ answers' = Sent([kind |-> "400", ret |-> req.ret])
    /\ connected' = Shut
    /\ busy' = "idle"
    /\ taken' = IF req.state = "CHECK_REQUESTLINE" THEN <<>> ELSE taken
    /\ UNCHANGED <<buf, req, stream, store, idleTimers>>

\* What the servlets read of the request.
Parsed ==
    [method |-> req.method, url |-> req.url,
     form |-> taken[1].form, range |-> taken[1].range, filePart |-> taken[1].filePart]

\* Mutant of OnRequest: the context is not reset.
OnRequestNoReset ==
    /\ busy = "parsed" /\ req.state = "CHECK_DONE"
    /\ \E file \in BOOLEAN :
       LET close == Get(req, "Connection") = "close"
           made == Dispatch(NewResponse(close), Parsed, store, file)
       IN  /\ answers' = Sent([kind |-> "response", request |-> taken, store |-> store,
                               resp |-> appendToBuffer(made.resp)])
           /\ store' = made.store
           /\ connected' = IF close THEN Shut ELSE connected
    /\ busy' = "idle"
    /\ UNCHANGED <<buf, req, taken, stream, idleTimers>>

\* onRequest(), then the context gets a new HttpRequest.  What the servlets
\* read of form, range and file part is in the request line's token.  file is
\* what FileUpload finds in a variable that it has not set.
OnRequest ==
    /\ busy = "parsed" /\ req.state = "CHECK_DONE"
    /\ \E file \in BOOLEAN :
       LET connection == Get(req, "Connection")
           close == \/ connection = "close"
                    \/ req.version = "1.0" /\ connection # "Keep-Alive"
           made == Dispatch(NewResponse(close), Parsed, store, file)
       IN  /\ answers' = Sent([kind |-> "response", request |-> taken, store |-> store,
                               resp |-> appendToBuffer(made.resp)])
           /\ store' = made.store
           /\ connected' = IF close THEN Shut ELSE connected
    /\ req' = NewRequest /\ taken' = <<>>
    /\ busy' = "idle"
    /\ UNCHANGED <<buf, stream, idleTimers>>

\* onIdle().  last_message() is never set, so the connection always counts
\* as idle since the epoch and is shut down.
OnIdle ==
    /\ busy = "idle" /\ idleTimers > 0
    /\ idleTimers' = idleTimers - 1
    /\ connected' = Shut
    /\ UNCHANGED <<requestVars, stream, answers, store>>

\* The peer closes: onConnection again, which starts another idle timer.
Closed ==
    /\ busy = "idle" /\ connected # "kDisconnected"
    /\ connected' = "kDisconnected"
    /\ idleTimers' = IF IdleTimeouts THEN idleTimers + 1 ELSE idleTimers
    /\ UNCHANGED <<requestVars, stream, answers, store>>

Next ==
    \/ \E n \in 1 .. Len(stream) : Receive(n)
    \/ Parse
    \/ BadRequest \/ OnRequest
    \/ OnIdle \/ Closed

Spec == Init /\ [][Next]_vars /\ WF_vars(Parse \/ BadRequest \/ OnRequest)

-----------------------------------------------------------------------------
Responses == {i \in DOMAIN answers : answers[i].kind = "response"}

\* An answer that ends the exchange is the last one: nothing follows a
\* response that announces the close or a 400, whatever is still received and
\* parsed (HttpServer::onMessage goes on after shutdown).
LastAnswerIsLast ==
    \A i \in DOMAIN answers :
        (answers[i].kind = "400" \/ answers[i].resp.close) => i = Len(answers)

\* A response declares the length of what follows it: the page or the part of
\* the file that was asked for, to the byte (HttpService FileDownload,
\* HttpResponse::appendToBuffer).  A range that is not in the file is not
\* covered: FileDownload never answers 416.
LengthIsDeclared ==
    \A i \in Responses :
        LET resp == answers[i].resp
            line == answers[i].request[1]
            asked == IF line.url # "/filedownload-src" THEN {}
                     ELSE IF line.range = NoRange THEN 0 .. FileLen - 1
                     ELSE {b \in 0 .. FileLen - 1 :
                            IF line.range.beg < 0 THEN b >= FileLen - line.range.end
                            ELSE b >= line.range.beg
                                 /\ (line.range.end < 0 \/ b <= line.range.end)}
        IN  /\ BytesSent(resp) = asked
            /\ resp.declared # -1 => resp.declared = BodyLen(resp.body) + Cardinality(asked)
            /\ resp.declared = -1 => resp.close

\* Every complete request gets one answer, made for exactly that request, in
\* the order they came: what was answered, what is being parsed and what
\* waits is the input, in order (as long as nothing was refused).  An answer
\* that ends the exchange is the last one.
AnswersFollowInput ==
    /\ (\A i \in DOMAIN answers : answers[i].kind = "response") /\ connected = "kConnected" =>
          FlattenSeq([i \in DOMAIN answers |-> answers[i].request]) \o taken \o buf \o stream
              \in Streams
    /\ LastAnswerIsLast

\* A login is granted exactly to the rows of table user, with or without the
\* help of the cache (HttpService Login).
LoginAgrees ==
    \A i \in Responses :
        LET line == answers[i].request[1]
        IN  line.url = "/login" /\ line.method = "POST" =>
                (answers[i].resp.body = "/welcome.html" <=> line.form \in answers[i].store.users)

\* Comment of HttpRequest.cpp:117: without a line end one has to go on
\* receiving.  So a request that is not finished is not refused.
UnfinishedIsNotRefused ==
    \A i \in DOMAIN answers : answers[i].kind = "400" => answers[i].ret = "BAD_REQUEST"

=============================================================================
