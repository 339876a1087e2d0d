----------------------------- MODULE ChatClient -----------------------------
(***************************************************************************)
(* web/chat/ClientMain.cpp over ChatService: the chat client, a main       *)
(* thread with menus and a thread that reads from the server.              *)
(***************************************************************************)
EXTENDS ChatService

VARIABLES
    main,           \* main thread: "menu", "login" or "reg" (waits for the
                    \* reader), "chat" (mainMenu), "exited"
    rwsem,
    isLoginSuccess, \* g_isLoginSuccess
    friendList,     \* g_currentUserFriendList: the state it shows of a user
    groupList,      \* g_currentUserGroupList
    typed,          \* number of commands typed
    received        \* how often user u was shown text n

clientVars == <<main, rwsem, isLoginSuccess, friendList, groupList, typed, received>>
vars == <<serverVars, clientVars>>
unchangedServer == <<world, tables, userConnMap, connMtx, redis, server, handler>>

NotShown == "not in the list"

Init ==
    /\ ServiceInit
    /\ main = [c \in Clients |-> IF c \in world.idle THEN "exited" ELSE "menu"]
    /\ rwsem = [c \in Clients |-> 0]
    /\ isLoginSuccess = [c \in Clients |-> FALSE]
    /\ friendList = [c \in Clients |-> [u \in Users |-> NotShown]]
    /\ groupList = [c \in Clients |-> {}]
    /\ typed = 0
    /\ received = [u \in Users |-> [n \in 1 .. world.most |-> 0]]

\* A command that sends one request.
Type(c, at, req) ==
    /\ main[c] = at /\ typed < world.most /\ req.id \in world.may
    /\ typed' = typed + 1
    /\ up' = IF conn[c] = "open" THEN [up EXCEPT ![c] = Append(@, req)] ELSE up

\* No other client uses c's account, or used it and is not yet known to be
\* gone.  It may have sent a LOG_OUT that is still being handled.
MayLogin(c) ==
    world.shared \/ \A d \in Clients \ {c} :
        world.account[d] = world.account[c] =>
            main[d] = "menu" \/ (conn[d] = "gone" /\ handler[d] = Idle)

\* main(), case 1 and 2: send, then wait for the reader.
Login(c, ok) ==
    /\ MayLogin(c) /\ (ok \/ "wrong" \in world.may)
    /\ Type(c, "menu", [id |-> "LOG_IN", u |-> world.account[c], ok |-> ok])
    /\ main' = [main EXCEPT ![c] = "login"]
    /\ UNCHANGED <<unchangedServer, conn, down, rwsem, isLoginSuccess, friendList, groupList,
                   received>>

Register(c) ==
    /\ Type(c, "menu", [id |-> "REG"])
    /\ main' = [main EXCEPT ![c] = "reg"]
    /\ UNCHANGED <<unchangedServer, conn, down, rwsem, isLoginSuccess, friendList, groupList,
                   received>>

\* The end of the two cases: sem_wait returns.
Wake(c) ==
    /\ main[c] \in {"login", "reg"} /\ rwsem[c] > 0
    /\ rwsem' = [rwsem EXCEPT ![c] = @ - 1]
    /\ main' = [main EXCEPT ![c] = IF @ = "login" /\ isLoginSuccess[c] THEN "chat" ELSE "menu"]
    /\ UNCHANGED <<serverVars, isLoginSuccess, friendList, groupList, typed, received>>

\* The process ends, by main(), case 3, by the reader, or killed.
Die(c) ==
    /\ main' = [main EXCEPT ![c] = "exited"]
    /\ conn' = [conn EXCEPT ![c] = IF @ = "open" THEN "closed" ELSE @]

Quit(c) ==
    /\ main[c] = "menu" \/ ("die" \in world.may /\ main[c] # "exited")
    /\ Die(c)
    /\ UNCHANGED <<unchangedServer, up, down, rwsem, isLoginSuccess, friendList, groupList,
                   typed, received>>

\* mainMenu and its commands.
Command(c) ==
    /\ LET u == world.account[c]
       IN  \/ \E f \in Users :
                /\ friendList[c][f] # NotShown
                /\ Type(c, "chat", [id |-> "ONE_CHAT", u |-> u, to |-> f, n |-> typed + 1])
           \/ \E f \in Users :
                /\ friendList[c][f] = NotShown
                /\ Type(c, "chat", [id |-> "ADD_FRIEND", u |-> u, to |-> f])
           \/ Type(c, "chat", [id |-> "CREATE_GROUP", u |-> u])
           \/ \E g \in Groups \ groupList[c] :
                Type(c, "chat", [id |-> "ADD_TO_GROUP", u |-> u, to |-> g])
           \/ \E g \in groupList[c] :
                Type(c, "chat", [id |-> "GROUP_CHAT", u |-> u, to |-> g, n |-> typed + 1])
    /\ UNCHANGED <<unchangedServer, conn, down, main, rwsem, isLoginSuccess, friendList,
                   groupList, received>>

\* logout(): the request is sent and mainMenu ends.
Logout(c) ==
    /\ Type(c, "chat", [id |-> "LOG_OUT", u |-> world.account[c]])
    /\ main' = [main EXCEPT ![c] = "menu"]
    /\ UNCHANGED <<unchangedServer, conn, down, rwsem, isLoginSuccess, friendList, groupList,
                   received>>

\* mainMenu, "quit": back to the first menu, the user stays logged in.
QuitMenu(c) ==
    /\ "quit" \in world.may /\ main[c] = "chat"
    /\ main' = [main EXCEPT ![c] = "menu"]
    /\ UNCHANGED <<serverVars, rwsem, isLoginSuccess, friendList, groupList, typed, received>>

-----------------------------------------------------------------------------
(* readTaskHandler.                                                        *)

Post(c) == rwsem' = [rwsem EXCEPT ![c] = @ + 1]

\* Mutant of doLoginResponse: a refusal is not posted.
doLoginResponseNoPost(c, msg) ==
    /\ IF msg.err # 0 THEN UNCHANGED rwsem ELSE Post(c)
    /\ isLoginSuccess' = [isLoginSuccess EXCEPT ![c] = (msg.err = 0)]
    /\ UNCHANGED <<friendList, groupList, received>>

\* What an answer says of user u, and how often it brings text n.
getFriendList(msg, u) ==
    LET shown == {i \in DOMAIN msg.friends : msg.friends[i].u = u}
    IN  IF shown = {} THEN NotShown ELSE msg.friends[CHOOSE i \in shown : TRUE].state
getGroupList(msg) == msg.groups
getOfflineMsgList(msg, n) ==
    Cardinality({i \in DOMAIN msg.off : IsChat(msg.off[i]) /\ msg.off[i].n = n})

doLoginResponse(c, msg) ==
    /\ Post(c)
    /\ isLoginSuccess' = [isLoginSuccess EXCEPT ![c] = (msg.err = 0)]
    /\ \/ msg.err # 0 /\ UNCHANGED <<friendList, groupList, received>>
       \/ /\ msg.err = 0
          /\ friendList' = [friendList EXCEPT ![c] = [u \in Users |-> getFriendList(msg, u)]]
          /\ groupList' = [groupList EXCEPT ![c] = getGroupList(msg)]
          /\ received' = [received EXCEPT ![msg.u] =
                            [n \in DOMAIN @ |-> @[n] + getOfflineMsgList(msg, n)]]

\* The state of a friend, where it is in the list.
ShowFriend(c, u, state) ==
    friendList' = [friendList EXCEPT ![c][u] = IF @ = NotShown THEN @ ELSE state]

\* One message, by its id.
Shown(c, msg) ==
    \/ msg.id = "LOG_IN_MSG_ACK" /\ doLoginResponse(c, msg)
    \/ /\ msg.id = "REG_MSG_ACK" /\ Post(c)
       /\ UNCHANGED <<isLoginSuccess, friendList, groupList, received>>
    \/ /\ msg.id \in {"ONE_CHAT", "GROUP_CHAT"}
       /\ received' = [received EXCEPT ![msg.for][msg.n] = @ + 1]
       /\ UNCHANGED <<rwsem, isLoginSuccess, friendList, groupList>>
    \/ /\ msg.id \in {"FRIEND_ONLINE", "FRIEND_OFFLINE"}
       /\ ShowFriend(c, msg.u, IF msg.id = "FRIEND_ONLINE" THEN "online" ELSE "offline")
       /\ UNCHANGED <<rwsem, isLoginSuccess, groupList, received>>
    \/ /\ msg.id = "ADD_FRIEND_ACK"
       /\ friendList' = IF msg.err = 0 THEN [friendList EXCEPT ![c][msg.u] = msg.state]
                        ELSE friendList
       /\ UNCHANGED <<rwsem, isLoginSuccess, groupList, received>>
    \/ /\ msg.id \in {"CREATE_GROUP_ACK", "ADD_TO_GROUP_ACK"}
       /\ groupList' = IF msg.err = 0 THEN [groupList EXCEPT ![c] = @ \cup {msg.to}] ELSE groupList
       /\ UNCHANGED <<rwsem, isLoginSuccess, friendList, received>>

\* recv takes what has come.  No null byte ends a server's message: more than
\* one do not parse, and the exception ends the process.
Read(c) ==
    /\ main[c] # "exited" /\ down[c] # <<>>
    /\ \E k \in 1 .. Len(down[c]) :
        /\ down' = [down EXCEPT ![c] = SubSeq(@, k + 1, Len(@))]
        /\ \/ k = 1 /\ Shown(c, Head(down[c])) /\ UNCHANGED <<main, conn>>
           \/ /\ k > 1 /\ Die(c)
              /\ UNCHANGED <<rwsem, isLoginSuccess, friendList, groupList, received>>
    /\ UNCHANGED <<unchangedServer, up, typed>>

\* recv finds the connection closed: exit.
ReadClosed(c) ==
    /\ main[c] # "exited" /\ conn[c] = "gone" /\ down[c] = <<>>
    /\ Die(c)
    /\ UNCHANGED <<unchangedServer, up, down, rwsem, isLoginSuccess, friendList, groupList,
                   typed, received>>

-----------------------------------------------------------------------------
ClientStep(c) ==
    \/ \E ok \in BOOLEAN : Login(c, ok)
    \/ Register(c) \/ Wake(c) \/ Quit(c)
    \/ Command(c) \/ Logout(c) \/ QuitMenu(c)
    \/ Read(c) \/ ReadClosed(c)

Service == ServiceStep /\ UNCHANGED clientVars
Next == Service \/ \E c \in Clients : ClientStep(c)

\* Handlers, the observer and the reader go on; users need not.
Fairness ==
    /\ \A c \in Clients :
        /\ WF_vars(Handle(c) /\ UNCHANGED clientVars)
        /\ WF_vars(Read(c) \/ ReadClosed(c))
        /\ WF_vars(Wake(c))
    /\ \A s \in Servers : WF_vars(RedisNotify(s) /\ UNCHANGED clientVars)
Spec == Init /\ [][Next]_vars /\ Fairness

-----------------------------------------------------------------------------
Quiet == \A c \in Clients : handler[c] = Idle
Running == \A s \in Servers : server[s] = "running"

\* When no handler is under way, a user's row says "online" exactly if a
\* server has a connection for it in _userConnMap, and that one is not gone:
\* logins, logouts and disconnections that overlap leave the table and the
\* maps of the servers in agreement (ChatService login, logout,
\* clientCloseException).
RowsAgree ==
    Quiet /\ Running =>
        \A u \in Users : row[u] = "online" <=>
            \E s \in Servers : LET c == userConnMap[s][u] IN c # NoConn /\ conn[c] # "gone"

Texts(seq, u, n) == {i \in DOMAIN seq : IsChat(seq[i]) /\ seq[i].for = u /\ seq[i].n = n}
LoggedIn(msg, u) == msg.id = "LOG_IN_MSG_ACK" /\ msg.err = 0 /\ msg.u = u
Answering(h, u) ==
    h.pc \in {"lists", "look", "ask", "publish", "store"} /\ h.req.id = "LOG_IN" /\ h.req.u = u

\* Where text n for user u is, as <<where, whose, message, kept message>>: among
\* the kept messages, in Redis, on its way in a message of its own, or in a
\* login's answer, under way or not yet sent.
Places(u, n) ==
    {<<"offline", u, 0, j>> : j \in Texts(offline[u], u, n)}
    \cup (UNION {{<<"published", s, i, 0>> : i \in Texts(published[s], u, n)} : s \in Servers})
    \cup (UNION {{<<"down", c, i, 0>> : i \in Texts(down[c], u, n)} : c \in Clients})
    \cup (UNION {UNION {{<<"down", c, i, j>> : j \in Texts(down[c][i].off, u, n)} :
                        i \in {i \in DOMAIN down[c] : LoggedIn(down[c][i], u)}} : c \in Clients})
    \cup (UNION {{<<"login", c, 0, j>> : j \in Texts(handler[c].off, u, n)} :
                 c \in {c \in Clients : Answering(handler[c], u)}})

\* A text reaches a user at most once, by whichever way it goes: the
\* connection, Redis, or the table of offline messages and a later login.
AtMostOnce ==
    \A u \in Users, n \in 1 .. world.most : Cardinality(Places(u, n)) + received[u][n] <= 1

\* A client whose login or registration was taken up (onMessage) does not wait
\* for ever: it is answered or the client ends, whatever the handlers of
\* others do with _connMtx in between (main, readTaskHandler, ChatService).
WaitsEnd ==
    \A c \in Clients :
        main[c] \in {"login", "reg"} /\ (At(c, "LOG_IN") \/ At(c, "REG"))
            ~> main[c] \notin {"login", "reg"}

=============================================================================
