----------------------------- MODULE ChatService -----------------------------
(***************************************************************************)
(* web/chat: the chat servers.  ChatServer and ChatService handle the      *)
(* requests of a connection on its I/O thread; the tables of MySQL         *)
(* (chat/control) and the channels of Redis (RedisCache::publish,          *)
(* subscribe, observer_channel_message) are shared by all servers.         *)
(*                                                                         *)
(* A handler is a small program: handler[c].pc says which of its calls is  *)
(* next.  Every call to a table, every section under _connMtx and every    *)
(* call to Redis is one step, so handlers of different connections         *)
(* interleave between them; only the lists of friends and groups, which    *)
(* decide whom to tell and what to show, are read together with the change *)
(* of the subscription next to them.  A connection has an I/O thread of    *)
(* its own here; connections that share one interleave less.               *)
(*                                                                         *)
(* Requests and messages are records: id is the msgid, u the user that     *)
(* sends, to the friend or the group it is about, n the text (a number).   *)
(***************************************************************************)
EXTENDS Integers, Sequences, FiniteSets, SequencesExt

CONSTANTS
    Users, Clients, Servers, Groups,
    Worlds          \* records: home (the server of a client), account (its
                    \* user), idle (clients that are not started), row,
                    \* friend, groupuser (what the tables hold at first),
                    \* may (the requests users make; "wrong": with a wrong
                    \* password too, "quit": they leave the
                    \* menu without LOG_OUT, "die": clients may be killed,
                    \* "SIGINT": servers may be interrupted), most (bound:
                    \* requests), shared (one account in two clients at a
                    \* time)

NoConn == "no connection"

ASSUME ChatAssumption ==
    /\ IsFiniteSet(Users) /\ NoConn \notin Clients
    /\ \A w \in Worlds :
        /\ w.home \in [Clients -> Servers] /\ w.account \in [Clients -> Users]
        /\ w.idle \subseteq Clients /\ w.most \in Nat /\ w.shared \in BOOLEAN
        /\ w.row \in [Users -> {"none", "offline"}]
        /\ w.friend \subseteq Users \X Users /\ w.groupuser \subseteq Groups \X Users

VARIABLES
    world,
    row,            \* table user: its state, "none" if there is no row
    friend,         \* table friend: pairs <<userid, friendid>>
    groupuser,      \* table groupuser: pairs <<groupid, userid>>
    allgroup,       \* table allgroup: ids
    offline,        \* table offlinemessage: the messages kept for a user
    userConnMap,    \* _userConnMap of each server
    connMtx,        \* who holds _connMtx of each server
    subscribed,     \* the channels each server is subscribed to
    published,      \* what Redis has for each server's observer
    server,         \* "running", "interrupted" or "down"
    handler,        \* what the I/O thread of a connection does
    conn,           \* "open", "closed" by the client, or "gone" for both
    up, down        \* bytes under way to and from the server, as messages

tables == <<row, friend, groupuser, allgroup, offline>>
redis == <<subscribed, published>>
serverVars == <<world, tables, userConnMap, connMtx, redis, server, handler, conn, up, down>>

Free == "free"
Idle == [pc |-> "idle"]

Home(c) == world.home[c]
At(c, pc) == server[Home(c)] # "down" /\ handler[c].pc = pc
Goto(c, pc) == handler' = [handler EXCEPT ![c].pc = pc]
Return(c) == handler' = [handler EXCEPT ![c] = Idle]

\* TcpConnection::send: nothing is sent on a connection that is gone.
Send(c, msg) == down' = IF conn[c] = "open" THEN [down EXCEPT ![c] = Append(@, msg)] ELSE down
Reply(c, msg) == Send(c, msg) /\ Return(c)

ServiceInit ==
    /\ world \in Worlds
    /\ row = world.row /\ friend = world.friend /\ groupuser = world.groupuser
    /\ allgroup = {g[1] : g \in groupuser}
    /\ offline = [u \in Users |-> <<>>]
    /\ userConnMap = [s \in Servers |-> [u \in Users |-> NoConn]]
    /\ connMtx = [s \in Servers |-> Free]
    /\ subscribed = [s \in Servers |-> {}]
    /\ published = [s \in Servers |-> <<>>]
    /\ server = [s \in Servers |-> "running"]
    /\ handler = [c \in Clients |-> Idle]
    /\ conn = [c \in Clients |-> IF c \in world.idle THEN "gone" ELSE "open"]
    /\ up = [c \in Clients |-> <<>>] /\ down = [c \in Clients |-> <<>>]

-----------------------------------------------------------------------------
(* The tables of users and of offline messages, one operator per call.     *)

\* UserModel::query: the state of u, "none" without a row.
UserQuery(u) == row[u]
UpdateState(u, state) == row' = [row EXCEPT ![u] = state]

OfflineQuery(u) == offline[u]
OfflineRemove(u) == offline' = [offline EXCEPT ![u] = <<>>]
OfflineInsert(u, msg) == offline' = [offline EXCEPT ![u] = Append(@, msg)]

-----------------------------------------------------------------------------
(* Handlers.                                                               *)

\* ChatServer::onMessage takes all that has come.  A client ends every message
\* with a null byte, and json::parse stops at the first one: when several
\* messages have come, the others are lost.
OnMessage(c) ==
    /\ At(c, "idle") /\ up[c] # <<>> /\ conn[c] # "gone"
    /\ \E k \in 1 .. Len(up[c]) : up' = [up EXCEPT ![c] = SubSeq(@, k + 1, Len(@))]
    /\ handler' = [handler EXCEPT ![c] =
            [pc |-> Head(up[c]).id, req |-> Head(up[c]), todo |-> <<>>, off |-> <<>>,
             friends |-> <<>>, groups |-> {}]]
    /\ UNCHANGED <<world, tables, userConnMap, connMtx, redis, server, conn, down>>

\* login: UserModel::query and the four cases.
LoginQuery(c) ==
    /\ At(c, "LOG_IN")
    /\ LET req == handler[c].req
           state == UserQuery(req.u)
           err == IF state = "none" THEN 1 ELSE IF ~req.ok THEN 2
                  ELSE IF state = "online" THEN 3 ELSE 0
       IN  \/ err = 0 /\ Goto(c, "updateState") /\ UNCHANGED down
           \/ err # 0 /\ Reply(c, [id |-> "LOG_IN_MSG_ACK", err |-> err])
    /\ UNCHANGED <<world, tables, userConnMap, connMtx, redis, server, conn, up>>

LoginUpdateState(c) ==
    /\ At(c, "updateState")
    /\ UpdateState(handler[c].req.u, "online")
    /\ Goto(c, "insert")
    /\ UNCHANGED <<world, friend, groupuser, allgroup, offline, userConnMap, connMtx, redis,
                   server, conn, up, down>>

\* unordered_map::insert keeps an entry that is there.
LoginInsert(c) ==
    /\ At(c, "insert") /\ connMtx[Home(c)] = Free
    /\ userConnMap' = [userConnMap EXCEPT ![Home(c)][handler[c].req.u] =
                            IF @ = NoConn THEN c ELSE @]
    /\ Goto(c, "query")
    /\ UNCHANGED <<world, tables, connMtx, redis, server, conn, up, down>>

\* OfflineMsgModel::query, then remove
LoginOffline(c) ==
    /\ At(c, "query")
    /\ handler' = [handler EXCEPT ![c].pc = "remove", ![c].off = OfflineQuery(handler[c].req.u)]
    /\ UNCHANGED <<world, tables, userConnMap, connMtx, redis, server, conn, up, down>>

\* Mutant of LoginRemove: the messages stay.
LoginRemoveNothing(c) ==
    /\ At(c, "remove")
    /\ Goto(c, "lists")
    /\ UNCHANGED <<world, tables, userConnMap, connMtx, redis, server, conn, up, down>>

LoginRemove(c) ==
    /\ At(c, "remove")
    /\ OfflineRemove(handler[c].req.u)
    /\ Goto(c, "lists")
    /\ UNCHANGED <<world, row, friend, groupuser, allgroup, userConnMap, connMtx, redis,
                   server, conn, up, down>>

\* FriendModel::query: first those that u has added, then those that added u.
\* Each comes with its state.
FriendsOf(u) ==
    LET Rows(set) == [i \in DOMAIN SetToSeq(set) |-> [u |-> SetToSeq(set)[i],
                                                      state |-> row[SetToSeq(set)[i]]]]
    IN  Rows({f \in Users : <<u, f>> \in friend}) \o Rows({f \in Users : <<f, u>> \in friend})

\* GroupModel::queryUserAllGroup
GroupsOf(u) == {g \in Groups : <<g, u>> \in groupuser}

\* GroupModel::queryOneGroup
MembersBut(g, u) == {x \in Users : <<g, x>> \in groupuser} \ {u}

\* RedisCache::subscribe and unsubscribe send the command and do not wait.
Subscribe(s, u) == subscribed' = [subscribed EXCEPT ![s] = @ \cup {u}]
Unsubscribe(s, u) == subscribed' = [subscribed EXCEPT ![s] = @ \ {u}]

\* The friends and groups are read and Redis is asked for u's channel; the
\* friends are told next.
LoginLists(c) ==
    /\ At(c, "lists")
    /\ LET u == handler[c].req.u
           friends == FriendsOf(u)
       IN  /\ handler' = [handler EXCEPT ![c].pc = "look", ![c].friends = friends,
                                         ![c].groups = GroupsOf(u),
                                         ![c].todo = [i \in DOMAIN friends |-> friends[i].u]]
           /\ Subscribe(Home(c), u)
    /\ UNCHANGED <<world, tables, userConnMap, connMtx, published, server, conn, up, down>>

\* logout
LogoutErase(c) ==
    /\ At(c, "LOG_OUT") /\ connMtx[Home(c)] = Free
    /\ userConnMap' = [userConnMap EXCEPT ![Home(c)][handler[c].req.u] = NoConn]
    /\ Goto(c, "offline")
    /\ UNCHANGED <<world, tables, connMtx, redis, server, conn, up, down>>

LogoutUpdateState(c) ==
    /\ At(c, "offline")
    /\ UpdateState(handler[c].req.u, "offline")
    /\ Goto(c, "unsubscribe")
    /\ UNCHANGED <<world, friend, groupuser, allgroup, offline, userConnMap, connMtx, redis,
                   server, conn, up, down>>

LogoutUnsubscribe(c) ==
    /\ At(c, "unsubscribe")
    /\ Unsubscribe(Home(c), handler[c].req.u)
    /\ LET friends == FriendsOf(handler[c].req.u)
       IN  handler' = [handler EXCEPT ![c].pc = "look",
                                      ![c].todo = [i \in DOMAIN friends |-> friends[i].u]]
    /\ UNCHANGED <<world, tables, userConnMap, connMtx, published, server, conn, up, down>>

\* oneChat has one receiver, groupChat those that queryOneGroup finds.
ChatReceivers(c) ==
    /\ At(c, "ONE_CHAT") \/ At(c, "GROUP_CHAT")
    /\ LET req == handler[c].req
       IN  handler' = [handler EXCEPT ![c].pc = "look", ![c].todo =
                IF req.id = "ONE_CHAT" THEN <<req.to>>
                ELSE SetToSeq(MembersBut(req.to, req.u))]
    /\ UNCHANGED <<world, tables, userConnMap, connMtx, redis, server, conn, up, down>>

-----------------------------------------------------------------------------
(* Getting a message to its receivers: the end of oneChat and the loops of *)
(* groupChat, login and logout.  The loops keep _connMtx, oneChat has it   *)
(* for the look into the map only.  for is the receiver.                   *)

IsChat(req) == req.id \in {"ONE_CHAT", "GROUP_CHAT"}
Push(req, receiver) ==
    CASE IsChat(req) -> [id |-> req.id, u |-> req.u, n |-> req.n, for |-> receiver]
      [] req.id = "LOG_IN" -> [id |-> "FRIEND_ONLINE", u |-> req.u, for |-> receiver]
      [] OTHER -> [id |-> "FRIEND_OFFLINE", u |-> req.u, for |-> receiver]

\* Who has the mutex after a receiver was looked up.
LockAfterLook(c, more) ==
    connMtx' = [connMtx EXCEPT ![Home(c)] =
                    IF more /\ handler[c].req.id # "ONE_CHAT" THEN c ELSE Free]

Look(c) ==
    /\ At(c, "look") /\ handler[c].todo # <<>>
    /\ connMtx[Home(c)] \in {Free, c}
    /\ LET receiver == Head(handler[c].todo)
           found == userConnMap[Home(c)][receiver]
       IN  \/ /\ found # NoConn
              /\ Send(found, Push(handler[c].req, receiver))
              /\ handler' = [handler EXCEPT ![c].todo = Tail(@)]
              /\ LockAfterLook(c, Tail(handler[c].todo) # <<>>)
           \/ /\ found = NoConn
              /\ Goto(c, "ask")
              /\ LockAfterLook(c, TRUE)
              /\ UNCHANGED down
    /\ UNCHANGED <<world, tables, userConnMap, redis, server, conn, up>>

\* UserModel::query: is the receiver online, elsewhere?
Ask(c) ==
    /\ At(c, "ask")
    /\ Goto(c, IF UserQuery(Head(handler[c].todo)) = "online" THEN "publish" ELSE "store")
    /\ UNCHANGED <<world, tables, userConnMap, connMtx, redis, server, conn, up, down>>

\* oneChat gave the mutex up before it asked.
NextReceiver(c) ==
    /\ handler' = [handler EXCEPT ![c].pc = "look", ![c].todo = Tail(@)]
    /\ IF handler[c].req.id = "ONE_CHAT" THEN UNCHANGED connMtx
       ELSE LockAfterLook(c, Tail(handler[c].todo) # <<>>)

\* RedisCache::publish: to every server that is subscribed now.
Publish(c) ==
    /\ At(c, "publish")
    /\ LET receiver == Head(handler[c].todo)
       IN  published' = [s \in Servers |->
                IF receiver \in subscribed[s]
                THEN Append(published[s], Push(handler[c].req, receiver)) ELSE published[s]]
    /\ NextReceiver(c)
    /\ UNCHANGED <<world, tables, userConnMap, subscribed, server, conn, up, down>>

\* A chat is kept for a receiver that is offline, a push is not.
Store(c) ==
    /\ At(c, "store")
    /\ LET receiver == Head(handler[c].todo)
       IN  IF IsChat(handler[c].req)
           THEN OfflineInsert(receiver, Push(handler[c].req, receiver))
           ELSE UNCHANGED offline
    /\ NextReceiver(c)
    /\ UNCHANGED <<world, row, friend, groupuser, allgroup, userConnMap, redis, server,
                   conn, up, down>>

\* No receiver is left; login answers now.
Told(c) ==
    /\ At(c, "look") /\ handler[c].todo = <<>>
    /\ IF handler[c].req.id = "LOG_IN"
       THEN Reply(c, [id |-> "LOG_IN_MSG_ACK", err |-> 0, u |-> handler[c].req.u,
                      off |-> handler[c].off, friends |-> handler[c].friends,
                      groups |-> handler[c].groups])
       ELSE Return(c) /\ UNCHANGED down
    /\ UNCHANGED <<world, tables, userConnMap, connMtx, redis, server, conn, up>>

-----------------------------------------------------------------------------
(* The tables of users, friends and groups.                                *)

\* UserModel::insert: a row with the next id.
UserInsert(u) == row[u] = "none" /\ row' = [row EXCEPT ![u] = "offline"]

\* regis: the insert may fail.
Regis(c) ==
    /\ At(c, "REG")
    /\ \/ \E u \in Users : UserInsert(u) /\ Reply(c, [id |-> "REG_MSG_ACK", err |-> 0])
       \/ UNCHANGED row /\ Reply(c, [id |-> "REG_MSG_ACK", err |-> -1])
    /\ UNCHANGED <<world, friend, groupuser, allgroup, offline, userConnMap, connMtx, redis,
                   server, conn, up>>

\* FriendModel::insert refuses a friend without a row.
FriendInsert(u, f) == friend' = IF row[f] = "none" THEN friend ELSE friend \cup {<<u, f>>}

\* addFriend: the insert ...
AddFriend(c) ==
    /\ At(c, "ADD_FRIEND")
    /\ LET req == handler[c].req
       IN  /\ FriendInsert(req.u, req.to)
           /\ IF row[req.to] # "none" THEN Goto(c, "friendInfo") /\ UNCHANGED down
              ELSE Reply(c, [id |-> "ADD_FRIEND_ACK", err |-> -1])
    /\ UNCHANGED <<world, row, groupuser, allgroup, offline, userConnMap, connMtx, redis,
                   server, conn, up>>

\* ... and UserModel::query for the answer.
AddFriendInfo(c) ==
    /\ At(c, "friendInfo")
    /\ LET f == handler[c].req.to
       IN  Reply(c, [id |-> "ADD_FRIEND_ACK", err |-> 0, u |-> f, state |-> UserQuery(f)])
    /\ UNCHANGED <<world, tables, userConnMap, connMtx, redis, server, conn, up>>

\* GroupModel::createGroup: a row of allgroup with the next id.
GroupCreate(g) == g \notin allgroup /\ allgroup' = allgroup \cup {g}

\* GroupModel::addUser refuses an unknown group.
GroupAddUser(u, g) == groupuser' = IF g \in allgroup THEN groupuser \cup {<<g, u>>} ELSE groupuser

\* GroupModel::query: the group, if it is there.
GroupQuery(g) == {g} \cap allgroup

\* createGroup: the group, or a failure ...
CreateGroup(c) ==
    /\ At(c, "CREATE_GROUP")
    /\ \/ \E g \in Groups :
            /\ GroupCreate(g)
            /\ handler' = [handler EXCEPT ![c].pc = "creator", ![c].groups = {g}]
            /\ UNCHANGED down
       \/ UNCHANGED allgroup /\ Reply(c, [id |-> "CREATE_GROUP_ACK", err |-> -1])
    /\ UNCHANGED <<world, row, friend, groupuser, offline, userConnMap, connMtx, redis, server,
                   conn, up>>

\* ... and its creator.
CreateGroupCreator(c) ==
    /\ At(c, "creator")
    /\ \E g \in handler[c].groups :
        /\ GroupAddUser(handler[c].req.u, g)
        /\ Reply(c, [id |-> "CREATE_GROUP_ACK", err |-> 0, to |-> g])
    /\ UNCHANGED <<world, row, friend, allgroup, offline, userConnMap, connMtx, redis, server,
                   conn, up>>

\* addToGroup: GroupModel::query for the answer ...
AddToGroup(c) ==
    /\ At(c, "ADD_TO_GROUP")
    /\ handler' = [handler EXCEPT ![c].pc = "addUser",
                                  ![c].groups = GroupQuery(handler[c].req.to)]
    /\ UNCHANGED <<world, tables, userConnMap, connMtx, redis, server, conn, up, down>>

\* ... and the row; the answer says no if either of them failed.
AddToGroupUser(c) ==
    /\ At(c, "addUser")
    /\ LET req == handler[c].req
       IN  /\ GroupAddUser(req.u, req.to)
           /\ Reply(c, [id |-> "ADD_TO_GROUP_ACK", to |-> req.to,
                        err |-> IF handler[c].groups # {} THEN 0 ELSE -1])
    /\ UNCHANGED <<world, row, friend, allgroup, offline, userConnMap, connMtx, redis, server,
                   conn, up>>

-----------------------------------------------------------------------------
(* Disconnection, Redis and the end of a server.                           *)

\* onConnection and clientCloseException: who was it (one of them, if there are
\* several) ...  A client that was reset takes its last requests with it.
CloseFind(c) ==
    /\ At(c, "idle") /\ conn[c] = "closed"
    /\ connMtx[Home(c)] = Free
    /\ up' = [up EXCEPT ![c] = <<>>]
    /\ conn' = [conn EXCEPT ![c] = "gone"]
    /\ LET found == {u \in Users : userConnMap[Home(c)][u] = c}
       IN  \/ /\ found = {} /\ UNCHANGED handler
           \/ \E u \in found :
                handler' = [handler EXCEPT ![c] = [pc |-> "erase", req |-> [id |-> "CLOSE", u |-> u]]]
    /\ UNCHANGED <<world, tables, userConnMap, connMtx, redis, server, down>>

\* ... out of the map ...
CloseErase(c) ==
    /\ At(c, "erase") /\ connMtx[Home(c)] = Free
    /\ userConnMap' = [userConnMap EXCEPT ![Home(c)][handler[c].req.u] = NoConn]
    /\ Goto(c, "closeState")
    /\ UNCHANGED <<world, tables, connMtx, redis, server, conn, up, down>>

\* Mutant of CloseUpdateState: the row stays as it is.
CloseUpdateNothing(c) ==
    /\ At(c, "closeState")
    /\ Return(c)
    /\ UNCHANGED <<world, tables, userConnMap, connMtx, redis, server, conn, up, down>>

\* ... and offline: the User's state is "offline" since it was made.
CloseUpdateState(c) ==
    /\ At(c, "closeState")
    /\ UpdateState(handler[c].req.u, "offline")
    /\ Return(c)
    /\ UNCHANGED <<world, friend, groupuser, allgroup, offline, userConnMap, connMtx, redis,
                   server, conn, up, down>>

\* RedisCache::observer_channel_message: the observer takes the next message ...
Observes(s) == published' = [published EXCEPT ![s] = Tail(@)]

\* ... and calls redisNotifyHandler with it.
RedisNotify(s) ==
    /\ server[s] # "down" /\ published[s] # <<>> /\ connMtx[s] = Free
    /\ LET msg == Head(published[s])
           found == userConnMap[s][msg.for]
       IN  \/ found # NoConn /\ Send(found, msg) /\ UNCHANGED offline
           \/ /\ found = NoConn
              /\ OfflineInsert(msg.for, msg)
              /\ UNCHANGED down
    /\ Observes(s)
    /\ UNCHANGED <<world, row, friend, groupuser, allgroup, userConnMap, connMtx, subscribed,
                   server, handler, conn, up>>

\* UserModel::offlineAll: the users of all servers.
OfflineAll == row' = [u \in Users |-> IF row[u] = "online" THEN "offline" ELSE row[u]]

\* SIGINT: myhandler calls serverCloseException ...
Interrupt(s) ==
    /\ "SIGINT" \in world.may /\ server[s] = "running"
    /\ OfflineAll
    /\ server' = [server EXCEPT ![s] = "interrupted"]
    /\ UNCHANGED <<world, friend, groupuser, allgroup, offline, userConnMap, connMtx, redis,
                   handler, conn, up, down>>

\* ... and exit, which closes the connections.
Exit(s) ==
    /\ server[s] = "interrupted"
    /\ server' = [server EXCEPT ![s] = "down"]
    /\ conn' = [c \in Clients |-> IF Home(c) = s /\ conn[c] = "open" THEN "gone" ELSE conn[c]]
    /\ UNCHANGED <<world, tables, userConnMap, connMtx, redis, handler, up, down>>

Handle(c) ==
    \/ OnMessage(c)
    \/ LoginQuery(c) \/ LoginUpdateState(c) \/ LoginInsert(c) \/ LoginOffline(c)
    \/ LoginRemove(c) \/ LoginLists(c)
    \/ LogoutErase(c) \/ LogoutUpdateState(c) \/ LogoutUnsubscribe(c)
    \/ ChatReceivers(c) \/ Look(c) \/ Ask(c) \/ Publish(c) \/ Store(c) \/ Told(c)
    \/ Regis(c) \/ AddFriend(c) \/ AddFriendInfo(c)
    \/ CreateGroup(c) \/ CreateGroupCreator(c) \/ AddToGroup(c) \/ AddToGroupUser(c)
    \/ CloseFind(c) \/ CloseErase(c) \/ CloseUpdateState(c)

ServiceStep ==
    \/ \E c \in Clients : Handle(c)
    \/ \E s \in Servers : RedisNotify(s) \/ Interrupt(s) \/ Exit(s)

=============================================================================
