----------------------------- MODULE Chat_proofs -----------------------------
(***************************************************************************)
(* Proofs about the chat service and its clients, for any users, clients,  *)
(* servers and groups, whatever users do, while no account is used by two  *)
(* clients at a time.                                                      *)
(***************************************************************************)
EXTENDS ChatClient, FiniteSetTheorems, SequenceTheorems, TLAPS

\* The clients of an account are used one after the other.
OneSession == \A w \in Worlds : ~w.shared

\* The clients of an account are clients of one server.
OneHome ==
  \A w \in Worlds : \A c, d \in Clients : w.account[c] = w.account[d] => w.home[c] = w.home[d]

-----------------------------------------------------------------------------
(* Sequences of messages.                                                  *)

IsSeq(s) == \E S : s \in Seq(S)

(* One message more.                                                       *)
LEMMA AppendFacts ==
  ASSUME NEW s, IsSeq(s), NEW x
  PROVE  /\ IsSeq(Append(s, x)) /\ Len(s) \in Nat /\ DOMAIN s = 1 .. Len(s)
         /\ Len(Append(s, x)) = Len(s) + 1 /\ DOMAIN Append(s, x) = 1 .. Len(s) + 1
         /\ \A i \in 1 .. Len(s) : Append(s, x)[i] = s[i]
         /\ Append(s, x)[Len(s) + 1] = x
<1>1. PICK S : s \in Seq(S)
  BY DEF IsSeq
<1>2. PICK T : T = S \cup {x}
  OBVIOUS
<1>3. s \in Seq(T) /\ x \in T
  BY <1>1, <1>2
<1>4. Append(s, x) \in Seq(T)
  BY <1>3
<1> QED
  BY <1>3, <1>4 DEF IsSeq

\* r is s without its first k.
Dropped(s, k, r) == k \in 1 .. Len(s) /\ r = SubSeq(s, k + 1, Len(s))

(* Without the first k.                                                    *)
LEMMA DropFacts ==
  ASSUME NEW s, IsSeq(s), NEW k, NEW r, Dropped(s, k, r)
  PROVE  /\ IsSeq(r) /\ Len(s) \in Nat /\ DOMAIN s = 1 .. Len(s)
         /\ Len(r) = Len(s) - k /\ DOMAIN r = 1 .. Len(s) - k
         /\ \A i \in 1 .. Len(s) - k : r[i] = s[i + k] /\ i + k \in 1 .. Len(s)
         /\ k \in 1 .. Len(s)
<1> USE DEF Dropped
<1>1. PICK S : s \in Seq(S)
  BY DEF IsSeq
<1>2. Len(s) \in Nat
  BY <1>1
<1>3. r \in Seq(S)
  BY <1>1, <1>2
<1>4. Len(r) = Len(s) - k /\ DOMAIN r = 1 .. Len(s) - k /\ DOMAIN s = 1 .. Len(s)
  BY <1>1, <1>2
<1>5. \A i \in 1 .. Len(s) - k : r[i] = s[i + k] /\ i + k \in 1 .. Len(s)
  BY <1>1, <1>2
<1> QED
  BY <1>2, <1>3, <1>4, <1>5 DEF IsSeq

(* Without the first one.                                                  *)
LEMMA TailFacts ==
  ASSUME NEW s, IsSeq(s), s # <<>>
  PROVE  /\ IsSeq(Tail(s)) /\ Len(s) \in Nat /\ Len(s) >= 1 /\ DOMAIN s = 1 .. Len(s)
         /\ Head(s) = s[1] /\ Len(Tail(s)) = Len(s) - 1 /\ DOMAIN Tail(s) = 1 .. Len(s) - 1
         /\ \A i \in 1 .. Len(s) - 1 : Tail(s)[i] = s[i + 1] /\ i + 1 \in 1 .. Len(s)
<1>1. PICK S : s \in Seq(S)
  BY DEF IsSeq
<1>2. Len(s) \in Nat /\ Len(s) # 0
  BY <1>1
<1>3. Tail(s) \in Seq(S)
  BY <1>1
<1> QED
  BY <1>1, <1>2, <1>3 DEF IsSeq

(* No message.                                                             *)
LEMMA NoMessage == IsSeq(<<>>) /\ DOMAIN <<>> = {} /\ Len(<<>>) = 0
BY DEF IsSeq

-----------------------------------------------------------------------------
(* What a client and its connection do.                                    *)

RequestIds == {"LOG_IN", "REG", "LOG_OUT", "ONE_CHAT", "GROUP_CHAT", "ADD_FRIEND",
               "CREATE_GROUP", "ADD_TO_GROUP"}
Asks == {"LOG_IN", "REG"}                       \* the client waits for an answer
Answers == {"LOG_IN_MSG_ACK", "REG_MSG_ACK"}
Telling == {"look", "ask", "publish", "store"}  \* receivers are told

\* The handler of a request of id may be at pc.
PcOK(pc, id) ==
  \/ pc = id /\ id \in RequestIds
  \/ id = "LOG_IN" /\ pc \in {"updateState", "insert", "query", "remove", "lists"} \cup Telling
  \/ id = "LOG_OUT" /\ pc \in {"offline", "unsubscribe"} \cup Telling
  \/ id \in {"ONE_CHAT", "GROUP_CHAT"} /\ pc \in Telling
  \/ id = "ADD_FRIEND" /\ pc = "friendInfo"
  \/ id = "CREATE_GROUP" /\ pc = "creator"
  \/ id = "ADD_TO_GROUP" /\ pc = "addUser"
  \/ id = "CLOSE" /\ pc \in {"erase", "closeState"}

Fields == {"pc", "req", "todo", "off", "friends", "groups"}

\* A handler of a client of user u.
HandlerOK(h, u) ==
  \/ h = Idle
  \/ /\ DOMAIN h = (IF h.req.id = "CLOSE" THEN {"pc", "req"} ELSE Fields)
     /\ PcOK(h.pc, h.req.id)
     /\ h.req.id # "REG" => h.req.u = u

Serves(h, id) == h.pc # "idle" /\ h.req.id = id
Awaited(h) == Serves(h, "LOG_IN") \/ Serves(h, "REG")
Has(seq, id) == \E i \in DOMAIN seq : seq[i].id = id

\* At most one of the messages of seq has an id of ids.
OneOf(seq, ids) ==
  \A i, j \in DOMAIN seq : seq[i].id \in ids /\ seq[j].id \in ids => i = j
NoneOf(seq, ids) == \A i \in DOMAIN seq : seq[i].id \notin ids

\* What a client waits for is in one place: a request under way, a handler,
\* an answer under way, or the semaphore.  At a menu it waits for nothing.
Waiting(m, w, us, ds, h) ==
  /\ m \in {"menu", "login", "reg", "chat", "exited"} /\ w \in {0, 1}
  /\ OneOf(us, Asks) /\ OneOf(ds, Answers)
  /\ NoneOf(us, Asks) \/ (~Awaited(h) /\ NoneOf(ds, Answers) /\ w = 0)
  /\ Awaited(h) => NoneOf(ds, Answers) /\ w = 0
  /\ NoneOf(ds, Answers) \/ w = 0
  /\ m \in {"menu", "chat"} => NoneOf(us, Asks) /\ ~Awaited(h) /\ NoneOf(ds, Answers) /\ w = 0

RequestsOK(us, u) ==
  IsSeq(us) /\ \A i \in DOMAIN us : us[i].id \in RequestIds /\ (us[i].id # "REG" => us[i].u = u)

ClientOK(c) ==
  /\ HandlerOK(handler[c], world.account[c]) /\ RequestsOK(up[c], world.account[c])
  /\ IsSeq(down[c])
  /\ Waiting(main[c], rwsem[c], up[c], down[c], handler[c])

\* A login of the account is under way.
InLogin(c) == (conn[c] # "gone" /\ Has(up[c], "LOG_IN")) \/ Serves(handler[c], "LOG_IN")

ChatTypes ==
  /\ world \in Worlds
  /\ DOMAIN handler = Clients /\ DOMAIN up = Clients
  /\ DOMAIN down = Clients /\ DOMAIN conn = Clients /\ DOMAIN main = Clients
  /\ DOMAIN rwsem = Clients /\ DOMAIN isLoginSuccess = Clients /\ typed \in Nat
  /\ DOMAIN server = Servers

\* Pushes are no answers.
PushesOK ==
  /\ DOMAIN published = Servers
  /\ \A s \in Servers : IsSeq(published[s]) /\ NoneOf(published[s], Answers)

OneLogin ==
  \A c, d \in Clients :
    world.account[c] = world.account[d] /\ InLogin(c) /\ InLogin(d) => c = d

\* An entry of _userConnMap is a connection of its server and of its user.
EntriesOK ==
  /\ DOMAIN userConnMap = Servers
  /\ \A s \in Servers : DOMAIN userConnMap[s] = Users
  /\ \A s \in Servers, u \in Users :
       userConnMap[s][u] # NoConn =>
         /\ userConnMap[s][u] \in Clients
         /\ world.home[userConnMap[s][u]] = s /\ world.account[userConnMap[s][u]] = u

SessionInv ==
  ChatTypes /\ PushesOK /\ EntriesOK /\ (\A c \in Clients : ClientOK(c)) /\ OneLogin

-----------------------------------------------------------------------------
(* The steps of a handler.                                                 *)

\* A handler returns or goes on with its request.
HandlerMoves(c) ==
  /\ DOMAIN handler' = Clients
  /\ \A d \in Clients \ {c} : handler'[d] = handler[d]
  /\ \/ handler'[c] = Idle
     \/ /\ handler[c].pc # "idle" /\ handler'[c].pc # "idle"
        /\ handler'[c].req = handler[c].req
        /\ HandlerOK(handler'[c], world.account[c])

\* An answer goes to the client whose handler gives it and returns; a login
\* succeeds at its end.
MayAnswer(c, d, m) ==
  m.id \in Answers =>
    /\ d = c /\ handler'[c] = Idle
    /\ m.id = "LOG_IN_MSG_ACK" => Serves(handler[c], "LOG_IN") /\ (m.err = 0 => handler[c].pc = "look")
    /\ m.id = "REG_MSG_ACK" => Serves(handler[c], "REG")

\* What a handler sends.
Sends(c) ==
  /\ DOMAIN down' = Clients
  /\ \A d \in Clients :
       \/ down'[d] = down[d]
       \/ conn[d] = "open" /\ \E m : down'[d] = Append(down[d], m) /\ MayAnswer(c, d, m)

Served(c) ==
  /\ UNCHANGED <<world, up, conn, server, typed, main, rwsem, isLoginSuccess>>
  /\ HandlerMoves(c) /\ Sends(c) /\ PushesOK'
  /\ handler[c] # Idle

(* A handler that is not idle has a request.                               *)
LEMMA BusyHandler ==
  ASSUME NEW h, NEW u, HandlerOK(h, u), h.pc # "idle"
  PROVE  /\ DOMAIN h = (IF h.req.id = "CLOSE" THEN {"pc", "req"} ELSE Fields)
         /\ PcOK(h.pc, h.req.id) /\ (h.req.id # "REG" => h.req.u = u)
         /\ h # Idle
BY DEF HandlerOK, Idle

(* Only an idle handler has no request.                                    *)
LEMMA IdleHandler ==
  ASSUME NEW h, NEW u, HandlerOK(h, u)
  PROVE  /\ h.pc = "idle" <=> h = Idle
         /\ h = Idle => ~Awaited(h) /\ \A id : ~Serves(h, id)
<1>1. Idle.pc = "idle"
  BY DEF Idle
<1>2. h # Idle => h.pc # "idle"
  BY DEF HandlerOK, PcOK, RequestIds, Telling
<1> QED
  BY <1>1, <1>2 DEF Awaited, Serves

(* A handler at another place.                                             *)
LEMMA MovedHandler ==
  ASSUME NEW h, NEW u, HandlerOK(h, u), h.pc # "idle", NEW g,
         DOMAIN g = DOMAIN h, g.req = h.req, PcOK(g.pc, h.req.id)
  PROVE  HandlerOK(g, u) /\ g.pc # "idle"
<1>1. g.pc # "idle"
  BY DEF PcOK, RequestIds, Telling
<1> QED
  BY <1>1, BusyHandler DEF HandlerOK

(* Goto.                                                                   *)
LEMMA GotoMoves ==
  ASSUME NEW c \in Clients, ChatTypes, ClientOK(c), handler[c].pc # "idle",
         NEW p, Goto(c, p), PcOK(p, handler[c].req.id)
  PROVE  /\ HandlerMoves(c) /\ handler[c] # Idle /\ handler'[c].pc = p
         /\ handler'[c].req = handler[c].req
         /\ handler'[c] = [handler[c] EXCEPT !.pc = p]
<1>1. DOMAIN handler = Clients
  BY DEF ChatTypes
<1>2. HandlerOK(handler[c], world.account[c])
  BY DEF ClientOK
<1>3. /\ DOMAIN handler[c] = (IF handler[c].req.id = "CLOSE" THEN {"pc", "req"} ELSE Fields)
      /\ handler[c] # Idle
  BY <1>2, BusyHandler
<1>4. {"pc", "req"} \subseteq DOMAIN handler[c]
  BY <1>3 DEF Fields
<1>5. handler'[c] = [handler[c] EXCEPT !.pc = p] /\ DOMAIN handler' = Clients
      /\ \A d \in Clients \ {c} : handler'[d] = handler[d]
  BY <1>1 DEF Goto
<1>6. DOMAIN handler'[c] = DOMAIN handler[c] /\ handler'[c].pc = p
      /\ handler'[c].req = handler[c].req
  BY <1>4, <1>5
<1>7. HandlerOK(handler'[c], world.account[c]) /\ handler'[c].pc # "idle"
  BY <1>2, <1>6, MovedHandler
<1> QED
  BY <1>3, <1>5, <1>6, <1>7 DEF HandlerMoves

(* Return.                                                                 *)
LEMMA ReturnMoves ==
  ASSUME NEW c \in Clients, ChatTypes, ClientOK(c), handler[c].pc # "idle", Return(c)
  PROVE  HandlerMoves(c) /\ handler[c] # Idle /\ handler'[c] = Idle
<1>1. DOMAIN handler = Clients
  BY DEF ChatTypes
<1>2. handler[c] # Idle
  BY DEF Idle
<1> QED
  BY <1>1, <1>2 DEF Return, HandlerMoves

(* Nothing is sent.                                                        *)
LEMMA NothingSent ==
  ASSUME NEW c, ChatTypes, UNCHANGED down
  PROVE  Sends(c)
BY DEF ChatTypes, Sends

(* TcpConnection::send.                                                    *)
LEMMA SendSends ==
  ASSUME NEW c, ChatTypes, NEW d, NEW m, Send(d, m), d \in Clients => MayAnswer(c, d, m)
  PROVE  Sends(c)
<1>1. DOMAIN down = Clients
  BY DEF ChatTypes
<1>2. CASE conn[d] = "open"
  <2>1. down' = [down EXCEPT ![d] = Append(down[d], m)]
    BY <1>2 DEF Send
  <2>2. DOMAIN down' = Clients /\ \A e \in Clients : e # d => down'[e] = down[e]
    BY <1>1, <2>1
  <2>3. d \in Clients => down'[d] = Append(down[d], m)
    BY <1>1, <2>1
  <2> QED
    BY <1>2, <2>2, <2>3 DEF Sends
<1>3. CASE conn[d] # "open"
  BY <1>1, <1>3 DEF Send, Sends
<1> QED
  BY <1>2, <1>3

(* A push is no answer (oneChat, groupChat, login, logout).                *)
LEMMA PushIsNoAnswer ==
  ASSUME NEW req, NEW r
  PROVE  Push(req, r).id \notin Answers
<1>1. CASE IsChat(req)
  <2>1. Push(req, r) = [id |-> req.id, u |-> req.u, n |-> req.n, for |-> r]
    BY <1>1 DEF Push, IsChat
  <2> QED
    BY <1>1, <2>1 DEF IsChat, Answers
<1>2. CASE ~IsChat(req) /\ req.id = "LOG_IN"
  BY <1>2 DEF Push, Answers
<1>3. CASE ~IsChat(req) /\ req.id # "LOG_IN"
  BY <1>3 DEF Push, Answers
<1> QED
  BY <1>1, <1>2, <1>3

(* LoginUpdateState.                                                      *)
LEMMA UpdateStateServes ==
  ASSUME SessionInv, NEW c \in Clients, LoginUpdateState(c), UNCHANGED clientVars
  PROVE  Served(c)
<1>1. /\ handler[c].pc = "updateState" /\ Goto(c, "insert") /\ ChatTypes /\ ClientOK(c) /\ PushesOK
      /\ UNCHANGED <<world, up, conn, server, down, published>>
  BY DEF LoginUpdateState, At, SessionInv, redis, tables
<1>2. PcOK("insert", handler[c].req.id)
  BY <1>1, BusyHandler DEF ClientOK, PcOK, RequestIds, Telling
<1>3. HandlerMoves(c) /\ handler[c] # Idle
  BY <1>1, <1>2, GotoMoves
<1>4. Sends(c)
  BY <1>1, NothingSent
<1> QED
  BY <1>1, <1>3, <1>4 DEF Served, PushesOK, clientVars

(* LoginInsert.                                                           *)
LEMMA InsertServes ==
  ASSUME SessionInv, NEW c \in Clients, LoginInsert(c), UNCHANGED clientVars
  PROVE  Served(c)
<1>1. /\ handler[c].pc = "insert" /\ Goto(c, "query") /\ ChatTypes /\ ClientOK(c) /\ PushesOK
      /\ UNCHANGED <<world, up, conn, server, down, published>>
  BY DEF LoginInsert, At, SessionInv, redis, tables
<1>2. PcOK("query", handler[c].req.id)
  BY <1>1, BusyHandler DEF ClientOK, PcOK, RequestIds, Telling
<1>3. HandlerMoves(c) /\ handler[c] # Idle
  BY <1>1, <1>2, GotoMoves
<1>4. Sends(c)
  BY <1>1, NothingSent
<1> QED
  BY <1>1, <1>3, <1>4 DEF Served, PushesOK, clientVars

(* LoginRemove.                                                           *)
LEMMA RemoveServes ==
  ASSUME SessionInv, NEW c \in Clients, LoginRemove(c), UNCHANGED clientVars
  PROVE  Served(c)
<1>1. /\ handler[c].pc = "remove" /\ Goto(c, "lists") /\ ChatTypes /\ ClientOK(c) /\ PushesOK
      /\ UNCHANGED <<world, up, conn, server, down, published>>
  BY DEF LoginRemove, At, SessionInv, redis, tables
<1>2. PcOK("lists", handler[c].req.id)
  BY <1>1, BusyHandler DEF ClientOK, PcOK, RequestIds, Telling
<1>3. HandlerMoves(c) /\ handler[c] # Idle
  BY <1>1, <1>2, GotoMoves
<1>4. Sends(c)
  BY <1>1, NothingSent
<1> QED
  BY <1>1, <1>3, <1>4 DEF Served, PushesOK, clientVars

(* LogoutErase.                                                           *)
LEMMA LogoutEraseServes ==
  ASSUME SessionInv, NEW c \in Clients, LogoutErase(c), UNCHANGED clientVars
  PROVE  Served(c)
<1>1. /\ handler[c].pc = "LOG_OUT" /\ Goto(c, "offline") /\ ChatTypes /\ ClientOK(c) /\ PushesOK
      /\ UNCHANGED <<world, up, conn, server, down, published>>
  BY DEF LogoutErase, At, SessionInv, redis, tables
<1>2. PcOK("offline", handler[c].req.id)
  BY <1>1, BusyHandler DEF ClientOK, PcOK, RequestIds, Telling
<1>3. HandlerMoves(c) /\ handler[c] # Idle
  BY <1>1, <1>2, GotoMoves
<1>4. Sends(c)
  BY <1>1, NothingSent
<1> QED
  BY <1>1, <1>3, <1>4 DEF Served, PushesOK, clientVars

(* LogoutUpdateState.                                                     *)
LEMMA LogoutUpdateServes ==
  ASSUME SessionInv, NEW c \in Clients, LogoutUpdateState(c), UNCHANGED clientVars
  PROVE  Served(c)
<1>1. /\ handler[c].pc = "offline" /\ Goto(c, "unsubscribe") /\ ChatTypes /\ ClientOK(c) /\ PushesOK
      /\ UNCHANGED <<world, up, conn, server, down, published>>
  BY DEF LogoutUpdateState, At, SessionInv, redis, tables
<1>2. PcOK("unsubscribe", handler[c].req.id)
  BY <1>1, BusyHandler DEF ClientOK, PcOK, RequestIds, Telling
<1>3. HandlerMoves(c) /\ handler[c] # Idle
  BY <1>1, <1>2, GotoMoves
<1>4. Sends(c)
  BY <1>1, NothingSent
<1> QED
  BY <1>1, <1>3, <1>4 DEF Served, PushesOK, clientVars

(* CloseErase.                                                            *)
LEMMA CloseEraseServes ==
  ASSUME SessionInv, NEW c \in Clients, CloseErase(c), UNCHANGED clientVars
  PROVE  Served(c)
<1>1. /\ handler[c].pc = "erase" /\ Goto(c, "closeState") /\ ChatTypes /\ ClientOK(c) /\ PushesOK
      /\ UNCHANGED <<world, up, conn, server, down, published>>
  BY DEF CloseErase, At, SessionInv, redis, tables
<1>2. PcOK("closeState", handler[c].req.id)
  BY <1>1, BusyHandler DEF ClientOK, PcOK, RequestIds, Telling
<1>3. HandlerMoves(c) /\ handler[c] # Idle
  BY <1>1, <1>2, GotoMoves
<1>4. Sends(c)
  BY <1>1, NothingSent
<1> QED
  BY <1>1, <1>3, <1>4 DEF Served, PushesOK, clientVars

(* LoginOffline.                                                          *)
LEMMA OfflineServes ==
  ASSUME SessionInv, NEW c \in Clients, LoginOffline(c), UNCHANGED clientVars
  PROVE  Served(c)
<1>1. /\ handler[c].pc = "query" /\ ChatTypes /\ ClientOK(c) /\ PushesOK
      /\ UNCHANGED <<world, up, conn, server, down, published>>
  BY DEF LoginOffline, At, SessionInv, redis, tables
<1>2. PcOK("remove", handler[c].req.id) /\ DOMAIN handler[c] = Fields /\ handler[c].pc # "idle"
  BY <1>1, BusyHandler DEF ClientOK, PcOK, RequestIds, Telling
<1>3. /\ DOMAIN handler'[c] = DOMAIN handler[c] /\ handler'[c].pc = "remove"
      /\ handler'[c].req = handler[c].req
      /\ DOMAIN handler' = Clients /\ \A d \in Clients \ {c} : handler'[d] = handler[d]
  BY <1>1, <1>2 DEF LoginOffline, ChatTypes, Fields
<1>4. HandlerMoves(c) /\ handler[c] # Idle
  BY <1>1, <1>2, <1>3, MovedHandler, BusyHandler DEF ClientOK, HandlerMoves
<1>5. Sends(c)
  BY <1>1, NothingSent
<1> QED
  BY <1>1, <1>4, <1>5 DEF Served, PushesOK, clientVars

(* LoginLists.                                                            *)
LEMMA ListsServes ==
  ASSUME SessionInv, NEW c \in Clients, LoginLists(c), UNCHANGED clientVars
  PROVE  Served(c)
<1>1. /\ handler[c].pc = "lists" /\ ChatTypes /\ ClientOK(c) /\ PushesOK
      /\ UNCHANGED <<world, up, conn, server, down, published>>
  BY DEF LoginLists, At, SessionInv, redis, tables
<1>2. PcOK("look", handler[c].req.id) /\ DOMAIN handler[c] = Fields /\ handler[c].pc # "idle"
  BY <1>1, BusyHandler DEF ClientOK, PcOK, RequestIds, Telling
<1>3. /\ DOMAIN handler'[c] = DOMAIN handler[c] /\ handler'[c].pc = "look"
      /\ handler'[c].req = handler[c].req
      /\ DOMAIN handler' = Clients /\ \A d \in Clients \ {c} : handler'[d] = handler[d]
  BY <1>1, <1>2 DEF LoginLists, ChatTypes, Fields
<1>4. HandlerMoves(c) /\ handler[c] # Idle
  BY <1>1, <1>2, <1>3, MovedHandler, BusyHandler DEF ClientOK, HandlerMoves
<1>5. Sends(c)
  BY <1>1, NothingSent
<1> QED
  BY <1>1, <1>4, <1>5 DEF Served, PushesOK, clientVars

(* LogoutUnsubscribe.                                                     *)
LEMMA UnsubscribeServes ==
  ASSUME SessionInv, NEW c \in Clients, LogoutUnsubscribe(c), UNCHANGED clientVars
  PROVE  Served(c)
<1>1. /\ handler[c].pc = "unsubscribe" /\ ChatTypes /\ ClientOK(c) /\ PushesOK
      /\ UNCHANGED <<world, up, conn, server, down, published>>
  BY DEF LogoutUnsubscribe, At, SessionInv, redis, tables
<1>2. PcOK("look", handler[c].req.id) /\ DOMAIN handler[c] = Fields /\ handler[c].pc # "idle"
  BY <1>1, BusyHandler DEF ClientOK, PcOK, RequestIds, Telling
<1>3. /\ DOMAIN handler'[c] = DOMAIN handler[c] /\ handler'[c].pc = "look"
      /\ handler'[c].req = handler[c].req
      /\ DOMAIN handler' = Clients /\ \A d \in Clients \ {c} : handler'[d] = handler[d]
  BY <1>1, <1>2 DEF LogoutUnsubscribe, ChatTypes, Fields
<1>4. HandlerMoves(c) /\ handler[c] # Idle
  BY <1>1, <1>2, <1>3, MovedHandler, BusyHandler DEF ClientOK, HandlerMoves
<1>5. Sends(c)
  BY <1>1, NothingSent
<1> QED
  BY <1>1, <1>4, <1>5 DEF Served, PushesOK, clientVars

(* ChatReceivers.                                                         *)
LEMMA ReceiversServes ==
  ASSUME SessionInv, NEW c \in Clients, ChatReceivers(c), UNCHANGED clientVars
  PROVE  Served(c)
<1>1. /\ handler[c].pc \in {"ONE_CHAT", "GROUP_CHAT"} /\ ChatTypes /\ ClientOK(c) /\ PushesOK
      /\ UNCHANGED <<world, up, conn, server, down, published>>
  BY DEF ChatReceivers, At, SessionInv, redis, tables
<1>2. PcOK("look", handler[c].req.id) /\ DOMAIN handler[c] = Fields /\ handler[c].pc # "idle"
  BY <1>1, BusyHandler DEF ClientOK, PcOK, RequestIds, Telling
<1>3. /\ DOMAIN handler'[c] = DOMAIN handler[c] /\ handler'[c].pc = "look"
      /\ handler'[c].req = handler[c].req
      /\ DOMAIN handler' = Clients /\ \A d \in Clients \ {c} : handler'[d] = handler[d]
  BY <1>1, <1>2 DEF ChatReceivers, ChatTypes, Fields
<1>4. HandlerMoves(c) /\ handler[c] # Idle
  BY <1>1, <1>2, <1>3, MovedHandler, BusyHandler DEF ClientOK, HandlerMoves
<1>5. Sends(c)
  BY <1>1, NothingSent
<1> QED
  BY <1>1, <1>4, <1>5 DEF Served, PushesOK, clientVars

(* AddToGroup.                                                            *)
LEMMA AddToGroupServes ==
  ASSUME SessionInv, NEW c \in Clients, AddToGroup(c), UNCHANGED clientVars
  PROVE  Served(c)
<1>1. /\ handler[c].pc = "ADD_TO_GROUP" /\ ChatTypes /\ ClientOK(c) /\ PushesOK
      /\ UNCHANGED <<world, up, conn, server, down, published>>
  BY DEF AddToGroup, At, SessionInv, redis, tables
<1>2. PcOK("addUser", handler[c].req.id) /\ DOMAIN handler[c] = Fields /\ handler[c].pc # "idle"
  BY <1>1, BusyHandler DEF ClientOK, PcOK, RequestIds, Telling
<1>3. /\ DOMAIN handler'[c] = DOMAIN handler[c] /\ handler'[c].pc = "addUser"
      /\ handler'[c].req = handler[c].req
      /\ DOMAIN handler' = Clients /\ \A d \in Clients \ {c} : handler'[d] = handler[d]
  BY <1>1, <1>2 DEF AddToGroup, ChatTypes, Fields
<1>4. HandlerMoves(c) /\ handler[c] # Idle
  BY <1>1, <1>2, <1>3, MovedHandler, BusyHandler DEF ClientOK, HandlerMoves
<1>5. Sends(c)
  BY <1>1, NothingSent
<1> QED
  BY <1>1, <1>4, <1>5 DEF Served, PushesOK, clientVars

(* AddFriendInfo.                                                         *)
LEMMA FriendInfoServes ==
  ASSUME SessionInv, NEW c \in Clients, AddFriendInfo(c), UNCHANGED clientVars
  PROVE  Served(c)
<1>1. /\ handler[c].pc = "friendInfo" /\ ChatTypes /\ ClientOK(c) /\ PushesOK
      /\ UNCHANGED <<world, up, conn, server, published>>
  BY DEF AddFriendInfo, At, SessionInv, redis, tables
<1>2. PICK m : Reply(c, m) /\ m.id = "ADD_FRIEND_ACK"
  BY DEF AddFriendInfo
<1>3. HandlerMoves(c) /\ handler[c] # Idle /\ handler'[c] = Idle
  BY <1>1, <1>2, ReturnMoves DEF Reply
<1>4. Sends(c)
  BY <1>1, <1>2, <1>3, SendSends DEF Reply, MayAnswer, Answers
<1> QED
  BY <1>1, <1>3, <1>4 DEF Served, PushesOK, clientVars

(* CreateGroupCreator.                                                    *)
LEMMA CreatorServes ==
  ASSUME SessionInv, NEW c \in Clients, CreateGroupCreator(c), UNCHANGED clientVars
  PROVE  Served(c)
<1>1. /\ handler[c].pc = "creator" /\ ChatTypes /\ ClientOK(c) /\ PushesOK
      /\ UNCHANGED <<world, up, conn, server, published>>
  BY DEF CreateGroupCreator, At, SessionInv, redis, tables
<1>2. PICK m : Reply(c, m) /\ m.id = "CREATE_GROUP_ACK"
  BY DEF CreateGroupCreator
<1>3. HandlerMoves(c) /\ handler[c] # Idle /\ handler'[c] = Idle
  BY <1>1, <1>2, ReturnMoves DEF Reply
<1>4. Sends(c)
  BY <1>1, <1>2, <1>3, SendSends DEF Reply, MayAnswer, Answers
<1> QED
  BY <1>1, <1>3, <1>4 DEF Served, PushesOK, clientVars

(* AddToGroupUser.                                                        *)
LEMMA AddUserServes ==
  ASSUME SessionInv, NEW c \in Clients, AddToGroupUser(c), UNCHANGED clientVars
  PROVE  Served(c)
<1>1. /\ handler[c].pc = "addUser" /\ ChatTypes /\ ClientOK(c) /\ PushesOK
      /\ UNCHANGED <<world, up, conn, server, published>>
  BY DEF AddToGroupUser, At, SessionInv, redis, tables
<1>2. PICK m : Reply(c, m) /\ m.id = "ADD_TO_GROUP_ACK"
  BY DEF AddToGroupUser
<1>3. HandlerMoves(c) /\ handler[c] # Idle /\ handler'[c] = Idle
  BY <1>1, <1>2, ReturnMoves DEF Reply
<1>4. Sends(c)
  BY <1>1, <1>2, <1>3, SendSends DEF Reply, MayAnswer, Answers
<1> QED
  BY <1>1, <1>3, <1>4 DEF Served, PushesOK, clientVars

(* Regis.                                                                 *)
LEMMA RegisServes ==
  ASSUME SessionInv, NEW c \in Clients, Regis(c), UNCHANGED clientVars
  PROVE  Served(c)
<1>1. /\ handler[c].pc = "REG" /\ ChatTypes /\ ClientOK(c) /\ PushesOK
      /\ UNCHANGED <<world, up, conn, server, published>>
  BY DEF Regis, At, SessionInv, redis, tables
<1>2. PICK m : Reply(c, m) /\ m.id = "REG_MSG_ACK"
  BY DEF Regis
<1>3. HandlerMoves(c) /\ handler[c] # Idle /\ handler'[c] = Idle
  BY <1>1, <1>2, ReturnMoves DEF Reply
<1>4. Serves(handler[c], "REG")
  BY <1>1, BusyHandler DEF ClientOK, PcOK, RequestIds, Telling, Serves
<1>5. Sends(c)
  BY <1>1, <1>2, <1>3, <1>4, SendSends DEF Reply, MayAnswer, Answers
<1> QED
  BY <1>1, <1>3, <1>5 DEF Served, PushesOK, clientVars

(* LoginQuery.                                                            *)
LEMMA QueryServes ==
  ASSUME SessionInv, NEW c \in Clients, LoginQuery(c), UNCHANGED clientVars
  PROVE  Served(c)
<1>1. /\ handler[c].pc = "LOG_IN" /\ ChatTypes /\ ClientOK(c) /\ PushesOK
      /\ UNCHANGED <<world, up, conn, server, published>>
  BY DEF LoginQuery, At, SessionInv, redis, tables
<1>2. PcOK("updateState", handler[c].req.id) /\ Serves(handler[c], "LOG_IN")
  BY <1>1, BusyHandler DEF ClientOK, PcOK, RequestIds, Telling, Serves
<1>3. CASE Goto(c, "updateState") /\ UNCHANGED down
  <2>1. HandlerMoves(c) /\ handler[c] # Idle
    BY <1>1, <1>2, <1>3, GotoMoves
  <2>2. Sends(c)
    BY <1>1, <1>3, NothingSent
  <2> QED
    BY <1>1, <2>1, <2>2 DEF Served, PushesOK, clientVars
<1>4. CASE \E m : Reply(c, m) /\ m.id = "LOG_IN_MSG_ACK" /\ m.err # 0
  <2>1. PICK m : Reply(c, m) /\ m.id = "LOG_IN_MSG_ACK" /\ m.err # 0
    BY <1>4
  <2>2. HandlerMoves(c) /\ handler[c] # Idle /\ handler'[c] = Idle
    BY <1>1, <2>1, ReturnMoves DEF Reply
  <2>3. Sends(c)
    BY <1>1, <1>2, <2>1, <2>2, SendSends DEF Reply, MayAnswer, Answers
  <2> QED
    BY <1>1, <2>2, <2>3 DEF Served, PushesOK, clientVars
<1> QED
  BY <1>3, <1>4 DEF LoginQuery

(* AddFriend.                                                             *)
LEMMA AddFriendServes ==
  ASSUME SessionInv, NEW c \in Clients, AddFriend(c), UNCHANGED clientVars
  PROVE  Served(c)
<1>1. /\ handler[c].pc = "ADD_FRIEND" /\ ChatTypes /\ ClientOK(c) /\ PushesOK
      /\ UNCHANGED <<world, up, conn, server, published>>
  BY DEF AddFriend, At, SessionInv, redis, tables
<1>2. PcOK("friendInfo", handler[c].req.id) /\ Serves(handler[c], "ADD_FRIEND")
  BY <1>1, BusyHandler DEF ClientOK, PcOK, RequestIds, Telling, Serves
<1>3. CASE Goto(c, "friendInfo") /\ UNCHANGED down
  <2>1. HandlerMoves(c) /\ handler[c] # Idle
    BY <1>1, <1>2, <1>3, GotoMoves
  <2>2. Sends(c)
    BY <1>1, <1>3, NothingSent
  <2> QED
    BY <1>1, <2>1, <2>2 DEF Served, PushesOK, clientVars
<1>4. CASE \E m : Reply(c, m) /\ m.id = "ADD_FRIEND_ACK" /\ m.err # 0
  <2>1. PICK m : Reply(c, m) /\ m.id = "ADD_FRIEND_ACK" /\ m.err # 0
    BY <1>4
  <2>2. HandlerMoves(c) /\ handler[c] # Idle /\ handler'[c] = Idle
    BY <1>1, <2>1, ReturnMoves DEF Reply
  <2>3. Sends(c)
    BY <1>1, <1>2, <2>1, <2>2, SendSends DEF Reply, MayAnswer, Answers
  <2> QED
    BY <1>1, <2>2, <2>3 DEF Served, PushesOK, clientVars
<1> QED
  BY <1>3, <1>4 DEF AddFriend

(* CreateGroup.                                                           *)
LEMMA CreateGroupServes ==
  ASSUME SessionInv, NEW c \in Clients, CreateGroup(c), UNCHANGED clientVars
  PROVE  Served(c)
<1>1. /\ handler[c].pc = "CREATE_GROUP" /\ ChatTypes /\ ClientOK(c) /\ PushesOK
      /\ UNCHANGED <<world, up, conn, server, published>>
  BY DEF CreateGroup, At, SessionInv, redis, tables
<1>2. /\ PcOK("creator", handler[c].req.id) /\ DOMAIN handler[c] = Fields
      /\ handler[c].pc # "idle"
  BY <1>1, BusyHandler DEF ClientOK, PcOK, RequestIds, Telling
<1>3. CASE \E g \in Groups : /\ handler' = [handler EXCEPT ![c].pc = "creator", ![c].groups = {g}]
                             /\ UNCHANGED down
  <2>1. /\ DOMAIN handler'[c] = DOMAIN handler[c] /\ handler'[c].pc = "creator"
        /\ handler'[c].req = handler[c].req
        /\ DOMAIN handler' = Clients /\ \A d \in Clients \ {c} : handler'[d] = handler[d]
    BY <1>1, <1>2, <1>3 DEF ChatTypes, Fields
  <2>2. HandlerMoves(c) /\ handler[c] # Idle
    BY <1>1, <1>2, <2>1, MovedHandler, BusyHandler DEF ClientOK, HandlerMoves
  <2>3. Sends(c)
    BY <1>1, <1>3, NothingSent
  <2> QED
    BY <1>1, <2>2, <2>3 DEF Served, PushesOK, clientVars
<1>4. CASE \E m : Reply(c, m) /\ m.id = "CREATE_GROUP_ACK"
  <2>1. PICK m : Reply(c, m) /\ m.id = "CREATE_GROUP_ACK"
    BY <1>4
  <2>2. HandlerMoves(c) /\ handler[c] # Idle /\ handler'[c] = Idle
    BY <1>1, <2>1, ReturnMoves DEF Reply
  <2>3. Sends(c)
    BY <1>1, <1>2, <2>1, <2>2, SendSends DEF Reply, MayAnswer, Answers
  <2> QED
    BY <1>1, <2>2, <2>3 DEF Served, PushesOK, clientVars
<1> QED
  BY <1>3, <1>4 DEF CreateGroup

(* CloseUpdateState.                                                      *)
LEMMA CloseUpdateServes ==
  ASSUME SessionInv, NEW c \in Clients, CloseUpdateState(c), UNCHANGED clientVars
  PROVE  Served(c)
<1>1. /\ handler[c].pc = "closeState" /\ ChatTypes /\ ClientOK(c) /\ PushesOK
      /\ UNCHANGED <<world, up, conn, server, down, published>> /\ Return(c)
  BY DEF CloseUpdateState, At, SessionInv, redis, tables
<1>2. HandlerMoves(c) /\ handler[c] # Idle
  BY <1>1, ReturnMoves
<1>3. Sends(c)
  BY <1>1, NothingSent
<1> QED
  BY <1>1, <1>2, <1>3 DEF Served, PushesOK, clientVars

(* Told.                                                                  *)
LEMMA ToldServes ==
  ASSUME SessionInv, NEW c \in Clients, Told(c), UNCHANGED clientVars
  PROVE  Served(c)
<1>1. /\ handler[c].pc = "look" /\ ChatTypes /\ ClientOK(c) /\ PushesOK
      /\ UNCHANGED <<world, up, conn, server, published>> /\ Return(c)
  BY DEF Told, At, SessionInv, redis, tables, Reply
<1>2. HandlerMoves(c) /\ handler[c] # Idle /\ handler'[c] = Idle
  BY <1>1, ReturnMoves
<1>3. CASE handler[c].req.id = "LOG_IN"
  <2>1. PICK m : Send(c, m) /\ m.id = "LOG_IN_MSG_ACK"
    BY <1>3 DEF Told, Reply
  <2>2. Sends(c)
    BY <1>1, <1>2, <1>3, <2>1, SendSends DEF MayAnswer, Answers, Serves
  <2> QED
    BY <1>1, <1>2, <2>2 DEF Served, PushesOK, clientVars
<1>4. CASE handler[c].req.id # "LOG_IN"
  <2>1. Sends(c)
    BY <1>1, <1>4, NothingSent DEF Told
  <2> QED
    BY <1>1, <1>2, <2>1 DEF Served, PushesOK, clientVars
<1> QED
  BY <1>3, <1>4

(* The loop goes to its next receiver.                                     *)
LEMMA NextReceiverMoves ==
  ASSUME NEW c \in Clients, ChatTypes, ClientOK(c), handler[c].pc \in Telling,
         \/ handler' = [handler EXCEPT ![c].pc = "look", ![c].todo = Tail(@)]
         \/ handler' = [handler EXCEPT ![c].todo = Tail(@)]
  PROVE  /\ HandlerMoves(c) /\ handler[c] # Idle /\ handler'[c].pc \in Telling
         /\ handler'[c].todo = Tail(handler[c].todo) /\ handler'[c].req = handler[c].req
         /\ handler'[c].off = handler[c].off
<1>1. /\ PcOK("look", handler[c].req.id) /\ PcOK(handler[c].pc, handler[c].req.id)
      /\ DOMAIN handler[c] = Fields /\ handler[c].pc # "idle"
  BY BusyHandler DEF ClientOK, PcOK, RequestIds, Telling
<1>2. PICK t : t = Tail(handler[c].todo)
  OBVIOUS
<1>4. DOMAIN handler = Clients
  BY DEF ChatTypes
<1>5. /\ DOMAIN handler'[c] = DOMAIN handler[c] /\ handler'[c].pc \in {"look", handler[c].pc}
      /\ handler'[c].req = handler[c].req
      /\ handler'[c].todo = Tail(handler[c].todo) /\ handler'[c].off = handler[c].off
      /\ DOMAIN handler' = Clients /\ \A d \in Clients \ {c} : handler'[d] = handler[d]
  <2>1. CASE handler' = [handler EXCEPT ![c].pc = "look", ![c].todo = t]
    BY <1>1, <1>2, <1>4, <2>1 DEF Fields
  <2>2. CASE handler' = [handler EXCEPT ![c].todo = t]
    BY <1>1, <1>2, <1>4, <2>2 DEF Fields
  <2> QED
    BY <1>2, <2>1, <2>2
<1>3. HandlerMoves(c) /\ handler[c] # Idle
  BY <1>1, <1>5, MovedHandler, BusyHandler DEF ClientOK, HandlerMoves
<1> QED
  BY <1>5, <1>3 DEF Telling

(* Look.                                                                  *)
LEMMA LookServes ==
  ASSUME SessionInv, NEW c \in Clients, Look(c), UNCHANGED clientVars
  PROVE  Served(c)
<1>1. /\ handler[c].pc = "look" /\ ChatTypes /\ ClientOK(c) /\ PushesOK
      /\ UNCHANGED <<world, up, conn, server, published>>
  BY DEF Look, At, SessionInv, redis, tables
<1>2. CASE /\ \E d, r : Send(d, Push(handler[c].req, r))
           /\ handler' = [handler EXCEPT ![c].todo = Tail(@)]
  <2>1. PICK d, r : Send(d, Push(handler[c].req, r))
    BY <1>2
  <2>2. HandlerMoves(c) /\ handler[c] # Idle
    BY <1>1, <1>2, NextReceiverMoves DEF Telling
  <2>3. Sends(c)
    BY <1>1, <2>1, PushIsNoAnswer, SendSends DEF MayAnswer
  <2> QED
    BY <1>1, <2>2, <2>3 DEF Served, PushesOK, clientVars
<1>3. CASE Goto(c, "ask") /\ UNCHANGED down
  <2>1. PcOK("ask", handler[c].req.id)
    BY <1>1, BusyHandler DEF ClientOK, PcOK, RequestIds, Telling
  <2>2. HandlerMoves(c) /\ handler[c] # Idle
    BY <1>1, <1>3, <2>1, GotoMoves
  <2>3. Sends(c)
    BY <1>1, <1>3, NothingSent
  <2> QED
    BY <1>1, <2>2, <2>3 DEF Served, PushesOK, clientVars
<1> QED
  BY <1>2, <1>3 DEF Look

(* Ask.                                                                   *)
LEMMA AskServes ==
  ASSUME SessionInv, NEW c \in Clients, Ask(c), UNCHANGED clientVars
  PROVE  Served(c)
<1>1. /\ handler[c].pc = "ask" /\ ChatTypes /\ ClientOK(c) /\ PushesOK
      /\ UNCHANGED <<world, up, conn, server, published, down>>
  BY DEF Ask, At, SessionInv, redis, tables
<1>2. PICK p \in {"publish", "store"} : Goto(c, p)
  BY DEF Ask
<1>3. PcOK(p, handler[c].req.id)
  BY <1>1, BusyHandler DEF ClientOK, PcOK, RequestIds, Telling
<1>4. HandlerMoves(c) /\ handler[c] # Idle
  BY <1>1, <1>2, <1>3, GotoMoves
<1>5. Sends(c)
  BY <1>1, NothingSent
<1> QED
  BY <1>1, <1>4, <1>5 DEF Served, PushesOK, clientVars

(* Store.                                                                 *)
LEMMA StoreServes ==
  ASSUME SessionInv, NEW c \in Clients, Store(c), UNCHANGED clientVars
  PROVE  Served(c)
<1>1. /\ handler[c].pc = "store" /\ ChatTypes /\ ClientOK(c) /\ PushesOK
      /\ UNCHANGED <<world, up, conn, server, published, down>>
  BY DEF Store, At, SessionInv, redis, tables
<1>2. HandlerMoves(c) /\ handler[c] # Idle
  BY <1>1, NextReceiverMoves DEF Store, NextReceiver, Telling
<1>3. Sends(c)
  BY <1>1, NothingSent
<1> QED
  BY <1>1, <1>2, <1>3 DEF Served, PushesOK, clientVars

(* Publish.                                                               *)
LEMMA PublishServes ==
  ASSUME SessionInv, NEW c \in Clients, Publish(c), UNCHANGED clientVars
  PROVE  Served(c)
<1>1. /\ handler[c].pc = "publish" /\ ChatTypes /\ ClientOK(c) /\ PushesOK
      /\ UNCHANGED <<world, up, conn, server, down>>
  BY DEF Publish, At, SessionInv, redis, tables
<1>2. HandlerMoves(c) /\ handler[c] # Idle
  BY <1>1, NextReceiverMoves DEF Publish, NextReceiver, Telling
<1>3. Sends(c)
  BY <1>1, NothingSent
<1>4. PushesOK'
  <2> SUFFICES ASSUME NEW s \in Servers
               PROVE  IsSeq(published'[s]) /\ NoneOf(published'[s], Answers)
    BY DEF PushesOK, Publish
  <2>1. PICK m : m = Push(handler[c].req, Head(handler[c].todo))
    OBVIOUS
  <2>2. published'[s] = published[s] \/ published'[s] = Append(published[s], m)
    BY <2>1 DEF Publish
  <2>3. IsSeq(published[s]) /\ NoneOf(published[s], Answers) /\ m.id \notin Answers
    BY <1>1, <2>1, PushIsNoAnswer DEF PushesOK
  <2>4. PICK r : r = Append(published[s], m)
    OBVIOUS
  <2>5. /\ IsSeq(r) /\ DOMAIN r = 1 .. Len(published[s]) + 1 /\ Len(published[s]) \in Nat
        /\ DOMAIN published[s] = 1 .. Len(published[s])
        /\ \A i \in 1 .. Len(published[s]) : r[i] = published[s][i]
        /\ r[Len(published[s]) + 1] = m
    BY <2>3, <2>4, AppendFacts
  <2>6. NoneOf(r, Answers)
    BY <2>3, <2>5 DEF NoneOf
  <2> QED
    BY <2>2, <2>3, <2>4, <2>5, <2>6
<1> QED
  BY <1>1, <1>2, <1>3, <1>4 DEF Served, PushesOK, clientVars

-----------------------------------------------------------------------------
(* What a sequence holds after one message more, or without its first ones. *)

(* One message more.                                                       *)
LEMMA AppendHolds ==
  ASSUME NEW s, IsSeq(s), NEW x, NEW r, r = Append(s, x)
  PROVE  /\ IsSeq(r)
         /\ \A S : NoneOf(r, S) <=> NoneOf(s, S) /\ x.id \notin S
         /\ \A S : OneOf(s, S) /\ (NoneOf(s, S) \/ x.id \notin S) => OneOf(r, S)
         /\ \A id : Has(r, id) <=> Has(s, id) \/ x.id = id
<1>1. /\ IsSeq(r) /\ Len(s) \in Nat /\ DOMAIN s = 1 .. Len(s)
      /\ DOMAIN r = 1 .. Len(s) + 1
      /\ \A i \in 1 .. Len(s) : r[i] = s[i]
      /\ r[Len(s) + 1] = x
  BY AppendFacts
<1>2. ASSUME NEW S PROVE NoneOf(r, S) <=> NoneOf(s, S) /\ x.id \notin S
  <2>1. ASSUME NoneOf(r, S) PROVE NoneOf(s, S) /\ x.id \notin S
    BY <1>1, <2>1 DEF NoneOf
  <2>2. ASSUME NoneOf(s, S), x.id \notin S PROVE NoneOf(r, S)
    BY <1>1, <2>2 DEF NoneOf
  <2> QED
    BY <2>1, <2>2
<1>3. ASSUME NEW S, OneOf(s, S), NoneOf(s, S) \/ x.id \notin S PROVE OneOf(r, S)
  <2> SUFFICES ASSUME NEW i \in DOMAIN r, NEW j \in DOMAIN r, r[i].id \in S, r[j].id \in S
               PROVE  i = j
    BY DEF OneOf
  <2>1. CASE i \in 1 .. Len(s) /\ j \in 1 .. Len(s)
    BY <1>1, <1>3, <2>1 DEF OneOf
  <2>2. CASE NoneOf(s, S)
    BY <1>1, <2>2 DEF NoneOf
  <2>3. CASE x.id \notin S /\ ~(i \in 1 .. Len(s) /\ j \in 1 .. Len(s))
    BY <1>1, <2>3
  <2> QED
    BY <1>3, <2>1, <2>2, <2>3
<1>4. ASSUME NEW id PROVE Has(r, id) <=> Has(s, id) \/ x.id = id
  <2>1. ASSUME Has(r, id) PROVE Has(s, id) \/ x.id = id
    BY <1>1, <2>1 DEF Has
  <2>2. ASSUME Has(s, id) PROVE Has(r, id)
    BY <1>1, <2>2 DEF Has
  <2>3. ASSUME x.id = id PROVE Has(r, id)
    BY <1>1, <2>3 DEF Has
  <2> QED
    BY <2>1, <2>2, <2>3
<1> QED
  BY <1>1, <1>2, <1>3, <1>4

(* Without the first k, which have been taken.                             *)
LEMMA DropHolds ==
  ASSUME NEW s, IsSeq(s), NEW k, NEW r, Dropped(s, k, r)
  PROVE  /\ IsSeq(r) /\ Head(s) = s[1] /\ 1 \in DOMAIN s
         /\ \A S : NoneOf(s, S) => NoneOf(r, S) /\ s[1].id \notin S
         /\ \A S : OneOf(s, S) => OneOf(r, S) /\ (s[1].id \in S => NoneOf(r, S))
         /\ \A id : Has(r, id) => Has(s, id)
<1>1. /\ IsSeq(r) /\ Len(s) \in Nat /\ DOMAIN s = 1 .. Len(s)
      /\ DOMAIN r = 1 .. Len(s) - k
      /\ \A i \in 1 .. Len(s) - k : r[i] = s[i + k] /\ i + k \in 1 .. Len(s)
      /\ k \in 1 .. Len(s)
  BY DropFacts
<1>2. 1 \in DOMAIN s /\ Head(s) = s[1]
  BY <1>1 DEF IsSeq
<1>3. ASSUME NEW S, NoneOf(s, S) PROVE NoneOf(r, S) /\ s[1].id \notin S
  BY <1>1, <1>2, <1>3 DEF NoneOf
<1>4. ASSUME NEW S, OneOf(s, S) PROVE OneOf(r, S)
  <2> SUFFICES ASSUME NEW i \in DOMAIN r, NEW j \in DOMAIN r, r[i].id \in S, r[j].id \in S
               PROVE  i = j
    BY DEF OneOf
  <2>1. i + k = j + k
    BY <1>1, <1>4 DEF OneOf
  <2> QED
    BY <1>1, <2>1
<1>5. ASSUME NEW S, OneOf(s, S), s[1].id \in S PROVE NoneOf(r, S)
  <2> SUFFICES ASSUME NEW i \in DOMAIN r, r[i].id \in S
               PROVE  FALSE
    BY DEF NoneOf
  <2>1. i + k = 1
    BY <1>1, <1>2, <1>5 DEF OneOf
  <2> QED
    BY <1>1, <2>1
<1>6. ASSUME NEW id, Has(r, id) PROVE Has(s, id)
  BY <1>1, <1>6 DEF Has
<1> QED
  BY <1>1, <1>2, <1>3, <1>4, <1>5, <1>6

-----------------------------------------------------------------------------
(* What a client waits for, step by step.                                  *)

(* A message that is no answer comes down.                                 *)
LEMMA WaitingPush ==
  ASSUME NEW m, NEW w, NEW us, NEW ds, NEW h, Waiting(m, w, us, ds, h), IsSeq(ds),
         NEW x, x.id \notin Answers
  PROVE  Waiting(m, w, us, Append(ds, x), h) /\ IsSeq(Append(ds, x))
<1>1. PICK r : r = Append(ds, x)
  OBVIOUS
<1>2. /\ IsSeq(r) /\ (NoneOf(r, Answers) <=> NoneOf(ds, Answers))
      /\ (OneOf(ds, Answers) => OneOf(r, Answers))
  BY <1>1, AppendHolds
<1> QED
  BY <1>1, <1>2 DEF Waiting

(* The answer comes down and its handler returns.                          *)
LEMMA WaitingAnswer ==
  ASSUME NEW m, NEW w, NEW us, NEW ds, NEW h, Waiting(m, w, us, ds, h), IsSeq(ds),
         NEW x, Awaited(h)
  PROVE  Waiting(m, w, us, Append(ds, x), Idle) /\ IsSeq(Append(ds, x))
<1>1. PICK r : r = Append(ds, x)
  OBVIOUS
<1>2. IsSeq(r) /\ (OneOf(ds, Answers) /\ NoneOf(ds, Answers) => OneOf(r, Answers))
  BY <1>1, AppendHolds
<1>3. ~Awaited(Idle)
  BY DEF Awaited, Serves, Idle
<1>4. NoneOf(ds, Answers) /\ OneOf(r, Answers) /\ NoneOf(us, Asks) /\ w = 0 /\ m \notin {"menu", "chat"}
  BY <1>2 DEF Waiting
<1> QED
  BY <1>1, <1>2, <1>3, <1>4 DEF Waiting

(* A handler goes on with its request, or returns.                         *)
LEMMA WaitingMoves ==
  ASSUME NEW m, NEW w, NEW us, NEW ds, NEW h, Waiting(m, w, us, ds, h), NEW g,
         Awaited(g) => Awaited(h)
  PROVE  Waiting(m, w, us, ds, g)
BY DEF Waiting

(* A request is sent that needs no answer.                                 *)
LEMMA WaitingSend ==
  ASSUME NEW m, NEW w, NEW us, NEW ds, NEW h, Waiting(m, w, us, ds, h), IsSeq(us),
         NEW x, x.id \notin Asks
  PROVE  Waiting(m, w, Append(us, x), ds, h)
<1>1. PICK r : r = Append(us, x)
  OBVIOUS
<1>2. /\ IsSeq(r) /\ (NoneOf(r, Asks) <=> NoneOf(us, Asks))
      /\ (OneOf(us, Asks) => OneOf(r, Asks))
  BY <1>1, AppendHolds
<1> QED
  BY <1>1, <1>2 DEF Waiting

(* A request is sent from the menu, and the client waits.                  *)
LEMMA WaitingAsk ==
  ASSUME NEW w, NEW us, NEW ds, NEW h, Waiting("menu", w, us, ds, h), IsSeq(us),
         NEW x, NEW m \in {"login", "reg"}
  PROVE  Waiting(m, w, Append(us, x), ds, h) /\ Waiting(m, w, us, ds, h)
<1>1. PICK r : r = Append(us, x)
  OBVIOUS
<1>2. IsSeq(r) /\ (OneOf(us, Asks) /\ NoneOf(us, Asks) => OneOf(r, Asks))
  BY <1>1, AppendHolds
<1>3. NoneOf(us, Asks) /\ ~Awaited(h) /\ NoneOf(ds, Answers) /\ w = 0
  BY DEF Waiting
<1> QED
  BY <1>1, <1>2, <1>3 DEF Waiting

(* The client ends, or leaves the menu of the chat.                        *)
LEMMA WaitingLeaves ==
  ASSUME NEW m, NEW w, NEW us, NEW ds, NEW h, Waiting(m, w, us, ds, h)
  PROVE  /\ Waiting("exited", w, us, ds, h)
         /\ m = "chat" => Waiting("menu", w, us, ds, h)
BY DEF Waiting

(* The semaphore was posted: the client waits no longer.                   *)
LEMMA WaitingWakes ==
  ASSUME NEW m, NEW w, NEW us, NEW ds, NEW h, Waiting(m, w, us, ds, h),
         w > 0, NEW n \in {"menu", "chat"}
  PROVE  Waiting(n, w - 1, us, ds, h)
<1>1. w = 1
  BY DEF Waiting
<1>2. NoneOf(us, Asks) /\ ~Awaited(h) /\ NoneOf(ds, Answers)
  BY <1>1 DEF Waiting
<1>3. w - 1 = 0
  BY <1>1
<1> QED
  BY <1>2, <1>3 DEF Waiting

(* onMessage takes the first request and drops those that came with it.    *)
LEMMA WaitingTaken ==
  ASSUME NEW m, NEW w, NEW us, NEW ds, Waiting(m, w, us, ds, Idle), IsSeq(us),
         NEW k, NEW r, Dropped(us, k, r), NEW g, g.req = Head(us)
  PROVE  Waiting(m, w, r, ds, g)
<1>2. /\ IsSeq(r) /\ Head(us) = us[1]
      /\ (NoneOf(us, Asks) => NoneOf(r, Asks) /\ us[1].id \notin Asks)
      /\ (OneOf(us, Asks) => OneOf(r, Asks) /\ (us[1].id \in Asks => NoneOf(r, Asks)))
      /\ 1 \in DOMAIN us
  BY DropHolds
<1>3. Awaited(g) => us[1].id \in Asks
  BY <1>2 DEF Awaited, Serves, Asks
<1>4. us[1].id \in Asks => ~NoneOf(us, Asks)
  BY <1>2 DEF NoneOf
<1>5. OneOf(r, Asks) /\ OneOf(ds, Answers)
  BY <1>2 DEF Waiting
<1>6. CASE NoneOf(us, Asks)
  <2>1. NoneOf(r, Asks) /\ ~Awaited(g)
    BY <1>2, <1>3, <1>6
  <2> QED
    BY <1>5, <2>1 DEF Waiting
<1>7. CASE ~NoneOf(us, Asks)
  <2>1. NoneOf(ds, Answers) /\ w = 0 /\ m \notin {"menu", "chat"}
    BY <1>7 DEF Waiting
  <2>2. NoneOf(r, Asks) \/ ~Awaited(g)
    BY <1>2, <1>3 DEF Waiting
  <2> QED
    BY <1>5, <2>1, <2>2 DEF Waiting
<1> QED
  BY <1>6, <1>7

(* The connection is gone, and the requests with it.                       *)
LEMMA WaitingGone ==
  ASSUME NEW m, NEW w, NEW us, NEW ds, NEW h, Waiting(m, w, us, ds, h), NEW g, ~Awaited(g)
  PROVE  Waiting(m, w, <<>>, ds, g)
<1>1. NoneOf(<<>>, Asks) /\ OneOf(<<>>, Asks)
  BY DEF NoneOf, OneOf
<1> QED
  BY <1>1 DEF Waiting

(* The reader takes one message; an answer is posted.                      *)
LEMMA WaitingReads ==
  ASSUME NEW m, NEW w, NEW us, NEW ds, NEW h, Waiting(m, w, us, ds, h), IsSeq(ds),
         NEW k, NEW r, Dropped(ds, k, r), NEW v,
         v = IF ds[1].id \in Answers THEN w + 1 ELSE w
  PROVE  /\ IsSeq(r) /\ Waiting(m, v, us, r, h) /\ Waiting("exited", w, us, r, h)
<1>2. /\ IsSeq(r) /\ 1 \in DOMAIN ds
      /\ (NoneOf(ds, Answers) => NoneOf(r, Answers) /\ ds[1].id \notin Answers)
      /\ (OneOf(ds, Answers) => OneOf(r, Answers) /\ (ds[1].id \in Answers => NoneOf(r, Answers)))
  BY DropHolds
<1>3. OneOf(r, Answers)
  BY <1>2 DEF Waiting
<1>4. Waiting(m, w, us, r, h) /\ Waiting("exited", w, us, r, h)
  BY <1>2, <1>3 DEF Waiting
<1>5. CASE ds[1].id \in Answers
  <2>1. ~NoneOf(ds, Answers) /\ NoneOf(r, Answers)
    BY <1>2, <1>5 DEF Waiting
  <2>2. w = 0 /\ ~Awaited(h) /\ NoneOf(us, Asks) /\ m \notin {"menu", "chat"} /\ v = 1
    BY <1>5, <2>1 DEF Waiting
  <2> QED
    BY <1>2, <1>3, <1>4, <2>1, <2>2 DEF Waiting
<1>6. CASE ds[1].id \notin Answers
  BY <1>2, <1>4, <1>6
<1> QED
  BY <1>5, <1>6

-----------------------------------------------------------------------------
(* One login of an account at a time.                                      *)

(* No login begins.                                                        *)
LEMMA OneLoginKept ==
  ASSUME OneLogin, UNCHANGED world, \A c \in Clients : InLogin(c)' => InLogin(c)
  PROVE  OneLogin'
BY DEF OneLogin

\* A step of c leaves the other clients and their connections alone.
Alone(c) ==
  /\ UNCHANGED world /\ \A d \in Clients \ {c} :
        /\ handler'[d] = handler[d] /\ up'[d] = up[d] /\ down'[d] = down[d]
        /\ conn'[d] = conn[d] /\ main'[d] = main[d] /\ rwsem'[d] = rwsem[d]
        /\ isLoginSuccess'[d] = isLoginSuccess[d]

(* A step of one client.                                                   *)
LEMMA AloneKeeps ==
  ASSUME SessionInv, NEW c \in Clients, Alone(c), ChatTypes', PushesOK', EntriesOK',
         ClientOK(c)', InLogin(c)' => InLogin(c)
  PROVE  SessionInv'
<1>1. ASSUME NEW d \in Clients PROVE ClientOK(d)'
  <2>1. CASE d = c
    BY <2>1
  <2>2. CASE d # c
    BY <2>2 DEF SessionInv, ClientOK, Alone
  <2> QED
    BY <2>1, <2>2
<1>2. ASSUME NEW d \in Clients, InLogin(d)' PROVE InLogin(d)
  <2>1. CASE d = c
    BY <1>2, <2>1
  <2>2. CASE d # c
    BY <1>2, <2>2 DEF InLogin, Alone
  <2> QED
    BY <2>1, <2>2
<1>3. OneLogin'
  BY <1>2, OneLoginKept DEF SessionInv, Alone
<1> QED
  BY <1>1, <1>3 DEF SessionInv

(* At first nothing is under way.                                          *)
LEMMA SessionInit ==
  ASSUME Init
  PROVE  SessionInv
<1>1. ChatTypes
  BY DEF Init, ServiceInit, ChatTypes
<1>2. PushesOK
  BY NoMessage DEF Init, ServiceInit, PushesOK, NoneOf
<1>3. ASSUME NEW c \in Clients
      PROVE  handler[c] = Idle /\ up[c] = <<>> /\ down[c] = <<>> /\ rwsem[c] = 0
             /\ main[c] \in {"menu", "exited"}
  BY DEF Init, ServiceInit
<1>4. ~Awaited(Idle) /\ \A id : ~Serves(Idle, id)
  BY DEF Awaited, Serves, Idle
<1>5. ASSUME NEW c \in Clients PROVE ClientOK(c)
  <2>1. HandlerOK(handler[c], world.account[c]) /\ RequestsOK(up[c], world.account[c])
    BY <1>3, NoMessage DEF HandlerOK, RequestsOK
  <2>2. \A S : NoneOf(<<>>, S) /\ OneOf(<<>>, S)
    BY DEF NoneOf, OneOf
  <2>3. Waiting(main[c], rwsem[c], up[c], down[c], handler[c])
    BY <1>3, <1>4, <2>2 DEF Waiting
  <2> QED
    BY <1>3, <2>1, <2>3, NoMessage DEF ClientOK
<1>6. OneLogin
  BY <1>3, <1>4 DEF OneLogin, InLogin, Has
<1>7. EntriesOK
  BY DEF Init, ServiceInit, EntriesOK
<1> QED
  BY <1>1, <1>2, <1>5, <1>6, <1>7 DEF SessionInv

(* A handler that goes on serves what it served.                           *)
LEMMA MovesServe ==
  ASSUME NEW c \in Clients, ClientOK(c), HandlerMoves(c), NEW d \in Clients, ClientOK(d)
  PROVE  /\ HandlerOK(handler'[d], world.account[d])
         /\ \A id : Serves(handler'[d], id) => Serves(handler[d], id)
         /\ Awaited(handler'[d]) => Awaited(handler[d])
<1>1. CASE d # c
  BY <1>1 DEF HandlerMoves, ClientOK
<1>2. CASE d = c /\ handler'[c] = Idle
  BY <1>2 DEF HandlerOK, Serves, Awaited, Idle
<1>3. CASE d = c /\ handler'[c] # Idle
  BY <1>3 DEF HandlerMoves, ClientOK, Serves, Awaited
<1> QED
  BY <1>1, <1>2, <1>3

(* The steps of a handler keep the invariant.                              *)
LEMMA ServedKeeps ==
  ASSUME SessionInv, NEW c \in Clients, Served(c), EntriesOK'
  PROVE  SessionInv'
<1>1. ASSUME NEW d \in Clients
      PROVE  /\ HandlerOK(handler'[d], world.account[d])
             /\ \A id : Serves(handler'[d], id) => Serves(handler[d], id)
             /\ Awaited(handler'[d]) => Awaited(handler[d])
  BY MovesServe DEF SessionInv, Served
<1>2. ASSUME NEW d \in Clients PROVE ClientOK(d)'
  <2>1. /\ ClientOK(d)
        /\ world' = world /\ up'[d] = up[d] /\ main'[d] = main[d] /\ rwsem'[d] = rwsem[d]
    BY DEF SessionInv, Served
  <2>2. Waiting(main[d], rwsem[d], up[d], down[d], handler'[d])
    BY <1>1, <2>1, WaitingMoves DEF ClientOK
  <2>3. Waiting(main[d], rwsem[d], up[d], down'[d], handler'[d]) /\ IsSeq(down'[d])
    <3>1. CASE down'[d] = down[d]
      BY <2>1, <2>2, <3>1 DEF ClientOK
    <3>2. CASE down'[d] # down[d]
      <4>1. PICK m : down'[d] = Append(down[d], m) /\ MayAnswer(c, d, m)
        BY <3>2 DEF Served, Sends
      <4>2. CASE m.id \notin Answers
        BY <2>1, <2>2, <4>1, <4>2, WaitingPush DEF ClientOK
      <4>3. CASE m.id \in Answers
        <5>1. handler'[d] = Idle /\ Awaited(handler[d])
          BY <4>1, <4>3 DEF MayAnswer, Answers, Awaited
        <5> QED
          BY <2>1, <4>1, <5>1, WaitingAnswer DEF ClientOK
      <4> QED
        BY <4>2, <4>3
    <3> QED
      BY <3>1, <3>2
  <2> QED
    BY <1>1, <2>1, <2>3 DEF ClientOK
<1>3. ChatTypes'
  BY DEF SessionInv, Served, HandlerMoves, Sends, ChatTypes
<1>4. PushesOK'
  BY DEF Served
<1>5. OneLogin'
  <2>1. ASSUME NEW d \in Clients, InLogin(d)' PROVE InLogin(d)
    BY <1>1, <2>1 DEF InLogin, Served
  <2> QED
    BY <2>1, OneLoginKept DEF SessionInv, Served
<1> QED
  BY <1>2, <1>3, <1>4, <1>5 DEF SessionInv

(* ChatServer::onMessage.                                                  *)
LEMMA OnMessageTakes ==
  ASSUME SessionInv, NEW c \in Clients, OnMessage(c), UNCHANGED clientVars
  PROVE  /\ SessionInv'
         /\ \E k : Dropped(up[c], k, up'[c])
         /\ handler'[c].req = Head(up[c]) /\ handler'[c].pc = Head(up[c]).id
         /\ DOMAIN handler'[c] = Fields /\ handler'[c].todo = <<>> /\ handler'[c].off = <<>>
         /\ handler[c] = Idle /\ conn[c] # "gone" /\ Head(up[c]) = up[c][1] /\ 1 \in DOMAIN up[c]
         /\ DOMAIN handler' = Clients /\ DOMAIN up' = Clients
         /\ \A d \in Clients \ {c} : handler'[d] = handler[d] /\ up'[d] = up[d]
<1>1. ChatTypes /\ ClientOK(c) /\ PushesOK
  BY DEF SessionInv
<1>2. /\ handler[c].pc = "idle" /\ up[c] # <<>> /\ conn[c] # "gone"
      /\ UNCHANGED <<world, conn, down, published, main, rwsem, isLoginSuccess, typed, server>>
  BY DEF OnMessage, At, clientVars, redis
<1>3. handler[c] = Idle
  BY <1>1, <1>2, IdleHandler DEF ClientOK
<1>4. PICK k \in 1 .. Len(up[c]) : up' = [up EXCEPT ![c] = SubSeq(up[c], k + 1, Len(up[c]))]
  BY DEF OnMessage
<1>5. /\ Dropped(up[c], k, up'[c]) /\ DOMAIN up' = Clients
      /\ \A d \in Clients \ {c} : up'[d] = up[d]
  BY <1>1, <1>4 DEF Dropped, ChatTypes
<1>6. PICK x : x = Head(up[c])
  OBVIOUS
<1>7. /\ DOMAIN handler' = Clients /\ \A d \in Clients \ {c} : handler'[d] = handler[d]
      /\ handler'[c] = [pc |-> x.id, req |-> x, todo |-> <<>>, off |-> <<>>,
                        friends |-> <<>>, groups |-> {}]
  BY <1>1, <1>6 DEF OnMessage, ChatTypes
<1>8. /\ DOMAIN handler'[c] = Fields /\ handler'[c].pc = x.id /\ handler'[c].req = x
      /\ handler'[c].todo = <<>> /\ handler'[c].off = <<>>
  BY <1>7 DEF Fields
<1>9. IsSeq(up[c])
  BY <1>1 DEF ClientOK, RequestsOK
<1>10. /\ x = up[c][1] /\ 1 \in DOMAIN up[c] /\ IsSeq(up'[c])
       /\ \A id : Has(up'[c], id) => Has(up[c], id)
  BY <1>5, <1>6, <1>9, DropHolds
<1>11. x.id \in RequestIds /\ (x.id # "REG" => x.u = world.account[c])
  BY <1>1, <1>10 DEF ClientOK, RequestsOK
<1>12. HandlerOK(handler'[c], world.account[c])
  BY <1>8, <1>11 DEF HandlerOK, PcOK, RequestIds
<1>13. RequestsOK(up'[c], world.account[c])
  <2>1. /\ DOMAIN up'[c] = 1 .. Len(up[c]) - k
        /\ \A i \in 1 .. Len(up[c]) - k : up'[c][i] = up[c][i + k] /\ i + k \in 1 .. Len(up[c])
        /\ DOMAIN up[c] = 1 .. Len(up[c])
    BY <1>5, <1>9, DropFacts
  <2> QED
    BY <1>1, <1>10, <2>1 DEF ClientOK, RequestsOK
<1>14. Waiting(main[c], rwsem[c], up'[c], down[c], handler'[c])
  BY <1>1, <1>3, <1>5, <1>6, <1>8, <1>9, WaitingTaken DEF ClientOK
<1>15. ClientOK(c)'
  BY <1>1, <1>2, <1>12, <1>13, <1>14 DEF ClientOK
<1>16. ChatTypes'
  BY <1>1, <1>2, <1>5, <1>7 DEF ChatTypes
<1>17. PushesOK'
  BY <1>1, <1>2 DEF PushesOK
<1>18. InLogin(c)' => InLogin(c)
  BY <1>2, <1>8, <1>10 DEF InLogin, Serves, Has
<1>19. Alone(c)
  BY <1>2, <1>5, <1>7 DEF Alone
<1>20. EntriesOK'
  BY <1>2 DEF SessionInv, EntriesOK, OnMessage
<1> QED
  BY <1>2, <1>3, <1>5, <1>6, <1>7, <1>8, <1>10, <1>15, <1>16, <1>17, <1>18, <1>19, <1>20,
     AloneKeeps

(* onConnection and clientCloseException, the search.                      *)
LEMMA CloseFindTakes ==
  ASSUME SessionInv, NEW c \in Clients, CloseFind(c), UNCHANGED clientVars
  PROVE  /\ SessionInv'
         /\ up'[c] = <<>> /\ conn'[c] = "gone" /\ conn[c] = "closed" /\ handler[c] = Idle
         /\ \/ handler'[c] = Idle /\ userConnMap[Home(c)][world.account[c]] # c
            \/ /\ handler'[c].pc = "erase" /\ Serves(handler'[c], "CLOSE")
               /\ handler'[c].req.u = world.account[c]
               /\ userConnMap[Home(c)][world.account[c]] = c
         /\ DOMAIN handler' = Clients /\ DOMAIN up' = Clients /\ DOMAIN conn' = Clients
         /\ \A d \in Clients \ {c} : handler'[d] = handler[d] /\ up'[d] = up[d] /\ conn'[d] = conn[d]
<1>1. ChatTypes /\ ClientOK(c) /\ PushesOK /\ EntriesOK
  BY DEF SessionInv
<1>2. /\ handler[c].pc = "idle" /\ conn[c] = "closed"
      /\ UNCHANGED <<world, down, published, main, rwsem, isLoginSuccess, typed, userConnMap,
                     server>>
  BY DEF CloseFind, At, clientVars, redis
<1>3. handler[c] = Idle
  BY <1>1, <1>2, IdleHandler DEF ClientOK
<1>4. /\ up'[c] = <<>> /\ conn'[c] = "gone" /\ DOMAIN up' = Clients /\ DOMAIN conn' = Clients
      /\ \A d \in Clients \ {c} : up'[d] = up[d] /\ conn'[d] = conn[d]
  BY <1>1 DEF CloseFind, ChatTypes
<1>5. DOMAIN handler' = Clients /\ \A d \in Clients \ {c} : handler'[d] = handler[d]
  BY <1>1 DEF CloseFind, ChatTypes
<1>6. Home(c) \in Servers /\ world.account[c] \in Users
  BY <1>1, ChatAssumption DEF ChatTypes, Home
<1>7. \/ handler'[c] = Idle /\ userConnMap[Home(c)][world.account[c]] # c
      \/ \E u \in Users : /\ userConnMap[Home(c)][u] = c
                          /\ handler'[c] = [pc |-> "erase", req |-> [id |-> "CLOSE", u |-> u]]
  <2>1. CASE {u \in Users : userConnMap[Home(c)][u] = c} = {} /\ UNCHANGED handler
    BY <1>3, <1>6, <2>1
  <2>2. CASE \E u \in {x \in Users : userConnMap[Home(c)][x] = c} :
               handler' = [handler EXCEPT ![c] = [pc |-> "erase", req |-> [id |-> "CLOSE", u |-> u]]]
    BY <1>1, <2>2 DEF ChatTypes
  <2> QED
    BY <2>1, <2>2 DEF CloseFind
<1>8. ASSUME NEW u \in Users, userConnMap[Home(c)][u] = c PROVE u = world.account[c]
  <2>1. c # NoConn
    BY ChatAssumption
  <2> QED
    BY <1>1, <1>6, <1>8, <2>1 DEF EntriesOK
<1>9. CASE handler'[c] # Idle
  <2>1. /\ userConnMap[Home(c)][world.account[c]] = c
        /\ handler'[c] = [pc |-> "erase", req |-> [id |-> "CLOSE", u |-> world.account[c]]]
    BY <1>7, <1>8, <1>9
  <2>2. /\ DOMAIN handler'[c] = {"pc", "req"} /\ handler'[c].pc = "erase"
        /\ handler'[c].req.id = "CLOSE" /\ handler'[c].req.u = world.account[c]
    BY <2>1
  <2> HIDE DEF Idle
  <2>3. HandlerOK(handler'[c], world.account[c]) /\ ~Awaited(handler'[c])
        /\ Serves(handler'[c], "CLOSE") /\ ~Serves(handler'[c], "LOG_IN")
    BY <2>2 DEF HandlerOK, PcOK, Awaited, Serves
  <2> QED
    <3>1. RequestsOK(up'[c], world.account[c]) /\ ~Has(up'[c], "LOG_IN")
      BY <1>4, NoMessage DEF RequestsOK, Has
    <3>2. Waiting(main[c], rwsem[c], up'[c], down[c], handler'[c])
      BY <1>1, <1>4, <2>3, WaitingGone DEF ClientOK
    <3>3. ClientOK(c)'
      BY <1>1, <1>2, <2>3, <3>1, <3>2 DEF ClientOK
    <3>4. ChatTypes' /\ PushesOK' /\ EntriesOK' /\ Alone(c)
      BY <1>1, <1>2, <1>4, <1>5 DEF ChatTypes, PushesOK, EntriesOK, Alone
    <3>5. ~InLogin(c)'
      BY <2>3, <3>1 DEF InLogin
    <3> QED
      BY <1>2, <1>3, <1>4, <1>5, <2>1, <2>2, <2>3, <3>3, <3>4, <3>5, AloneKeeps
<1>10. CASE handler'[c] = Idle
  <2>1. HandlerOK(handler'[c], world.account[c]) /\ ~Awaited(handler'[c])
        /\ ~Serves(handler'[c], "LOG_IN") /\ handler'[c].pc = "idle"
    BY <1>10 DEF HandlerOK, PcOK, Awaited, Serves, Idle
  <2>2. userConnMap[Home(c)][world.account[c]] # c
    <3>1. \A u : [pc |-> "erase", req |-> [id |-> "CLOSE", u |-> u]].pc = "erase"
      OBVIOUS
    <3> QED
      BY <1>7, <2>1, <3>1
  <2> QED
    <3>1. RequestsOK(up'[c], world.account[c]) /\ ~Has(up'[c], "LOG_IN")
      BY <1>4, NoMessage DEF RequestsOK, Has
    <3>2. Waiting(main[c], rwsem[c], up'[c], down[c], handler'[c])
      BY <1>1, <1>4, <2>1, WaitingGone DEF ClientOK
    <3>3. ClientOK(c)'
      BY <1>1, <1>2, <2>1, <3>1, <3>2 DEF ClientOK
    <3>4. ChatTypes' /\ PushesOK' /\ EntriesOK' /\ Alone(c)
      BY <1>1, <1>2, <1>4, <1>5 DEF ChatTypes, PushesOK, EntriesOK, Alone
    <3>5. ~InLogin(c)'
      BY <2>1, <3>1 DEF InLogin
    <3> QED
      BY <1>2, <1>3, <1>4, <1>5, <1>10, <2>2, <3>3, <3>4, <3>5, AloneKeeps
<1> QED
  BY <1>9, <1>10

(* RedisCache::observer_channel_message and redisNotifyHandler.            *)
LEMMA NotifyKeeps ==
  ASSUME SessionInv, NEW s \in Servers, RedisNotify(s), UNCHANGED clientVars
  PROVE  /\ SessionInv'
         /\ \A d \in Clients :
              \/ down'[d] = down[d]
              \/ conn[d] = "open" /\ \E m : down'[d] = Append(down[d], m) /\ m.id \notin Answers
<1>1. ChatTypes /\ PushesOK /\ EntriesOK
  BY DEF SessionInv
<1>2. /\ published[s] # <<>>
      /\ UNCHANGED <<world, handler, conn, up, main, rwsem, isLoginSuccess, typed, userConnMap,
                     server>>
  BY DEF RedisNotify, clientVars
<1>3. PICK m : m = Head(published[s])
  OBVIOUS
<1>4. IsSeq(published[s]) /\ NoneOf(published[s], Answers)
  BY <1>1 DEF PushesOK
<1>5. PICK r : r = Tail(published[s])
  OBVIOUS
<1>6. /\ IsSeq(r) /\ m = published[s][1] /\ Len(published[s]) \in Nat /\ Len(published[s]) >= 1
      /\ DOMAIN published[s] = 1 .. Len(published[s])
      /\ DOMAIN r = 1 .. Len(published[s]) - 1
      /\ \A i \in 1 .. Len(published[s]) - 1 :
           r[i] = published[s][i + 1] /\ i + 1 \in 1 .. Len(published[s])
  BY <1>2, <1>3, <1>4, <1>5, TailFacts
<1>7. m.id \notin Answers /\ NoneOf(r, Answers)
  <2>1. 1 \in DOMAIN published[s]
    BY <1>6
  <2> QED
    BY <1>4, <1>6, <2>1 DEF NoneOf
<1>8. published' = [published EXCEPT ![s] = r]
  BY <1>5 DEF RedisNotify, Observes
<1>9. PushesOK'
  BY <1>1, <1>6, <1>7, <1>8 DEF PushesOK
<1>10. down' = down \/ \E d : Send(d, m)
  BY <1>3 DEF RedisNotify
<1>11. /\ DOMAIN down' = Clients
       /\ \A d \in Clients : \/ down'[d] = down[d]
                             \/ conn[d] = "open" /\ down'[d] = Append(down[d], m)
  BY <1>1, <1>10 DEF Send, ChatTypes
<1>12. ASSUME NEW d \in Clients PROVE ClientOK(d)'
  <2>1. ClientOK(d)
    BY DEF SessionInv
  <2>2. Waiting(main[d], rwsem[d], up[d], down'[d], handler[d]) /\ IsSeq(down'[d])
    <3>1. CASE down'[d] = down[d]
      BY <2>1, <3>1 DEF ClientOK
    <3>2. CASE down'[d] = Append(down[d], m)
      BY <1>7, <2>1, <3>2, WaitingPush DEF ClientOK
    <3> QED
      BY <1>11, <3>1, <3>2
  <2> QED
    BY <1>2, <2>1, <2>2 DEF ClientOK
<1>13. OneLogin'
  BY <1>2, OneLoginKept DEF SessionInv, InLogin
<1>14. ChatTypes' /\ EntriesOK'
  BY <1>1, <1>2, <1>11 DEF ChatTypes, EntriesOK
<1> QED
  BY <1>7, <1>9, <1>11, <1>12, <1>13, <1>14 DEF SessionInv

(* SIGINT, and the end of a server.                                        *)
LEMMA ServerEnds ==
  ASSUME SessionInv, NEW s \in Servers, Interrupt(s) \/ Exit(s), UNCHANGED clientVars
  PROVE  SessionInv'
<1>1. /\ UNCHANGED <<world, handler, up, down, published, main, rwsem, isLoginSuccess, typed,
                     userConnMap>>
      /\ DOMAIN conn' = Clients /\ \A c \in Clients : conn'[c] # "gone" => conn[c] # "gone"
      /\ DOMAIN server' = Servers
  <2>1. CASE Interrupt(s)
    BY <2>1 DEF Interrupt, redis, clientVars, SessionInv, ChatTypes
  <2>2. CASE Exit(s)
    BY <2>2 DEF Exit, redis, clientVars, SessionInv, ChatTypes
  <2> QED
    BY <2>1, <2>2
<1>2. OneLogin'
  BY <1>1, OneLoginKept DEF SessionInv, InLogin
<1>3. ChatTypes' /\ EntriesOK' /\ PushesOK'
  BY <1>1 DEF SessionInv, ChatTypes, EntriesOK, PushesOK
<1>4. \A c \in Clients : ClientOK(c)'
  BY <1>1 DEF SessionInv, ClientOK
<1> QED
  BY <1>2, <1>3, <1>4 DEF SessionInv

-----------------------------------------------------------------------------
(* The steps of a client.                                                  *)

(* A login that begins, when no other of the account is under way.         *)
LEMMA AloneLogs ==
  ASSUME SessionInv, NEW c \in Clients, Alone(c), ChatTypes', PushesOK', EntriesOK', ClientOK(c)',
         \A d \in Clients \ {c} : world.account[d] = world.account[c] => ~InLogin(d)
  PROVE  SessionInv'
<1>1. ASSUME NEW d \in Clients PROVE ClientOK(d)'
  <2>1. CASE d = c
    BY <2>1
  <2>2. CASE d # c
    BY <2>2 DEF SessionInv, ClientOK, Alone
  <2> QED
    BY <2>1, <2>2
<1>2. ASSUME NEW d \in Clients, d # c, InLogin(d)' PROVE InLogin(d)
  BY <1>2 DEF InLogin, Alone
<1>3. OneLogin'
  <2> SUFFICES ASSUME NEW d \in Clients, NEW e \in Clients, world.account[d] = world.account[e],
                      InLogin(d)', InLogin(e)', d # e
               PROVE  FALSE
    BY DEF OneLogin, Alone
  <2>1. CASE d = c
    BY <1>2, <2>1
  <2>2. CASE e = c
    BY <1>2, <2>2
  <2>3. CASE d # c /\ e # c
    BY <1>2, <2>3 DEF SessionInv, OneLogin
  <2> QED
    BY <2>1, <2>2, <2>3
<1> QED
  BY <1>1, <1>3 DEF SessionInv

\* c sends req, and goes to n.
Typed(c, req, n) ==
  /\ UNCHANGED <<world, row, userConnMap, published, server, handler, conn, down, rwsem,
                 isLoginSuccess, subscribed, offline, received>>
  /\ typed' = typed + 1 /\ typed < world.most /\ DOMAIN up' = Clients /\ DOMAIN main' = Clients
  /\ \A d \in Clients \ {c} : up'[d] = up[d] /\ main'[d] = main[d]
  /\ main'[c] = n
  /\ conn[c] = "open" => up'[c] = Append(up[c], req)
  /\ conn[c] # "open" => up'[c] = up[c]
  /\ req.id \in RequestIds /\ (req.id # "REG" => req.u = world.account[c])

(* What is typed is a request of the client's account.                     *)
LEMMA TypeTypes ==
  ASSUME SessionInv, NEW c \in Clients, NEW at, NEW req, Type(c, at, req), NEW n,
         UNCHANGED <<unchangedServer, conn, down, rwsem, isLoginSuccess, received>>,
         main' = [main EXCEPT ![c] = n] \/ (main' = main /\ main[c] = n),
         req.id \in RequestIds, req.id # "REG" => req.u = world.account[c]
  PROVE  Typed(c, req, n) /\ main[c] = at
<1>1. DOMAIN up = Clients /\ DOMAIN main = Clients
  BY DEF SessionInv, ChatTypes
<1>2. DOMAIN main' = Clients /\ main'[c] = n /\ \A d \in Clients \ {c} : main'[d] = main[d]
  BY <1>1
<1>3. /\ DOMAIN up' = Clients /\ \A d \in Clients \ {c} : up'[d] = up[d]
      /\ conn[c] = "open" => up'[c] = Append(up[c], req)
      /\ conn[c] # "open" => up'[c] = up[c]
  BY <1>1 DEF Type
<1> QED
  BY <1>2, <1>3 DEF Typed, Type, unchangedServer, tables, redis

(* One request more.                                                       *)
LEMMA RequestsAppend ==
  ASSUME NEW us, NEW u, RequestsOK(us, u), NEW x, x.id \in RequestIds, x.id # "REG" => x.u = u
  PROVE  RequestsOK(Append(us, x), u)
<1>1. PICK r : r = Append(us, x)
  OBVIOUS
<1>2. /\ IsSeq(r) /\ DOMAIN r = 1 .. Len(us) + 1 /\ DOMAIN us = 1 .. Len(us) /\ Len(us) \in Nat
      /\ \A i \in 1 .. Len(us) : r[i] = us[i]
      /\ r[Len(us) + 1] = x
  BY <1>1, AppendFacts DEF RequestsOK
<1> QED
  BY <1>1, <1>2 DEF RequestsOK

(* The client after a request.                                             *)
LEMMA TypedOK ==
  ASSUME SessionInv, NEW c \in Clients, NEW req, NEW n, Typed(c, req, n),
         \/ req.id \notin Asks /\ main[c] = "chat" /\ n \in {"chat", "menu"}
         \/ main[c] = "menu" /\ n \in {"login", "reg"}
  PROVE  /\ ClientOK(c)' /\ Alone(c) /\ ChatTypes' /\ PushesOK' /\ EntriesOK'
<1>1. ClientOK(c) /\ ChatTypes
  BY DEF SessionInv
<1>2. IsSeq(up[c])
  BY <1>1 DEF ClientOK, RequestsOK
<1>3. up'[c] = up[c] \/ up'[c] = Append(up[c], req)
  BY DEF Typed
<1>4. RequestsOK(up'[c], world.account[c])
  BY <1>1, <1>3, RequestsAppend DEF ClientOK, Typed
<1>5. Waiting(n, rwsem[c], up'[c], down[c], handler[c])
  <2>1. CASE req.id \notin Asks /\ main[c] = "chat" /\ n \in {"chat", "menu"}
    <3>1. Waiting(n, rwsem[c], up[c], down[c], handler[c])
      BY <1>1, <2>1, WaitingLeaves DEF ClientOK
    <3> QED
      BY <1>2, <1>3, <2>1, <3>1, WaitingSend
  <2>2. CASE main[c] = "menu" /\ n \in {"login", "reg"}
    <3>1. Waiting("menu", rwsem[c], up[c], down[c], handler[c])
      BY <1>1, <2>2 DEF ClientOK
    <3> QED
      BY <1>2, <1>3, <2>2, <3>1, WaitingAsk
  <2> QED
    BY <2>1, <2>2
<1>6. ClientOK(c)'
  BY <1>1, <1>4, <1>5 DEF ClientOK, Typed
<1>7. Alone(c)
  BY DEF Alone, Typed
<1>8. ChatTypes' /\ PushesOK' /\ EntriesOK'
  BY DEF SessionInv, ChatTypes, PushesOK, EntriesOK, Typed
<1> QED
  BY <1>6, <1>7, <1>8

(* main(), case 1.                                                         *)
LEMMA LoginKeeps ==
  ASSUME SessionInv, OneSession, NEW c \in Clients, NEW ok \in BOOLEAN, Login(c, ok)
  PROVE  /\ SessionInv' /\ main[c] = "menu" /\ MayLogin(c)
         /\ Typed(c, [id |-> "LOG_IN", u |-> world.account[c], ok |-> ok], "login")
<1>1. PICK req : req = [id |-> "LOG_IN", u |-> world.account[c], ok |-> ok]
  OBVIOUS
<1>2. req.id = "LOG_IN" /\ req.u = world.account[c]
  BY <1>1
<1>3. Type(c, "menu", req) /\ MayLogin(c)
  BY <1>1 DEF Login
<1>4. Typed(c, req, "login") /\ main[c] = "menu"
  BY <1>2, <1>3, TypeTypes DEF Login, RequestIds
<1>5. ClientOK(c)' /\ Alone(c) /\ ChatTypes' /\ PushesOK' /\ EntriesOK'
  BY <1>4, TypedOK
<1>6. ~world.shared
  BY DEF OneSession, SessionInv, ChatTypes
<1>7. ASSUME NEW d \in Clients \ {c}, world.account[d] = world.account[c] PROVE ~InLogin(d)
  <2>1. ClientOK(d)
    BY DEF SessionInv
  <2>2. CASE main[d] = "menu"
    <3>1. NoneOf(up[d], Asks) /\ ~Awaited(handler[d])
      BY <2>1, <2>2 DEF ClientOK, Waiting
    <3> QED
      BY <3>1 DEF InLogin, Awaited, NoneOf, Has, Asks
  <2>3. CASE conn[d] = "gone" /\ handler[d] = Idle
    BY <2>3 DEF InLogin, Serves, Idle
  <2> QED
    BY <1>3, <1>6, <1>7, <2>2, <2>3 DEF MayLogin
<1> QED
  BY <1>1, <1>3, <1>4, <1>5, <1>7, AloneLogs

(* A request that is no login.                                             *)
LEMMA TypedKeeps ==
  ASSUME SessionInv, NEW c \in Clients, NEW req, NEW n, Typed(c, req, n), req.id # "LOG_IN",
         \/ req.id \notin Asks /\ main[c] = "chat" /\ n \in {"chat", "menu"}
         \/ main[c] = "menu" /\ n \in {"login", "reg"}
  PROVE  SessionInv'
<1>1. ClientOK(c)' /\ Alone(c) /\ ChatTypes' /\ PushesOK' /\ EntriesOK'
  BY TypedOK
<1>2. IsSeq(up[c])
  BY DEF SessionInv, ClientOK, RequestsOK
<1>3. up'[c] = up[c] \/ up'[c] = Append(up[c], req)
  BY DEF Typed
<1>4. Has(up'[c], "LOG_IN") => Has(up[c], "LOG_IN")
  BY <1>2, <1>3, AppendHolds
<1>5. InLogin(c)' => InLogin(c)
  BY <1>4 DEF InLogin, Has, Typed
<1> QED
  BY <1>1, <1>5, AloneKeeps

(* main(), case 2.                                                         *)
LEMMA RegisterKeeps ==
  ASSUME SessionInv, NEW c \in Clients, Register(c)
  PROVE  SessionInv' /\ main[c] = "menu" /\ Typed(c, [id |-> "REG"], "reg")
<1>1. PICK req : req = [id |-> "REG"]
  OBVIOUS
<1>2. req.id = "REG" /\ Type(c, "menu", req)
  BY <1>1 DEF Register
<1>3. Typed(c, req, "reg") /\ main[c] = "menu"
  BY <1>2, TypeTypes DEF Register, RequestIds
<1> QED
  BY <1>1, <1>2, <1>3, TypedKeeps

(* mainMenu, logout().                                                     *)
LEMMA LogoutKeeps ==
  ASSUME SessionInv, NEW c \in Clients, Logout(c)
  PROVE  /\ SessionInv' /\ main[c] = "chat"
         /\ Typed(c, [id |-> "LOG_OUT", u |-> world.account[c]], "menu")
<1>1. PICK req : req = [id |-> "LOG_OUT", u |-> world.account[c]]
  OBVIOUS
<1>2. req.id = "LOG_OUT" /\ req.u = world.account[c] /\ Type(c, "chat", req)
  BY <1>1 DEF Logout
<1>3. Typed(c, req, "menu") /\ main[c] = "chat"
  BY <1>2, TypeTypes DEF Logout, RequestIds
<1> QED
  BY <1>1, <1>2, <1>3, TypedKeeps DEF Asks

\* The requests of mainMenu that stay there.
Commands == {"ONE_CHAT", "GROUP_CHAT", "ADD_FRIEND", "CREATE_GROUP", "ADD_TO_GROUP"}

(* mainMenu, the other commands.  A text is new.                           *)
LEMMA CommandKeeps ==
  ASSUME SessionInv, NEW c \in Clients, Command(c)
  PROVE  /\ SessionInv' /\ main[c] = "chat"
         /\ \E req : /\ Typed(c, req, "chat") /\ req.id \in Commands
                     /\ IsChat(req) => req.n = typed + 1
<1>1. PICK req : /\ Type(c, "chat", req) /\ req.id \in Commands /\ req.u = world.account[c]
                 /\ IsChat(req) => req.n = typed + 1
  <2>1. CASE \E f \in Users :
               Type(c, "chat", [id |-> "ONE_CHAT", u |-> world.account[c], to |-> f, n |-> typed + 1])
    BY <2>1 DEF Commands
  <2>2. CASE \E f \in Users :
               Type(c, "chat", [id |-> "ADD_FRIEND", u |-> world.account[c], to |-> f])
    BY <2>2 DEF Commands, IsChat
  <2>3. CASE Type(c, "chat", [id |-> "CREATE_GROUP", u |-> world.account[c]])
    BY <2>3 DEF Commands, IsChat
  <2>4. CASE \E g \in Groups :
               Type(c, "chat", [id |-> "ADD_TO_GROUP", u |-> world.account[c], to |-> g])
    BY <2>4 DEF Commands, IsChat
  <2>5. CASE \E g \in groupList[c] :
               Type(c, "chat", [id |-> "GROUP_CHAT", u |-> world.account[c], to |-> g, n |-> typed + 1])
    BY <2>5 DEF Commands
  <2> QED
    BY <2>1, <2>2, <2>3, <2>4, <2>5 DEF Command
<1>2. main[c] = "chat" /\ UNCHANGED <<unchangedServer, conn, down, main, rwsem, isLoginSuccess, received>>
  BY <1>1 DEF Type, Command
<1>3. main' = [main EXCEPT ![c] = "chat"] \/ (main' = main /\ main[c] = "chat")
  BY <1>2
<1>4. Typed(c, req, "chat")
  BY <1>1, <1>2, <1>3, TypeTypes DEF Commands, RequestIds
<1>5. SessionInv'
  BY <1>1, <1>2, <1>4, TypedKeeps DEF Commands, Asks
<1> QED
  BY <1>1, <1>2, <1>4, <1>5

\* The client's own state and connection change, and no more.
Own(c) ==
  /\ UNCHANGED <<world, row, userConnMap, published, server, handler, up, typed, subscribed,
                 offline>>
  /\ Alone(c) /\ DOMAIN down' = Clients /\ DOMAIN main' = Clients /\ DOMAIN conn' = Clients
  /\ DOMAIN rwsem' = Clients /\ DOMAIN isLoginSuccess' = Clients
  /\ conn'[c] # "gone" => conn[c] # "gone"

(* Such a step.                                                            *)
LEMMA OwnKeeps ==
  ASSUME SessionInv, NEW c \in Clients, Own(c), IsSeq(down'[c]),
         Waiting(main'[c], rwsem'[c], up[c], down'[c], handler[c])
  PROVE  SessionInv'
<1>1. ClientOK(c)'
  BY DEF ClientOK, SessionInv, Own
<1>2. ChatTypes' /\ PushesOK' /\ EntriesOK' /\ Alone(c)
  BY DEF SessionInv, ChatTypes, PushesOK, EntriesOK, Own
<1>3. InLogin(c)' => InLogin(c)
  BY DEF InLogin, Own
<1> QED
  BY <1>1, <1>2, <1>3, AloneKeeps

(* sem_wait returns.                                                       *)
LEMMA WakeKeeps ==
  ASSUME SessionInv, NEW c \in Clients, Wake(c)
  PROVE  /\ SessionInv' /\ Own(c) /\ main[c] \in {"login", "reg"} /\ rwsem[c] = 1 /\ rwsem'[c] = 0
         /\ main'[c] = IF main[c] = "login" /\ isLoginSuccess[c] THEN "chat" ELSE "menu"
         /\ UNCHANGED <<down, conn, isLoginSuccess, received>>
<1>1. ChatTypes /\ ClientOK(c)
  BY DEF SessionInv
<1>2. /\ UNCHANGED <<world, row, userConnMap, published, server, handler, up, typed, down, conn,
                     isLoginSuccess, received, subscribed, offline>>
      /\ main[c] \in {"login", "reg"} /\ rwsem[c] > 0
  BY DEF Wake, serverVars, tables, redis
<1>3. /\ DOMAIN main' = Clients /\ DOMAIN rwsem' = Clients /\ rwsem'[c] = rwsem[c] - 1
      /\ main'[c] = IF main[c] = "login" /\ isLoginSuccess[c] THEN "chat" ELSE "menu"
      /\ \A d \in Clients \ {c} : main'[d] = main[d] /\ rwsem'[d] = rwsem[d]
  BY <1>1 DEF Wake, ChatTypes
<1>4. Own(c)
  BY <1>1, <1>2, <1>3 DEF Own, Alone, ChatTypes
<1>5. main'[c] \in {"menu", "chat"}
  BY <1>3
<1>6. Waiting(main'[c], rwsem'[c], up[c], down'[c], handler[c]) /\ IsSeq(down'[c])
  BY <1>1, <1>2, <1>3, <1>5, WaitingWakes DEF ClientOK
<1>7. rwsem[c] = 1 /\ rwsem'[c] = 0
  BY <1>1, <1>2, <1>3 DEF ClientOK, Waiting
<1> QED
  BY <1>2, <1>3, <1>4, <1>6, <1>7, OwnKeeps

(* A client ends.                                                          *)
LEMMA DieKeeps ==
  ASSUME SessionInv, NEW c \in Clients, Die(c), main[c] # "exited",
         UNCHANGED <<unchangedServer, up, rwsem, isLoginSuccess, typed>>,
         down' = down \/ \E k \in 1 .. Len(down[c]) :
                            down' = [down EXCEPT ![c] = SubSeq(down[c], k + 1, Len(down[c]))]
  PROVE  /\ SessionInv' /\ Own(c) /\ main'[c] = "exited" /\ IsSeq(down'[c])
         /\ down'[c] = down[c] \/ \E k : Dropped(down[c], k, down'[c])
         /\ conn'[c] = IF conn[c] = "open" THEN "closed" ELSE conn[c]
<1>1. ChatTypes /\ ClientOK(c)
  BY DEF SessionInv
<1>2. /\ DOMAIN main' = Clients /\ DOMAIN conn' = Clients /\ main'[c] = "exited"
      /\ conn'[c] = IF conn[c] = "open" THEN "closed" ELSE conn[c]
      /\ \A d \in Clients \ {c} : main'[d] = main[d] /\ conn'[d] = conn[d]
  BY <1>1 DEF Die, ChatTypes
<1>3. /\ DOMAIN down' = Clients /\ \A d \in Clients \ {c} : down'[d] = down[d]
      /\ down'[c] = down[c] \/ \E k : Dropped(down[c], k, down'[c])
  <2>1. CASE down' = down
    BY <1>1, <2>1 DEF ChatTypes
  <2>2. CASE \E k \in 1 .. Len(down[c]) :
               down' = [down EXCEPT ![c] = SubSeq(down[c], k + 1, Len(down[c]))]
    <3>1. PICK k \in 1 .. Len(down[c]) :
                 down' = [down EXCEPT ![c] = SubSeq(down[c], k + 1, Len(down[c]))]
      BY <2>2
    <3>2. PICK r : r = SubSeq(down[c], k + 1, Len(down[c]))
      OBVIOUS
    <3>3. down' = [down EXCEPT ![c] = r] /\ Dropped(down[c], k, r)
      BY <3>1, <3>2 DEF Dropped
    <3> QED
      BY <1>1, <3>3 DEF ChatTypes
  <2> QED
    BY <2>1, <2>2
<1>4. Own(c)
  BY <1>1, <1>2, <1>3 DEF Own, Alone, ChatTypes, unchangedServer, tables, redis
<1>5. Waiting("exited", rwsem[c], up[c], down'[c], handler[c]) /\ IsSeq(down'[c])
  <2>1. Waiting(main[c], rwsem[c], up[c], down[c], handler[c]) /\ IsSeq(down[c])
    BY <1>1 DEF ClientOK
  <2>2. CASE down'[c] = down[c]
    BY <2>1, <2>2, WaitingLeaves
  <2>3. CASE \E k : Dropped(down[c], k, down'[c])
    <3>1. PICK v : v = IF down[c][1].id \in Answers THEN rwsem[c] + 1 ELSE rwsem[c]
      OBVIOUS
    <3> QED
      BY <2>1, <2>3, <3>1, WaitingReads
  <2> QED
    BY <1>3, <2>2, <2>3
<1> QED
  BY <1>2, <1>3, <1>4, <1>5, OwnKeeps

(* main(), case 3, or the client is killed.                                *)
LEMMA QuitKeeps ==
  ASSUME SessionInv, NEW c \in Clients, Quit(c) \/ ReadClosed(c)
  PROVE  /\ SessionInv' /\ Own(c) /\ main'[c] = "exited" /\ down'[c] = down[c]
         /\ conn'[c] = IF conn[c] = "open" THEN "closed" ELSE conn[c]
         /\ UNCHANGED <<isLoginSuccess, received, down>>
<1>1. /\ Die(c) /\ main[c] # "exited"
      /\ UNCHANGED <<unchangedServer, up, rwsem, isLoginSuccess, typed>> /\ down' = down
      /\ UNCHANGED <<isLoginSuccess, received>>
  BY DEF Quit, ReadClosed
<1> QED
  BY <1>1, DieKeeps

(* mainMenu, "quit".                                                       *)
LEMMA QuitMenuKeeps ==
  ASSUME SessionInv, NEW c \in Clients, QuitMenu(c)
  PROVE  /\ SessionInv' /\ Own(c) /\ main[c] = "chat" /\ main'[c] = "menu" /\ rwsem'[c] = rwsem[c]
         /\ UNCHANGED <<isLoginSuccess, received, down, conn>>
<1>1. ChatTypes /\ ClientOK(c)
  BY DEF SessionInv
<1>2. /\ UNCHANGED <<world, row, userConnMap, published, server, handler, up, typed, down, conn,
                     isLoginSuccess, rwsem, received, subscribed, offline>>
      /\ main[c] = "chat"
  BY DEF QuitMenu, serverVars, tables, redis
<1>3. DOMAIN main' = Clients /\ main'[c] = "menu" /\ \A d \in Clients \ {c} : main'[d] = main[d]
  BY <1>1 DEF QuitMenu, ChatTypes
<1>4. Own(c)
  BY <1>1, <1>2, <1>3 DEF Own, Alone, ChatTypes
<1>5. Waiting(main'[c], rwsem'[c], up[c], down'[c], handler[c]) /\ IsSeq(down'[c])
  BY <1>1, <1>2, <1>3, WaitingLeaves DEF ClientOK
<1> QED
  BY <1>2, <1>3, <1>4, <1>5, OwnKeeps

(* The reader takes one message ...                                        *)
LEMMA ReadOneKeeps ==
  ASSUME SessionInv, NEW c \in Clients, main[c] # "exited", down[c] # <<>>,
         down' = [down EXCEPT ![c] = SubSeq(down[c], 1 + 1, Len(down[c]))],
         Shown(c, Head(down[c])), UNCHANGED <<main, conn, unchangedServer, up, typed>>
  PROVE  /\ SessionInv' /\ Own(c) /\ Dropped(down[c], 1, down'[c]) /\ main'[c] = main[c]
         /\ UNCHANGED conn
         /\ rwsem'[c] = (IF down[c][1].id \in Answers THEN rwsem[c] + 1 ELSE rwsem[c])
         /\ isLoginSuccess'[c] = (IF down[c][1].id = "LOG_IN_MSG_ACK" THEN down[c][1].err = 0
                                  ELSE isLoginSuccess[c])
<1>1. ChatTypes /\ ClientOK(c)
  BY DEF SessionInv
<1>2. Waiting(main[c], rwsem[c], up[c], down[c], handler[c]) /\ IsSeq(down[c])
  BY <1>1 DEF ClientOK
<1>3. 1 \in 1 .. Len(down[c]) /\ Head(down[c]) = down[c][1]
  BY <1>2, TailFacts
<1>4. PICK r : r = SubSeq(down[c], 1 + 1, Len(down[c]))
  OBVIOUS
<1>5. Dropped(down[c], 1, r) /\ down' = [down EXCEPT ![c] = r]
  BY <1>3, <1>4 DEF Dropped
<1>6. PICK m : m = down[c][1]
  OBVIOUS
<1>7. Shown(c, m)
  BY <1>3, <1>6
<1>8. /\ DOMAIN rwsem' = Clients /\ \A d \in Clients \ {c} : rwsem'[d] = rwsem[d]
      /\ rwsem'[c] = (IF m.id \in Answers THEN rwsem[c] + 1 ELSE rwsem[c])
  <2>1. CASE m.id \in Answers
    <3>1. Post(c)
      BY <1>7, <2>1 DEF Shown, doLoginResponse, Answers
    <3> QED
      BY <1>1, <2>1, <3>1 DEF Post, ChatTypes
  <2>2. CASE m.id \notin Answers
    <3>1. rwsem' = rwsem
      BY <1>7, <2>2 DEF Shown, Answers
    <3> QED
      BY <1>1, <2>2, <3>1 DEF ChatTypes
  <2> QED
    BY <2>1, <2>2
<1>9. /\ DOMAIN isLoginSuccess' = Clients
      /\ \A d \in Clients \ {c} : isLoginSuccess'[d] = isLoginSuccess[d]
      /\ isLoginSuccess'[c] = (IF m.id = "LOG_IN_MSG_ACK" THEN m.err = 0 ELSE isLoginSuccess[c])
  <2>1. CASE m.id = "LOG_IN_MSG_ACK"
    <3>1. isLoginSuccess' = [isLoginSuccess EXCEPT ![c] = (m.err = 0)]
      BY <1>7, <2>1 DEF Shown, doLoginResponse
    <3> QED
      BY <1>1, <2>1, <3>1, Zenon DEF ChatTypes
  <2>2. CASE m.id # "LOG_IN_MSG_ACK"
    <3>1. isLoginSuccess' = isLoginSuccess
      BY <1>7, <2>2 DEF Shown
    <3> QED
      BY <1>1, <2>2, <3>1 DEF ChatTypes
  <2> QED
    BY <2>1, <2>2
<1>10. /\ DOMAIN down' = Clients /\ down'[c] = r /\ \A d \in Clients \ {c} : down'[d] = down[d]
  BY <1>1, <1>5 DEF ChatTypes
<1>11. Own(c)
  BY <1>1, <1>8, <1>9, <1>10 DEF Own, Alone, ChatTypes, unchangedServer, tables, redis
<1>12. IsSeq(r) /\ Waiting(main[c], rwsem'[c], up[c], r, handler[c])
  BY <1>2, <1>5, <1>6, <1>8, WaitingReads
<1>13. SessionInv'
  BY <1>10, <1>11, <1>12, OwnKeeps
<1> QED
  BY <1>5, <1>6, <1>8, <1>9, <1>10, <1>11, <1>13

(* ... or more, and ends.                                                  *)
LEMMA ReadKeeps ==
  ASSUME SessionInv, NEW c \in Clients, Read(c)
  PROVE  /\ SessionInv' /\ Own(c) /\ main[c] # "exited" /\ \E k : Dropped(down[c], k, down'[c])
         /\ \/ /\ Dropped(down[c], 1, down'[c]) /\ main'[c] = main[c] /\ UNCHANGED conn
               /\ Shown(c, down[c][1])
               /\ rwsem'[c] = (IF down[c][1].id \in Answers THEN rwsem[c] + 1 ELSE rwsem[c])
               /\ isLoginSuccess'[c] = (IF down[c][1].id = "LOG_IN_MSG_ACK" THEN down[c][1].err = 0
                                        ELSE isLoginSuccess[c])
            \/ /\ main'[c] = "exited" /\ UNCHANGED received
               /\ conn'[c] = IF conn[c] = "open" THEN "closed" ELSE conn[c]
<1>1. ChatTypes /\ ClientOK(c)
  BY DEF SessionInv
<1>2. main[c] # "exited" /\ down[c] # <<>> /\ UNCHANGED <<unchangedServer, up, typed>>
  BY DEF Read
<1>3. PICK k \in 1 .. Len(down[c]) :
        /\ down' = [down EXCEPT ![c] = SubSeq(down[c], k + 1, Len(down[c]))]
        /\ \/ k = 1 /\ Shown(c, Head(down[c])) /\ UNCHANGED <<main, conn>>
           \/ /\ k > 1 /\ Die(c)
              /\ UNCHANGED <<rwsem, isLoginSuccess, friendList, groupList, received>>
  BY DEF Read
<1>4. CASE k = 1 /\ Shown(c, Head(down[c])) /\ UNCHANGED <<main, conn>>
  <2>1. down' = [down EXCEPT ![c] = SubSeq(down[c], 1 + 1, Len(down[c]))]
    BY <1>3, <1>4
  <2>2. Head(down[c]) = down[c][1]
    BY <1>1, <1>2, TailFacts DEF ClientOK
  <2> QED
    BY <1>2, <1>4, <2>1, <2>2, ReadOneKeeps
<1>5. CASE k > 1 /\ Die(c) /\ UNCHANGED <<rwsem, isLoginSuccess, friendList, groupList, received>>
  <2>1. /\ SessionInv' /\ Own(c) /\ main'[c] = "exited"
        /\ conn'[c] = IF conn[c] = "open" THEN "closed" ELSE conn[c]
    BY <1>2, <1>3, <1>5, DieKeeps
  <2>2. Dropped(down[c], k, down'[c])
    <3>1. PICK r : r = SubSeq(down[c], k + 1, Len(down[c]))
      OBVIOUS
    <3>2. down' = [down EXCEPT ![c] = r] /\ Dropped(down[c], k, r)
      BY <1>3, <3>1 DEF Dropped
    <3> QED
      BY <1>1, <3>2 DEF ChatTypes
  <2> QED
    BY <1>2, <1>5, <2>1, <2>2
<1> QED
  BY <1>3, <1>4, <1>5

-----------------------------------------------------------------------------
(* All steps.                                                              *)

\* The steps that change _userConnMap.
ChangesMap(c) == LoginInsert(c) \/ LogoutErase(c) \/ CloseErase(c)

(* The other handlers leave it alone.                                      *)
LEMMA MapStays ==
  ASSUME NEW c, Handle(c), ~ChangesMap(c)
  PROVE  UNCHANGED userConnMap
<1>1. CASE OnMessage(c) \/ LoginQuery(c) \/ LoginUpdateState(c) \/ LoginOffline(c)
  BY <1>1 DEF OnMessage, LoginQuery, LoginUpdateState, LoginOffline
<1>2. CASE LoginRemove(c) \/ LoginLists(c) \/ LogoutUpdateState(c) \/ LogoutUnsubscribe(c)
  BY <1>2 DEF LoginRemove, LoginLists, LogoutUpdateState, LogoutUnsubscribe
<1>3. CASE ChatReceivers(c) \/ Look(c) \/ Ask(c) \/ Publish(c) \/ Store(c) \/ Told(c)
  BY <1>3 DEF ChatReceivers, Look, Ask, Publish, Store, Told
<1>4. CASE Regis(c) \/ AddFriend(c) \/ AddFriendInfo(c)
  BY <1>4 DEF Regis, AddFriend, AddFriendInfo
<1>5. CASE CreateGroup(c) \/ CreateGroupCreator(c) \/ AddToGroup(c) \/ AddToGroupUser(c)
  BY <1>5 DEF CreateGroup, CreateGroupCreator, AddToGroup, AddToGroupUser
<1>6. CASE CloseFind(c) \/ CloseUpdateState(c)
  BY <1>6 DEF CloseFind, CloseUpdateState
<1> QED
  BY <1>1, <1>2, <1>3, <1>4, <1>5, <1>6 DEF Handle, ChangesMap

(* A client's server and user.                                             *)
LEMMA HomeAndUser ==
  ASSUME ChatTypes, NEW c \in Clients
  PROVE  Home(c) \in Servers /\ world.account[c] \in Users /\ world.home[c] = Home(c) /\ c # NoConn
BY ChatAssumption DEF ChatTypes, Home

(* What becomes of the map.                                                *)
LEMMA MapChanges ==
  ASSUME SessionInv, NEW c \in Clients, ChangesMap(c)
  PROVE  /\ UNCHANGED world /\ handler[c].req.u = world.account[c]
         /\ DOMAIN userConnMap' = Servers /\ \A s \in Servers : DOMAIN userConnMap'[s] = Users
         /\ \A s \in Servers, u \in Users :
              s # Home(c) \/ u # world.account[c] => userConnMap'[s][u] = userConnMap[s][u]
         /\ userConnMap'[Home(c)][world.account[c]] =
              IF ~LoginInsert(c) THEN NoConn
              ELSE IF userConnMap[Home(c)][world.account[c]] = NoConn THEN c
              ELSE userConnMap[Home(c)][world.account[c]]
<1>1. ChatTypes /\ EntriesOK /\ ClientOK(c)
  BY DEF SessionInv
<1>2. Home(c) \in Servers /\ world.account[c] \in Users
  BY <1>1, HomeAndUser
<1>3. UNCHANGED world /\ handler[c].pc \in {"insert", "LOG_OUT", "erase"}
  BY DEF ChangesMap, LoginInsert, LogoutErase, CloseErase, At
<1>4. handler[c].req.u = world.account[c]
  <2>1. HandlerOK(handler[c], world.account[c]) /\ handler[c].pc # "idle"
    BY <1>1, <1>3 DEF ClientOK
  <2>2. PcOK(handler[c].pc, handler[c].req.id) /\ (handler[c].req.id # "REG" => handler[c].req.u = world.account[c])
    BY <2>1, BusyHandler
  <2> QED
    BY <1>3, <2>2 DEF PcOK, Telling
<1>5. PICK v : v = IF ~LoginInsert(c) THEN NoConn
                   ELSE IF userConnMap[Home(c)][world.account[c]] = NoConn THEN c
                   ELSE userConnMap[Home(c)][world.account[c]]
  OBVIOUS
<1>6. userConnMap' = [userConnMap EXCEPT ![Home(c)][world.account[c]] = v]
  <2>1. CASE LoginInsert(c)
    BY <1>4, <1>5, <2>1 DEF LoginInsert
  <2>2. CASE ~LoginInsert(c)
    BY <1>4, <1>5, <2>2 DEF ChangesMap, LogoutErase, CloseErase
  <2> QED
    BY <2>1, <2>2
<1>7. /\ DOMAIN userConnMap' = Servers /\ \A s \in Servers : DOMAIN userConnMap'[s] = Users
      /\ \A s \in Servers, u \in Users :
           s # Home(c) \/ u # world.account[c] => userConnMap'[s][u] = userConnMap[s][u]
      /\ userConnMap'[Home(c)][world.account[c]] = v
  <2>1. DOMAIN userConnMap = Servers /\ \A s \in Servers : DOMAIN userConnMap[s] = Users
    BY <1>1 DEF EntriesOK
  <2> HIDE DEF Home
  <2> QED
    BY <1>2, <1>6, <2>1
<1> QED
  BY <1>3, <1>4, <1>5, <1>7

(* An entry stays one of its server and of its user.                       *)
LEMMA EntriesStay ==
  ASSUME SessionInv, NEW c \in Clients, Handle(c)
  PROVE  EntriesOK'
<1>1. ChatTypes /\ EntriesOK
  BY DEF SessionInv
<1>2. CASE ~ChangesMap(c)
  <2>1. UNCHANGED userConnMap
    BY <1>2, MapStays
  <2>2. UNCHANGED world
    BY DEF Handle, OnMessage, LoginQuery, LoginUpdateState, LoginInsert, LoginOffline, LoginRemove,
           LoginLists, LogoutErase, LogoutUpdateState, LogoutUnsubscribe, ChatReceivers, Look, Ask,
           Publish, Store, Told, Regis, AddFriend, AddFriendInfo, CreateGroup, CreateGroupCreator,
           AddToGroup, AddToGroupUser, CloseFind, CloseErase, CloseUpdateState
  <2> QED
    BY <1>1, <2>1, <2>2 DEF EntriesOK
<1>3. CASE ChangesMap(c)
  <2>1. /\ Home(c) \in Servers /\ world.account[c] \in Users /\ world.home[c] = Home(c)
        /\ c # NoConn
    BY <1>1, HomeAndUser
  <2>2. /\ UNCHANGED world
        /\ DOMAIN userConnMap' = Servers /\ \A s \in Servers : DOMAIN userConnMap'[s] = Users
        /\ \A s \in Servers, u \in Users :
             s # Home(c) \/ u # world.account[c] => userConnMap'[s][u] = userConnMap[s][u]
        /\ userConnMap'[Home(c)][world.account[c]] \in
              {NoConn, c, userConnMap[Home(c)][world.account[c]]}
    BY <1>3, MapChanges
  <2>3. ASSUME NEW s \in Servers, NEW u \in Users, userConnMap'[s][u] # NoConn
        PROVE  /\ userConnMap'[s][u] \in Clients
               /\ world.home[userConnMap'[s][u]] = s /\ world.account[userConnMap'[s][u]] = u
    <3>1. CASE userConnMap'[s][u] = userConnMap[s][u]
      BY <1>1, <2>3, <3>1 DEF EntriesOK
    <3>2. CASE userConnMap'[s][u] # userConnMap[s][u]
      <4>1. s = Home(c) /\ u = world.account[c]
        BY <2>2, <3>2
      <4>2. userConnMap'[s][u] = c
        BY <2>2, <2>3, <3>2, <4>1
      <4> QED
        BY <2>1, <4>1, <4>2
    <3> QED
      BY <3>1, <3>2
  <2> QED
    BY <2>2, <2>3 DEF EntriesOK
<1> QED
  BY <1>2, <1>3

(* Every step of a handler but its first is one of Served.                 *)
LEMMA HandlerServes ==
  ASSUME SessionInv, NEW c \in Clients, Handle(c), UNCHANGED clientVars
  PROVE  OnMessage(c) \/ CloseFind(c) \/ Served(c)
<1>1. CASE LoginQuery(c) \/ LoginUpdateState(c) \/ LoginInsert(c) \/ LoginOffline(c)
           \/ LoginRemove(c) \/ LoginLists(c)
  BY <1>1, QueryServes, UpdateStateServes, InsertServes, OfflineServes, RemoveServes, ListsServes
<1>2. CASE LogoutErase(c) \/ LogoutUpdateState(c) \/ LogoutUnsubscribe(c)
  BY <1>2, LogoutEraseServes, LogoutUpdateServes, UnsubscribeServes
<1>3. CASE ChatReceivers(c) \/ Look(c) \/ Ask(c) \/ Publish(c) \/ Store(c) \/ Told(c)
  BY <1>3, ReceiversServes, LookServes, AskServes, PublishServes, StoreServes, ToldServes
<1>4. CASE Regis(c) \/ AddFriend(c) \/ AddFriendInfo(c)
  BY <1>4, RegisServes, AddFriendServes, FriendInfoServes
<1>5. CASE CreateGroup(c) \/ CreateGroupCreator(c) \/ AddToGroup(c) \/ AddToGroupUser(c)
  BY <1>5, CreateGroupServes, CreatorServes, AddToGroupServes, AddUserServes
<1>6. CASE CloseErase(c) \/ CloseUpdateState(c)
  BY <1>6, CloseEraseServes, CloseUpdateServes
<1> QED
  BY <1>1, <1>2, <1>3, <1>4, <1>5, <1>6 DEF Handle

(* Every step keeps the invariant.                                         *)
LEMMA SessionNext ==
  ASSUME SessionInv, OneSession, [Next]_vars
  PROVE  SessionInv'
<1>1. CASE UNCHANGED vars
  <2>1. UNCHANGED <<world, handler, up, down, conn, published, main, rwsem, isLoginSuccess, typed,
                    userConnMap, server>>
    BY <1>1 DEF vars, serverVars, clientVars, redis
  <2>2. ChatTypes' /\ PushesOK' /\ EntriesOK'
    BY <2>1 DEF SessionInv, ChatTypes, PushesOK, EntriesOK
  <2>3. (\A c \in Clients : ClientOK(c)') /\ OneLogin'
    BY <2>1, OneLoginKept DEF SessionInv, ClientOK, InLogin
  <2> QED
    BY <2>2, <2>3 DEF SessionInv
<1>2. ASSUME NEW c \in Clients, Handle(c), UNCHANGED clientVars PROVE SessionInv'
  BY <1>2, HandlerServes, EntriesStay, ServedKeeps, OnMessageTakes, CloseFindTakes
<1>3. ASSUME NEW s \in Servers, RedisNotify(s) \/ Interrupt(s) \/ Exit(s), UNCHANGED clientVars
      PROVE  SessionInv'
  BY <1>3, NotifyKeeps, ServerEnds
<1>4. ASSUME NEW c \in Clients, ClientStep(c) PROVE SessionInv'
  <2>1. CASE \E ok \in BOOLEAN : Login(c, ok)
    BY <2>1, LoginKeeps
  <2>2. CASE Register(c) \/ Wake(c) \/ Quit(c) \/ Command(c)
    BY <2>2, RegisterKeeps, WakeKeeps, QuitKeeps, CommandKeeps
  <2>3. CASE Logout(c) \/ QuitMenu(c) \/ Read(c) \/ ReadClosed(c)
    BY <2>3, LogoutKeeps, QuitMenuKeeps, ReadKeeps, QuitKeeps
  <2> QED
    BY <1>4, <2>1, <2>2, <2>3 DEF ClientStep
<1> QED
  BY <1>1, <1>2, <1>3, <1>4 DEF Next, Service, ServiceStep

-----------------------------------------------------------------------------
(* The rows of the users and the maps of the servers.                      *)

Entry(c) == userConnMap[Home(c)][world.account[c]] = c

Success(ds) == \E i \in DOMAIN ds : ds[i].id = "LOG_IN_MSG_ACK" /\ ds[i].err = 0

\* The user of c is logged in, as far as c knows or will know.
Logged(c) ==
  \/ main[c] = "chat"
  \/ main[c] = "login" /\ rwsem[c] = 1 /\ isLoginSuccess[c]
  \/ main[c] # "exited" /\ Success(down[c])

\* Handlers that have put the connection in the map and not taken it out, ...
Entered(h) ==
  \/ h.pc \in {"erase", "LOG_OUT"}
  \/ Serves(h, "LOG_IN") /\ h.pc \in {"query", "remove", "lists"} \cup Telling
\* ... that have the row online while it is not there, and those about to.
Holding == {"insert", "offline", "closeState"}
Unentered == Holding \cup {"updateState"}

\* A LOG_OUT that was sent comes before a later LOG_IN.
OutFirst(us) ==
  \A i, j \in DOMAIN us : us[i].id = "LOG_IN" /\ us[j].id = "LOG_OUT" => j < i

\* How far the session of c is, in the client, on its way and in the map.
StageOK(c) ==
  /\ main[c] = "login" => NoneOf(up[c], {"REG"}) /\ ~Serves(handler[c], "REG")
                          /\ NoneOf(down[c], {"REG_MSG_ACK"})
  /\ conn[c] \in {"open", "closed", "gone"} /\ (main[c] = "exited" <=> conn[c] # "open")
  /\ conn[c] = "gone" => /\ up[c] = <<>> /\ handler[c].pc \in {"idle", "erase", "closeState"}
                         /\ Entry(c) => handler[c].pc = "erase"
  /\ Serves(handler[c], "CLOSE") => conn[c] = "gone"
  /\ Entered(handler[c]) => Entry(c)
  /\ handler[c].pc \in Unentered => ~Entry(c)
  /\ OneOf(up[c], {"LOG_OUT"}) /\ OutFirst(up[c])
  /\ Has(up[c], "LOG_OUT") => /\ Entry(c) /\ ~Serves(handler[c], "LOG_OUT")
                              /\ ~Serves(handler[c], "LOG_IN")
  /\ Logged(c) => Entry(c) /\ ~Has(up[c], "LOG_OUT") /\ ~Serves(handler[c], "LOG_OUT")

\* c is why its user's row is online.
Holder(c) == Entry(c) \/ handler[c].pc \in Holding

RowsOK ==
  /\ DOMAIN row = Users /\ \A u \in Users : row[u] \in {"none", "offline", "online"}
  /\ \A c, d \in Clients : world.account[c] = world.account[d] /\ Holder(c) /\ Holder(d) => c = d
  /\ \A c \in Clients : Holder(c) => row[world.account[c]] = "online"
  /\ \A u \in Users : row[u] = "online" => \E c \in Clients : world.account[c] = u /\ Holder(c)
  /\ \A c \in Clients : handler[c].pc = "updateState" => row[world.account[c]] = "offline"

\* offlineAll changes the rows of all servers: this is so until the first SIGINT.
RowsInv == Running => RowsOK /\ \A c \in Clients : StageOK(c)

(* Nobody is logged in at first.                                           *)
LEMMA RowsInit ==
  ASSUME Init
  PROVE  RowsInv
<1>1. SessionInv
  BY SessionInit
<1>2. ASSUME NEW c \in Clients
      PROVE  /\ handler[c] = Idle /\ up[c] = <<>> /\ down[c] = <<>> /\ rwsem[c] = 0
             /\ main[c] \in {"menu", "exited"} /\ ~Entry(c)
             /\ conn[c] \in {"open", "gone"} /\ (main[c] = "exited" <=> conn[c] # "open")
  <2>1. Home(c) \in Servers /\ world.account[c] \in Users /\ c # NoConn
    BY <1>1, HomeAndUser DEF SessionInv
  <2>2. ~Entry(c)
    BY <2>1 DEF Init, ServiceInit, Entry
  <2> QED
    BY <2>2 DEF Init, ServiceInit
<1>3. Idle.pc = "idle" /\ ~Entered(Idle) /\ \A id : ~Serves(Idle, id)
  BY DEF Idle, Entered, Serves, Telling
<1>4. ASSUME NEW c \in Clients PROVE StageOK(c)
  <2>1. \A S : NoneOf(<<>>, S) /\ OneOf(<<>>, S)
    BY DEF NoneOf, OneOf
  <2>2. ~Has(<<>>, "LOG_OUT") /\ ~Success(<<>>) /\ OutFirst(<<>>)
    BY DEF Has, Success, OutFirst
  <2>3. ~Logged(c)
    BY <1>2, <2>2 DEF Logged
  <2> QED
    BY <1>2, <1>3, <2>1, <2>2, <2>3 DEF StageOK
<1>5. \A c \in Clients : ~Holder(c) /\ handler[c].pc # "updateState"
  BY <1>2, <1>3 DEF Holder, Holding
<1>6. row = world.row /\ world \in Worlds
  BY DEF Init, ServiceInit
<1>7. DOMAIN row = Users /\ \A u \in Users : row[u] \in {"none", "offline"}
  BY <1>6, ChatAssumption
<1>8. RowsOK
  BY <1>5, <1>7 DEF RowsOK
<1> QED
  BY <1>4, <1>8 DEF RowsInv

(* Success, after one message more or without the first ones.              *)
LEMMA SuccessFacts ==
  ASSUME NEW s, IsSeq(s)
  PROVE  /\ \A x : Success(Append(s, x)) => Success(s) \/ (x.id = "LOG_IN_MSG_ACK" /\ x.err = 0)
         /\ \A k, r : Dropped(s, k, r) /\ Success(r) => Success(s)
         /\ NoneOf(s, Answers) => ~Success(s)
<1>1. ASSUME NEW x, Success(Append(s, x))
      PROVE  Success(s) \/ (x.id = "LOG_IN_MSG_ACK" /\ x.err = 0)
  <2>1. PICK r : r = Append(s, x)
    OBVIOUS
  <2>2. /\ DOMAIN s = 1 .. Len(s) /\ DOMAIN r = 1 .. Len(s) + 1 /\ Len(s) \in Nat
        /\ \A i \in 1 .. Len(s) : r[i] = s[i]
        /\ r[Len(s) + 1] = x
    BY <2>1, AppendFacts
  <2>3. Success(r)
    BY <1>1, <2>1
  <2> QED
    BY <2>2, <2>3 DEF Success
<1>2. ASSUME NEW k, NEW r, Dropped(s, k, r), Success(r) PROVE Success(s)
  <2>1. /\ DOMAIN s = 1 .. Len(s) /\ DOMAIN r = 1 .. Len(s) - k
        /\ \A i \in 1 .. Len(s) - k : r[i] = s[i + k] /\ i + k \in 1 .. Len(s)
    BY <1>2, DropFacts
  <2> QED
    BY <1>2, <2>1 DEF Success
<1>3. NoneOf(s, Answers) => ~Success(s)
  BY DEF NoneOf, Success, Answers
<1> QED
  BY <1>1, <1>2, <1>3

\* Nothing of client d but what comes down changes, and that is no answer.
Same(d) ==
  /\ handler'[d] = handler[d] /\ up'[d] = up[d] /\ conn'[d] = conn[d] /\ main'[d] = main[d]
  /\ rwsem'[d] = rwsem[d] /\ isLoginSuccess'[d] = isLoginSuccess[d]
  /\ down'[d] = down[d] \/ \E m : down'[d] = Append(down[d], m) /\ m.id \notin Answers

(* Such a step keeps its stage.                                            *)
LEMMA SameStage ==
  ASSUME NEW d \in Clients, ClientOK(d), StageOK(d), Same(d), Entry(d)' <=> Entry(d)
  PROVE  StageOK(d)'
<1>1. /\ Success(down'[d]) => Success(down[d])
      /\ NoneOf(down[d], {"REG_MSG_ACK"}) => NoneOf(down'[d], {"REG_MSG_ACK"})
  <2>1. CASE down'[d] = down[d]
    BY <2>1
  <2>2. CASE \E m : down'[d] = Append(down[d], m) /\ m.id \notin Answers
    <3>1. PICK m : down'[d] = Append(down[d], m) /\ m.id \notin Answers
      BY <2>2
    <3>2. IsSeq(down[d])
      BY DEF ClientOK
    <3>3. Success(down'[d]) => Success(down[d])
      BY <3>1, <3>2, SuccessFacts DEF Answers
    <3>4. NoneOf(down'[d], {"REG_MSG_ACK"}) <=> NoneOf(down[d], {"REG_MSG_ACK"}) /\ m.id # "REG_MSG_ACK"
      BY <3>1, <3>2, AppendHolds
    <3> QED
      BY <3>1, <3>3, <3>4 DEF Answers
  <2> QED
    BY <2>1, <2>2 DEF Same
<1>2. Logged(d)' => Logged(d)
  BY <1>1 DEF Logged, Same
<1> QED
  BY <1>1, <1>2 DEF StageOK, Same

(* A handler sends answers to its own client only.                         *)
LEMMA ServedOthers ==
  ASSUME NEW c \in Clients, Served(c), NEW d \in Clients, d # c
  PROVE  Same(d)
<1>1. /\ up'[d] = up[d] /\ conn'[d] = conn[d] /\ main'[d] = main[d] /\ rwsem'[d] = rwsem[d]
      /\ isLoginSuccess'[d] = isLoginSuccess[d] /\ handler'[d] = handler[d]
  BY DEF Served, HandlerMoves
<1>2. down'[d] = down[d] \/ \E m : down'[d] = Append(down[d], m) /\ MayAnswer(c, d, m)
  BY DEF Served, Sends
<1>3. \A m : MayAnswer(c, d, m) => m.id \notin Answers
  BY DEF MayAnswer
<1> QED
  BY <1>1, <1>2, <1>3 DEF Same

\* The places where a handler logs in, logs out or closes.
Turning == Unentered \cup {"erase", "LOG_OUT"}

\* A step of a handler that does not.
Plain(c) ==
  /\ handler[c].pc \notin Turning
  /\ handler'[c].pc \notin Turning /\ (handler'[c] # Idle => handler[c].pc # "LOG_IN")
  /\ UNCHANGED userConnMap

(* Such a step keeps the stage of its client.                              *)
LEMMA PlainStage ==
  ASSUME NEW c \in Clients, ClientOK(c), StageOK(c), Served(c), Plain(c)
  PROVE  StageOK(c)' /\ (Entry(c)' <=> Entry(c))
<1>1. /\ up'[c] = up[c] /\ conn'[c] = conn[c] /\ main'[c] = main[c] /\ rwsem'[c] = rwsem[c]
      /\ isLoginSuccess'[c] = isLoginSuccess[c] /\ world' = world
  BY DEF Served
<1>2. /\ HandlerOK(handler'[c], world.account[c])
      /\ \A id : Serves(handler'[c], id) => Serves(handler[c], id)
  BY MovesServe DEF Served
<1>3. Entry(c)' <=> Entry(c)
  BY <1>1 DEF Entry, Home, Plain
<1>4. /\ handler[c].pc # "idle" /\ HandlerOK(handler[c], world.account[c])
      /\ PcOK(handler[c].pc, handler[c].req.id)
  BY IdleHandler, BusyHandler DEF Served, ClientOK
<1>5. conn[c] # "gone"
  BY <1>4 DEF StageOK, Plain, Turning, Unentered, Holding
<1>6. Entered(handler'[c]) => Entry(c)
  <2>1. SUFFICES ASSUME Entered(handler'[c]) PROVE Entered(handler[c])
    BY DEF StageOK
  <2>2. Serves(handler'[c], "LOG_IN") /\ handler'[c].pc # "idle"
    BY <2>1 DEF Entered, Plain, Turning, Serves
  <2>3. handler'[c] # Idle
    BY <2>2 DEF Idle
  <2>4. Serves(handler[c], "LOG_IN") /\ handler[c].pc # "LOG_IN" /\ handler[c].pc \notin Turning
    BY <1>2, <2>2, <2>3 DEF Plain
  <2> QED
    BY <1>4, <2>4 DEF Serves, PcOK, Entered, Turning, Unentered, Holding
<1>7. IsSeq(down[c])
  BY DEF ClientOK
<1>8. \/ down'[c] = down[c]
      \/ \E m : down'[c] = Append(down[c], m) /\ MayAnswer(c, c, m)
  BY DEF Served, Sends
<1>9. main[c] = "login" => NoneOf(down'[c], {"REG_MSG_ACK"})
  <2>1. SUFFICES ASSUME main[c] = "login", down'[c] # down[c] PROVE NoneOf(down'[c], {"REG_MSG_ACK"})
    BY DEF StageOK
  <2>2. PICK m : down'[c] = Append(down[c], m) /\ MayAnswer(c, c, m)
    BY <1>8, <2>1
  <2>3. ~Serves(handler[c], "REG") /\ NoneOf(down[c], {"REG_MSG_ACK"})
    BY <2>1 DEF StageOK
  <2>4. m.id # "REG_MSG_ACK"
    BY <2>2, <2>3 DEF MayAnswer, Answers
  <2> QED
    BY <1>7, <2>2, <2>3, <2>4, AppendHolds
<1>10. Success(down'[c]) /\ ~Success(down[c]) =>
          Entry(c) /\ ~Has(up[c], "LOG_OUT") /\ ~Serves(handler'[c], "LOG_OUT")
  <2>1. SUFFICES ASSUME Success(down'[c]), ~Success(down[c])
                 PROVE  Entry(c) /\ ~Has(up[c], "LOG_OUT") /\ ~Serves(handler'[c], "LOG_OUT")
    OBVIOUS
  <2>2. PICK m : down'[c] = Append(down[c], m) /\ MayAnswer(c, c, m)
    BY <1>8, <2>1
  <2>3. m.id = "LOG_IN_MSG_ACK" /\ m.err = 0
    BY <1>7, <2>1, <2>2, SuccessFacts
  <2>4. Serves(handler[c], "LOG_IN") /\ handler[c].pc = "look" /\ handler'[c] = Idle
    BY <2>2, <2>3 DEF MayAnswer, Answers
  <2>5. Entered(handler[c])
    BY <2>4 DEF Entered, Telling
  <2>6. ~Serves(handler'[c], "LOG_OUT")
    BY <2>4 DEF Serves, Idle
  <2> QED
    BY <2>4, <2>5, <2>6 DEF StageOK
<1>11. Logged(c)' => Entry(c) /\ ~Has(up[c], "LOG_OUT") /\ ~Serves(handler'[c], "LOG_OUT")
  <2>1. Logged(c)' => Logged(c) \/ (Success(down'[c]) /\ ~Success(down[c]))
    BY <1>1 DEF Logged
  <2> QED
    BY <1>2, <1>10, <2>1 DEF StageOK
<1>12. handler'[c].pc \notin Unentered
  BY DEF Plain, Turning
<1>13. Has(up[c], "LOG_OUT") => /\ Entry(c) /\ ~Serves(handler'[c], "LOG_OUT")
                                /\ ~Serves(handler'[c], "LOG_IN")
  BY <1>2 DEF StageOK
<1>14. main[c] = "login" => NoneOf(up[c], {"REG"}) /\ ~Serves(handler'[c], "REG")
  BY <1>2 DEF StageOK
<1>15. ~Serves(handler'[c], "CLOSE")
  BY <1>2, <1>5 DEF StageOK
<1>16. /\ conn[c] \in {"open", "closed", "gone"} /\ (main[c] = "exited" <=> conn[c] # "open")
       /\ OneOf(up[c], {"LOG_OUT"}) /\ OutFirst(up[c])
  BY DEF StageOK
<1> QED
  BY <1>1, <1>3, <1>5, <1>6, <1>9, <1>11, <1>12, <1>13, <1>14, <1>15, <1>16 DEF StageOK

(* While the same clients hold their rows online, these are right: a       *)
(* registration only changes them.                                         *)
LEMMA PlainRows ==
  ASSUME SessionInv, RowsOK, UNCHANGED world,
         \A d \in Clients : /\ Holder(d)' <=> Holder(d)
                            /\ handler'[d].pc = "updateState" =>
                                 \/ handler[d].pc = "updateState"
                                 \/ row[world.account[d]] = "offline",
         DOMAIN row' = Users,
         \A u \in Users : row'[u] = row[u] \/ (row[u] = "none" /\ row'[u] = "offline")
  PROVE  RowsOK'
<1>1. \A d \in Clients : Holder(d)' <=> Holder(d)
  OBVIOUS
<1>2. \A d \in Clients : world.account[d] \in Users
  BY HomeAndUser DEF SessionInv
<1>3. \A u \in Users : (row'[u] = "online" <=> row[u] = "online")
                       /\ row'[u] \in {"none", "offline", "online"}
                       /\ (row[u] = "offline" => row'[u] = "offline")
  BY DEF RowsOK
<1>4. ASSUME NEW c \in Clients, NEW d \in Clients, world.account[c] = world.account[d],
             Holder(c)', Holder(d)'
      PROVE  c = d
  BY <1>1, <1>4 DEF RowsOK
<1>5. ASSUME NEW c \in Clients, Holder(c)' PROVE row'[world.account[c]] = "online"
  BY <1>1, <1>2, <1>3, <1>5 DEF RowsOK
<1>6. ASSUME NEW u \in Users, row'[u] = "online"
      PROVE  \E c \in Clients : world.account[c] = u /\ Holder(c)'
  BY <1>1, <1>3, <1>6 DEF RowsOK
<1>7. ASSUME NEW c \in Clients, handler'[c].pc = "updateState"
      PROVE  row'[world.account[c]] = "offline"
  BY <1>2, <1>3, <1>7 DEF RowsOK
<1> QED
  BY <1>3, <1>4, <1>5, <1>6, <1>7 DEF RowsOK

(* A step of a handler that does not turn.                                 *)
LEMMA PlainKeeps ==
  ASSUME SessionInv, RowsOK, \A d \in Clients : StageOK(d), NEW c \in Clients, Served(c), Plain(c),
         DOMAIN row' = Users,
         \A u \in Users : row'[u] = row[u] \/ (row[u] = "none" /\ row'[u] = "offline")
  PROVE  RowsOK' /\ \A d \in Clients : StageOK(d)'
<1>1. ASSUME NEW d \in Clients, d # c PROVE StageOK(d)' /\ Same(d) /\ (Entry(d)' <=> Entry(d))
  <2>1. Same(d)
    BY <1>1, ServedOthers
  <2>2. Entry(d)' <=> Entry(d)
    BY DEF Entry, Home, Plain, Served
  <2> QED
    BY <2>1, <2>2, SameStage DEF SessionInv
<1>2. StageOK(c)' /\ (Entry(c)' <=> Entry(c))
  BY PlainStage DEF SessionInv
<1>3. ASSUME NEW d \in Clients
      PROVE  /\ handler'[d].pc \in Holding <=> handler[d].pc \in Holding
             /\ handler'[d].pc = "updateState" => handler[d].pc = "updateState"
  <2>1. CASE d = c
    BY <2>1 DEF Plain, Turning, Unentered
  <2>2. CASE d # c
    BY <1>1, <2>2 DEF Same
  <2> QED
    BY <2>1, <2>2
<1>4. \A d \in Clients : Holder(d)' <=> Holder(d)
  BY <1>1, <1>2, <1>3 DEF Holder
<1>5. RowsOK'
  BY <1>3, <1>4, PlainRows DEF Served
<1> QED
  BY <1>1, <1>2, <1>5

(* A step that turns: the stage of its client.                             *)
LEMMA TurnStage ==
  ASSUME NEW c \in Clients, ClientOK(c), StageOK(c), Served(c), down'[c] = down[c],
         Entered(handler'[c]) => Entry(c)',
         handler'[c].pc \in Unentered => ~Entry(c)',
         conn[c] = "gone" => handler'[c].pc \in {"idle", "closeState"} /\ ~Entry(c)',
         Has(up[c], "LOG_OUT") => Entry(c)',
         Logged(c) => Entry(c)'
  PROVE  StageOK(c)'
<1>1. /\ up'[c] = up[c] /\ conn'[c] = conn[c] /\ main'[c] = main[c] /\ rwsem'[c] = rwsem[c]
      /\ isLoginSuccess'[c] = isLoginSuccess[c] /\ world' = world
  BY DEF Served
<1>2. \A id : Serves(handler'[c], id) => Serves(handler[c], id)
  BY MovesServe DEF Served
<1>3. Logged(c)' <=> Logged(c)
  BY <1>1 DEF Logged
<1>4. main[c] = "login" => NoneOf(up[c], {"REG"}) /\ ~Serves(handler'[c], "REG")
                           /\ NoneOf(down[c], {"REG_MSG_ACK"})
  BY <1>2 DEF StageOK
<1>5. /\ conn[c] \in {"open", "closed", "gone"} /\ (main[c] = "exited" <=> conn[c] # "open")
      /\ OneOf(up[c], {"LOG_OUT"}) /\ OutFirst(up[c])
      /\ Serves(handler'[c], "CLOSE") => conn[c] = "gone"
      /\ conn[c] = "gone" => up[c] = <<>>
  BY <1>2 DEF StageOK
<1>6. Has(up[c], "LOG_OUT") => ~Serves(handler'[c], "LOG_OUT") /\ ~Serves(handler'[c], "LOG_IN")
  BY <1>2 DEF StageOK
<1>7. Logged(c) => ~Has(up[c], "LOG_OUT") /\ ~Serves(handler'[c], "LOG_OUT")
  BY <1>2 DEF StageOK
<1> QED
  BY <1>1, <1>3, <1>4, <1>5, <1>6, <1>7 DEF StageOK

(* The other clients while c turns.                                        *)
LEMMA TurnOthers ==
  ASSUME SessionInv, \A d \in Clients : StageOK(d), NEW c \in Clients, Served(c),
         \A d \in Clients \ {c} : Entry(d)' <=> Entry(d)
  PROVE  \A d \in Clients \ {c} : /\ StageOK(d)' /\ (Holder(d)' <=> Holder(d))
                                  /\ handler'[d] = handler[d]
<1>1. ASSUME NEW d \in Clients \ {c}
      PROVE  StageOK(d)' /\ (Holder(d)' <=> Holder(d)) /\ handler'[d] = handler[d]
  <2>1. Same(d)
    BY ServedOthers
  <2>2. StageOK(d)'
    BY <2>1, SameStage DEF SessionInv
  <2>3. handler'[d] = handler[d]
    BY <2>1 DEF Same
  <2> QED
    BY <2>2, <2>3 DEF Holder
<1> QED
  BY <1>1

(* Where the handler of c is, whom it serves and where it goes.            *)
LEMMA TurnsAt ==
  ASSUME SessionInv, NEW c \in Clients, NEW p, handler[c].pc = p, p \in Turning \cup {"LOG_IN"},
         NEW q, q \in Turning \cup {"query", "unsubscribe"}, Goto(c, q),
         PcOK(p, "LOG_IN") => PcOK(q, "LOG_IN"), PcOK(p, "LOG_OUT") => PcOK(q, "LOG_OUT"),
         PcOK(p, "CLOSE") => PcOK(q, "CLOSE")
  PROVE  /\ handler'[c].pc = q /\ handler'[c].req = handler[c].req
         /\ PcOK(p, handler[c].req.id) /\ handler[c].req.u = world.account[c]
         /\ ClientOK(c) /\ ChatTypes
<1>1. ClientOK(c) /\ ChatTypes /\ handler[c].pc # "idle"
  BY DEF SessionInv, Turning, Unentered, Holding
<1>2. PcOK(p, handler[c].req.id) /\ (handler[c].req.id # "REG" => handler[c].req.u = world.account[c])
  BY <1>1, BusyHandler DEF ClientOK
<1>3. handler[c].req.id \in {"LOG_IN", "LOG_OUT", "CLOSE"}
  BY <1>2 DEF PcOK, Turning, Unentered, Holding, RequestIds, Telling
<1>4. PcOK(q, handler[c].req.id)
  BY <1>2, <1>3
<1>5. handler'[c].pc = q /\ handler'[c].req = handler[c].req
  BY <1>1, <1>4, GotoMoves
<1> QED
  BY <1>1, <1>2, <1>3, <1>5

(* login: the row is offline, and no connection holds it.                  *)
LEMMA QueryRows ==
  ASSUME SessionInv, RowsOK, \A d \in Clients : StageOK(d), NEW c \in Clients, Served(c),
         LoginQuery(c), handler'[c] # Idle
  PROVE  RowsOK' /\ \A d \in Clients : StageOK(d)'
<1>1. handler[c].pc = "LOG_IN" /\ UNCHANGED <<world, row, userConnMap>>
  BY DEF LoginQuery, At, tables
<1>2. /\ Goto(c, "updateState") /\ UNCHANGED down
      /\ row[handler[c].req.u] # "none" /\ row[handler[c].req.u] # "online"
  <2>1. \A m : ~Reply(c, m)
    <3>1. ASSUME NEW m, Reply(c, m) PROVE handler'[c] = Idle
      BY <3>1 DEF Reply, Return, SessionInv, ChatTypes
    <3> QED
      BY <3>1
  <2> QED
    BY <2>1 DEF LoginQuery, UserQuery
<1>3. PcOK("updateState", "LOG_IN") /\ ~PcOK("LOG_IN", "LOG_OUT") /\ ~PcOK("LOG_IN", "CLOSE")
  BY DEF PcOK, Telling, RequestIds
<1>4. /\ handler'[c].pc = "updateState" /\ handler'[c].req = handler[c].req
      /\ PcOK("LOG_IN", handler[c].req.id) /\ handler[c].req.u = world.account[c]
      /\ ClientOK(c) /\ ChatTypes
  BY <1>1, <1>2, <1>3, TurnsAt DEF Turning, Unentered
<1>5. row[world.account[c]] = "offline"
  BY <1>2, <1>4, HomeAndUser DEF RowsOK
<1>6. ~Holder(c) /\ ~Entry(c)
  BY <1>5 DEF RowsOK, Holder
<1>7. \A d \in Clients : Entry(d)' <=> Entry(d)
  BY <1>1 DEF Entry, Home
<1>8. Serves(handler[c], "LOG_IN")
  BY <1>1, <1>4 DEF PcOK, Serves, Telling
<1>9. StageOK(c)'
  <2>1. ~Entered(handler'[c])
    BY <1>4 DEF Entered, Telling
  <2>2. StageOK(c) /\ down'[c] = down[c]
    BY <1>2
  <2>3. conn[c] # "gone"
    BY <1>1, <2>2 DEF StageOK
  <2>4. ~Has(up[c], "LOG_OUT") /\ ~Logged(c)
    BY <1>6, <2>2 DEF StageOK
  <2> QED
    BY <1>4, <1>6, <1>7, <2>1, <2>2, <2>3, <2>4, TurnStage
<1>10. \A d \in Clients \ {c} : /\ StageOK(d)' /\ (Holder(d)' <=> Holder(d))
                                /\ handler'[d] = handler[d]
  BY <1>7, TurnOthers
<1>11. ~Holder(c)'
  BY <1>4, <1>6, <1>7 DEF Holder, Holding
<1>12. RowsOK'
  <2>1. \A d \in Clients : Holder(d)' <=> Holder(d)
    BY <1>6, <1>10, <1>11
  <2>2. \A d \in Clients : handler'[d].pc = "updateState" =>
                             handler[d].pc = "updateState" \/ row[world.account[d]] = "offline"
    BY <1>5, <1>10
  <2> QED
    BY <1>1, <2>1, <2>2, PlainRows DEF RowsOK
<1> QED
  BY <1>9, <1>10, <1>12

(* login: the row is online, because of c alone.                           *)
LEMMA OnlineRows ==
  ASSUME SessionInv, RowsOK, \A d \in Clients : StageOK(d), NEW c \in Clients, Served(c),
         LoginUpdateState(c)
  PROVE  RowsOK' /\ \A d \in Clients : StageOK(d)'
<1>1. /\ handler[c].pc = "updateState" /\ UNCHANGED <<world, userConnMap, down>>
      /\ Goto(c, "insert") /\ row' = [row EXCEPT ![handler[c].req.u] = "online"]
  BY DEF LoginUpdateState, At, UpdateState
<1>2. PcOK("insert", "LOG_IN") /\ ~PcOK("updateState", "LOG_OUT") /\ ~PcOK("updateState", "CLOSE")
  BY DEF PcOK, Telling, RequestIds
<1>3. /\ handler'[c].pc = "insert" /\ handler'[c].req = handler[c].req
      /\ PcOK("updateState", handler[c].req.id) /\ handler[c].req.u = world.account[c]
      /\ ClientOK(c) /\ ChatTypes
  BY <1>1, <1>2, TurnsAt DEF Turning, Unentered, Holding
<1>4. row[world.account[c]] = "offline" /\ world.account[c] \in Users
  BY <1>1, <1>3, HomeAndUser DEF RowsOK
<1>5. \A d \in Clients : world.account[d] = world.account[c] => ~Holder(d)
  BY <1>4 DEF RowsOK
<1>6. ~Entry(c)
  BY <1>5 DEF Holder
<1>7. \A d \in Clients : Entry(d)' <=> Entry(d)
  BY <1>1 DEF Entry, Home
<1>8. Serves(handler[c], "LOG_IN")
  BY <1>1, <1>3 DEF PcOK, Serves, Telling, RequestIds
<1>9. StageOK(c)'
  <2>1. ~Entered(handler'[c])
    BY <1>3 DEF Entered, Telling
  <2>2. StageOK(c) /\ down'[c] = down[c]
    BY <1>1
  <2>3. conn[c] # "gone"
    BY <1>1, <2>2 DEF StageOK
  <2>4. ~Has(up[c], "LOG_OUT") /\ ~Logged(c)
    BY <1>6, <2>2 DEF StageOK
  <2> QED
    BY <1>3, <1>6, <1>7, <2>1, <2>2, <2>3, <2>4, TurnStage
<1>10. \A d \in Clients \ {c} : /\ StageOK(d)' /\ (Holder(d)' <=> Holder(d))
                                /\ handler'[d] = handler[d]
  BY <1>7, TurnOthers
<1>11. Holder(c)'
  BY <1>3 DEF Holder, Holding
<1>12. /\ DOMAIN row' = Users /\ row'[world.account[c]] = "online"
       /\ \A u \in Users : u # world.account[c] => row'[u] = row[u]
  BY <1>1, <1>3, <1>4 DEF RowsOK
<1>13. \A d \in Clients : world.account[d] \in Users
  BY <1>3, HomeAndUser
<1>14. RowsOK'
  <2>1. \A u \in Users : row'[u] \in {"none", "offline", "online"}
    BY <1>12 DEF RowsOK
  <2>2. ASSUME NEW d \in Clients, NEW e \in Clients, world.account[d] = world.account[e],
               Holder(d)', Holder(e)'
        PROVE  d = e
    <3>1. CASE world.account[d] = world.account[c]
      BY <1>5, <1>10, <2>2, <3>1
    <3>2. CASE world.account[d] # world.account[c]
      BY <1>10, <2>2, <3>2 DEF RowsOK
    <3> QED
      BY <3>1, <3>2
  <2>3. ASSUME NEW d \in Clients, Holder(d)' PROVE row'[world.account[d]] = "online"
    <3>1. CASE world.account[d] = world.account[c]
      BY <1>12, <3>1
    <3>2. CASE world.account[d] # world.account[c]
      BY <1>10, <1>12, <1>13, <2>3, <3>2 DEF RowsOK
    <3> QED
      BY <3>1, <3>2
  <2>4. ASSUME NEW u \in Users, row'[u] = "online"
        PROVE  \E d \in Clients : world.account[d] = u /\ Holder(d)'
    <3>1. CASE u = world.account[c]
      BY <1>11, <3>1
    <3>2. CASE u # world.account[c]
      BY <1>10, <1>12, <2>4, <3>2 DEF RowsOK
    <3> QED
      BY <3>1, <3>2
  <2>5. ASSUME NEW d \in Clients, handler'[d].pc = "updateState"
        PROVE  row'[world.account[d]] = "offline"
    <3>1. d # c /\ handler[d].pc = "updateState"
      BY <1>3, <1>10, <2>5
    <3>2. Serves(handler[d], "LOG_IN")
      <4>1. PcOK("updateState", handler[d].req.id)
        BY <3>1, BusyHandler DEF SessionInv, ClientOK
      <4> QED
        BY <3>1, <4>1 DEF PcOK, Serves, Telling, RequestIds
    <3>3. world.account[d] # world.account[c]
      BY <1>8, <3>1, <3>2 DEF SessionInv, OneLogin, InLogin
    <3> QED
      BY <1>12, <1>13, <3>1, <3>3 DEF RowsOK
  <2> QED
    BY <1>1, <1>12, <2>1, <2>2, <2>3, <2>4, <2>5 DEF RowsOK
<1> QED
  BY <1>9, <1>10, <1>14

(* The entries of the others when c's is put in or taken out.              *)
LEMMA OtherEntries ==
  ASSUME SessionInv, NEW c \in Clients, ChangesMap(c),
         userConnMap[Home(c)][world.account[c]] \in {c, NoConn}
  PROVE  \A d \in Clients \ {c} : Entry(d)' <=> Entry(d)
<1>1. ChatTypes
  BY DEF SessionInv
<1>2. /\ UNCHANGED world
      /\ \A s \in Servers, u \in Users :
           s # Home(c) \/ u # world.account[c] => userConnMap'[s][u] = userConnMap[s][u]
      /\ userConnMap'[Home(c)][world.account[c]] \in
            {NoConn, c, userConnMap[Home(c)][world.account[c]]}
  BY MapChanges
<1>3. ASSUME NEW d \in Clients \ {c} PROVE Entry(d)' <=> Entry(d)
  <2>1. Home(d) \in Servers /\ world.account[d] \in Users /\ d # NoConn /\ Home(d)' = Home(d)
    BY <1>1, <1>2, HomeAndUser DEF Home
  <2>2. CASE Home(d) = Home(c) /\ world.account[d] = world.account[c]
    BY <1>2, <2>1, <2>2 DEF Entry
  <2>3. CASE ~(Home(d) = Home(c) /\ world.account[d] = world.account[c])
    BY <1>2, <2>1, <2>3 DEF Entry
  <2> QED
    BY <2>2, <2>3
<1> QED
  BY <1>3

(* login: the connection is put in the map; there is none of its user.     *)
LEMMA InsertRows ==
  ASSUME SessionInv, RowsOK, \A d \in Clients : StageOK(d), NEW c \in Clients, Served(c),
         LoginInsert(c)
  PROVE  RowsOK' /\ \A d \in Clients : StageOK(d)'
<1>1. handler[c].pc = "insert" /\ UNCHANGED <<world, row, down>> /\ Goto(c, "query")
  BY DEF LoginInsert, At, tables
<1>2. PcOK("query", "LOG_IN") /\ ~PcOK("insert", "LOG_OUT") /\ ~PcOK("insert", "CLOSE")
  BY DEF PcOK, Telling, RequestIds
<1>3. /\ handler'[c].pc = "query" /\ handler'[c].req = handler[c].req
      /\ PcOK("insert", handler[c].req.id) /\ handler[c].req.u = world.account[c]
      /\ ClientOK(c) /\ ChatTypes
  BY <1>1, <1>2, TurnsAt DEF Turning, Unentered, Holding
<1>4. Home(c) \in Servers /\ world.account[c] \in Users /\ c # NoConn
  BY <1>3, HomeAndUser
<1>5. Holder(c) /\ ~Entry(c)
  BY <1>1 DEF Holder, Holding, StageOK, Unentered
<1>6. userConnMap[Home(c)][world.account[c]] = NoConn
  <2>1. SUFFICES ASSUME userConnMap[Home(c)][world.account[c]] # NoConn PROVE FALSE
    OBVIOUS
  <2>2. PICK d : d = userConnMap[Home(c)][world.account[c]]
    OBVIOUS
  <2>3. d \in Clients /\ world.home[d] = Home(c) /\ world.account[d] = world.account[c]
    BY <1>4, <2>1, <2>2 DEF SessionInv, EntriesOK
  <2>4. Entry(d)
    BY <2>2, <2>3 DEF Entry, Home
  <2>5. d = c
    BY <1>5, <2>3, <2>4 DEF RowsOK, Holder
  <2> QED
    BY <1>5, <2>4, <2>5
<1>7. Entry(c)'
  <2>1. userConnMap'[Home(c)][world.account[c]] = c
    BY <1>6, MapChanges DEF ChangesMap
  <2> QED
    BY <1>1, <2>1 DEF Entry, Home
<1>8. \A d \in Clients \ {c} : Entry(d)' <=> Entry(d)
  BY <1>6, OtherEntries DEF ChangesMap
<1>9. StageOK(c)'
  <2>1. StageOK(c) /\ down'[c] = down[c] /\ handler'[c].pc \notin Unentered
    BY <1>1, <1>3 DEF Unentered, Holding
  <2>2. conn[c] # "gone"
    BY <1>1, <2>1 DEF StageOK
  <2> QED
    BY <1>3, <1>7, <2>1, <2>2, TurnStage
<1>10. \A d \in Clients \ {c} : /\ StageOK(d)' /\ (Holder(d)' <=> Holder(d))
                                /\ handler'[d] = handler[d]
  BY <1>8, TurnOthers
<1>11. Holder(c)' <=> Holder(c)
  BY <1>5, <1>7 DEF Holder
<1>12. RowsOK'
  <2>1. \A d \in Clients : Holder(d)' <=> Holder(d)
    BY <1>10, <1>11
  <2>2. \A d \in Clients : handler'[d].pc = "updateState" => handler[d].pc = "updateState"
    BY <1>3, <1>10
  <2> QED
    BY <1>1, <2>1, <2>2, PlainRows DEF RowsOK
<1> QED
  BY <1>9, <1>10, <1>12

(* logout and clientCloseException: the connection is taken out, its user  *)
(* is still online.                                                        *)
LEMMA EraseRows ==
  ASSUME SessionInv, RowsOK, \A d \in Clients : StageOK(d), NEW c \in Clients, Served(c),
         LogoutErase(c) \/ CloseErase(c)
  PROVE  RowsOK' /\ \A d \in Clients : StageOK(d)'
<1>1. /\ UNCHANGED <<world, row, down>>
      /\ \/ handler[c].pc = "LOG_OUT" /\ Goto(c, "offline")
         \/ handler[c].pc = "erase" /\ Goto(c, "closeState")
  BY DEF LogoutErase, CloseErase, At, tables
<1>2. /\ ~PcOK("LOG_OUT", "LOG_IN") /\ PcOK("offline", "LOG_OUT") /\ ~PcOK("LOG_OUT", "CLOSE")
      /\ ~PcOK("erase", "LOG_IN") /\ PcOK("closeState", "CLOSE") /\ ~PcOK("erase", "LOG_OUT")
  BY DEF PcOK, Telling, RequestIds
<1>3. /\ \/ handler[c].pc = "LOG_OUT" /\ handler'[c].pc = "offline"
         \/ handler[c].pc = "erase" /\ handler'[c].pc = "closeState"
      /\ handler'[c].req = handler[c].req /\ PcOK(handler[c].pc, handler[c].req.id)
      /\ ClientOK(c) /\ ChatTypes
  <2>1. CASE handler[c].pc = "LOG_OUT" /\ Goto(c, "offline")
    BY <1>2, <2>1, TurnsAt DEF Turning, Unentered, Holding
  <2>2. CASE handler[c].pc = "erase" /\ Goto(c, "closeState")
    BY <1>2, <2>2, TurnsAt DEF Turning, Unentered, Holding
  <2> QED
    BY <1>1, <2>1, <2>2
<1>4. Entry(c) /\ Holder(c)
  BY <1>3 DEF StageOK, Entered, Holder
<1>5. ~LoginInsert(c) /\ ChangesMap(c)
  BY <1>3 DEF LoginInsert, At, ChangesMap
<1>6. ~Entry(c)'
  <2>1. userConnMap'[Home(c)][world.account[c]] = NoConn
    BY <1>5, MapChanges
  <2>2. c # NoConn
    BY <1>3, HomeAndUser
  <2> QED
    BY <1>1, <2>1, <2>2 DEF Entry, Home
<1>7. \A d \in Clients \ {c} : Entry(d)' <=> Entry(d)
  <2>1. userConnMap[Home(c)][world.account[c]] \in {c, NoConn}
    BY <1>4 DEF Entry
  <2> QED
    BY <1>5, <2>1, OtherEntries
<1>8. StageOK(c)'
  <2>1. StageOK(c) /\ down'[c] = down[c]
    BY <1>1
  <2>2. handler'[c].pc \in Unentered /\ ~Entered(handler'[c])
    BY <1>3 DEF Unentered, Holding, Entered, Telling
  <2>3. CASE handler[c].pc = "LOG_OUT" /\ handler'[c].pc = "offline"
    <3>1. Serves(handler[c], "LOG_OUT")
      BY <1>3, <2>3 DEF PcOK, Serves, Telling, RequestIds
    <3>2. conn[c] # "gone" /\ ~Has(up[c], "LOG_OUT") /\ ~Logged(c)
      BY <2>1, <2>3, <3>1 DEF StageOK
    <3> QED
      BY <1>3, <1>6, <2>1, <2>2, <3>2, TurnStage
  <2>4. CASE handler[c].pc = "erase" /\ handler'[c].pc = "closeState"
    <3>1. Serves(handler[c], "CLOSE")
      BY <1>3, <2>4 DEF PcOK, Serves, Telling, RequestIds
    <3>2. conn[c] = "gone" /\ up[c] = <<>> /\ main[c] = "exited"
      BY <2>1, <3>1 DEF StageOK
    <3>3. ~Has(up[c], "LOG_OUT") /\ ~Logged(c)
      BY <3>2 DEF Has, Logged
    <3> QED
      BY <1>3, <1>6, <2>1, <2>2, <2>4, <3>3, TurnStage
  <2> QED
    BY <1>3, <2>3, <2>4
<1>9. \A d \in Clients \ {c} : /\ StageOK(d)' /\ (Holder(d)' <=> Holder(d))
                               /\ handler'[d] = handler[d]
  BY <1>7, TurnOthers
<1>10. Holder(c)'
  BY <1>3 DEF Holder, Holding
<1>11. RowsOK'
  <2>1. \A d \in Clients : Holder(d)' <=> Holder(d)
    BY <1>4, <1>9, <1>10
  <2>2. \A d \in Clients : handler'[d].pc = "updateState" => handler[d].pc = "updateState"
    BY <1>3, <1>9
  <2> QED
    BY <1>1, <2>1, <2>2, PlainRows DEF RowsOK
<1> QED
  BY <1>8, <1>9, <1>11

(* logout and clientCloseException: the row is offline, and nobody holds it.*)
LEMMA OfflineRows ==
  ASSUME SessionInv, RowsOK, \A d \in Clients : StageOK(d), NEW c \in Clients, Served(c),
         LogoutUpdateState(c) \/ CloseUpdateState(c)
  PROVE  RowsOK' /\ \A d \in Clients : StageOK(d)'
<1>1. /\ UNCHANGED <<world, userConnMap, down>>
      /\ row' = [row EXCEPT ![handler[c].req.u] = "offline"]
      /\ \/ handler[c].pc = "offline" /\ Goto(c, "unsubscribe")
         \/ handler[c].pc = "closeState" /\ Return(c)
  BY DEF LogoutUpdateState, CloseUpdateState, At, UpdateState
<1>2. /\ ~PcOK("offline", "LOG_IN") /\ PcOK("unsubscribe", "LOG_OUT") /\ ~PcOK("offline", "CLOSE")
  BY DEF PcOK, Telling, RequestIds
<1>3. /\ \/ handler[c].pc = "offline" /\ handler'[c].pc = "unsubscribe"
         \/ handler[c].pc = "closeState" /\ handler'[c] = Idle
      /\ handler[c].req.u = world.account[c] /\ PcOK(handler[c].pc, handler[c].req.id)
      /\ ClientOK(c) /\ ChatTypes
  <2>1. CASE handler[c].pc = "offline" /\ Goto(c, "unsubscribe")
    BY <1>2, <2>1, TurnsAt DEF Turning, Unentered, Holding
  <2>2. CASE handler[c].pc = "closeState" /\ Return(c)
    <3>1. ClientOK(c) /\ ChatTypes
      BY DEF SessionInv
    <3>2. PcOK(handler[c].pc, handler[c].req.id) /\ (handler[c].req.id # "REG" => handler[c].req.u = world.account[c])
      BY <2>2, <3>1, BusyHandler DEF ClientOK
    <3>3. handler[c].req.id # "REG"
      BY <2>2, <3>2 DEF PcOK, Telling, RequestIds
    <3> QED
      BY <2>2, <3>1, <3>2, <3>3, ReturnMoves
  <2> QED
    BY <1>1, <2>1, <2>2
<1>4. Idle.pc = "idle"
  BY DEF Idle
<1>5. handler'[c].pc \in {"unsubscribe", "idle"} /\ handler[c].pc \in {"offline", "closeState"}
  BY <1>3, <1>4
<1>6. Holder(c) /\ ~Entry(c)
  BY <1>5 DEF Holder, Holding, StageOK, Unentered
<1>7. \A d \in Clients : Entry(d)' <=> Entry(d)
  BY <1>1 DEF Entry, Home
<1>8. StageOK(c)'
  <2>1. StageOK(c) /\ down'[c] = down[c]
    BY <1>1
  <2>2. handler'[c].pc \notin Unentered /\ ~Entered(handler'[c])
    BY <1>5 DEF Unentered, Holding, Entered, Telling
  <2>3. ~Has(up[c], "LOG_OUT") /\ ~Logged(c)
    BY <1>6, <2>1 DEF StageOK
  <2>4. conn[c] = "gone" => handler'[c].pc = "idle"
    BY <1>3, <1>4, <2>1 DEF StageOK
  <2> QED
    BY <1>3, <1>6, <1>7, <2>1, <2>2, <2>3, <2>4, TurnStage
<1>9. \A d \in Clients \ {c} : /\ StageOK(d)' /\ (Holder(d)' <=> Holder(d))
                               /\ handler'[d] = handler[d]
  BY <1>7, TurnOthers
<1>10. ~Holder(c)'
  BY <1>5, <1>6, <1>7 DEF Holder, Holding
<1>11. world.account[c] \in Users /\ \A d \in Clients : world.account[d] \in Users
  BY <1>3, HomeAndUser
<1>12. /\ DOMAIN row' = Users /\ row'[world.account[c]] = "offline"
       /\ \A u \in Users : u # world.account[c] => row'[u] = row[u]
  BY <1>1, <1>3, <1>11 DEF RowsOK
<1>13. \A d \in Clients : world.account[d] = world.account[c] => ~Holder(d)'
  BY <1>6, <1>9, <1>10 DEF RowsOK
<1>14. RowsOK'
  <2>1. \A u \in Users : row'[u] \in {"none", "offline", "online"}
    BY <1>12 DEF RowsOK
  <2>2. ASSUME NEW d \in Clients, NEW e \in Clients, world.account[d] = world.account[e],
               Holder(d)', Holder(e)'
        PROVE  d = e
    BY <1>9, <1>10, <2>2 DEF RowsOK
  <2>3. ASSUME NEW d \in Clients, Holder(d)' PROVE row'[world.account[d]] = "online"
    BY <1>9, <1>10, <1>11, <1>12, <1>13, <2>3 DEF RowsOK
  <2>4. ASSUME NEW u \in Users, row'[u] = "online"
        PROVE  \E d \in Clients : world.account[d] = u /\ Holder(d)'
    <3>1. u # world.account[c] /\ row[u] = "online"
      BY <1>12, <2>4
    <3>2. PICK d \in Clients : world.account[d] = u /\ Holder(d)
      BY <3>1 DEF RowsOK
    <3> QED
      BY <1>9, <3>1, <3>2
  <2>5. ASSUME NEW d \in Clients, handler'[d].pc = "updateState"
        PROVE  row'[world.account[d]] = "offline"
    <3>1. handler[d].pc = "updateState"
      BY <1>5, <1>9, <2>5
    <3> QED
      BY <1>11, <1>12, <3>1 DEF RowsOK
  <2> QED
    BY <1>1, <1>12, <2>1, <2>2, <2>3, <2>4, <2>5 DEF RowsOK
<1> QED
  BY <1>8, <1>9, <1>14

(* A place that a step gives to the handler.                               *)
LEMMA GoesTo ==
  ASSUME SessionInv, NEW c \in Clients, handler[c].pc # "idle"
  PROVE  /\ "pc" \in DOMAIN handler[c] /\ DOMAIN handler = Clients /\ Idle.pc = "idle"
         /\ handler[c].req.id # "CLOSE" => DOMAIN handler[c] = Fields
         /\ PcOK(handler[c].pc, handler[c].req.id)
<1>1. HandlerOK(handler[c], world.account[c])
  BY DEF SessionInv, ClientOK
<1>2. /\ DOMAIN handler[c] = (IF handler[c].req.id = "CLOSE" THEN {"pc", "req"} ELSE Fields)
      /\ PcOK(handler[c].pc, handler[c].req.id)
  BY <1>1, BusyHandler
<1> QED
  BY <1>2 DEF SessionInv, ChatTypes, Fields, Idle

(* The rows of users change in login, logout, regis and                    *)
(* clientCloseException only.                                              *)
LEMMA RowStays ==
  ASSUME RowsOK, NEW c, Handle(c), ~LoginUpdateState(c), ~LogoutUpdateState(c), ~CloseUpdateState(c)
  PROVE  /\ DOMAIN row' = Users
         /\ \A u \in Users : row'[u] = row[u] \/ (row[u] = "none" /\ row'[u] = "offline")
<1>1. DOMAIN row = Users
  BY DEF RowsOK
<1>2. CASE OnMessage(c) \/ LoginQuery(c) \/ LoginInsert(c) \/ LoginOffline(c)
  BY <1>1, <1>2 DEF OnMessage, LoginQuery, LoginInsert, LoginOffline, tables
<1>3. CASE LoginRemove(c) \/ LoginLists(c) \/ LogoutErase(c) \/ LogoutUnsubscribe(c)
  BY <1>1, <1>3 DEF LoginRemove, LoginLists, LogoutErase, LogoutUnsubscribe, tables
<1>4. CASE ChatReceivers(c) \/ Look(c) \/ Ask(c) \/ Publish(c) \/ Store(c) \/ Told(c)
  BY <1>1, <1>4 DEF ChatReceivers, Look, Ask, Publish, Store, Told, tables
<1>5. CASE Regis(c)
  <2>1. CASE UNCHANGED row
    BY <1>1, <2>1
  <2>2. CASE \E u \in Users : UserInsert(u)
    BY <1>1, <2>2 DEF UserInsert
  <2> QED
    BY <1>5, <2>1, <2>2 DEF Regis
<1>6. CASE AddFriend(c) \/ AddFriendInfo(c) \/ CreateGroup(c) \/ CreateGroupCreator(c)
  BY <1>1, <1>6 DEF AddFriend, AddFriendInfo, CreateGroup, CreateGroupCreator, tables
<1>7. CASE AddToGroup(c) \/ AddToGroupUser(c) \/ CloseFind(c) \/ CloseErase(c)
  BY <1>1, <1>7 DEF AddToGroup, AddToGroupUser, CloseFind, CloseErase, tables
<1> QED
  BY <1>2, <1>3, <1>4, <1>5, <1>6, <1>7 DEF Handle

\* The steps that log in, log out or close.
Turns(c) ==
  \/ LoginQuery(c) /\ handler'[c] # Idle
  \/ LoginUpdateState(c) \/ LoginInsert(c)
  \/ LogoutErase(c) \/ LogoutUpdateState(c)
  \/ CloseErase(c) \/ CloseUpdateState(c)

(* The others are plain.                                                   *)
LEMMA NotTurning ==
  ASSUME SessionInv, NEW c \in Clients, Handle(c), Served(c), ~Turns(c)
  PROVE  Plain(c)
<1>1. handler[c].pc # "idle"
  BY IdleHandler DEF Served, SessionInv, ClientOK
<1>2. /\ "pc" \in DOMAIN handler[c] /\ DOMAIN handler = Clients /\ Idle.pc = "idle"
      /\ handler[c].req.id # "CLOSE" => DOMAIN handler[c] = Fields
      /\ PcOK(handler[c].pc, handler[c].req.id)
  BY <1>1, GoesTo
<1>3. UNCHANGED userConnMap
  BY MapStays DEF Turns, ChangesMap
<1>4. ChatTypes /\ ClientOK(c)
  BY DEF SessionInv
<1>5. \A m : Reply(c, m) => handler'[c] = Idle
  BY <1>2 DEF Reply, Return
<1>6. \A p : Goto(c, p) => handler'[c].pc = p
  BY <1>2 DEF Goto
<1>7. ASSUME handler[c].pc \notin Turning \cup {"LOG_IN"}, handler'[c].pc \notin Turning
      PROVE  Plain(c)
  BY <1>3, <1>7 DEF Plain
<1>8. ASSUME handler[c].pc \notin Turning, handler'[c] = Idle
      PROVE  Plain(c)
  BY <1>2, <1>3, <1>8 DEF Plain, Turning, Unentered, Holding
<1> USE DEF Turning, Unentered, Holding
<1>9. CASE LoginQuery(c)
  <2>1. handler[c].pc = "LOG_IN" /\ handler'[c] = Idle
    BY <1>9 DEF LoginQuery, At, Turns
  <2> QED
    BY <1>8, <2>1
<1>10. CASE LoginOffline(c) \/ LoginLists(c)
  <2>1. handler[c].pc \in {"query", "lists"} /\ handler'[c].pc \in {"remove", "look"}
    <3>1. handler[c].pc \in {"query", "lists"}
      BY <1>10 DEF LoginOffline, LoginLists, At
    <3>2. DOMAIN handler[c] = Fields
      BY <1>2, <3>1 DEF PcOK, RequestIds
    <3> QED
      BY <1>2, <1>10, <3>1, <3>2 DEF LoginOffline, LoginLists, Fields
  <2> QED
    BY <1>7, <2>1
<1>11. CASE LoginRemove(c)
  BY <1>6, <1>7, <1>11 DEF LoginRemove, At
<1>12. CASE LogoutUnsubscribe(c) \/ ChatReceivers(c)
  <2>1. handler[c].pc \in {"unsubscribe", "ONE_CHAT", "GROUP_CHAT"} /\ handler'[c].pc = "look"
    <3>1. handler[c].pc \in {"unsubscribe", "ONE_CHAT", "GROUP_CHAT"}
      BY <1>12 DEF LogoutUnsubscribe, ChatReceivers, At
    <3>2. DOMAIN handler[c] = Fields
      BY <1>2, <3>1 DEF PcOK, RequestIds
    <3> QED
      BY <1>2, <1>12, <3>1, <3>2 DEF LogoutUnsubscribe, ChatReceivers, Fields
  <2> QED
    BY <1>7, <2>1
<1>13. CASE Look(c)
  <2>1. handler[c].pc = "look"
    BY <1>13 DEF Look, At
  <2>2. handler'[c].pc \in Telling
    <3>1. CASE Goto(c, "ask")
      BY <1>6, <3>1 DEF Telling
    <3>2. CASE handler' = [handler EXCEPT ![c].todo = Tail(@)]
      BY <1>4, <2>1, <3>2, NextReceiverMoves DEF Telling
    <3> QED
      BY <1>13, <3>1, <3>2 DEF Look
  <2> QED
    BY <1>7, <2>1, <2>2 DEF Telling
<1>14. CASE Ask(c)
  <2>1. handler[c].pc = "ask" /\ handler'[c].pc \in {"publish", "store"}
    BY <1>6, <1>14 DEF Ask, At
  <2> QED
    BY <1>7, <2>1
<1>15. CASE Publish(c) \/ Store(c)
  <2>1. handler[c].pc \in {"publish", "store"} /\ NextReceiver(c)
    BY <1>15 DEF Publish, Store, At
  <2>2. handler'[c].pc \in Telling
    BY <1>4, <2>1, NextReceiverMoves DEF NextReceiver, Telling
  <2> QED
    BY <1>7, <2>1, <2>2 DEF Telling
<1>16. CASE Told(c)
  <2>1. handler[c].pc = "look" /\ handler'[c] = Idle
    BY <1>2, <1>16 DEF Told, At, Reply, Return
  <2> QED
    BY <1>8, <2>1
<1>17. CASE Regis(c) \/ AddFriendInfo(c) \/ CreateGroupCreator(c) \/ AddToGroupUser(c)
  <2>1. handler[c].pc \in {"REG", "friendInfo", "creator", "addUser"} /\ handler'[c] = Idle
    BY <1>5, <1>17 DEF Regis, AddFriendInfo, CreateGroupCreator, AddToGroupUser, At
  <2> QED
    BY <1>8, <2>1
<1>18. CASE AddFriend(c)
  <2>1. handler[c].pc = "ADD_FRIEND" /\ (handler'[c] = Idle \/ handler'[c].pc = "friendInfo")
    BY <1>5, <1>6, <1>18 DEF AddFriend, At
  <2> QED
    BY <1>7, <1>8, <2>1
<1>19. CASE CreateGroup(c) \/ AddToGroup(c)
  <2>1. handler[c].pc \in {"CREATE_GROUP", "ADD_TO_GROUP"}
    BY <1>19 DEF CreateGroup, AddToGroup, At
  <2>2. DOMAIN handler[c] = Fields
    BY <1>2, <2>1 DEF PcOK, RequestIds
  <2>3. handler'[c] = Idle \/ handler'[c].pc \in {"creator", "addUser"}
    BY <1>2, <1>5, <1>19, <2>2 DEF CreateGroup, AddToGroup, Fields
  <2> QED
    BY <1>7, <1>8, <2>1, <2>3
<1>20. ~OnMessage(c) /\ ~CloseFind(c)
  BY <1>1 DEF OnMessage, CloseFind, At
<1> QED
  BY <1>9, <1>10, <1>11, <1>12, <1>13, <1>14, <1>15, <1>16, <1>17, <1>18, <1>19, <1>20
     DEF Handle, Turns

(* The order of LOG_OUT and LOG_IN in what is left of the requests.        *)
LEMMA OutFirstFacts ==
  ASSUME NEW us, IsSeq(us), OutFirst(us)
  PROVE  /\ \A k, r : Dropped(us, k, r) =>
              OutFirst(r) /\ (us[1].id = "LOG_IN" => ~Has(r, "LOG_OUT"))
         /\ \A x : x.id # "LOG_OUT" \/ NoneOf(us, Asks) => OutFirst(Append(us, x))
<1>1. ASSUME NEW k, NEW r, Dropped(us, k, r)
      PROVE  OutFirst(r) /\ (us[1].id = "LOG_IN" => ~Has(r, "LOG_OUT"))
  <2>1. /\ DOMAIN us = 1 .. Len(us) /\ DOMAIN r = 1 .. Len(us) - k /\ Len(us) \in Nat
        /\ \A i \in 1 .. Len(us) - k : r[i] = us[i + k] /\ i + k \in 1 .. Len(us)
        /\ k \in 1 .. Len(us)
    BY <1>1, DropFacts
  <2>2. ASSUME NEW i \in DOMAIN r, NEW j \in DOMAIN r, r[i].id = "LOG_IN", r[j].id = "LOG_OUT"
        PROVE  j < i
    <3>1. j + k < i + k
      BY <2>1, <2>2 DEF OutFirst
    <3> QED
      BY <2>1, <3>1
  <2>3. ASSUME us[1].id = "LOG_IN", NEW j \in DOMAIN r, r[j].id = "LOG_OUT"
        PROVE  FALSE
    <3>1. 1 \in DOMAIN us
      BY <2>1
    <3>2. j + k < 1
      BY <2>1, <2>3, <3>1 DEF OutFirst
    <3> QED
      BY <2>1, <3>2
  <2> QED
    BY <2>2, <2>3 DEF OutFirst, Has
<1>2. ASSUME NEW x, x.id # "LOG_OUT" \/ NoneOf(us, Asks) PROVE OutFirst(Append(us, x))
  <2>1. PICK r : r = Append(us, x)
    OBVIOUS
  <2>2. /\ DOMAIN us = 1 .. Len(us) /\ DOMAIN r = 1 .. Len(us) + 1 /\ Len(us) \in Nat
        /\ \A i \in 1 .. Len(us) : r[i] = us[i]
        /\ r[Len(us) + 1] = x
    BY <2>1, AppendFacts
  <2>3. ASSUME NEW i \in DOMAIN r, NEW j \in DOMAIN r, r[i].id = "LOG_IN", r[j].id = "LOG_OUT"
        PROVE  j < i
    <3>1. CASE i \in 1 .. Len(us) /\ j \in 1 .. Len(us)
      BY <2>2, <2>3, <3>1 DEF OutFirst
    <3>2. CASE i = Len(us) + 1
      <4>1. j # i
        BY <2>3
      <4> QED
        BY <2>2, <3>2, <4>1
    <3>3. CASE i \in 1 .. Len(us) /\ j = Len(us) + 1
      <4>1. x.id = "LOG_OUT" /\ us[i].id = "LOG_IN"
        BY <2>2, <2>3, <3>3
      <4> QED
        BY <1>2, <2>2, <3>3, <4>1 DEF NoneOf, Asks
    <3> QED
      BY <2>2, <3>1, <3>2, <3>3
  <2> QED
    BY <2>1, <2>3 DEF OutFirst
<1> QED
  BY <1>1, <1>2

(* The other clients are as they were, and so are all rows and entries.    *)
LEMMA OthersSame ==
  ASSUME SessionInv, RowsOK, NEW c \in Clients, UNCHANGED <<world, userConnMap, row>>,
         \A d \in Clients \ {c} : Same(d) /\ StageOK(d), StageOK(c)',
         handler'[c].pc \notin Unentered, handler[c].pc \notin Holding
  PROVE  RowsOK' /\ \A d \in Clients : StageOK(d)'
<1>1. \A d \in Clients : Entry(d)' <=> Entry(d)
  BY DEF Entry, Home
<1>2. ASSUME NEW d \in Clients, d # c PROVE StageOK(d)' /\ handler'[d] = handler[d]
  BY <1>1, <1>2, SameStage DEF SessionInv, Same
<1>3. ASSUME NEW d \in Clients
      PROVE  /\ Holder(d)' <=> Holder(d)
             /\ handler'[d].pc = "updateState" => handler[d].pc = "updateState"
  <2>1. CASE d = c
    BY <1>1, <2>1 DEF Holder, Unentered
  <2>2. CASE d # c
    BY <1>1, <1>2, <2>2 DEF Holder
  <2> QED
    BY <2>1, <2>2
<1>4. RowsOK'
  BY <1>3, PlainRows DEF RowsOK
<1> QED
  BY <1>2, <1>4

(* onMessage.                                                              *)
LEMMA OnMessageRows ==
  ASSUME SessionInv, RowsOK, \A d \in Clients : StageOK(d), NEW c \in Clients,
         OnMessage(c), UNCHANGED clientVars
  PROVE  RowsOK' /\ \A d \in Clients : StageOK(d)'
<1>1. UNCHANGED <<world, row, userConnMap, conn, down, main, rwsem, isLoginSuccess>>
  BY DEF OnMessage, tables, clientVars
<1>2. /\ \E k : Dropped(up[c], k, up'[c])
      /\ handler'[c].req = up[c][1] /\ handler'[c].pc = up[c][1].id
      /\ handler[c] = Idle /\ conn[c] # "gone" /\ 1 \in DOMAIN up[c]
      /\ \A d \in Clients \ {c} : handler'[d] = handler[d] /\ up'[d] = up[d]
  BY OnMessageTakes
<1>3. PICK k : Dropped(up[c], k, up'[c])
  BY <1>2
<1>4. PICK x : x = up[c][1]
  OBVIOUS
<1>5. /\ IsSeq(up[c]) /\ x.id \in RequestIds
  BY <1>2, <1>4 DEF SessionInv, ClientOK, RequestsOK
<1>6. StageOK(c)
  OBVIOUS
<1>7. /\ \A S : NoneOf(up[c], S) => NoneOf(up'[c], S) /\ x.id \notin S
      /\ \A S : OneOf(up[c], S) => OneOf(up'[c], S) /\ (x.id \in S => NoneOf(up'[c], S))
      /\ \A id : Has(up'[c], id) => Has(up[c], id)
  BY <1>3, <1>4, <1>5, DropHolds
<1>8. OutFirst(up'[c]) /\ (x.id = "LOG_IN" => ~Has(up'[c], "LOG_OUT"))
  BY <1>3, <1>4, <1>5, <1>6, OutFirstFacts DEF StageOK
<1>9. \A id : Serves(handler'[c], id) <=> id = x.id
  BY <1>2, <1>4, <1>5 DEF Serves, RequestIds
<1>10. x.id \in {"LOG_OUT"} => Has(up[c], "LOG_OUT")
  BY <1>2, <1>4 DEF Has
<1>11. Entry(c)' <=> Entry(c)
  BY <1>1 DEF Entry, Home
<1>12. Logged(c)' <=> Logged(c)
  BY <1>1 DEF Logged
<1>13. handler'[c].pc \notin Unentered
  BY <1>2, <1>4, <1>5 DEF Unentered, Holding, RequestIds
<1>14. Entered(handler'[c]) => Entry(c)
  <2>1. Entered(handler'[c]) => x.id = "LOG_OUT"
    BY <1>2, <1>4, <1>5 DEF Entered, RequestIds, Telling
  <2> QED
    BY <1>6, <1>10, <2>1 DEF StageOK
<1>15. main[c] = "login" => NoneOf(up'[c], {"REG"}) /\ x.id # "REG"
                            /\ NoneOf(down[c], {"REG_MSG_ACK"})
  BY <1>6, <1>7 DEF StageOK
<1>16. OneOf(up'[c], {"LOG_OUT"}) /\ (x.id = "LOG_OUT" => ~Has(up'[c], "LOG_OUT"))
  <2>1. OneOf(up[c], {"LOG_OUT"})
    BY <1>6 DEF StageOK
  <2>2. OneOf(up'[c], {"LOG_OUT"}) /\ (x.id \in {"LOG_OUT"} => NoneOf(up'[c], {"LOG_OUT"}))
    BY <1>7, <2>1
  <2> QED
    BY <2>2 DEF NoneOf, Has
<1>17. Has(up'[c], "LOG_OUT") => Entry(c) /\ x.id # "LOG_OUT" /\ x.id # "LOG_IN"
  BY <1>6, <1>7, <1>8, <1>16 DEF StageOK
<1>18. Logged(c) => Entry(c) /\ ~Has(up'[c], "LOG_OUT") /\ x.id # "LOG_OUT"
  BY <1>6, <1>7, <1>10 DEF StageOK
<1>19. conn[c] \in {"open", "closed", "gone"} /\ (main[c] = "exited" <=> conn[c] # "open")
  BY <1>6 DEF StageOK
<1>20. StageOK(c)'
  <2>1. ~Serves(handler'[c], "CLOSE")
    BY <1>5, <1>9 DEF RequestIds
  <2> QED
    BY <1>1, <1>2, <1>8, <1>9, <1>11, <1>12, <1>13, <1>14, <1>15, <1>16, <1>17, <1>18, <1>19, <2>1
       DEF StageOK
<1>21. \A d \in Clients \ {c} : Same(d)
  BY <1>1, <1>2 DEF Same
<1>22. handler[c].pc \notin Holding
  BY <1>2 DEF Idle, Holding
<1> QED
  BY <1>1, <1>13, <1>20, <1>21, <1>22, OthersSame

(* onConnection and clientCloseException, the search.                      *)
LEMMA CloseFindRows ==
  ASSUME SessionInv, RowsOK, \A d \in Clients : StageOK(d), NEW c \in Clients,
         CloseFind(c), UNCHANGED clientVars
  PROVE  RowsOK' /\ \A d \in Clients : StageOK(d)'
<1>1. UNCHANGED <<world, row, userConnMap, down, main, rwsem, isLoginSuccess>>
  BY DEF CloseFind, tables, clientVars
<1>2. /\ up'[c] = <<>> /\ conn'[c] = "gone" /\ conn[c] = "closed" /\ handler[c] = Idle
      /\ \/ handler'[c] = Idle /\ ~Entry(c)
         \/ handler'[c].pc = "erase" /\ Serves(handler'[c], "CLOSE") /\ Entry(c)
      /\ \A d \in Clients \ {c} : handler'[d] = handler[d] /\ up'[d] = up[d] /\ conn'[d] = conn[d]
  BY CloseFindTakes DEF Entry
<1>3. Idle.pc = "idle" /\ \A id : ~Serves(Idle, id)
  BY DEF Idle, Serves
<1>4. main[c] = "exited"
  BY <1>2 DEF StageOK
<1>5. Entry(c)' <=> Entry(c)
  BY <1>1 DEF Entry, Home
<1>6. /\ OneOf(<<>>, {"LOG_OUT"}) /\ OutFirst(<<>>) /\ ~Has(<<>>, "LOG_OUT")
  BY DEF OneOf, OutFirst, Has
<1>7. ~Logged(c)'
  BY <1>1, <1>4 DEF Logged
<1>8. /\ handler'[c].pc \in {"idle", "erase"} /\ (Entry(c) => handler'[c].pc = "erase")
      /\ (Entered(handler'[c]) => Entry(c)) /\ handler'[c].pc \notin Unentered
  BY <1>2, <1>3 DEF Entered, Unentered, Holding, Telling
<1>9. StageOK(c)'
  BY <1>1, <1>2, <1>4, <1>5, <1>6, <1>7, <1>8 DEF StageOK
<1>10. \A d \in Clients \ {c} : Same(d)
  BY <1>1, <1>2 DEF Same
<1>11. handler[c].pc \notin Holding
  BY <1>2, <1>3 DEF Holding
<1> QED
  BY <1>1, <1>8, <1>9, <1>10, <1>11, OthersSame

(* The handlers.                                                           *)
LEMMA HandleRows ==
  ASSUME SessionInv, RowsOK, \A d \in Clients : StageOK(d), NEW c \in Clients,
         Handle(c), UNCHANGED clientVars
  PROVE  RowsOK' /\ \A d \in Clients : StageOK(d)'
<1>1. CASE OnMessage(c)
  BY <1>1, OnMessageRows
<1>2. CASE CloseFind(c)
  BY <1>2, CloseFindRows
<1>3. CASE Served(c) /\ Turns(c)
  <2>1. CASE LoginQuery(c) /\ handler'[c] # Idle
    BY <1>3, <2>1, QueryRows
  <2>2. CASE LoginUpdateState(c)
    BY <1>3, <2>2, OnlineRows
  <2>3. CASE LoginInsert(c)
    BY <1>3, <2>3, InsertRows
  <2>4. CASE LogoutErase(c) \/ CloseErase(c)
    BY <1>3, <2>4, EraseRows
  <2>5. CASE LogoutUpdateState(c) \/ CloseUpdateState(c)
    BY <1>3, <2>5, OfflineRows
  <2> QED
    BY <1>3, <2>1, <2>2, <2>3, <2>4, <2>5 DEF Turns
<1>4. CASE Served(c) /\ ~Turns(c)
  <2>1. Plain(c)
    BY <1>4, NotTurning
  <2>2. /\ DOMAIN row' = Users
        /\ \A u \in Users : row'[u] = row[u] \/ (row[u] = "none" /\ row'[u] = "offline")
    BY <1>4, RowStays DEF Turns
  <2> QED
    BY <1>4, <2>1, <2>2, PlainKeeps
<1> QED
  BY <1>1, <1>2, <1>3, <1>4, HandlerServes

(* redisNotifyHandler.                                                     *)
LEMMA NotifyRows ==
  ASSUME SessionInv, RowsOK, \A d \in Clients : StageOK(d), NEW s \in Servers,
         RedisNotify(s), UNCHANGED clientVars
  PROVE  RowsOK' /\ \A d \in Clients : StageOK(d)'
<1>1. /\ UNCHANGED <<world, row, userConnMap, handler, up, conn, main, rwsem, isLoginSuccess>>
  BY DEF RedisNotify, clientVars
<1>2. ASSUME NEW d \in Clients PROVE Same(d)
  BY <1>1, NotifyKeeps DEF Same
<1>3. \A d \in Clients : (Entry(d)' <=> Entry(d)) /\ (Holder(d)' <=> Holder(d))
  BY <1>1 DEF Entry, Home, Holder
<1>4. \A d \in Clients : StageOK(d)'
  BY <1>2, <1>3, SameStage DEF SessionInv
<1>5. RowsOK'
  BY <1>1, <1>3, PlainRows DEF RowsOK
<1> QED
  BY <1>4, <1>5

(* A client at one of its menus waits for nothing.                         *)
LEMMA AtMenu ==
  ASSUME NEW c, ClientOK(c), main[c] \in {"menu", "chat"}
  PROVE  /\ NoneOf(up[c], Asks) /\ NoneOf(down[c], Answers) /\ rwsem[c] = 0
         /\ ~Success(down[c]) /\ ~Serves(handler[c], "LOG_IN") /\ ~Serves(handler[c], "REG")
<1>1. /\ NoneOf(up[c], Asks) /\ NoneOf(down[c], Answers) /\ rwsem[c] = 0
      /\ ~Awaited(handler[c]) /\ IsSeq(down[c])
  BY DEF ClientOK, Waiting
<1> QED
  BY <1>1, SuccessFacts DEF Awaited

(* So no answer is under way to it.                                        *)
LEMMA NoSuccessAtMenu ==
  ASSUME NEW m, NEW w, NEW us, NEW ds, NEW h, Waiting(m, w, us, ds, h), IsSeq(ds),
         m \in {"menu", "chat"}
  PROVE  ~Success(ds)
<1>1. NoneOf(ds, Answers)
  BY DEF Waiting
<1> QED
  BY <1>1, SuccessFacts

(* The stage after a command.                                              *)
LEMMA TypedStage ==
  ASSUME SessionInv, NEW c \in Clients, StageOK(c), NEW req, NEW n, Typed(c, req, n),
         \/ main[c] = "menu" /\ n \in {"login", "reg"} /\ req.id \in Asks
            /\ (n = "login" => req.id # "REG")
         \/ main[c] = "chat" /\ n = "menu" /\ req.id = "LOG_OUT"
         \/ main[c] = "chat" /\ n = "chat" /\ req.id \in Commands
  PROVE  StageOK(c)' /\ conn[c] = "open"
<1>1. ClientOK(c) /\ main[c] \in {"menu", "chat"}
  BY DEF SessionInv
<1>2. /\ NoneOf(up[c], Asks) /\ NoneOf(down[c], Answers) /\ rwsem[c] = 0
      /\ ~Success(down[c]) /\ ~Serves(handler[c], "LOG_IN") /\ ~Serves(handler[c], "REG")
      /\ IsSeq(up[c])
  BY <1>1, AtMenu DEF ClientOK, RequestsOK
<1>3. conn[c] = "open"
  BY <1>1 DEF StageOK
<1>4. /\ up'[c] = Append(up[c], req) /\ main'[c] = n
      /\ UNCHANGED <<world, userConnMap, handler, conn, down, rwsem, isLoginSuccess>>
  BY <1>3 DEF Typed
<1>5. /\ NoneOf(up'[c], {"REG"}) <=> NoneOf(up[c], {"REG"}) /\ req.id \notin {"REG"}
      /\ OneOf(up[c], {"LOG_OUT"}) /\ (NoneOf(up[c], {"LOG_OUT"}) \/ req.id \notin {"LOG_OUT"})
           => OneOf(up'[c], {"LOG_OUT"})
      /\ Has(up'[c], "LOG_OUT") <=> Has(up[c], "LOG_OUT") \/ req.id = "LOG_OUT"
  <2>1. PICK r : r = Append(up[c], req)
    OBVIOUS
  <2>2. /\ \A S : NoneOf(r, S) <=> NoneOf(up[c], S) /\ req.id \notin S
        /\ \A S : OneOf(up[c], S) /\ (NoneOf(up[c], S) \/ req.id \notin S) => OneOf(r, S)
        /\ \A id : Has(r, id) <=> Has(up[c], id) \/ req.id = id
    BY <1>2, <2>1, AppendHolds
  <2> QED
    BY <1>4, <2>1, <2>2
<1>6. OutFirst(up'[c])
  BY <1>2, <1>4, OutFirstFacts DEF StageOK
<1>7. Entry(c)' <=> Entry(c)
  BY <1>4 DEF Entry, Home
<1>8. NoneOf(up[c], {"REG"}) /\ NoneOf(down[c], {"REG_MSG_ACK"})
  BY <1>2 DEF NoneOf, Asks, Answers
<1>9. n # "exited"
  OBVIOUS
<1>10. Logged(c)' => n = "chat"
  BY <1>2, <1>4 DEF Logged
<1>11. main[c] = "chat" => Entry(c) /\ ~Has(up[c], "LOG_OUT") /\ ~Serves(handler[c], "LOG_OUT")
  BY DEF Logged, StageOK
<1>12. NoneOf(up[c], {"LOG_OUT"}) <=> ~Has(up[c], "LOG_OUT")
  BY DEF NoneOf, Has
<1>13. OneOf(up'[c], {"LOG_OUT"})
  BY <1>5, <1>11, <1>12 DEF StageOK, Asks, Commands
<1>14. Has(up'[c], "LOG_OUT") => Entry(c) /\ ~Serves(handler[c], "LOG_OUT") /\ ~Serves(handler[c], "LOG_IN")
  BY <1>2, <1>5, <1>11 DEF StageOK, Asks
<1>15. n = "chat" => Entry(c) /\ ~Has(up'[c], "LOG_OUT") /\ ~Serves(handler[c], "LOG_OUT")
  BY <1>5, <1>11 DEF Commands
<1>16. n = "login" => NoneOf(up'[c], {"REG"}) /\ ~Serves(handler[c], "REG")
  BY <1>2, <1>5, <1>8
<1>17. /\ main[c] # "exited" /\ (Serves(handler[c], "CLOSE") => conn[c] = "gone")
       /\ (Entered(handler[c]) => Entry(c)) /\ (handler[c].pc \in Unentered => ~Entry(c))
  BY <1>1 DEF StageOK
<1> QED
  BY <1>3, <1>4, <1>6, <1>7, <1>8, <1>9, <1>10, <1>13, <1>14, <1>15, <1>16, <1>17 DEF StageOK

(* The stage after a step of the client's own.                             *)
LEMMA OwnStage ==
  ASSUME NEW c \in Clients, StageOK(c), Own(c),
         Logged(c)' => Logged(c),
         main'[c] = "login" => main[c] = "login",
         down'[c] = down[c] \/ \E k : Dropped(down[c], k, down'[c]), IsSeq(down[c]),
         \/ main[c] # "exited" /\ main'[c] # "exited" /\ conn'[c] = conn[c]
         \/ main'[c] = "exited" /\ conn'[c] = IF conn[c] = "open" THEN "closed" ELSE conn[c]
  PROVE  StageOK(c)'
<1>1. UNCHANGED <<world, userConnMap, handler, up>>
  BY DEF Own
<1>2. Entry(c)' <=> Entry(c)
  BY <1>1 DEF Entry, Home
<1>3. NoneOf(down[c], {"REG_MSG_ACK"}) => NoneOf(down'[c], {"REG_MSG_ACK"})
  BY DropHolds
<1>4. /\ conn'[c] \in {"open", "closed", "gone"} /\ (main'[c] = "exited" <=> conn'[c] # "open")
      /\ conn'[c] = "gone" <=> conn[c] = "gone"
  BY DEF StageOK
<1> QED
  BY <1>1, <1>2, <1>3, <1>4 DEF StageOK

(* The steps of a client.                                                  *)
LEMMA ClientStages ==
  ASSUME SessionInv, OneSession, RowsOK, NEW c \in Clients, StageOK(c), ClientStep(c)
  PROVE  /\ StageOK(c)' /\ \A d \in Clients \ {c} : Same(d)
         /\ UNCHANGED <<world, row, userConnMap, handler>>
<1>1. ASSUME NEW req, NEW n, Typed(c, req, n)
      PROVE  /\ \A d \in Clients \ {c} : Same(d)
             /\ UNCHANGED <<world, row, userConnMap, handler>>
  BY <1>1 DEF Typed, Same
<1>2. ASSUME Own(c)
      PROVE  /\ \A d \in Clients \ {c} : Same(d)
             /\ UNCHANGED <<world, row, userConnMap, handler>>
  BY <1>2 DEF Own, Alone, Same
<1>3. ClientOK(c) /\ IsSeq(down[c])
  BY DEF SessionInv, ClientOK
<1>4. CASE \E ok \in BOOLEAN : Login(c, ok)
  <2>1. PICK ok \in BOOLEAN : Login(c, ok)
    BY <1>4
  <2>2. PICK req : req = [id |-> "LOG_IN", u |-> world.account[c], ok |-> ok]
    OBVIOUS
  <2>3. main[c] = "menu" /\ Typed(c, req, "login") /\ req.id = "LOG_IN"
    BY <2>1, <2>2, LoginKeeps
  <2>4. StageOK(c)'
    BY <2>3, TypedStage DEF Asks
  <2> QED
    BY <1>1, <2>3, <2>4
<1>5. CASE Register(c)
  <2>1. PICK req : req = [id |-> "REG"]
    OBVIOUS
  <2>2. main[c] = "menu" /\ Typed(c, req, "reg") /\ req.id = "REG"
    BY <1>5, <2>1, RegisterKeeps
  <2>3. StageOK(c)'
    BY <2>2, TypedStage DEF Asks
  <2> QED
    BY <1>1, <2>2, <2>3
<1>6. CASE Logout(c)
  <2>1. PICK req : req = [id |-> "LOG_OUT", u |-> world.account[c]]
    OBVIOUS
  <2>2. main[c] = "chat" /\ Typed(c, req, "menu") /\ req.id = "LOG_OUT"
    BY <1>6, <2>1, LogoutKeeps
  <2>3. StageOK(c)'
    BY <2>2, TypedStage
  <2> QED
    BY <1>1, <2>2, <2>3
<1>7. CASE Command(c)
  <2>1. PICK req : Typed(c, req, "chat") /\ req.id \in Commands
    BY <1>7, CommandKeeps
  <2>2. main[c] = "chat"
    BY <1>7, CommandKeeps
  <2>3. StageOK(c)'
    BY <2>1, <2>2, TypedStage
  <2> QED
    BY <1>1, <2>1, <2>3
<1>8. CASE Wake(c)
  <2>1. /\ SessionInv' /\ Own(c) /\ main[c] \in {"login", "reg"} /\ rwsem[c] = 1 /\ rwsem'[c] = 0
        /\ main'[c] = IF main[c] = "login" /\ isLoginSuccess[c] THEN "chat" ELSE "menu"
        /\ UNCHANGED <<down, conn, isLoginSuccess>>
    BY <1>8, WakeKeeps
  <2>2. main'[c] \in {"menu", "chat"} /\ ClientOK(c)'
    BY <2>1 DEF SessionInv
  <2>3. ~Success(down'[c])
    BY <2>2, NoSuccessAtMenu DEF ClientOK
  <2>4. Logged(c)' => Logged(c)
    BY <2>1, <2>2, <2>3 DEF Logged
  <2>5. StageOK(c)'
    BY <1>3, <2>1, <2>2, <2>4, OwnStage
  <2> QED
    BY <1>2, <2>1, <2>5
<1>9. CASE Quit(c) \/ ReadClosed(c)
  <2>1. /\ Own(c) /\ main'[c] = "exited" /\ down'[c] = down[c]
        /\ conn'[c] = IF conn[c] = "open" THEN "closed" ELSE conn[c]
    BY <1>9, QuitKeeps
  <2>2. ~Logged(c)'
    BY <2>1 DEF Logged
  <2>3. StageOK(c)'
    BY <1>3, <2>1, <2>2, OwnStage
  <2> QED
    BY <1>2, <2>1, <2>3
<1>10. CASE QuitMenu(c)
  <2>1. /\ SessionInv' /\ Own(c) /\ main[c] = "chat" /\ main'[c] = "menu" /\ rwsem'[c] = rwsem[c]
        /\ UNCHANGED <<isLoginSuccess, down, conn>>
    BY <1>10, QuitMenuKeeps
  <2>2. ClientOK(c)'
    BY <2>1 DEF SessionInv
  <2>3. ~Success(down'[c])
    BY <2>1, <2>2, NoSuccessAtMenu DEF ClientOK
  <2>4. ~Logged(c)'
    BY <2>1, <2>3 DEF Logged
  <2>5. StageOK(c)'
    BY <1>3, <2>1, <2>4, OwnStage
  <2> QED
    BY <1>2, <2>1, <2>5
<1>11. CASE Read(c)
  <2>1. Own(c) /\ main[c] # "exited" /\ \E k : Dropped(down[c], k, down'[c])
    BY <1>11, ReadKeeps
  <2>2. CASE main'[c] = "exited" /\ conn'[c] = IF conn[c] = "open" THEN "closed" ELSE conn[c]
    <3>1. ~Logged(c)'
      BY <2>2 DEF Logged
    <3>2. StageOK(c)'
      BY <1>3, <2>1, <2>2, <3>1, OwnStage
    <3> QED
      BY <1>2, <2>1, <3>2
  <2>3. CASE /\ main'[c] = main[c] /\ UNCHANGED conn
             /\ rwsem'[c] = (IF down[c][1].id \in Answers THEN rwsem[c] + 1 ELSE rwsem[c])
             /\ isLoginSuccess'[c] = (IF down[c][1].id = "LOG_IN_MSG_ACK" THEN down[c][1].err = 0
                                      ELSE isLoginSuccess[c])
    <3>1. PICK k : Dropped(down[c], k, down'[c])
      BY <2>1
    <3>2. 1 \in DOMAIN down[c]
      BY <1>3, <3>1, DropHolds
    <3>3. Success(down'[c]) => Success(down[c])
      BY <1>3, <3>1, SuccessFacts
    <3>4. SUFFICES ASSUME main[c] = "login", rwsem'[c] = 1, isLoginSuccess'[c]
                   PROVE  Logged(c)
      <4>1. ASSUME Logged(c)' => Logged(c) PROVE StageOK(c)'
        BY <1>3, <2>1, <2>3, <4>1, OwnStage
      <4>2. Logged(c)' => Logged(c)
        BY <2>1, <2>3, <3>3, <3>4 DEF Logged
      <4> QED
        BY <1>2, <2>1, <4>1, <4>2
    <3>5. CASE down[c][1].id = "LOG_IN_MSG_ACK"
      <4>1. down[c][1].err = 0
        BY <2>3, <3>4, <3>5
      <4>2. Success(down[c])
        BY <3>2, <3>5, <4>1 DEF Success
      <4> QED
        BY <2>1, <4>2 DEF Logged
    <3>6. CASE down[c][1].id # "LOG_IN_MSG_ACK"
      <4>1. down[c][1].id # "REG_MSG_ACK"
        BY <3>2, <3>4 DEF StageOK, NoneOf
      <4>2. rwsem'[c] = rwsem[c] /\ isLoginSuccess[c]
        BY <2>3, <3>4, <3>6, <4>1 DEF Answers
      <4> QED
        BY <3>4, <4>2 DEF Logged
    <3> QED
      BY <3>5, <3>6
  <2> QED
    BY <1>11, <2>2, <2>3, ReadKeeps
<1> QED
  BY <1>4, <1>5, <1>6, <1>7, <1>8, <1>9, <1>10, <1>11 DEF ClientStep

(* Every step keeps the rows and the maps in agreement.                    *)
LEMMA RowsNext ==
  ASSUME SessionInv, OneSession, RowsInv, [Next]_vars
  PROVE  RowsInv'
<1> SUFFICES ASSUME Running' PROVE RowsOK' /\ \A d \in Clients : StageOK(d)'
  BY DEF RowsInv
<1>1. ASSUME Running PROVE RowsOK /\ \A d \in Clients : StageOK(d)
  BY <1>1 DEF RowsInv
<1>2. CASE UNCHANGED vars
  <2>1. UNCHANGED <<world, handler, up, down, conn, main, rwsem, isLoginSuccess, row, userConnMap,
                    server>>
    BY <1>2 DEF vars, serverVars, clientVars, tables
  <2>2. RowsOK /\ \A d \in Clients : StageOK(d)
    BY <1>1, <2>1 DEF Running
  <2>3. \A d \in Clients : Same(d)
    BY <2>1 DEF Same
  <2>4. \A d \in Clients : (Entry(d)' <=> Entry(d)) /\ (Holder(d)' <=> Holder(d))
    BY <2>1 DEF Entry, Home, Holder
  <2>5. \A d \in Clients : StageOK(d)'
    BY <2>2, <2>3, <2>4, SameStage DEF SessionInv
  <2>6. RowsOK'
    BY <2>1, <2>2, <2>4, PlainRows DEF RowsOK
  <2> QED
    BY <2>5, <2>6
<1>3. CASE \E c \in Clients : Handle(c) /\ UNCHANGED clientVars
  <2>1. PICK c \in Clients : Handle(c) /\ UNCHANGED clientVars
    BY <1>3
  <2>2. UNCHANGED server
    BY <2>1, HandlerServes DEF Served, OnMessage, CloseFind
  <2>3. RowsOK /\ \A d \in Clients : StageOK(d)
    BY <1>1, <2>2 DEF Running
  <2> QED
    BY <2>1, <2>3, HandleRows
<1>4. CASE \E s \in Servers : RedisNotify(s) /\ UNCHANGED clientVars
  <2>1. PICK s \in Servers : RedisNotify(s) /\ UNCHANGED clientVars
    BY <1>4
  <2>2. UNCHANGED server
    BY <2>1 DEF RedisNotify
  <2>3. RowsOK /\ \A d \in Clients : StageOK(d)
    BY <1>1, <2>2 DEF Running
  <2> QED
    BY <2>1, <2>3, NotifyRows
<1>5. CASE \E s \in Servers : (Interrupt(s) \/ Exit(s))
  <2>1. PICK s \in Servers : Interrupt(s) \/ Exit(s)
    BY <1>5
  <2>2. server'[s] # "running"
    BY <2>1 DEF Interrupt, Exit, SessionInv, ChatTypes
  <2> QED
    BY <2>2 DEF Running
<1>6. CASE \E c \in Clients : ClientStep(c)
  <2>1. PICK c \in Clients : ClientStep(c)
    BY <1>6
  <2>2. UNCHANGED server
    BY <2>1 DEF ClientStep, Login, Register, Wake, Quit, Command, Logout, QuitMenu, Read, ReadClosed,
                unchangedServer, serverVars
  <2>3. RowsOK /\ \A d \in Clients : StageOK(d)
    BY <1>1, <2>2 DEF Running
  <2>4. /\ StageOK(c)' /\ \A d \in Clients \ {c} : Same(d)
        /\ UNCHANGED <<world, row, userConnMap, handler>>
    BY <2>1, <2>3, ClientStages
  <2>5. \A d \in Clients : (Entry(d)' <=> Entry(d)) /\ (Holder(d)' <=> Holder(d))
    BY <2>4 DEF Entry, Home, Holder
  <2>6. RowsOK'
    BY <2>3, <2>4, <2>5, PlainRows DEF RowsOK
  <2>7. \A d \in Clients \ {c} : StageOK(d)'
    BY <2>3, <2>4, <2>5, SameStage DEF SessionInv
  <2> QED
    BY <2>4, <2>6, <2>7
<1> QED
  BY <1>2, <1>3, <1>4, <1>5, <1>6 DEF Next, Service, ServiceStep

(* The rows agree when nothing is under way.                               *)
LEMMA QuietRows ==
  ASSUME SessionInv, RowsInv
  PROVE  RowsAgree
<1> SUFFICES ASSUME Quiet, Running, NEW u \in Users
             PROVE  row[u] = "online" <=>
                      \E s \in Servers : userConnMap[s][u] # NoConn /\ conn[userConnMap[s][u]] # "gone"
  BY DEF RowsAgree
<1>1. RowsOK /\ (\A c \in Clients : StageOK(c)) /\ ChatTypes /\ EntriesOK
  BY DEF RowsInv, SessionInv
<1>2. ASSUME NEW c \in Clients PROVE (Holder(c) <=> Entry(c)) /\ (Entry(c) => conn[c] # "gone")
  <2>1. handler[c].pc = "idle"
    BY DEF Quiet, Idle
  <2> QED
    BY <1>1, <2>1 DEF Holder, Holding, StageOK
<1>3. ASSUME row[u] = "online"
      PROVE  \E s \in Servers : userConnMap[s][u] # NoConn /\ conn[userConnMap[s][u]] # "gone"
  <2>1. PICK c \in Clients : world.account[c] = u /\ Holder(c)
    BY <1>1, <1>3 DEF RowsOK
  <2>2. userConnMap[Home(c)][u] = c /\ conn[c] # "gone"
    BY <1>2, <2>1 DEF Entry
  <2>3. Home(c) \in Servers /\ c # NoConn
    BY <1>1, HomeAndUser
  <2> QED
    BY <2>2, <2>3
<1>4. ASSUME NEW s \in Servers, userConnMap[s][u] # NoConn
      PROVE  row[u] = "online"
  <2>1. PICK c : c = userConnMap[s][u]
    OBVIOUS
  <2>2. c \in Clients /\ world.home[c] = s /\ world.account[c] = u
    BY <1>1, <1>4, <2>1 DEF EntriesOK
  <2>3. Entry(c)
    BY <2>1, <2>2 DEF Entry, Home
  <2> QED
    BY <1>1, <1>2, <2>2, <2>3 DEF RowsOK
<1> QED
  BY <1>3, <1>4

-----------------------------------------------------------------------------
(* Where a text is.                                                        *)

\* What messages are in, at a time.
Boxes == [offline |-> offline, published |-> published, down |-> down, handler |-> handler,
          up |-> up]

\* Message m brings text n to user u, itself (j = 0) or in a login's answer.
Brings(m, u, n, j) ==
  \/ j = 0 /\ IsChat(m) /\ m.for = u /\ m.n = n
  \/ LoggedIn(m, u) /\ j \in Texts(m.off, u, n)
BringsIn(seq, u, n, i, j) == i \in DOMAIN seq /\ Brings(seq[i], u, n, j)

\* Handler h has text n for u, its i-th receiver.
Carries(h, u, n, i) ==
  /\ h.pc # "idle" /\ IsChat(h.req) /\ h.req.n = n
  /\ h.pc \in Telling => i \in DOMAIN h.todo /\ h.todo[i] = u
  /\ h.pc \notin Telling => i = 0

\* Text n for user u is at <<k, h, i, j>> of boxes B: the places of
\* ChatClient's Places, and those where it has not got its receiver yet.
Held(B, u, n, k, h, i, j) ==
  \/ k = "offline" /\ h = u /\ i = 0 /\ j \in Texts(B.offline[u], u, n)
  \/ k = "published" /\ h \in Servers /\ BringsIn(B.published[h], u, n, i, j)
  \/ k = "down" /\ h \in Clients /\ BringsIn(B.down[h], u, n, i, j)
  \/ k = "login" /\ h \in Clients /\ i = 0 /\ Answering(B.handler[h], u)
     /\ j \in Texts(B.handler[h].off, u, n)
  \/ k = "up" /\ h \in Clients /\ j = 0
     /\ i \in DOMAIN B.up[h] /\ IsChat(B.up[h][i]) /\ B.up[h][i].n = n
  \/ k = "handler" /\ h \in Clients /\ j = 0 /\ Carries(B.handler[h], u, n, i)

Nowhere(B, u, n) == \A k, h, i, j : ~Held(B, u, n, k, h, i, j)
InOnePlace(B, u, n) ==
  \E k, h, i, j : \A k1, h1, i1, j1 :
    Held(B, u, n, k1, h1, i1, j1) => k1 = k /\ h1 = h /\ i1 = i /\ j1 = j

\* A text that was shown r times, when t have been typed.
TextOK(B, u, n, r, t) ==
  /\ r \in {0, 1} /\ InOnePlace(B, u, n)
  /\ r = 1 \/ n > t => Nowhere(B, u, n)
  /\ n > t => r = 0

\* What a step may do to the places of a text.  None is new.
Fewer(B, C, u, n) == \A k, h, i, j : Held(C, u, n, k, h, i, j) => Held(B, u, n, k, h, i, j)
\* The first d leave a queue, <<k0, h0>>; the s0-th of it may get to another
\* place.
MovesOn(B, C, u, n, k0, h0, s0, d, k2, h2, i2, j2) ==
  /\ d \in Int
  /\ \A k, h, i, j : Held(C, u, n, k, h, i, j) =>
       \/ Held(B, u, n, k, h, i, j) /\ (k # k0 \/ h # h0)
       \/ k = k0 /\ h = h0 /\ i \in Int /\ i + d # s0 /\ Held(B, u, n, k0, h0, i + d, j)
       \/ k = k2 /\ h = h2 /\ i = i2 /\ j = j2 /\ Held(B, u, n, k0, h0, s0, 0)
\* A list of kept messages gets to another place.
ListMoves(B, C, u, n, k0, h0, s0, k2, h2, i2) ==
  \A k, h, i, j : Held(C, u, n, k, h, i, j) =>
    \/ Held(B, u, n, k, h, i, j) /\ (k # k0 \/ h # h0)
    \/ k = k2 /\ h = h2 /\ i = i2 /\ Held(B, u, n, k0, h0, s0, j)

Carried(B, C, u, n) ==
  \/ Fewer(B, C, u, n)
  \/ \E k0, h0, s0, d, k2, h2, i2, j2 : MovesOn(B, C, u, n, k0, h0, s0, d, k2, h2, i2, j2)
  \/ \E k0, h0, s0, k2, h2, i2 : ListMoves(B, C, u, n, k0, h0, s0, k2, h2, i2)

(* Such a step keeps a text in one place at most.                          *)
LEMMA CarriedKeeps ==
  ASSUME NEW B, NEW C, NEW u, NEW n, NEW r, NEW t, TextOK(B, u, n, r, t), Carried(B, C, u, n)
  PROVE  TextOK(C, u, n, r, t)
<1>1. CASE Fewer(B, C, u, n)
  BY <1>1 DEF TextOK, Fewer, InOnePlace, Nowhere
<1>2. ASSUME NEW k0, NEW h0, NEW s0, NEW d, NEW k2, NEW h2, NEW i2, NEW j2,
             MovesOn(B, C, u, n, k0, h0, s0, d, k2, h2, i2, j2)
      PROVE  TextOK(C, u, n, r, t)
  <2>1. Nowhere(B, u, n) => Nowhere(C, u, n)
    BY <1>2 DEF Nowhere, MovesOn
  <2>2. PICK k3, h3, i3, j3 : \A k1, h1, i1, j1 :
          Held(B, u, n, k1, h1, i1, j1) => k1 = k3 /\ h1 = h3 /\ i1 = i3 /\ j1 = j3
    BY DEF TextOK, InOnePlace
  <2>3. CASE k3 # k0 \/ h3 # h0
    <3>1. ASSUME NEW k1, NEW h1, NEW i1, NEW j1, Held(C, u, n, k1, h1, i1, j1)
          PROVE  k1 = k3 /\ h1 = h3 /\ i1 = i3 /\ j1 = j3
      BY <1>2, <2>2, <2>3, <3>1 DEF MovesOn
    <3> QED
      BY <2>1, <3>1 DEF TextOK, InOnePlace
  <2>4. CASE k3 = k0 /\ h3 = h0 /\ i3 = s0
    <3>1. ASSUME NEW k1, NEW h1, NEW i1, NEW j1, Held(C, u, n, k1, h1, i1, j1)
          PROVE  k1 = k2 /\ h1 = h2 /\ i1 = i2 /\ j1 = j2
      BY <1>2, <2>2, <2>4, <3>1 DEF MovesOn
    <3> QED
      BY <2>1, <3>1 DEF TextOK, InOnePlace
  <2>5. CASE k3 = k0 /\ h3 = h0 /\ i3 # s0
    <3>1. ASSUME NEW k1, NEW h1, NEW i1, NEW j1, Held(C, u, n, k1, h1, i1, j1)
          PROVE  k1 = k0 /\ h1 = h0 /\ i1 = i3 - d /\ j1 = j3
      <4>1. k1 = k0 /\ h1 = h0 /\ i1 \in Int /\ d \in Int /\ Held(B, u, n, k0, h0, i1 + d, j1)
        BY <1>2, <2>2, <2>5, <3>1 DEF MovesOn
      <4>2. i1 + d = i3 /\ j1 = j3
        BY <2>2, <4>1
      <4> QED
        BY <4>1, <4>2
    <3> QED
      BY <2>1, <3>1 DEF TextOK, InOnePlace
  <2> QED
    BY <2>3, <2>4, <2>5
<1>3. ASSUME NEW k0, NEW h0, NEW s0, NEW k2, NEW h2, NEW i2,
             ListMoves(B, C, u, n, k0, h0, s0, k2, h2, i2)
      PROVE  TextOK(C, u, n, r, t)
  <2>1. Nowhere(B, u, n) => Nowhere(C, u, n)
    BY <1>3 DEF Nowhere, ListMoves
  <2>2. PICK k3, h3, i3, j3 : \A k1, h1, i1, j1 :
          Held(B, u, n, k1, h1, i1, j1) => k1 = k3 /\ h1 = h3 /\ i1 = i3 /\ j1 = j3
    BY DEF TextOK, InOnePlace
  <2>3. CASE k3 # k0 \/ h3 # h0
    <3>1. ASSUME NEW k1, NEW h1, NEW i1, NEW j1, Held(C, u, n, k1, h1, i1, j1)
          PROVE  k1 = k3 /\ h1 = h3 /\ i1 = i3 /\ j1 = j3
      BY <1>3, <2>2, <2>3, <3>1 DEF ListMoves
    <3> QED
      BY <2>1, <3>1 DEF TextOK, InOnePlace
  <2>4. CASE k3 = k0 /\ h3 = h0
    <3>1. ASSUME NEW k1, NEW h1, NEW i1, NEW j1, Held(C, u, n, k1, h1, i1, j1)
          PROVE  k1 = k2 /\ h1 = h2 /\ i1 = i2 /\ j1 = j3
      BY <1>3, <2>2, <2>4, <3>1 DEF ListMoves
    <3> QED
      BY <2>1, <3>1 DEF TextOK, InOnePlace
  <2> QED
    BY <2>3, <2>4
<1> QED
  BY <1>1, <1>2, <1>3 DEF Carried

(* A message more at the end of a queue.                                   *)
LEMMA BringsAppend ==
  ASSUME NEW s, IsSeq(s), NEW m, NEW r, r = Append(s, m), NEW u, NEW n, NEW i, NEW j,
         BringsIn(r, u, n, i, j)
  PROVE  BringsIn(s, u, n, i, j) \/ (i = Len(s) + 1 /\ Brings(m, u, n, j))
<1>1. /\ Len(s) \in Nat /\ DOMAIN s = 1 .. Len(s) /\ DOMAIN r = 1 .. Len(s) + 1
      /\ \A x \in 1 .. Len(s) : r[x] = s[x]
      /\ r[Len(s) + 1] = m
  BY AppendFacts
<1>2. i \in 1 .. Len(s) + 1 /\ Brings(r[i], u, n, j)
  BY <1>1 DEF BringsIn
<1>3. CASE i = Len(s) + 1
  BY <1>1, <1>2, <1>3
<1>4. CASE i \in 1 .. Len(s)
  BY <1>1, <1>2, <1>4 DEF BringsIn
<1> QED
  BY <1>1, <1>2, <1>3, <1>4

(* A text more at the end of the kept messages.                            *)
LEMMA TextsAppend ==
  ASSUME NEW s, IsSeq(s), NEW m, NEW r, r = Append(s, m), NEW u, NEW n, NEW j, j \in Texts(r, u, n)
  PROVE  j \in Texts(s, u, n) \/ (j = Len(s) + 1 /\ Brings(m, u, n, 0))
<1>1. /\ Len(s) \in Nat /\ DOMAIN s = 1 .. Len(s) /\ DOMAIN r = 1 .. Len(s) + 1
      /\ \A x \in 1 .. Len(s) : r[x] = s[x]
      /\ r[Len(s) + 1] = m
  BY AppendFacts
<1>2. j \in 1 .. Len(s) + 1 /\ IsChat(r[j]) /\ r[j].for = u /\ r[j].n = n
  BY <1>1 DEF Texts
<1>3. CASE j = Len(s) + 1
  BY <1>1, <1>2, <1>3 DEF Brings
<1>4. CASE j \in 1 .. Len(s)
  BY <1>1, <1>2, <1>4 DEF Texts
<1> QED
  BY <1>1, <1>2, <1>3, <1>4

(* The first messages of a queue leave it.                                 *)
LEMMA BringsDropped ==
  ASSUME NEW s, IsSeq(s), NEW k, NEW r, Dropped(s, k, r), NEW u, NEW n, NEW i, NEW j,
         BringsIn(r, u, n, i, j)
  PROVE  BringsIn(s, u, n, i + k, j) /\ i \in Int /\ k \in Int /\ i + k # 1
<1>1. /\ Len(s) \in Nat /\ DOMAIN s = 1 .. Len(s) /\ DOMAIN r = 1 .. Len(s) - k
      /\ \A x \in 1 .. Len(s) - k : r[x] = s[x + k] /\ x + k \in 1 .. Len(s)
      /\ k \in 1 .. Len(s)
  BY DropFacts
<1>2. i \in 1 .. Len(s) - k /\ Brings(r[i], u, n, j)
  BY <1>1 DEF BringsIn
<1> QED
  BY <1>1, <1>2 DEF BringsIn

ForOwner(seq, u) == \A i \in DOMAIN seq : seq[i].for = u
Prefix(s, r) == DOMAIN s \subseteq DOMAIN r /\ \A i \in DOMAIN s : s[i] = r[i]

\* The messages that a login takes are its user's; a chat has somebody to
\* tell while it does.
HandlerKept(h) ==
  h.pc # "idle" /\ h.req.id # "CLOSE" =>
    /\ ForOwner(h.off, h.req.u)
    /\ IsChat(h.req) /\ h.pc \in Telling =>
         IsSeq(h.todo) /\ (h.pc # "look" => h.todo # <<>>)

\* Between OfflineMsgModel::query and remove the table still has them.
Prefixed(h, kept) == h.pc = "remove" => Prefix(h.off, kept[h.req.u])
AnswerKept(m) == m.id = "LOG_IN_MSG_ACK" /\ m.err = 0 => ForOwner(m.off, m.u)

\* A server is subscribed for users of its clients only.
SubscribedOK ==
  /\ DOMAIN subscribed = Servers
  /\ \A s \in Servers : \A u \in subscribed[s] :
       \E c \in Clients : world.home[c] = s /\ world.account[c] = u

KeptOK ==
  /\ DOMAIN offline = Users
  /\ \A u \in Users : IsSeq(offline[u]) /\ ForOwner(offline[u], u)
  /\ \A c \in Clients : HandlerKept(handler[c]) /\ Prefixed(handler[c], offline)
  /\ \A c \in Clients : \A i \in DOMAIN down[c] : AnswerKept(down[c][i])
  /\ SubscribedOK

TextsOK ==
  /\ DOMAIN received = Users /\ \A u \in Users : DOMAIN received[u] = 1 .. world.most
  /\ \A u \in Users, n \in 1 .. world.most : TextOK(Boxes, u, n, received[u][n], typed)

-----------------------------------------------------------------------------
(* Steps that move no text.                                                *)

\* m brings no text, and is no login's answer.
NoText(m) == ~IsChat(m) /\ (m.id = "LOG_IN_MSG_ACK" => m.err # 0)

\* At most one such message is new in r.
GrowsByNone(s, r) == r = s \/ \E m : NoText(m) /\ r = Append(s, m)

LoggingIn == {"lists"} \cup Telling

\* Handler h becomes g, and has no other texts.
Keeps(h, g, kept) ==
  \/ g = Idle
  \/ /\ g.pc # "idle" /\ h.pc # "idle" /\ g.req = h.req
     /\ g.pc = "remove" => g.off = kept[g.req.u] /\ g.req.u \in Users /\ g.req.id # "CLOSE"
     /\ g.pc # "remove" /\ g.req.id # "CLOSE" => g.off = h.off
     /\ IsChat(g.req) => /\ g.todo = h.todo /\ h.pc \in Telling /\ g.pc \in Telling
                         /\ g.pc # "look" => g.todo # <<>>
     /\ g.req.id = "LOG_IN" /\ g.pc \in LoggingIn => h.pc \in LoggingIn

Calm(c) ==
  /\ UNCHANGED <<world, up, offline, received, typed>>
  /\ \A d \in Clients \ {c} : handler'[d] = handler[d]
  /\ Keeps(handler[c], handler'[c], offline)
  /\ \A d \in Clients : GrowsByNone(down[d], down'[d])
  /\ \A s \in Servers : GrowsByNone(published[s], published'[s])
  /\ SubscribedOK'

(* A message without a text more.                                          *)
LEMMA GrowsFacts ==
  ASSUME NEW s, IsSeq(s), NEW r, GrowsByNone(s, r)
  PROVE  /\ \A u, n, i, j : BringsIn(r, u, n, i, j) => BringsIn(s, u, n, i, j)
         /\ (\A i \in DOMAIN s : AnswerKept(s[i])) => \A i \in DOMAIN r : AnswerKept(r[i])
<1>1. CASE r = s
  BY <1>1
<1>2. ASSUME NEW m, NoText(m), r = Append(s, m)
      PROVE  /\ \A u, n, i, j : BringsIn(r, u, n, i, j) => BringsIn(s, u, n, i, j)
             /\ (\A i \in DOMAIN s : AnswerKept(s[i])) => \A i \in DOMAIN r : AnswerKept(r[i])
  <2>1. \A u, n, j : ~Brings(m, u, n, j)
    BY <1>2 DEF NoText, Brings, LoggedIn
  <2>2. \A u, n, i, j : BringsIn(r, u, n, i, j) => BringsIn(s, u, n, i, j)
    BY <1>2, <2>1, BringsAppend
  <2>3. AnswerKept(m)
    BY <1>2 DEF NoText, AnswerKept
  <2>4. /\ Len(s) \in Nat /\ DOMAIN s = 1 .. Len(s) /\ DOMAIN r = 1 .. Len(s) + 1
        /\ \A x \in 1 .. Len(s) : r[x] = s[x]
        /\ r[Len(s) + 1] = m
    BY <1>2, AppendFacts
  <2>5. ASSUME \A i \in DOMAIN s : AnswerKept(s[i]), NEW i \in DOMAIN r PROVE AnswerKept(r[i])
    <3>1. CASE i = Len(s) + 1
      BY <2>3, <2>4, <3>1
    <3>2. CASE i \in 1 .. Len(s)
      BY <2>4, <2>5, <3>2
    <3> QED
      BY <2>4, <3>1, <3>2
  <2> QED
    BY <2>2, <2>5
<1> QED
  BY <1>1, <1>2 DEF GrowsByNone

(* A handler that keeps what it has.                                       *)
LEMMA KeepsFacts ==
  ASSUME NEW h, NEW g, NEW kept, Keeps(h, g, kept), HandlerKept(h),
         \A u \in Users : ForOwner(kept[u], u)
  PROVE  /\ HandlerKept(g) /\ Prefixed(g, kept)
         /\ \A u, n, i : Carries(g, u, n, i) => Carries(h, u, n, i)
         /\ \A u : Answering(g, u) => Answering(h, u) /\ g.off = h.off
<1>1. CASE g = Idle
  <2>1. g.pc = "idle"
    BY <1>1 DEF Idle
  <2> QED
    BY <2>1 DEF HandlerKept, Prefixed, Carries, Answering
<1>2. CASE g # Idle
  <2>1. g.pc # "idle" /\ h.pc # "idle" /\ g.req = h.req
    BY <1>2 DEF Keeps
  <2>2. ASSUME g.req.id # "CLOSE" PROVE ForOwner(g.off, g.req.u)
    BY <1>2, <2>1, <2>2 DEF Keeps, HandlerKept
  <2>3. ASSUME IsChat(g.req), g.pc \in Telling PROVE IsSeq(g.todo) /\ (g.pc # "look" => g.todo # <<>>)
    BY <1>2, <2>1, <2>3 DEF Keeps, HandlerKept, IsChat
  <2>4. HandlerKept(g)
    BY <2>2, <2>3 DEF HandlerKept
  <2>5. Prefixed(g, kept)
    BY <1>2 DEF Keeps, Prefixed, Prefix
  <2>6. \A u, n, i : Carries(g, u, n, i) => Carries(h, u, n, i)
    BY <1>2, <2>1 DEF Keeps, Carries
  <2>7. \A u : Answering(g, u) => Answering(h, u) /\ g.off = h.off
    BY <1>2, <2>1 DEF Keeps, Answering, LoggingIn, Telling
  <2> QED
    BY <2>4, <2>5, <2>6, <2>7
<1> QED
  BY <1>1, <1>2

(* A calm step.                                                            *)
LEMMA CalmKeeps ==
  ASSUME SessionInv, KeptOK, NEW c \in Clients, Calm(c)
  PROVE  KeptOK' /\ \A u \in Users, n \in Nat : Fewer(Boxes, Boxes', u, n)
<1>1. ASSUME NEW d \in Clients
      PROVE  /\ HandlerKept(handler'[d]) /\ Prefixed(handler'[d], offline)
             /\ \A u, n, i : Carries(handler'[d], u, n, i) => Carries(handler[d], u, n, i)
             /\ \A u : Answering(handler'[d], u) =>
                          Answering(handler[d], u) /\ handler'[d].off = handler[d].off
  <2>1. CASE d = c
    BY <2>1, KeepsFacts DEF KeptOK, Calm
  <2>2. CASE d # c
    BY <2>2 DEF KeptOK, Calm
  <2> QED
    BY <2>1, <2>2
<1>2. ASSUME NEW d \in Clients
      PROVE  /\ \A u, n, i, j : BringsIn(down'[d], u, n, i, j) => BringsIn(down[d], u, n, i, j)
             /\ \A i \in DOMAIN down'[d] : AnswerKept(down'[d][i])
  <2>1. IsSeq(down[d]) /\ GrowsByNone(down[d], down'[d]) /\ \A i \in DOMAIN down[d] : AnswerKept(down[d][i])
    BY DEF SessionInv, ClientOK, KeptOK, Calm
  <2> QED
    BY <2>1, GrowsFacts
<1>3. ASSUME NEW s \in Servers
      PROVE  \A u, n, i, j : BringsIn(published'[s], u, n, i, j) => BringsIn(published[s], u, n, i, j)
  <2>1. IsSeq(published[s]) /\ GrowsByNone(published[s], published'[s])
    BY DEF SessionInv, PushesOK, Calm
  <2> QED
    BY <2>1, GrowsFacts
<1>4. UNCHANGED <<world, up, offline>> /\ SubscribedOK'
  BY DEF Calm
<1>5. KeptOK'
  BY <1>1, <1>2, <1>4 DEF KeptOK
<1>6. ASSUME NEW u \in Users, NEW n \in Nat, NEW k, NEW h, NEW i, NEW j,
             Held(Boxes', u, n, k, h, i, j)
      PROVE  Held(Boxes, u, n, k, h, i, j)
  <2>1. /\ Boxes'.offline = offline /\ Boxes'.published = published' /\ Boxes'.down = down'
        /\ Boxes'.handler = handler' /\ Boxes'.up = up
    BY <1>4 DEF Boxes
  <2>2. /\ Boxes.offline = offline /\ Boxes.published = published /\ Boxes.down = down
        /\ Boxes.handler = handler /\ Boxes.up = up
    BY DEF Boxes
  <2>3. CASE k = "offline" \/ k = "up"
    BY <1>6, <2>1, <2>2, <2>3 DEF Held
  <2>4. CASE k = "published"
    BY <1>3, <1>6, <2>1, <2>2, <2>4 DEF Held
  <2>5. CASE k = "down"
    BY <1>2, <1>6, <2>1, <2>2, <2>5 DEF Held
  <2>6. CASE k = "login" \/ k = "handler"
    BY <1>1, <1>6, <2>1, <2>2, <2>6 DEF Held
  <2> QED
    BY <1>6, <2>3, <2>4, <2>5, <2>6 DEF Held
<1> QED
  BY <1>5, <1>6 DEF Fewer

(* What makes a step calm.                                                 *)
LEMMA CalmFrom ==
  ASSUME SessionInv, NEW c \in Clients,
         UNCHANGED <<world, up, offline>>, UNCHANGED clientVars, SubscribedOK',
         \A d \in Clients \ {c} : handler'[d] = handler[d],
         Keeps(handler[c], handler'[c], offline),
         UNCHANGED published \/ \A s \in Servers : GrowsByNone(published[s], published'[s]),
         UNCHANGED down \/ \E d, m : Send(d, m) /\ NoText(m)
  PROVE  Calm(c)
<1>1. ASSUME NEW d \in Clients PROVE GrowsByNone(down[d], down'[d])
  <2>1. CASE UNCHANGED down
    BY <2>1 DEF GrowsByNone
  <2>2. ASSUME NEW e, NEW m, Send(e, m), NoText(m) PROVE GrowsByNone(down[d], down'[d])
    <3>1. DOMAIN down = Clients
      BY DEF SessionInv, ChatTypes
    <3>2. down'[d] = down[d] \/ down'[d] = Append(down[d], m)
      BY <2>2, <3>1 DEF Send
    <3> QED
      BY <2>2, <3>2 DEF GrowsByNone
  <2> QED
    BY <2>1, <2>2
<1>2. \A s \in Servers : GrowsByNone(published[s], published'[s])
  BY DEF GrowsByNone
<1> QED
  BY <1>1, <1>2 DEF Calm, clientVars

(* The same, where no channel is changed.                                  *)
LEMMA CalmWhen ==
  ASSUME SessionInv, KeptOK, NEW c \in Clients,
         UNCHANGED <<world, up, offline, published, subscribed>>, UNCHANGED clientVars,
         \A d \in Clients \ {c} : handler'[d] = handler[d],
         Keeps(handler[c], handler'[c], offline),
         UNCHANGED down \/ \E d, m : Send(d, m) /\ NoText(m)
  PROVE  Calm(c)
<1>1. SubscribedOK'
  BY DEF KeptOK, SubscribedOK
<1> QED
  BY <1>1, CalmFrom

(* A handler that answers and returns.                                     *)
LEMMA ReplyCalm ==
  ASSUME SessionInv, KeptOK, NEW c \in Clients, handler[c].pc # "idle",
         UNCHANGED <<world, up, offline, published, subscribed>>, UNCHANGED clientVars,
         NEW m, Reply(c, m), NoText(m)
  PROVE  Calm(c)
<1>1. handler'[c] = Idle /\ \A d \in Clients \ {c} : handler'[d] = handler[d]
  BY DEF Reply, Return, SessionInv, ChatTypes
<1> QED
  BY <1>1, CalmWhen DEF Reply, Keeps

(* A handler that goes on with its request and sends nothing.              *)
LEMMA GotoCalm ==
  ASSUME SessionInv, KeptOK, NEW c \in Clients, handler[c].pc # "idle",
         UNCHANGED <<world, up, down, offline, published, subscribed>>, UNCHANGED clientVars,
         NEW p, Goto(c, p), p # "remove", p # "idle",
         IsChat(handler[c].req) => /\ handler[c].pc \in Telling /\ p \in Telling
                                   /\ p # "look" => handler[c].todo # <<>>,
         handler[c].req.id = "LOG_IN" /\ p \in LoggingIn => handler[c].pc \in LoggingIn
  PROVE  Calm(c)
<1>1. /\ "pc" \in DOMAIN handler[c] /\ DOMAIN handler = Clients
      /\ handler[c].req.id # "CLOSE" => DOMAIN handler[c] = Fields
  BY GoesTo
<1>2. handler'[c] = [handler[c] EXCEPT !.pc = p] /\ \A d \in Clients \ {c} : handler'[d] = handler[d]
  BY <1>1 DEF Goto
<1>3. HandlerOK(handler[c], world.account[c])
  BY DEF SessionInv, ClientOK
<1>4. {"pc", "req"} \subseteq DOMAIN handler[c]
  BY <1>3, BusyHandler DEF Fields
<1>5. handler'[c].pc = p /\ handler'[c].req = handler[c].req
  BY <1>2, <1>4
<1>6. handler[c].req.id # "CLOSE" =>
        handler'[c].off = handler[c].off /\ handler'[c].todo = handler[c].todo
  BY <1>1, <1>2 DEF Fields
<1>7. Keeps(handler[c], handler'[c], offline)
  BY <1>5, <1>6 DEF Keeps, IsChat
<1> QED
  BY <1>2, <1>7, CalmWhen

(* What a handler at a place serves.                                       *)
LEMMA PlaceFacts ==
  ASSUME SessionInv, NEW c \in Clients, handler[c].pc # "idle"
  PROVE  /\ DOMAIN handler = Clients /\ DOMAIN down = Clients
         /\ PcOK(handler[c].pc, handler[c].req.id)
         /\ handler[c].req.id # "CLOSE" => DOMAIN handler[c] = Fields
         /\ handler[c].req.id # "REG" => handler[c].req.u = world.account[c]
         /\ world.account[c] \in Users
<1>1. HandlerOK(handler[c], world.account[c]) /\ ChatTypes
  BY DEF SessionInv, ClientOK
<1> QED
  BY <1>1, BusyHandler, HomeAndUser DEF ChatTypes

\* The steps of login, regis, addFriend, the groups and the end of a
\* connection, apart from what login does with kept messages.
Small(c) ==
  \/ LoginQuery(c) \/ LoginUpdateState(c) \/ LoginInsert(c)
  \/ LogoutErase(c) \/ LogoutUpdateState(c) \/ Ask(c)
  \/ Regis(c) \/ AddFriend(c) \/ AddFriendInfo(c)
  \/ CreateGroup(c) \/ CreateGroupCreator(c) \/ AddToGroup(c) \/ AddToGroupUser(c)
  \/ CloseErase(c) \/ CloseUpdateState(c)

(* They are calm.                                                          *)
LEMMA SmallCalm ==
  ASSUME SessionInv, KeptOK, NEW c \in Clients, Small(c), UNCHANGED clientVars
  PROVE  Calm(c)
<1>1. UNCHANGED <<world, up, offline, published, subscribed>>
  BY DEF Small, LoginQuery, LoginUpdateState, LoginInsert, LogoutErase, LogoutUpdateState, Ask,
         Regis, AddFriend, AddFriendInfo, CreateGroup, CreateGroupCreator, AddToGroup,
         AddToGroupUser, CloseErase, CloseUpdateState, tables, redis
<1>2. handler[c].pc # "idle"
  BY DEF Small, LoginQuery, LoginUpdateState, LoginInsert, LogoutErase, LogoutUpdateState, Ask,
         Regis, AddFriend, AddFriendInfo, CreateGroup, CreateGroupCreator, AddToGroup,
         AddToGroupUser, CloseErase, CloseUpdateState, At
<1>3. /\ DOMAIN handler = Clients /\ PcOK(handler[c].pc, handler[c].req.id)
      /\ handler[c].req.id # "CLOSE" => DOMAIN handler[c] = Fields
  BY <1>2, PlaceFacts
<1>4. \A m : Reply(c, m) /\ NoText(m) => Calm(c)
  BY <1>1, <1>2, ReplyCalm
<1>5. ASSUME NEW p, Goto(c, p), UNCHANGED down,
             p \in {"updateState", "insert", "query", "offline", "unsubscribe", "friendInfo",
                    "closeState"},
             handler[c].pc \notin Telling \cup {"ONE_CHAT", "GROUP_CHAT"}
      PROVE  Calm(c)
  <2>1. ~IsChat(handler[c].req)
    BY <1>3, <1>5 DEF PcOK, IsChat
  <2>2. p \notin LoggingIn /\ p # "remove" /\ p # "idle"
    BY <1>5 DEF LoggingIn, Telling
  <2> QED
    BY <1>1, <1>2, <1>5, <2>1, <2>2, GotoCalm
<1>6. CASE LoginQuery(c)
  <2>1. handler[c].pc = "LOG_IN"
    BY <1>6 DEF LoginQuery, At
  <2>2. \/ Goto(c, "updateState") /\ UNCHANGED down
        \/ \E m : Reply(c, m) /\ m.id = "LOG_IN_MSG_ACK" /\ m.err # 0
    BY <1>6 DEF LoginQuery
  <2> QED
    BY <1>4, <1>5, <2>1, <2>2 DEF Telling, NoText, IsChat
<1>7. CASE LoginUpdateState(c) \/ LoginInsert(c)
  BY <1>5, <1>7 DEF LoginUpdateState, LoginInsert, At, Telling
<1>8. CASE LogoutErase(c) \/ LogoutUpdateState(c)
  BY <1>5, <1>8 DEF LogoutErase, LogoutUpdateState, At, Telling
<1>9. CASE CloseErase(c)
  BY <1>5, <1>9 DEF CloseErase, At, Telling
<1>10. CASE Ask(c)
  <2>1. handler[c].pc = "ask" /\ UNCHANGED down /\ \E p \in {"publish", "store"} : Goto(c, p)
    BY <1>10 DEF Ask, At
  <2>2. handler[c].req.id # "CLOSE"
    BY <1>3, <2>1 DEF PcOK, RequestIds
  <2>3. IsChat(handler[c].req) => handler[c].todo # <<>>
    BY <1>2, <2>1, <2>2 DEF KeptOK, HandlerKept, Telling
  <2> QED
    BY <1>1, <1>2, <2>1, <2>3, GotoCalm DEF Telling, LoggingIn
<1>11. CASE Regis(c) \/ AddFriendInfo(c) \/ CreateGroupCreator(c) \/ AddToGroupUser(c)
  <2> DEFINE Done == \E m : Reply(c, m) /\ m.id \in {"REG_MSG_ACK", "ADD_FRIEND_ACK",
                                                    "CREATE_GROUP_ACK", "ADD_TO_GROUP_ACK"}
  <2>1. Regis(c) => Done
    BY DEF Regis
  <2>2. AddFriendInfo(c) => Done
    BY DEF AddFriendInfo
  <2>3. CreateGroupCreator(c) => Done
    BY DEF CreateGroupCreator
  <2>4. ASSUME AddToGroupUser(c) PROVE Done
    <3>1. PICK m : /\ Reply(c, m)
                   /\ m = [id |-> "ADD_TO_GROUP_ACK", to |-> handler[c].req.to,
                           err |-> IF handler[c].groups # {} THEN 0 ELSE -1]
      BY <2>4 DEF AddToGroupUser
    <3> QED
      BY <3>1
  <2> QED
    BY <1>4, <1>11, <2>1, <2>2, <2>3, <2>4 DEF NoText, IsChat
<1>12. CASE AddFriend(c)
  <2>1. handler[c].pc = "ADD_FRIEND"
    BY <1>12 DEF AddFriend, At
  <2>2. \/ Goto(c, "friendInfo") /\ UNCHANGED down
        \/ \E m : Reply(c, m) /\ m.id = "ADD_FRIEND_ACK"
    BY <1>12 DEF AddFriend
  <2> QED
    BY <1>4, <1>5, <2>1, <2>2 DEF Telling, NoText, IsChat
<1>13. CASE CreateGroup(c) \/ AddToGroup(c)
  <2>1. handler[c].pc \in {"CREATE_GROUP", "ADD_TO_GROUP"}
    BY <1>13 DEF CreateGroup, AddToGroup, At
  <2>2. DOMAIN handler[c] = Fields /\ ~IsChat(handler[c].req) /\ handler[c].req.id # "LOG_IN"
    BY <1>3, <2>1 DEF PcOK, RequestIds, Telling, IsChat
  <2>3. CASE \E m : Reply(c, m) /\ m.id = "CREATE_GROUP_ACK"
    BY <1>4, <2>3 DEF NoText, IsChat
  <2>4. CASE /\ UNCHANGED down
             /\ \E p \in {"creator", "addUser"} : \E x :
                  handler' = [handler EXCEPT ![c].pc = p, ![c].groups = x]
    <3>1. /\ handler'[c].pc \in {"creator", "addUser"} /\ handler'[c].req = handler[c].req
          /\ handler'[c].off = handler[c].off /\ handler'[c].todo = handler[c].todo
          /\ \A d \in Clients \ {c} : handler'[d] = handler[d]
      BY <1>3, <2>2, <2>4 DEF Fields
    <3>2. Keeps(handler[c], handler'[c], offline)
      BY <1>2, <2>2, <3>1 DEF Keeps, IsChat
    <3> QED
      BY <1>1, <2>4, <3>1, <3>2, CalmWhen
  <2> QED
    BY <1>13, <2>3, <2>4 DEF CreateGroup, AddToGroup
<1>14. CASE CloseUpdateState(c)
  <2>1. handler'[c] = Idle /\ \A d \in Clients \ {c} : handler'[d] = handler[d]
    BY <1>3, <1>14 DEF CloseUpdateState, Return
  <2> QED
    BY <1>1, <1>14, <2>1, CalmWhen DEF CloseUpdateState, Keeps
<1> QED
  BY <1>6, <1>7, <1>8, <1>9, <1>10, <1>11, <1>12, <1>13, <1>14 DEF Small

(* What login and logout do to the subscriptions.                          *)
LEMMA SubscribedFacts ==
  ASSUME SessionInv, KeptOK, NEW c \in Clients, UNCHANGED world,
         Subscribe(Home(c), world.account[c]) \/ Unsubscribe(Home(c), world.account[c])
  PROVE  SubscribedOK'
<1>1. DOMAIN subscribed' = Servers
  BY DEF KeptOK, SubscribedOK, Subscribe, Unsubscribe
<1>2. ASSUME NEW s \in Servers, NEW u \in subscribed'[s]
      PROVE  u \in subscribed[s] \/ (s = world.home[c] /\ u = world.account[c])
  BY <1>2 DEF KeptOK, SubscribedOK, Subscribe, Unsubscribe, Home
<1> QED
  BY <1>1, <1>2 DEF KeptOK, SubscribedOK

(* login, after OfflineMsgModel::query.                                    *)
LEMMA OfflineCalm ==
  ASSUME SessionInv, KeptOK, NEW c \in Clients, LoginOffline(c), UNCHANGED clientVars
  PROVE  Calm(c)
<1>1. handler[c].pc = "query" /\ UNCHANGED <<world, up, down, offline, published, subscribed>>
  BY DEF LoginOffline, At, tables, redis
<1>2. /\ DOMAIN handler = Clients /\ PcOK(handler[c].pc, handler[c].req.id)
      /\ handler[c].req.id # "CLOSE" => DOMAIN handler[c] = Fields
      /\ handler[c].req.id # "REG" => handler[c].req.u = world.account[c]
      /\ world.account[c] \in Users
  BY <1>1, PlaceFacts
<1>3. handler[c].req.id = "LOG_IN"
  BY <1>1, <1>2 DEF PcOK, RequestIds, Telling
<1>4. PICK kept : kept = offline[handler[c].req.u]
  OBVIOUS
<1>5. handler' = [handler EXCEPT ![c].pc = "remove", ![c].off = kept]
  BY <1>4 DEF LoginOffline, OfflineQuery
<1>6. /\ handler'[c].pc = "remove" /\ handler'[c].off = kept /\ handler'[c].req = handler[c].req
      /\ \A d \in Clients \ {c} : handler'[d] = handler[d]
  BY <1>2, <1>3, <1>5 DEF Fields
<1>7. Keeps(handler[c], handler'[c], offline)
  BY <1>1, <1>2, <1>3, <1>4, <1>6 DEF Keeps, IsChat, LoggingIn, Telling
<1> QED
  BY <1>1, <1>6, <1>7, CalmWhen

(* login, after the lists are read, and logout, after unsubscribe.         *)
LEMMA ListsCalm ==
  ASSUME SessionInv, KeptOK, NEW c \in Clients, LoginLists(c) \/ LogoutUnsubscribe(c),
         UNCHANGED clientVars
  PROVE  Calm(c)
<1>1. /\ handler[c].pc \in {"lists", "unsubscribe"} /\ UNCHANGED <<world, up, down, offline, published>>
      /\ Subscribe(Home(c), handler[c].req.u) \/ Unsubscribe(Home(c), handler[c].req.u)
      /\ handler[c].pc = "unsubscribe" \/ LoginLists(c)
  BY DEF LoginLists, LogoutUnsubscribe, At, tables, redis
<1>2. /\ DOMAIN handler = Clients /\ PcOK(handler[c].pc, handler[c].req.id)
      /\ handler[c].req.id # "CLOSE" => DOMAIN handler[c] = Fields
      /\ handler[c].req.id # "REG" => handler[c].req.u = world.account[c]
  BY <1>1, PlaceFacts
<1>3. handler[c].req.id = (IF handler[c].pc = "lists" THEN "LOG_IN" ELSE "LOG_OUT")
  BY <1>1, <1>2 DEF PcOK, RequestIds, Telling
<1>4. /\ handler'[c].pc = "look" /\ handler'[c].off = handler[c].off
      /\ handler'[c].req = handler[c].req /\ \A d \in Clients \ {c} : handler'[d] = handler[d]
  <2>1. CASE LoginLists(c)
    <3>1. \E t, f, g : handler' = [handler EXCEPT ![c].pc = "look", ![c].friends = f,
                                                  ![c].groups = g, ![c].todo = t]
      BY <2>1 DEF LoginLists
    <3> QED
      BY <1>2, <1>3, <3>1 DEF Fields
  <2>2. CASE LogoutUnsubscribe(c)
    <3>1. \E t : handler' = [handler EXCEPT ![c].pc = "look", ![c].todo = t]
      BY <2>2 DEF LogoutUnsubscribe
    <3> QED
      BY <1>2, <1>3, <3>1 DEF Fields
  <2> QED
    BY <2>1, <2>2
<1>5. Keeps(handler[c], handler'[c], offline)
  BY <1>1, <1>3, <1>4 DEF Keeps, IsChat, LoggingIn
<1>6. SubscribedOK'
  BY <1>1, <1>2, <1>3, SubscribedFacts
<1> QED
  BY <1>1, <1>4, <1>5, <1>6, CalmFrom

\* The steps that tell receivers.
Tells(c) == Look(c) \/ Publish(c) \/ Store(c) \/ Told(c)

(* login and logout tell friends, without a text.                          *)
LEMMA TellsCalm ==
  ASSUME SessionInv, KeptOK, NEW c \in Clients, Tells(c), UNCHANGED clientVars,
         ~IsChat(handler[c].req), Told(c) => handler[c].req.id # "LOG_IN"
  PROVE  Calm(c)
<1>1. handler[c].pc \in Telling /\ UNCHANGED <<world, up, subscribed>>
  BY DEF Tells, Look, Publish, Store, Told, At, Telling, tables, redis
<1>2. /\ DOMAIN handler = Clients /\ PcOK(handler[c].pc, handler[c].req.id)
      /\ handler[c].pc # "idle" /\ handler[c].req.id # "CLOSE" /\ ClientOK(c) /\ ChatTypes
  BY <1>1, PlaceFacts DEF PcOK, RequestIds, Telling, SessionInv
<1>3. UNCHANGED offline
  BY DEF Tells, Look, Publish, Store, Told, tables
<1>4. SubscribedOK'
  BY <1>1 DEF KeptOK, SubscribedOK
<1>5. \A r : NoText(Push(handler[c].req, r))
  BY DEF Push, NoText, IsChat
<1>6. ASSUME NextReceiver(c) \/ handler' = [handler EXCEPT ![c].todo = Tail(@)]
      PROVE  /\ Keeps(handler[c], handler'[c], offline)
             /\ \A d \in Clients \ {c} : handler'[d] = handler[d]
  <2>1. /\ HandlerMoves(c) /\ handler'[c].pc \in Telling /\ handler'[c].req = handler[c].req
        /\ handler'[c].off = handler[c].off
    BY <1>1, <1>2, <1>6, NextReceiverMoves DEF NextReceiver
  <2> QED
    BY <1>1, <1>2, <2>1 DEF Keeps, HandlerMoves, LoggingIn, Telling
<1>7. CASE Look(c)
  <2>1. CASE /\ \E d, r : Send(d, Push(handler[c].req, r))
             /\ handler' = [handler EXCEPT ![c].todo = Tail(@)]
    <3>1. UNCHANGED published /\ \E d, m : Send(d, m) /\ NoText(m)
      BY <1>5, <1>7, <2>1 DEF Look, redis
    <3> QED
      BY <1>1, <1>3, <1>4, <1>6, <2>1, <3>1, CalmFrom
  <2>2. CASE Goto(c, "ask") /\ UNCHANGED down
    <3>1. UNCHANGED published
      BY <1>7 DEF Look, redis
    <3> QED
      BY <1>1, <1>2, <1>3, <2>2, <3>1, GotoCalm DEF LoggingIn
  <2> QED
    BY <1>7, <2>1, <2>2 DEF Look
<1>8. CASE Publish(c)
  <2>1. NextReceiver(c) /\ UNCHANGED down
    BY <1>8 DEF Publish
  <2>2. PICK m : m = Push(handler[c].req, Head(handler[c].todo))
    OBVIOUS
  <2>3. \A s \in Servers : published'[s] = published[s] \/ published'[s] = Append(published[s], m)
    BY <1>8, <2>2 DEF Publish
  <2>4. NoText(m)
    BY <1>5, <2>2
  <2>5. \A s \in Servers : GrowsByNone(published[s], published'[s])
    BY <2>3, <2>4 DEF GrowsByNone
  <2> QED
    BY <1>1, <1>3, <1>4, <1>6, <2>1, <2>5, CalmFrom
<1>9. CASE Store(c)
  <2>1. NextReceiver(c) /\ UNCHANGED <<down, published>>
    BY <1>9 DEF Store, redis
  <2> QED
    BY <1>1, <1>3, <1>4, <1>6, <2>1, CalmFrom
<1>10. CASE Told(c)
  <2>1. Return(c) /\ UNCHANGED <<down, published>>
    BY <1>10 DEF Told, redis
  <2>2. handler'[c] = Idle /\ \A d \in Clients \ {c} : handler'[d] = handler[d]
    BY <1>2, <2>1 DEF Return
  <2> QED
    BY <1>1, <1>3, <1>4, <2>1, <2>2, CalmFrom DEF Keeps
<1> QED
  BY <1>7, <1>8, <1>9, <1>10 DEF Tells

-----------------------------------------------------------------------------
(* Steps that move texts.                                                  *)

\* Boxes, before and after.
LEMMA BoxesAre ==
  /\ Boxes.offline = offline /\ Boxes.published = published /\ Boxes.down = down
  /\ Boxes.handler = handler /\ Boxes.up = up
  /\ Boxes'.offline = offline' /\ Boxes'.published = published' /\ Boxes'.down = down'
  /\ Boxes'.handler = handler' /\ Boxes'.up = up'
BY DEF Boxes

(* OfflineMsgModel::remove: what the login has taken leaves the table.     *)
LEMMA RemoveMoves ==
  ASSUME SessionInv, KeptOK, NEW c \in Clients, LoginRemove(c), UNCHANGED clientVars
  PROVE  KeptOK' /\ \A u \in Users, n \in Nat : Carried(Boxes, Boxes', u, n)
<1>1. /\ handler[c].pc = "remove" /\ Goto(c, "lists") /\ OfflineRemove(handler[c].req.u)
      /\ UNCHANGED <<world, up, down, published, subscribed>>
  BY DEF LoginRemove, At, redis
<1>2. /\ DOMAIN handler = Clients /\ PcOK(handler[c].pc, handler[c].req.id)
      /\ handler[c].req.id # "CLOSE" => DOMAIN handler[c] = Fields
      /\ handler[c].req.id # "REG" => handler[c].req.u = world.account[c]
      /\ world.account[c] \in Users
  BY <1>1, PlaceFacts
<1>3. handler[c].req.id = "LOG_IN"
  BY <1>1, <1>2 DEF PcOK, RequestIds, Telling
<1>4. PICK x \in Users : x = handler[c].req.u
  BY <1>2, <1>3
<1>5. /\ handler'[c].pc = "lists" /\ handler'[c].off = handler[c].off
      /\ handler'[c].req = handler[c].req /\ \A d \in Clients \ {c} : handler'[d] = handler[d]
  BY <1>1, <1>2, <1>3 DEF Goto, Fields
<1>6. /\ DOMAIN offline' = Users /\ offline'[x] = <<>>
      /\ \A u \in Users : u # x => offline'[u] = offline[u]
  BY <1>1, <1>4 DEF OfflineRemove, KeptOK
<1>7. Prefix(handler[c].off, offline[x])
  BY <1>1, <1>4 DEF KeptOK, Prefixed
<1>8. ASSUME NEW d \in Clients PROVE HandlerKept(handler'[d]) /\ Prefixed(handler'[d], offline')
  <2>1. CASE d = c
    <3>1. ForOwner(handler[c].off, handler[c].req.u)
      BY <1>1, <1>3 DEF KeptOK, HandlerKept
    <3> QED
      BY <1>3, <1>5, <2>1, <3>1 DEF HandlerKept, Prefixed, IsChat
  <2>2. CASE d # c
    <3>1. handler'[d] = handler[d] /\ HandlerKept(handler[d]) /\ Prefixed(handler[d], offline)
      BY <1>5, <2>2 DEF KeptOK
    <3>2. ASSUME handler[d].pc = "remove" PROVE handler[d].req.u \in Users /\ handler[d].req.u # x
      <4>1. Serves(handler[d], "LOG_IN") /\ handler[d].req.u = world.account[d] /\ world.account[d] \in Users
        BY <3>2, PlaceFacts DEF PcOK, RequestIds, Telling, Serves
      <4>2. InLogin(d) /\ InLogin(c)
        BY <1>1, <1>3, <4>1 DEF InLogin, Serves
      <4>3. world.account[d] # world.account[c]
        BY <2>2, <4>2 DEF SessionInv, OneLogin
      <4> QED
        BY <1>2, <1>3, <1>4, <4>1, <4>3
    <3>3. Prefixed(handler[d], offline')
      BY <1>6, <3>1, <3>2 DEF Prefixed
    <3> QED
      BY <3>1, <3>3
  <2> QED
    BY <2>1, <2>2
<1>9. KeptOK'
  <2>1. SubscribedOK'
    BY <1>1 DEF KeptOK, SubscribedOK
  <2>2. \A u \in Users : IsSeq(offline'[u]) /\ ForOwner(offline'[u], u)
    BY <1>6, NoMessage DEF KeptOK, ForOwner
  <2> QED
    BY <1>1, <1>6, <1>8, <2>1, <2>2 DEF KeptOK
<1>10. ASSUME NEW u \in Users, NEW n \in Nat, NEW k, NEW h, NEW i, NEW j,
              Held(Boxes', u, n, k, h, i, j)
       PROVE  \/ Held(Boxes, u, n, k, h, i, j) /\ (k # "offline" \/ h # x)
              \/ k = "login" /\ h = c /\ i = 0 /\ Held(Boxes, u, n, "offline", x, 0, j)
  <2>1. CASE k = "offline"
    <3>1. h = u /\ i = 0 /\ j \in Texts(offline'[u], u, n)
      BY <1>10, <2>1, BoxesAre DEF Held
    <3>2. u # x
      BY <1>6, <3>1, NoMessage DEF Texts
    <3> QED
      BY <1>6, <2>1, <3>1, <3>2, BoxesAre DEF Held
  <2>2. CASE k = "published" \/ k = "down" \/ k = "up"
    BY <1>1, <1>10, <2>2, BoxesAre DEF Held
  <2>3. CASE k = "login" /\ h # c
    BY <1>5, <1>10, <2>3, BoxesAre DEF Held
  <2>4. CASE k = "login" /\ h = c
    <3>1. i = 0 /\ Answering(handler'[c], u) /\ j \in Texts(handler'[c].off, u, n)
      BY <1>10, <2>4, BoxesAre DEF Held
    <3>2. u = x /\ j \in Texts(handler[c].off, u, n)
      BY <1>4, <1>5, <3>1 DEF Answering
    <3>3. j \in Texts(offline[x], u, n)
      BY <1>7, <3>2 DEF Texts, Prefix
    <3> QED
      BY <2>4, <3>1, <3>2, <3>3, BoxesAre DEF Held
  <2>5. CASE k = "handler"
    <3>1. \A i1 : ~Carries(handler'[c], u, n, i1)
      BY <1>3, <1>5 DEF Carries, IsChat
    <3> QED
      BY <1>5, <1>10, <2>5, <3>1, BoxesAre DEF Held
  <2> QED
    BY <1>10, <2>1, <2>2, <2>3, <2>4, <2>5 DEF Held
<1>11. ASSUME NEW u \in Users, NEW n \in Nat PROVE Carried(Boxes, Boxes', u, n)
  <2>1. ListMoves(Boxes, Boxes', u, n, "offline", x, 0, "login", c, 0)
    BY <1>10 DEF ListMoves
  <2> QED
    BY <2>1 DEF Carried
<1> QED
  BY <1>9, <1>11

(* login answers with what it has taken.                                   *)
LEMMA ToldMoves ==
  ASSUME SessionInv, KeptOK, NEW c \in Clients, Told(c), handler[c].req.id = "LOG_IN",
         UNCHANGED clientVars
  PROVE  KeptOK' /\ \A u \in Users, n \in Nat : Carried(Boxes, Boxes', u, n)
<1>1. /\ handler[c].pc = "look" /\ UNCHANGED <<world, up, published, subscribed, offline>>
  BY DEF Told, At, redis, tables
<1>2. PICK m : /\ Reply(c, m) /\ m.id = "LOG_IN_MSG_ACK" /\ m.err = 0 /\ m.u = handler[c].req.u
               /\ m.off = handler[c].off
  BY DEF Told
<1>3. DOMAIN handler = Clients /\ DOMAIN down = Clients
  BY <1>1, PlaceFacts
<1>4. handler'[c] = Idle /\ (\A d \in Clients \ {c} : handler'[d] = handler[d])
      /\ Idle.pc = "idle"
  BY <1>2, <1>3 DEF Reply, Return, Idle
<1>5. /\ \A d \in Clients \ {c} : down'[d] = down[d]
      /\ down'[c] = down[c] \/ down'[c] = Append(down[c], m)
  BY <1>2, <1>3 DEF Reply, Send
<1>6. IsSeq(down[c])
  BY DEF SessionInv, ClientOK
<1>7. AnswerKept(m)
  BY <1>1, <1>2 DEF KeptOK, HandlerKept, AnswerKept
<1>8. KeptOK'
  <2>1. SubscribedOK'
    BY <1>1 DEF KeptOK, SubscribedOK
  <2>2. ASSUME NEW d \in Clients PROVE HandlerKept(handler'[d]) /\ Prefixed(handler'[d], offline')
    BY <1>1, <1>4 DEF KeptOK, HandlerKept, Prefixed
  <2>3. ASSUME NEW d \in Clients, NEW i \in DOMAIN down'[d] PROVE AnswerKept(down'[d][i])
    <3>1. CASE down'[d] = down[d]
      BY <2>3, <3>1 DEF KeptOK
    <3>2. CASE d = c /\ down'[c] = Append(down[c], m)
      <4>1. PICK r : r = Append(down[c], m)
        OBVIOUS
      <4>2. /\ Len(down[c]) \in Nat /\ DOMAIN down[c] = 1 .. Len(down[c]) /\ DOMAIN r = 1 .. Len(down[c]) + 1
            /\ \A x \in 1 .. Len(down[c]) : r[x] = down[c][x]
            /\ r[Len(down[c]) + 1] = m
        BY <1>6, <4>1, AppendFacts
      <4>3. i \in 1 .. Len(down[c]) \/ i = Len(down[c]) + 1
        BY <2>3, <3>2, <4>1, <4>2
      <4> QED
        BY <1>7, <3>2, <4>1, <4>2, <4>3 DEF KeptOK
    <3> QED
      BY <1>5, <3>1, <3>2
  <2> QED
    BY <1>1, <2>1, <2>2, <2>3 DEF KeptOK
<1>9. ASSUME NEW u \in Users, NEW n \in Nat, NEW k, NEW h, NEW i, NEW j,
             Held(Boxes', u, n, k, h, i, j)
      PROVE  \/ Held(Boxes, u, n, k, h, i, j) /\ (k # "login" \/ h # c)
             \/ k = "down" /\ h = c /\ i = Len(down[c]) + 1 /\ Held(Boxes, u, n, "login", c, 0, j)
  <2>1. CASE k = "offline" \/ k = "published" \/ k = "up"
    BY <1>1, <1>9, <2>1, BoxesAre DEF Held
  <2>2. CASE k = "login" \/ k = "handler"
    BY <1>4, <1>9, <2>2, BoxesAre DEF Held, Answering, Carries
  <2>3. CASE k = "down" /\ (h # c \/ down'[c] = down[c])
    BY <1>5, <1>9, <2>3, BoxesAre DEF Held
  <2>4. CASE k = "down" /\ h = c /\ down'[c] = Append(down[c], m)
    <3>1. BringsIn(down'[c], u, n, i, j)
      BY <1>9, <2>4, BoxesAre DEF Held
    <3>2. CASE BringsIn(down[c], u, n, i, j)
      BY <2>4, <3>2, BoxesAre DEF Held
    <3>3. CASE i = Len(down[c]) + 1 /\ Brings(m, u, n, j)
      <4>1. u = handler[c].req.u /\ j \in Texts(handler[c].off, u, n)
        BY <1>2, <3>3 DEF Brings, LoggedIn, IsChat
      <4>2. Held(Boxes, u, n, "login", c, 0, j)
        BY <1>1, <4>1, BoxesAre DEF Held, Answering
      <4> QED
        BY <2>4, <3>3, <4>2
    <3> QED
      BY <1>6, <2>4, <3>1, <3>2, <3>3, BringsAppend
  <2> QED
    BY <1>5, <1>9, <2>1, <2>2, <2>3, <2>4 DEF Held
<1>10. ASSUME NEW u \in Users, NEW n \in Nat PROVE Carried(Boxes, Boxes', u, n)
  <2>1. ListMoves(Boxes, Boxes', u, n, "login", c, 0, "down", c, Len(down[c]) + 1)
    BY <1>9 DEF ListMoves
  <2> QED
    BY <2>1 DEF Carried
<1> QED
  BY <1>8, <1>10

(* A sequence of the elements of a set has each of them once.              *)
LEMMA SetToSeqFacts ==
  ASSUME NEW S, IsFiniteSet(S), NEW s, s = SetToSeq(S)
  PROVE  /\ IsSeq(s) /\ DOMAIN s \subseteq Nat
         /\ \A i, j \in DOMAIN s : s[i] = s[j] => i = j
<1>1. /\ Cardinality(S) \in Nat
      /\ \E f \in [1 .. Cardinality(S) -> S] : IsInjective(f)
  <2>1. Cardinality(S) \in Nat /\ ExistsBijection(1 .. Cardinality(S), S)
    BY FS_CardinalityType
  <2>2. PICK f : f \in Bijection(1 .. Cardinality(S), S)
    BY <2>1 DEF ExistsBijection
  <2> QED
    BY <2>1, <2>2 DEF Bijection, Injection
<1>2. s \in [1 .. Cardinality(S) -> S] /\ IsInjective(s)
  BY <1>1 DEF SetToSeq
<1>3. s \in Seq(S) /\ DOMAIN s = 1 .. Cardinality(S)
  BY <1>1, <1>2
<1> QED
  BY <1>1, <1>2, <1>3 DEF IsSeq, IsInjective

(* The receivers of oneChat and groupChat are different ones.              *)
LEMMA ReceiversFacts ==
  ASSUME NEW t, \/ \E x : t = <<x>>
                \/ \E g, u : t = SetToSeq(MembersBut(g, u))
  PROVE  IsSeq(t) /\ \A i, j \in DOMAIN t : t[i] = t[j] => i = j
<1>1. ASSUME NEW x, t = <<x>> PROVE IsSeq(t) /\ \A i, j \in DOMAIN t : t[i] = t[j] => i = j
  <2>1. t \in Seq({x}) /\ DOMAIN t = {1}
    BY <1>1
  <2> QED
    BY <2>1 DEF IsSeq
<1>2. ASSUME NEW g, NEW u, t = SetToSeq(MembersBut(g, u))
      PROVE  IsSeq(t) /\ \A i, j \in DOMAIN t : t[i] = t[j] => i = j
  <2>1. IsFiniteSet(MembersBut(g, u))
    <3>1. MembersBut(g, u) \subseteq Users
      BY DEF MembersBut
    <3> QED
      BY <3>1, ChatAssumption, FS_Subset
  <2> QED
    BY <1>2, <2>1, SetToSeqFacts
<1> QED
  BY <1>1, <1>2

(* oneChat and groupChat: a text gets its receivers.                       *)
LEMMA ReceiversMoves ==
  ASSUME SessionInv, KeptOK, NEW c \in Clients, ChatReceivers(c), UNCHANGED clientVars
  PROVE  KeptOK' /\ \A u \in Users, n \in Nat : Carried(Boxes, Boxes', u, n)
<1>1. /\ handler[c].pc \in {"ONE_CHAT", "GROUP_CHAT"}
      /\ UNCHANGED <<world, up, down, published, subscribed, offline>>
  BY DEF ChatReceivers, At, redis, tables
<1>2. /\ DOMAIN handler = Clients /\ PcOK(handler[c].pc, handler[c].req.id)
      /\ handler[c].req.id # "CLOSE" => DOMAIN handler[c] = Fields
  BY <1>1, PlaceFacts
<1>3. IsChat(handler[c].req) /\ handler[c].pc \notin Telling /\ handler[c].pc # "idle"
  BY <1>1, <1>2 DEF PcOK, IsChat, Telling
<1>4. DOMAIN handler[c] = Fields
  BY <1>2, <1>3 DEF IsChat
<1>5. PICK t : /\ t = IF handler[c].req.id = "ONE_CHAT" THEN <<handler[c].req.to>>
                      ELSE SetToSeq(MembersBut(handler[c].req.to, handler[c].req.u))
               /\ handler' = [handler EXCEPT ![c].pc = "look", ![c].todo = t]
  BY DEF ChatReceivers
<1>6. /\ handler'[c].pc = "look" /\ handler'[c].todo = t /\ handler'[c].req = handler[c].req
      /\ handler'[c].off = handler[c].off /\ \A d \in Clients \ {c} : handler'[d] = handler[d]
  BY <1>2, <1>4, <1>5 DEF Fields
<1>7. IsSeq(t) /\ \A i, j \in DOMAIN t : t[i] = t[j] => i = j
  BY <1>5, ReceiversFacts
<1>8. ASSUME NEW d \in Clients PROVE HandlerKept(handler'[d]) /\ Prefixed(handler'[d], offline)
  <2>1. CASE d = c
    <3>1. ForOwner(handler[c].off, handler[c].req.u)
      BY <1>3 DEF KeptOK, HandlerKept, IsChat
    <3> QED
      BY <1>6, <1>7, <2>1, <3>1 DEF HandlerKept, Prefixed
  <2>2. CASE d # c
    BY <1>6, <2>2 DEF KeptOK
  <2> QED
    BY <2>1, <2>2
<1>9. KeptOK'
  <2>1. SubscribedOK'
    BY <1>1 DEF KeptOK, SubscribedOK
  <2> QED
    BY <1>1, <1>8, <2>1 DEF KeptOK
<1>10. ASSUME NEW u \in Users, NEW n \in Nat PROVE Carried(Boxes, Boxes', u, n)
  <2>1. PICK x : \A y \in DOMAIN t : t[y] = u => y = x
    BY <1>7
  <2>2. ASSUME NEW k, NEW h, NEW i, NEW j, Held(Boxes', u, n, k, h, i, j)
        PROVE  \/ Held(Boxes, u, n, k, h, i, j) /\ (k # "handler" \/ h # c)
               \/ k = "handler" /\ h = c /\ i = x /\ j = 0 /\ Held(Boxes, u, n, "handler", c, 0, 0)
    <3>1. CASE k = "offline" \/ k = "published" \/ k = "down" \/ k = "up"
      BY <1>1, <2>2, <3>1, BoxesAre DEF Held
    <3>2. CASE k = "login"
      <4>1. ~Answering(handler'[c], u)
        BY <1>3, <1>6 DEF Answering, IsChat
      <4> QED
        BY <1>6, <2>2, <3>2, <4>1, BoxesAre DEF Held
    <3>3. CASE k = "handler" /\ h # c
      BY <1>6, <2>2, <3>3, BoxesAre DEF Held
    <3>4. CASE k = "handler" /\ h = c
      <4>1. j = 0 /\ Carries(handler'[c], u, n, i)
        BY <2>2, <3>4, BoxesAre DEF Held
      <4>2. i = x
        BY <1>6, <2>1, <4>1 DEF Carries, Telling
      <4>3. Carries(handler[c], u, n, 0)
        BY <1>3, <1>6, <4>1 DEF Carries
      <4> QED
        BY <3>4, <4>1, <4>2, <4>3, BoxesAre DEF Held
    <3> QED
      BY <2>2, <3>1, <3>2, <3>3, <3>4 DEF Held
  <2>3. MovesOn(Boxes, Boxes', u, n, "handler", c, 0, 0, "handler", c, x, 0)
    BY <2>2 DEF MovesOn
  <2> QED
    BY <2>3 DEF Carried
<1> QED
  BY <1>9, <1>10

(* ChatServer::onMessage: the first request gets a handler, those that came *)
(* with it are lost.                                                       *)
LEMMA OnMessageMoves ==
  ASSUME SessionInv, KeptOK, NEW c \in Clients, OnMessage(c), UNCHANGED clientVars
  PROVE  KeptOK' /\ \A u \in Users, n \in Nat : Carried(Boxes, Boxes', u, n)
<1>1. /\ \E k : Dropped(up[c], k, up'[c])
      /\ handler'[c].req = Head(up[c]) /\ handler'[c].pc = Head(up[c]).id
      /\ DOMAIN handler'[c] = Fields /\ handler'[c].todo = <<>> /\ handler'[c].off = <<>>
      /\ handler[c] = Idle /\ Head(up[c]) = up[c][1] /\ 1 \in DOMAIN up[c]
      /\ \A d \in Clients \ {c} : handler'[d] = handler[d] /\ up'[d] = up[d]
  BY OnMessageTakes
<1>2. PICK k0 : Dropped(up[c], k0, up'[c])
  BY <1>1
<1>3. UNCHANGED <<world, down, published, subscribed, offline>>
  BY DEF OnMessage, redis, tables
<1>4. IsSeq(up[c]) /\ up[c][1].id \in RequestIds
  BY <1>1 DEF SessionInv, ClientOK, RequestsOK
<1>5. /\ Len(up[c]) \in Nat /\ DOMAIN up[c] = 1 .. Len(up[c]) /\ DOMAIN up'[c] = 1 .. Len(up[c]) - k0
      /\ \A x \in 1 .. Len(up[c]) - k0 : up'[c][x] = up[c][x + k0] /\ x + k0 \in 1 .. Len(up[c])
      /\ k0 \in 1 .. Len(up[c])
  BY <1>2, <1>4, DropFacts
<1>6. handler'[c].pc \in RequestIds /\ handler'[c].pc \notin Telling /\ handler'[c].pc # "remove"
  BY <1>1, <1>4 DEF RequestIds, Telling
<1>7. ASSUME NEW d \in Clients PROVE HandlerKept(handler'[d]) /\ Prefixed(handler'[d], offline)
  <2>1. CASE d = c
    BY <1>1, <1>6, <2>1, NoMessage DEF HandlerKept, Prefixed, ForOwner
  <2>2. CASE d # c
    BY <1>1, <2>2 DEF KeptOK
  <2> QED
    BY <2>1, <2>2
<1>8. KeptOK'
  <2>1. SubscribedOK'
    BY <1>3 DEF KeptOK, SubscribedOK
  <2> QED
    BY <1>3, <1>7, <2>1 DEF KeptOK
<1>9. ASSUME NEW u \in Users, NEW n \in Nat, NEW k, NEW h, NEW i, NEW j,
             Held(Boxes', u, n, k, h, i, j)
      PROVE  \/ Held(Boxes, u, n, k, h, i, j) /\ (k # "up" \/ h # c)
             \/ k = "up" /\ h = c /\ i \in Int /\ i + k0 # 1 /\ Held(Boxes, u, n, "up", c, i + k0, j)
             \/ k = "handler" /\ h = c /\ i = 0 /\ j = 0 /\ Held(Boxes, u, n, "up", c, 1, 0)
  <2>1. CASE k = "offline" \/ k = "published" \/ k = "down"
    BY <1>3, <1>9, <2>1, BoxesAre DEF Held
  <2>2. CASE k = "login"
    <3>1. ~Answering(handler'[c], u)
      BY <1>6 DEF Answering, RequestIds
    <3> QED
      BY <1>1, <1>9, <2>2, <3>1, BoxesAre DEF Held
  <2>3. CASE k = "handler" /\ h # c
    BY <1>1, <1>9, <2>3, BoxesAre DEF Held
  <2>4. CASE k = "handler" /\ h = c
    <3>1. j = 0 /\ Carries(handler'[c], u, n, i)
      BY <1>9, <2>4, BoxesAre DEF Held
    <3>2. i = 0 /\ IsChat(up[c][1]) /\ up[c][1].n = n
      BY <1>1, <1>6, <3>1 DEF Carries
    <3> QED
      BY <1>1, <2>4, <3>1, <3>2, BoxesAre DEF Held
  <2>5. CASE k = "up" /\ h # c
    BY <1>1, <1>9, <2>5, BoxesAre DEF Held
  <2>6. CASE k = "up" /\ h = c
    <3>1. j = 0 /\ i \in 1 .. Len(up[c]) - k0 /\ IsChat(up'[c][i]) /\ up'[c][i].n = n
      BY <1>5, <1>9, <2>6, BoxesAre DEF Held
    <3>2. i \in Int /\ i + k0 # 1 /\ i + k0 \in DOMAIN up[c] /\ up'[c][i] = up[c][i + k0]
      BY <1>5, <3>1
    <3> QED
      BY <2>6, <3>1, <3>2, BoxesAre DEF Held
  <2> QED
    BY <1>9, <2>1, <2>2, <2>3, <2>4, <2>5, <2>6 DEF Held
<1>10. ASSUME NEW u \in Users, NEW n \in Nat PROVE Carried(Boxes, Boxes', u, n)
  <2>1. MovesOn(Boxes, Boxes', u, n, "up", c, 1, k0, "handler", c, 0, 0)
    BY <1>5, <1>9 DEF MovesOn
  <2> QED
    BY <2>1 DEF Carried
<1> QED
  BY <1>8, <1>10

(* A closed connection takes its last requests with it.                    *)
LEMMA CloseFindMoves ==
  ASSUME SessionInv, KeptOK, NEW c \in Clients, CloseFind(c), UNCHANGED clientVars
  PROVE  KeptOK' /\ \A u \in Users, n \in Nat : Carried(Boxes, Boxes', u, n)
<1>1. /\ up'[c] = <<>> /\ handler[c] = Idle
      /\ handler'[c] = Idle \/ (Serves(handler'[c], "CLOSE") /\ handler'[c].pc = "erase")
      /\ \A d \in Clients \ {c} : handler'[d] = handler[d] /\ up'[d] = up[d]
  BY CloseFindTakes
<1>2. UNCHANGED <<world, down, published, subscribed, offline>>
  BY DEF CloseFind, redis, tables
<1>3. Idle.pc = "idle"
  BY DEF Idle
<1>4. ASSUME NEW d \in Clients
      PROVE  /\ HandlerKept(handler'[d]) /\ Prefixed(handler'[d], offline)
             /\ \A u, n, i : Carries(handler'[d], u, n, i) => Carries(handler[d], u, n, i)
             /\ \A u : Answering(handler'[d], u) =>
                          Answering(handler[d], u) /\ handler'[d].off = handler[d].off
  <2>1. CASE d = c
    BY <1>1, <1>3, <2>1 DEF HandlerKept, Prefixed, Carries, Answering, Serves, IsChat
  <2>2. CASE d # c
    BY <1>1, <2>2 DEF KeptOK
  <2> QED
    BY <2>1, <2>2
<1>5. KeptOK'
  <2>1. SubscribedOK'
    BY <1>2 DEF KeptOK, SubscribedOK
  <2> QED
    BY <1>2, <1>4, <2>1 DEF KeptOK
<1>6. ASSUME NEW u \in Users, NEW n \in Nat, NEW k, NEW h, NEW i, NEW j,
             Held(Boxes', u, n, k, h, i, j)
      PROVE  Held(Boxes, u, n, k, h, i, j)
  <2>1. CASE k = "offline" \/ k = "published" \/ k = "down"
    BY <1>2, <1>6, <2>1, BoxesAre DEF Held
  <2>2. CASE k = "login" \/ k = "handler"
    BY <1>4, <1>6, <2>2, BoxesAre DEF Held
  <2>3. CASE k = "up"
    <3>1. h # c
      BY <1>1, <1>6, <2>3, NoMessage, BoxesAre DEF Held
    <3> QED
      BY <1>1, <1>6, <2>3, <3>1, BoxesAre DEF Held
  <2> QED
    BY <1>6, <2>1, <2>2, <2>3 DEF Held
<1> QED
  BY <1>5, <1>6 DEF Carried, Fewer

(* oneChat and groupChat go to the next receiver.                          *)
LEMMA NextTodo ==
  ASSUME SessionInv, KeptOK, NEW c \in Clients, handler[c].pc \in Telling, IsChat(handler[c].req),
         handler[c].todo # <<>>,
         NextReceiver(c) \/ (handler[c].pc = "look" /\ handler' = [handler EXCEPT ![c].todo = Tail(@)])
  PROVE  /\ \A d \in Clients : HandlerKept(handler'[d]) /\ (handler'[d].pc = "remove" =>
              handler'[d] = handler[d])
         /\ \A d \in Clients \ {c} : handler'[d] = handler[d]
         /\ \A u : ~Answering(handler'[c], u)
         /\ \A u, n, i : Carries(handler'[c], u, n, i) =>
                           i \in Int /\ i + 1 # 1 /\ Carries(handler[c], u, n, i + 1)
         /\ Head(handler[c].todo) = handler[c].todo[1]
         /\ Carries(handler[c], handler[c].todo[1], handler[c].req.n, 1)
<1>1. /\ DOMAIN handler = Clients /\ handler[c].pc # "idle" /\ handler[c].req.id # "CLOSE"
      /\ DOMAIN handler[c] = Fields /\ HandlerKept(handler[c])
  BY PlaceFacts DEF Telling, IsChat, KeptOK
<1>2. PICK t : t = Tail(handler[c].todo)
  OBVIOUS
<1>3. /\ handler'[c].pc = "look" /\ handler'[c].todo = t /\ handler'[c].req = handler[c].req
      /\ handler'[c].off = handler[c].off /\ \A d \in Clients \ {c} : handler'[d] = handler[d]
  <2>1. CASE handler' = [handler EXCEPT ![c].pc = "look", ![c].todo = t]
    BY <1>1, <2>1 DEF Fields
  <2>2. CASE handler[c].pc = "look" /\ handler' = [handler EXCEPT ![c].todo = t]
    BY <1>1, <2>2 DEF Fields
  <2> QED
    BY <1>2, <2>1, <2>2 DEF NextReceiver
<1>4. IsSeq(handler[c].todo) /\ ForOwner(handler[c].off, handler[c].req.u)
  BY <1>1 DEF HandlerKept
<1>5. /\ IsSeq(t) /\ Len(handler[c].todo) \in Nat /\ Len(handler[c].todo) >= 1
      /\ DOMAIN handler[c].todo = 1 .. Len(handler[c].todo)
      /\ Head(handler[c].todo) = handler[c].todo[1]
      /\ DOMAIN t = 1 .. Len(handler[c].todo) - 1
      /\ \A i \in 1 .. Len(handler[c].todo) - 1 :
           t[i] = handler[c].todo[i + 1] /\ i + 1 \in 1 .. Len(handler[c].todo)
  BY <1>2, <1>4, TailFacts
<1>6. HandlerKept(handler'[c]) /\ handler'[c].pc # "remove"
  BY <1>3, <1>4, <1>5 DEF HandlerKept
<1>7. \A d \in Clients : HandlerKept(handler'[d]) /\ (handler'[d].pc = "remove" => handler'[d] = handler[d])
  BY <1>3, <1>6 DEF KeptOK
<1>8. \A u : ~Answering(handler'[c], u)
  BY <1>3 DEF Answering, IsChat
<1>9. ASSUME NEW u, NEW n, NEW i, Carries(handler'[c], u, n, i)
      PROVE  i \in Int /\ i + 1 # 1 /\ Carries(handler[c], u, n, i + 1)
  <2>1. i \in 1 .. Len(handler[c].todo) - 1 /\ t[i] = u /\ handler[c].req.n = n
    BY <1>3, <1>5, <1>9 DEF Carries, Telling
  <2> QED
    BY <1>1, <1>5, <2>1 DEF Carries
<1>10. Carries(handler[c], handler[c].todo[1], handler[c].req.n, 1)
  BY <1>1, <1>5 DEF Carries
<1> QED
  BY <1>3, <1>5, <1>7, <1>8, <1>9, <1>10

(* The message that a text is in.                                          *)
LEMMA PushFacts ==
  ASSUME NEW req, IsChat(req), NEW x, NEW m, m = Push(req, x)
  PROVE  /\ \A u, n, j : Brings(m, u, n, j) => u = x /\ n = req.n /\ j = 0
         /\ AnswerKept(m) /\ m.for = x
<1>1. m = [id |-> req.id, u |-> req.u, n |-> req.n, for |-> x]
  BY DEF Push, IsChat
<1>2. m.id = req.id /\ m.n = req.n /\ m.for = x
  BY <1>1
<1> QED
  BY <1>2 DEF Brings, LoggedIn, AnswerKept, IsChat

(* The answers in a queue with one message more.                           *)
LEMMA AnswersAppend ==
  ASSUME NEW s, IsSeq(s), NEW m, NEW r, r = s \/ r = Append(s, m), AnswerKept(m),
         \A i \in DOMAIN s : AnswerKept(s[i])
  PROVE  \A i \in DOMAIN r : AnswerKept(r[i])
<1>1. CASE r = Append(s, m)
  <2>1. /\ Len(s) \in Nat /\ DOMAIN s = 1 .. Len(s) /\ DOMAIN r = 1 .. Len(s) + 1
        /\ \A x \in 1 .. Len(s) : r[x] = s[x]
        /\ r[Len(s) + 1] = m
    BY <1>1, AppendFacts
  <2> SUFFICES ASSUME NEW i \in DOMAIN r PROVE AnswerKept(r[i])
    OBVIOUS
  <2>2. i \in 1 .. Len(s) \/ i = Len(s) + 1
    BY <2>1
  <2> QED
    BY <2>1, <2>2
<1> QED
  BY <1>1

(* The connection of a receiver is here: the text goes down to it.         *)
LEMMA LookMoves ==
  ASSUME SessionInv, KeptOK, NEW c \in Clients, Look(c), IsChat(handler[c].req), UNCHANGED clientVars
  PROVE  KeptOK' /\ \A u \in Users, n \in Nat : Carried(Boxes, Boxes', u, n)
<1>1. /\ handler[c].pc = "look" /\ handler[c].todo # <<>>
      /\ UNCHANGED <<world, up, published, subscribed, offline>>
  BY DEF Look, At, redis, tables
<1>2. CASE Goto(c, "ask") /\ UNCHANGED down
  <2>1. Calm(c)
    BY <1>1, <1>2, GotoCalm DEF Telling, LoggingIn, IsChat
  <2> QED
    BY <2>1, CalmKeeps DEF Carried
<1>3. ASSUME NEW e, Send(e, Push(handler[c].req, Head(handler[c].todo))),
             handler' = [handler EXCEPT ![c].todo = Tail(@)]
      PROVE  KeptOK' /\ \A u \in Users, n \in Nat : Carried(Boxes, Boxes', u, n)
  <2>1. /\ \A d \in Clients : HandlerKept(handler'[d]) /\ (handler'[d].pc = "remove" =>
              handler'[d] = handler[d])
        /\ \A d \in Clients \ {c} : handler'[d] = handler[d]
        /\ \A u : ~Answering(handler'[c], u)
        /\ \A u, n, i : Carries(handler'[c], u, n, i) =>
                           i \in Int /\ i + 1 # 1 /\ Carries(handler[c], u, n, i + 1)
        /\ Head(handler[c].todo) = handler[c].todo[1]
        /\ Carries(handler[c], handler[c].todo[1], handler[c].req.n, 1)
    BY <1>1, <1>3, NextTodo DEF Telling
  <2>2. PICK x : x = handler[c].todo[1]
    OBVIOUS
  <2>3. PICK m : m = Push(handler[c].req, x)
    OBVIOUS
  <2>4. /\ \A u, n, j : Brings(m, u, n, j) => u = x /\ n = handler[c].req.n /\ j = 0
        /\ AnswerKept(m)
    BY <2>3, PushFacts
  <2>5. DOMAIN down = Clients /\ \A d \in Clients : IsSeq(down[d])
    BY DEF SessionInv, ChatTypes, ClientOK
  <2>6. \A d \in Clients : down'[d] = down[d] \/ (d = e /\ down'[d] = Append(down[d], m))
    BY <1>3, <2>1, <2>2, <2>3, <2>5 DEF Send
  <2>7. KeptOK'
    <3>1. SubscribedOK'
      BY <1>1 DEF KeptOK, SubscribedOK
    <3>2. \A d \in Clients : \A i \in DOMAIN down'[d] : AnswerKept(down'[d][i])
      BY <2>4, <2>5, <2>6, AnswersAppend DEF KeptOK
    <3>3. \A d \in Clients : Prefixed(handler'[d], offline)
      BY <2>1 DEF KeptOK, Prefixed
    <3> QED
      BY <1>1, <2>1, <3>1, <3>2, <3>3 DEF KeptOK
  <2>8. ASSUME NEW u \in Users, NEW n \in Nat, NEW k, NEW h, NEW i, NEW j,
               Held(Boxes', u, n, k, h, i, j)
        PROVE  \/ Held(Boxes, u, n, k, h, i, j) /\ (k # "handler" \/ h # c)
               \/ /\ k = "handler" /\ h = c /\ i \in Int /\ i + 1 # 1
                  /\ Held(Boxes, u, n, "handler", c, i + 1, j)
               \/ /\ k = "down" /\ h = e /\ i = Len(down[e]) + 1 /\ j = 0
                  /\ Held(Boxes, u, n, "handler", c, 1, 0)
    <3>1. CASE k = "offline" \/ k = "published" \/ k = "up"
      BY <1>1, <2>8, <3>1, BoxesAre DEF Held
    <3>2. CASE k = "login"
      BY <2>1, <2>8, <3>2, BoxesAre DEF Held
    <3>3. CASE k = "handler"
      BY <2>1, <2>8, <3>3, BoxesAre DEF Held
    <3>4. CASE k = "down"
      <4>1. h \in Clients /\ BringsIn(down'[h], u, n, i, j)
        BY <2>8, <3>4, BoxesAre DEF Held
      <4>2. CASE BringsIn(down[h], u, n, i, j)
        BY <3>4, <4>1, <4>2, BoxesAre DEF Held
      <4>3. CASE ~BringsIn(down[h], u, n, i, j)
        <5>1. h = e /\ i = Len(down[e]) + 1 /\ Brings(m, u, n, j)
          BY <2>5, <2>6, <4>1, <4>3, BringsAppend
        <5>2. u = x /\ n = handler[c].req.n /\ j = 0
          BY <2>4, <5>1
        <5> QED
          BY <2>1, <2>2, <3>4, <5>1, <5>2, BoxesAre DEF Held
      <4> QED
        BY <4>2, <4>3
    <3> QED
      BY <2>8, <3>1, <3>2, <3>3, <3>4 DEF Held
  <2>9. ASSUME NEW u \in Users, NEW n \in Nat PROVE Carried(Boxes, Boxes', u, n)
    <3>1. MovesOn(Boxes, Boxes', u, n, "handler", c, 1, 1, "down", e, Len(down[e]) + 1, 0)
      BY <2>8 DEF MovesOn
    <3> QED
      BY <3>1 DEF Carried
  <2> QED
    BY <2>7, <2>9
<1> QED
  BY <1>2, <1>3 DEF Look

(* RedisCache::publish: one server is subscribed at most.                  *)
LEMMA PublishMoves ==
  ASSUME OneHome, SessionInv, KeptOK, NEW c \in Clients, Publish(c), IsChat(handler[c].req),
         UNCHANGED clientVars
  PROVE  KeptOK' /\ \A u \in Users, n \in Nat : Carried(Boxes, Boxes', u, n)
<1>1. /\ handler[c].pc = "publish" /\ NextReceiver(c)
      /\ UNCHANGED <<world, up, down, subscribed, offline>>
  BY DEF Publish, At, tables
<1>2. handler[c].todo # <<>>
  BY <1>1 DEF KeptOK, HandlerKept, Telling, IsChat
<1>3. /\ \A d \in Clients : HandlerKept(handler'[d]) /\ (handler'[d].pc = "remove" =>
            handler'[d] = handler[d])
      /\ \A d \in Clients \ {c} : handler'[d] = handler[d]
      /\ \A u : ~Answering(handler'[c], u)
      /\ \A u, n, i : Carries(handler'[c], u, n, i) =>
                         i \in Int /\ i + 1 # 1 /\ Carries(handler[c], u, n, i + 1)
      /\ Head(handler[c].todo) = handler[c].todo[1]
      /\ Carries(handler[c], handler[c].todo[1], handler[c].req.n, 1)
  BY <1>1, <1>2, NextTodo DEF Telling
<1>4. PICK x : x = handler[c].todo[1]
  OBVIOUS
<1>5. PICK m : m = Push(handler[c].req, x)
  OBVIOUS
<1>6. \A u, n, j : Brings(m, u, n, j) => u = x /\ n = handler[c].req.n /\ j = 0
  BY <1>5, PushFacts
<1>7. \A s \in Servers : published'[s] = IF x \in subscribed[s] THEN Append(published[s], m)
                                         ELSE published[s]
  BY <1>3, <1>4, <1>5 DEF Publish
<1>8. PICK e : \A s \in Servers : x \in subscribed[s] => s = e
  <2>1. ASSUME NEW s \in Servers, NEW r \in Servers, x \in subscribed[s], x \in subscribed[r]
        PROVE  s = r
    <3>1. PICK a \in Clients, b \in Clients : /\ world.home[a] = s /\ world.account[a] = x
                                              /\ world.home[b] = r /\ world.account[b] = x
      BY <2>1 DEF KeptOK, SubscribedOK
    <3> QED
      BY <3>1 DEF OneHome, SessionInv, ChatTypes
  <2> QED
    BY <2>1
<1>9. KeptOK'
  <2>1. SubscribedOK'
    BY <1>1 DEF KeptOK, SubscribedOK
  <2>2. \A d \in Clients : Prefixed(handler'[d], offline)
    BY <1>3 DEF KeptOK, Prefixed
  <2> QED
    BY <1>1, <1>3, <2>1, <2>2 DEF KeptOK
<1>10. ASSUME NEW u \in Users, NEW n \in Nat, NEW k, NEW h, NEW i, NEW j,
              Held(Boxes', u, n, k, h, i, j)
       PROVE  \/ Held(Boxes, u, n, k, h, i, j) /\ (k # "handler" \/ h # c)
              \/ /\ k = "handler" /\ h = c /\ i \in Int /\ i + 1 # 1
                 /\ Held(Boxes, u, n, "handler", c, i + 1, j)
              \/ /\ k = "published" /\ h = e /\ i = Len(published[e]) + 1 /\ j = 0
                 /\ Held(Boxes, u, n, "handler", c, 1, 0)
  <2>1. CASE k = "offline" \/ k = "down" \/ k = "up"
    BY <1>1, <1>10, <2>1, BoxesAre DEF Held
  <2>2. CASE k = "login"
    BY <1>3, <1>10, <2>2, BoxesAre DEF Held
  <2>3. CASE k = "handler"
    BY <1>3, <1>10, <2>3, BoxesAre DEF Held
  <2>4. CASE k = "published"
    <3>1. h \in Servers /\ BringsIn(published'[h], u, n, i, j) /\ IsSeq(published[h])
      BY <1>10, <2>4, BoxesAre DEF Held, SessionInv, PushesOK
    <3>2. CASE BringsIn(published[h], u, n, i, j)
      BY <2>4, <3>1, <3>2, BoxesAre DEF Held
    <3>3. CASE ~BringsIn(published[h], u, n, i, j)
      <4>1. x \in subscribed[h] /\ published'[h] = Append(published[h], m)
        BY <1>7, <3>1, <3>3
      <4>2. h = e /\ i = Len(published[e]) + 1 /\ Brings(m, u, n, j)
        BY <1>8, <3>1, <3>3, <4>1, BringsAppend
      <4>3. u = x /\ n = handler[c].req.n /\ j = 0
        BY <1>6, <4>2
      <4> QED
        BY <1>3, <1>4, <2>4, <4>2, <4>3, BoxesAre DEF Held
    <3> QED
      BY <3>2, <3>3
  <2> QED
    BY <1>10, <2>1, <2>2, <2>3, <2>4 DEF Held
<1>11. ASSUME NEW u \in Users, NEW n \in Nat PROVE Carried(Boxes, Boxes', u, n)
  <2>1. MovesOn(Boxes, Boxes', u, n, "handler", c, 1, 1, "published", e, Len(published[e]) + 1, 0)
    BY <1>10 DEF MovesOn
  <2> QED
    BY <2>1 DEF Carried
<1> QED
  BY <1>9, <1>11

(* A message more is kept for user x.                                      *)
LEMMA InsertFacts ==
  ASSUME KeptOK, NEW x, NEW m, m.for = x, OfflineInsert(x, m)
  PROVE  /\ DOMAIN offline' = Users
         /\ \A u \in Users : IsSeq(offline'[u]) /\ ForOwner(offline'[u], u)
         /\ \A u \in Users : \A n, j : j \in Texts(offline'[u], u, n) =>
              \/ j \in Texts(offline[u], u, n)
              \/ u = x /\ j = Len(offline[x]) + 1 /\ Brings(m, u, n, 0)
         /\ \A u \in Users : \A s : Prefix(s, offline[u]) => Prefix(s, offline'[u])
<1>1. DOMAIN offline = Users /\ \A u \in Users : IsSeq(offline[u]) /\ ForOwner(offline[u], u)
  BY DEF KeptOK
<1>2. offline' = [offline EXCEPT ![x] = Append(offline[x], m)]
  BY DEF OfflineInsert
<1>3. DOMAIN offline' = Users /\ \A u \in Users : u # x => offline'[u] = offline[u]
  BY <1>1, <1>2
<1>4. CASE x \notin Users
  BY <1>1, <1>3, <1>4
<1>5. CASE x \in Users
  <2>1. offline'[x] = Append(offline[x], m)
    BY <1>1, <1>2, <1>5
  <2>2. PICK s, r : s = offline[x] /\ r = Append(s, m)
    OBVIOUS
  <2>3. IsSeq(s) /\ ForOwner(s, x) /\ offline'[x] = r
    BY <1>1, <1>5, <2>1, <2>2
  <2>4. /\ IsSeq(r) /\ Len(s) \in Nat /\ DOMAIN s = 1 .. Len(s) /\ DOMAIN r = 1 .. Len(s) + 1
        /\ \A i \in 1 .. Len(s) : r[i] = s[i]
        /\ r[Len(s) + 1] = m
    BY <2>2, <2>3, AppendFacts
  <2>5. ForOwner(r, x)
    <3> SUFFICES ASSUME NEW i \in DOMAIN r PROVE r[i].for = x
      BY DEF ForOwner
    <3>1. i \in 1 .. Len(s) \/ i = Len(s) + 1
      BY <2>4
    <3> QED
      BY <2>3, <2>4, <3>1 DEF ForOwner
  <2>6. \A n, j : j \in Texts(r, x, n) =>
          j \in Texts(s, x, n) \/ (j = Len(s) + 1 /\ Brings(m, x, n, 0))
    BY <2>2, <2>3, TextsAppend
  <2>7. \A p : Prefix(p, s) => Prefix(p, r)
    <3> SUFFICES ASSUME NEW p, Prefix(p, s) PROVE Prefix(p, r)
      OBVIOUS
    <3> QED
      BY <2>4 DEF Prefix
  <2> QED
    BY <1>1, <1>3, <2>2, <2>3, <2>4, <2>5, <2>6, <2>7
<1> QED
  BY <1>4, <1>5

(* OfflineMsgModel::insert, for a receiver that is offline.                *)
LEMMA StoreMoves ==
  ASSUME SessionInv, KeptOK, NEW c \in Clients, Store(c), IsChat(handler[c].req), UNCHANGED clientVars
  PROVE  KeptOK' /\ \A u \in Users, n \in Nat : Carried(Boxes, Boxes', u, n)
<1>1. /\ handler[c].pc = "store" /\ NextReceiver(c)
      /\ UNCHANGED <<world, up, down, subscribed, published>>
      /\ OfflineInsert(Head(handler[c].todo), Push(handler[c].req, Head(handler[c].todo)))
  BY DEF Store, At, redis
<1>2. handler[c].todo # <<>>
  BY <1>1 DEF KeptOK, HandlerKept, Telling, IsChat
<1>3. /\ \A d \in Clients : HandlerKept(handler'[d]) /\ (handler'[d].pc = "remove" =>
            handler'[d] = handler[d])
      /\ \A d \in Clients \ {c} : handler'[d] = handler[d]
      /\ \A u : ~Answering(handler'[c], u)
      /\ \A u, n, i : Carries(handler'[c], u, n, i) =>
                         i \in Int /\ i + 1 # 1 /\ Carries(handler[c], u, n, i + 1)
      /\ Head(handler[c].todo) = handler[c].todo[1]
      /\ Carries(handler[c], handler[c].todo[1], handler[c].req.n, 1)
  BY <1>1, <1>2, NextTodo DEF Telling
<1>4. PICK x : x = handler[c].todo[1]
  OBVIOUS
<1>5. PICK m : m = Push(handler[c].req, x)
  OBVIOUS
<1>6. /\ \A u, n, j : Brings(m, u, n, j) => u = x /\ n = handler[c].req.n /\ j = 0
      /\ m.for = x
  BY <1>5, PushFacts
<1>7. /\ DOMAIN offline' = Users
      /\ \A u \in Users : IsSeq(offline'[u]) /\ ForOwner(offline'[u], u)
      /\ \A u \in Users : \A n, j : j \in Texts(offline'[u], u, n) =>
           \/ j \in Texts(offline[u], u, n)
           \/ u = x /\ j = Len(offline[x]) + 1 /\ Brings(m, u, n, 0)
      /\ \A u \in Users : \A s : Prefix(s, offline[u]) => Prefix(s, offline'[u])
  <2>1. OfflineInsert(x, m)
    BY <1>1, <1>3, <1>4, <1>5
  <2> QED
    BY <1>6, <2>1, InsertFacts
<1>8. ASSUME NEW d \in Clients PROVE Prefixed(handler'[d], offline')
  <2>1. CASE handler'[d].pc = "remove"
    <3>1. handler'[d] = handler[d] /\ Prefix(handler[d].off, offline[handler[d].req.u])
      BY <1>3, <2>1 DEF KeptOK, Prefixed
    <3>2. handler[d].req.u \in Users
      BY <2>1, <3>1, PlaceFacts DEF PcOK, RequestIds, Telling
    <3> QED
      BY <1>7, <3>1, <3>2 DEF Prefixed
  <2> QED
    BY <2>1 DEF Prefixed
<1>9. KeptOK'
  <2>1. SubscribedOK'
    BY <1>1 DEF KeptOK, SubscribedOK
  <2> QED
    BY <1>1, <1>3, <1>7, <1>8, <2>1 DEF KeptOK
<1>10. ASSUME NEW u \in Users, NEW n \in Nat, NEW k, NEW h, NEW i, NEW j,
              Held(Boxes', u, n, k, h, i, j)
       PROVE  \/ Held(Boxes, u, n, k, h, i, j) /\ (k # "handler" \/ h # c)
              \/ /\ k = "handler" /\ h = c /\ i \in Int /\ i + 1 # 1
                 /\ Held(Boxes, u, n, "handler", c, i + 1, j)
              \/ /\ k = "offline" /\ h = x /\ i = 0 /\ j = Len(offline[x]) + 1
                 /\ Held(Boxes, u, n, "handler", c, 1, 0)
  <2>1. CASE k = "published" \/ k = "down" \/ k = "up"
    BY <1>1, <1>10, <2>1, BoxesAre DEF Held
  <2>2. CASE k = "login"
    BY <1>3, <1>10, <2>2, BoxesAre DEF Held
  <2>3. CASE k = "handler"
    BY <1>3, <1>10, <2>3, BoxesAre DEF Held
  <2>4. CASE k = "offline"
    <3>1. h = u /\ i = 0 /\ j \in Texts(offline'[u], u, n)
      BY <1>10, <2>4, BoxesAre DEF Held
    <3>2. CASE j \in Texts(offline[u], u, n)
      BY <2>4, <3>1, <3>2, BoxesAre DEF Held
    <3>3. CASE j \notin Texts(offline[u], u, n)
      <4>1. u = x /\ j = Len(offline[x]) + 1 /\ n = handler[c].req.n
        BY <1>6, <1>7, <3>1, <3>3
      <4> QED
        BY <1>3, <1>4, <2>4, <3>1, <4>1, BoxesAre DEF Held
    <3> QED
      BY <3>2, <3>3
  <2> QED
    BY <1>10, <2>1, <2>2, <2>3, <2>4 DEF Held
<1>11. ASSUME NEW u \in Users, NEW n \in Nat PROVE Carried(Boxes, Boxes', u, n)
  <2>1. MovesOn(Boxes, Boxes', u, n, "handler", c, 1, 1, "offline", x, 0, Len(offline[x]) + 1)
    BY <1>10 DEF MovesOn
  <2> QED
    BY <2>1 DEF Carried
<1> QED
  BY <1>9, <1>11

(* redisNotifyHandler: the text goes down to the connection of its user,   *)
(* or is kept.                                                             *)
LEMMA NotifyMoves ==
  ASSUME SessionInv, KeptOK, NEW s \in Servers, RedisNotify(s), UNCHANGED clientVars
  PROVE  KeptOK' /\ \A u \in Users, n \in Nat : Carried(Boxes, Boxes', u, n)
<1>1. published[s] # <<>> /\ UNCHANGED <<world, handler, up, subscribed>>
  BY DEF RedisNotify
<1>2. DOMAIN published = Servers /\ IsSeq(published[s]) /\ NoneOf(published[s], Answers)
  BY DEF SessionInv, PushesOK
<1>3. PICK r : r = Tail(published[s])
  OBVIOUS
<1>4. PICK m : m = published[s][1]
  OBVIOUS
<1>5. /\ Head(published[s]) = m /\ Len(published[s]) \in Nat /\ Len(published[s]) >= 1
      /\ DOMAIN published[s] = 1 .. Len(published[s]) /\ DOMAIN r = 1 .. Len(published[s]) - 1
      /\ \A i \in 1 .. Len(published[s]) - 1 :
           r[i] = published[s][i + 1] /\ i + 1 \in 1 .. Len(published[s])
  BY <1>1, <1>2, <1>3, <1>4, TailFacts
<1>6. published'[s] = r /\ \A x \in Servers \ {s} : published'[x] = published[x]
  BY <1>2, <1>3 DEF RedisNotify, Observes
<1>7. m.id \notin Answers
  <2>1. 1 \in DOMAIN published[s]
    BY <1>5
  <2> QED
    BY <1>2, <1>4, <2>1 DEF NoneOf
<1>8. \A u, n, j : Brings(m, u, n, j) => u = m.for /\ j = 0 /\ BringsIn(published[s], u, n, 1, 0)
  BY <1>4, <1>5, <1>7 DEF Brings, LoggedIn, Answers, BringsIn
<1>9. ASSUME NEW u, NEW n, NEW i, NEW j, BringsIn(r, u, n, i, j)
      PROVE  i \in Int /\ i + 1 # 1 /\ BringsIn(published[s], u, n, i + 1, j)
  <2>1. i \in 1 .. Len(published[s]) - 1 /\ Brings(r[i], u, n, j)
    BY <1>5, <1>9 DEF BringsIn
  <2> QED
    BY <1>5, <2>1 DEF BringsIn
<1>10. \A d \in Clients : HandlerKept(handler[d]) /\ Prefixed(handler[d], offline)
  BY DEF KeptOK
<1>11. SubscribedOK'
  BY <1>1 DEF KeptOK, SubscribedOK
<1>12. ASSUME NEW e, Send(e, m), UNCHANGED offline
       PROVE  KeptOK' /\ \A u \in Users, n \in Nat : Carried(Boxes, Boxes', u, n)
  <2>1. DOMAIN down = Clients /\ \A d \in Clients : IsSeq(down[d])
    BY DEF SessionInv, ChatTypes, ClientOK
  <2>2. \A d \in Clients : down'[d] = down[d] \/ (d = e /\ down'[d] = Append(down[d], m))
    BY <1>12, <2>1 DEF Send
  <2>3. AnswerKept(m)
    BY <1>7 DEF AnswerKept, Answers
  <2>4. \A d \in Clients : \A i \in DOMAIN down'[d] : AnswerKept(down'[d][i])
    BY <2>1, <2>2, <2>3, AnswersAppend DEF KeptOK
  <2>5. KeptOK'
    BY <1>1, <1>10, <1>11, <1>12, <2>4 DEF KeptOK
  <2>6. ASSUME NEW u \in Users, NEW n \in Nat, NEW k, NEW h, NEW i, NEW j,
               Held(Boxes', u, n, k, h, i, j)
        PROVE  \/ Held(Boxes, u, n, k, h, i, j) /\ (k # "published" \/ h # s)
               \/ /\ k = "published" /\ h = s /\ i \in Int /\ i + 1 # 1
                  /\ Held(Boxes, u, n, "published", s, i + 1, j)
               \/ /\ k = "down" /\ h = e /\ i = Len(down[e]) + 1 /\ j = 0
                  /\ Held(Boxes, u, n, "published", s, 1, 0)
    <3>1. CASE k = "offline" \/ k = "login" \/ k = "handler" \/ k = "up"
      BY <1>1, <1>12, <2>6, <3>1, BoxesAre DEF Held
    <3>2. CASE k = "published" /\ h # s
      BY <1>6, <2>6, <3>2, BoxesAre DEF Held
    <3>3. CASE k = "published" /\ h = s
      BY <1>6, <1>9, <2>6, <3>3, BoxesAre DEF Held
    <3>4. CASE k = "down"
      <4>1. h \in Clients /\ BringsIn(down'[h], u, n, i, j)
        BY <2>6, <3>4, BoxesAre DEF Held
      <4>2. CASE BringsIn(down[h], u, n, i, j)
        BY <3>4, <4>1, <4>2, BoxesAre DEF Held
      <4>3. CASE ~BringsIn(down[h], u, n, i, j)
        <5>1. h = e /\ i = Len(down[e]) + 1 /\ Brings(m, u, n, j)
          BY <2>1, <2>2, <4>1, <4>3, BringsAppend
        <5> QED
          BY <1>8, <3>4, <5>1, BoxesAre DEF Held
      <4> QED
        BY <4>2, <4>3
    <3> QED
      BY <2>6, <3>1, <3>2, <3>3, <3>4 DEF Held
  <2>7. ASSUME NEW u \in Users, NEW n \in Nat PROVE Carried(Boxes, Boxes', u, n)
    <3>1. MovesOn(Boxes, Boxes', u, n, "published", s, 1, 1, "down", e, Len(down[e]) + 1, 0)
      BY <2>6 DEF MovesOn
    <3> QED
      BY <3>1 DEF Carried
  <2> QED
    BY <2>5, <2>7
<1>13. ASSUME OfflineInsert(m.for, m), UNCHANGED down
       PROVE  KeptOK' /\ \A u \in Users, n \in Nat : Carried(Boxes, Boxes', u, n)
  <2>1. PICK x : x = m.for
    OBVIOUS
  <2>2. /\ DOMAIN offline' = Users
        /\ \A u \in Users : IsSeq(offline'[u]) /\ ForOwner(offline'[u], u)
        /\ \A u \in Users : \A n, j : j \in Texts(offline'[u], u, n) =>
             \/ j \in Texts(offline[u], u, n)
             \/ u = x /\ j = Len(offline[x]) + 1 /\ Brings(m, u, n, 0)
        /\ \A u \in Users : \A p : Prefix(p, offline[u]) => Prefix(p, offline'[u])
    BY <1>13, <2>1, InsertFacts
  <2>3. ASSUME NEW d \in Clients PROVE Prefixed(handler[d], offline')
    <3>1. CASE handler[d].pc = "remove"
      <4>1. Prefix(handler[d].off, offline[handler[d].req.u])
        BY <1>10, <3>1 DEF Prefixed
      <4>2. handler[d].req.u \in Users
        BY <3>1, PlaceFacts DEF PcOK, RequestIds, Telling
      <4> QED
        BY <2>2, <4>1, <4>2 DEF Prefixed
    <3> QED
      BY <3>1 DEF Prefixed
  <2>4. KeptOK'
    BY <1>1, <1>10, <1>11, <1>13, <2>2, <2>3 DEF KeptOK
  <2>5. ASSUME NEW u \in Users, NEW n \in Nat, NEW k, NEW h, NEW i, NEW j,
               Held(Boxes', u, n, k, h, i, j)
        PROVE  \/ Held(Boxes, u, n, k, h, i, j) /\ (k # "published" \/ h # s)
               \/ /\ k = "published" /\ h = s /\ i \in Int /\ i + 1 # 1
                  /\ Held(Boxes, u, n, "published", s, i + 1, j)
               \/ /\ k = "offline" /\ h = x /\ i = 0 /\ j = Len(offline[x]) + 1
                  /\ Held(Boxes, u, n, "published", s, 1, 0)
    <3>1. CASE k = "down" \/ k = "login" \/ k = "handler" \/ k = "up"
      BY <1>1, <1>13, <2>5, <3>1, BoxesAre DEF Held
    <3>2. CASE k = "published" /\ h # s
      BY <1>6, <2>5, <3>2, BoxesAre DEF Held
    <3>3. CASE k = "published" /\ h = s
      BY <1>6, <1>9, <2>5, <3>3, BoxesAre DEF Held
    <3>4. CASE k = "offline"
      <4>1. h = u /\ i = 0 /\ j \in Texts(offline'[u], u, n)
        BY <2>5, <3>4, BoxesAre DEF Held
      <4>2. CASE j \in Texts(offline[u], u, n)
        BY <3>4, <4>1, <4>2, BoxesAre DEF Held
      <4>3. CASE j \notin Texts(offline[u], u, n)
        <5>1. u = x /\ j = Len(offline[x]) + 1 /\ Brings(m, u, n, 0)
          BY <2>2, <4>1, <4>3
        <5> QED
          BY <1>8, <3>4, <4>1, <5>1, BoxesAre DEF Held
      <4> QED
        BY <4>2, <4>3
    <3> QED
      BY <2>5, <3>1, <3>2, <3>3, <3>4 DEF Held
  <2>6. ASSUME NEW u \in Users, NEW n \in Nat PROVE Carried(Boxes, Boxes', u, n)
    <3>1. MovesOn(Boxes, Boxes', u, n, "published", s, 1, 1, "offline", x, 0, Len(offline[x]) + 1)
      BY <2>5 DEF MovesOn
    <3> QED
      BY <3>1 DEF Carried
  <2> QED
    BY <2>4, <2>6
<1> QED
  BY <1>5, <1>12, <1>13 DEF RedisNotify

(* Every step of a server moves texts, and no more.                        *)
LEMMA ServiceMoves ==
  ASSUME OneHome, SessionInv, KeptOK, ServiceStep, UNCHANGED clientVars
  PROVE  /\ KeptOK' /\ UNCHANGED <<world, typed, received>>
         /\ \A u \in Users, n \in Nat : Carried(Boxes, Boxes', u, n)
<1>1. ASSUME NEW c \in Clients, Handle(c)
      PROVE  KeptOK' /\ UNCHANGED world /\ \A u \in Users, n \in Nat : Carried(Boxes, Boxes', u, n)
  <2>1. UNCHANGED world
    BY <1>1 DEF Handle, OnMessage, LoginQuery, LoginUpdateState, LoginInsert, LoginOffline,
         LoginRemove, LoginLists, LogoutErase, LogoutUpdateState, LogoutUnsubscribe,
         ChatReceivers, Look, Ask, Publish, Store, Told, Regis, AddFriend, AddFriendInfo,
         CreateGroup, CreateGroupCreator, AddToGroup, AddToGroupUser, CloseFind, CloseErase,
         CloseUpdateState
  <2>2. CASE Calm(c)
    BY <2>1, <2>2, CalmKeeps DEF Carried
  <2>3. CASE Small(c) \/ LoginOffline(c) \/ LoginLists(c) \/ LogoutUnsubscribe(c)
    BY <2>2, <2>3, SmallCalm, OfflineCalm, ListsCalm
  <2>4. CASE OnMessage(c) \/ CloseFind(c) \/ LoginRemove(c) \/ ChatReceivers(c)
    BY <2>1, <2>4, OnMessageMoves, CloseFindMoves, RemoveMoves, ReceiversMoves
  <2>5. CASE Tells(c) /\ ~IsChat(handler[c].req)
    BY <2>1, <2>2, <2>5, TellsCalm, ToldMoves
  <2>6. CASE (Look(c) \/ Publish(c) \/ Store(c)) /\ IsChat(handler[c].req)
    BY <2>1, <2>6, LookMoves, PublishMoves, StoreMoves
  <2>7. CASE Told(c) /\ IsChat(handler[c].req)
    <3>1. Return(c) /\ UNCHANGED <<up, down, offline, published, subscribed>>
      BY <2>7 DEF Told, IsChat, tables, redis
    <3>2. handler'[c] = Idle /\ \A d \in Clients \ {c} : handler'[d] = handler[d]
      BY <3>1 DEF Return, SessionInv, ChatTypes
    <3> QED
      BY <2>1, <2>2, <3>1, <3>2, CalmWhen DEF Keeps
  <2> QED
    BY <1>1, <2>3, <2>4, <2>5, <2>6, <2>7 DEF Handle, Small, Tells
<1>2. ASSUME NEW s \in Servers, Interrupt(s) \/ Exit(s)
      PROVE  KeptOK' /\ UNCHANGED world /\ \A u \in Users, n \in Nat : Carried(Boxes, Boxes', u, n)
  <2>1. UNCHANGED <<world, offline, published, subscribed, down, handler, up>>
    BY <1>2 DEF Interrupt, Exit, tables, redis
  <2>2. Boxes' = Boxes
    BY <2>1 DEF Boxes
  <2>3. KeptOK'
    BY <2>1 DEF KeptOK, SubscribedOK
  <2> QED
    BY <2>1, <2>2, <2>3 DEF Carried, Fewer
<1>3. ASSUME NEW s \in Servers, RedisNotify(s)
      PROVE  KeptOK' /\ UNCHANGED world /\ \A u \in Users, n \in Nat : Carried(Boxes, Boxes', u, n)
  BY <1>3, NotifyMoves DEF RedisNotify
<1> QED
  BY <1>1, <1>2, <1>3 DEF ServiceStep, clientVars

-----------------------------------------------------------------------------
(* Steps of the clients.                                                   *)

(* What is kept, when only a client, its requests and what it was sent     *)
(* change.                                                                 *)
LEMMA ClientKept ==
  ASSUME KeptOK, UNCHANGED <<world, handler, offline, subscribed>>,
         \A c \in Clients : \A i \in DOMAIN down'[c] : AnswerKept(down'[c][i])
  PROVE  KeptOK'
<1>1. SubscribedOK'
  BY DEF KeptOK, SubscribedOK
<1> QED
  BY <1>1 DEF KeptOK

(* A request is sent.  If it is a text it is a new one.                    *)
LEMMA TypedMoves ==
  ASSUME SessionInv, KeptOK, TextsOK, NEW c \in Clients, NEW req, NEW p, Typed(c, req, p),
         IsChat(req) => req.n = typed + 1
  PROVE  KeptOK' /\ TextsOK'
<1>1. /\ UNCHANGED <<world, handler, down, published, subscribed, offline, received>>
      /\ typed' = typed + 1 /\ typed \in Nat /\ world \in Worlds
      /\ \A d \in Clients \ {c} : up'[d] = up[d]
      /\ up'[c] = up[c] \/ up'[c] = Append(up[c], req)
  BY DEF Typed, SessionInv, ChatTypes
<1>2. KeptOK'
  BY <1>1, ClientKept DEF KeptOK
<1>3. IsSeq(up[c])
  BY DEF SessionInv, ClientOK, RequestsOK
<1>4. ASSUME NEW u, NEW n, NEW k, NEW h, NEW i, NEW j, Held(Boxes', u, n, k, h, i, j)
      PROVE  \/ Held(Boxes, u, n, k, h, i, j)
             \/ k = "up" /\ h = c /\ i = Len(up[c]) + 1 /\ j = 0 /\ n = typed + 1
  <2>1. CASE k # "up"
    BY <1>1, <1>4, <2>1, BoxesAre DEF Held
  <2>2. CASE k = "up" /\ h # c
    BY <1>1, <1>4, <2>2, BoxesAre DEF Held
  <2>3. CASE k = "up" /\ h = c /\ up'[c] = up[c]
    BY <1>4, <2>3, BoxesAre DEF Held
  <2>4. CASE k = "up" /\ h = c /\ up'[c] = Append(up[c], req)
    <3>1. PICK r : r = up'[c]
      OBVIOUS
    <3>2. /\ Len(up[c]) \in Nat /\ DOMAIN up[c] = 1 .. Len(up[c]) /\ DOMAIN r = 1 .. Len(up[c]) + 1
          /\ \A x \in 1 .. Len(up[c]) : r[x] = up[c][x]
          /\ r[Len(up[c]) + 1] = req
      BY <1>3, <2>4, <3>1, AppendFacts
    <3>3. j = 0 /\ i \in DOMAIN r /\ IsChat(r[i]) /\ r[i].n = n
      BY <1>4, <2>4, <3>1, BoxesAre DEF Held
    <3>4. CASE i = Len(up[c]) + 1
      BY <2>4, <3>2, <3>3, <3>4
    <3>5. CASE i \in 1 .. Len(up[c])
      BY <2>4, <3>2, <3>3, <3>5, BoxesAre DEF Held
    <3> QED
      BY <3>2, <3>3, <3>4, <3>5
  <2> QED
    BY <1>1, <2>1, <2>2, <2>3, <2>4
<1>5. world.most \in Nat
  BY <1>1, ChatAssumption
<1>6. ASSUME NEW u \in Users, NEW n \in 1 .. world.most
      PROVE  TextOK(Boxes', u, n, received[u][n], typed + 1)
  <2>1. TextOK(Boxes, u, n, received[u][n], typed) /\ n \in Nat
    BY <1>5 DEF TextsOK
  <2>2. CASE n # typed + 1
    <3>1. Fewer(Boxes, Boxes', u, n)
      BY <1>4, <2>2 DEF Fewer
    <3>2. TextOK(Boxes', u, n, received[u][n], typed)
      BY <2>1, <3>1, CarriedKeeps DEF Carried
    <3>3. n > typed + 1 => n > typed
      BY <1>1, <2>1
    <3> QED
      BY <3>2, <3>3 DEF TextOK
  <2>3. CASE n = typed + 1
    <3>1. n > typed /\ ~(n > typed + 1)
      BY <1>1, <2>3
    <3>2. received[u][n] = 0 /\ Nowhere(Boxes, u, n)
      BY <2>1, <3>1 DEF TextOK
    <3>3. InOnePlace(Boxes', u, n)
      <4>1. PICK x : x = Len(up[c]) + 1
        OBVIOUS
      <4>2. ASSUME NEW k, NEW h, NEW i, NEW j, Held(Boxes', u, n, k, h, i, j)
            PROVE  k = "up" /\ h = c /\ i = x /\ j = 0
        BY <1>4, <3>2, <4>1, <4>2 DEF Nowhere
      <4> QED
        BY <4>2 DEF InOnePlace
    <3> QED
      BY <3>1, <3>2, <3>3 DEF TextOK
  <2> QED
    BY <2>2, <2>3
<1> QED
  BY <1>1, <1>2, <1>6 DEF TextsOK

(* A step of a client that reads nothing.                                  *)
LEMMA OwnMoves ==
  ASSUME KeptOK, TextsOK, NEW c \in Clients, Own(c), UNCHANGED <<down, received>>
  PROVE  KeptOK' /\ TextsOK'
<1>1. UNCHANGED <<world, handler, up, down, published, subscribed, offline, received, typed>>
  BY DEF Own
<1>2. KeptOK'
  BY <1>1, ClientKept DEF KeptOK
<1>3. Boxes' = Boxes
  BY <1>1 DEF Boxes
<1> QED
  BY <1>1, <1>2, <1>3 DEF TextsOK

(* What the reader shows of a message (oneChat, doLoginResponse).          *)
LEMMA ShownFacts ==
  ASSUME TextsOK, world \in Worlds, NEW c, NEW m, Shown(c, m), AnswerKept(m)
  PROVE  /\ DOMAIN received' = Users /\ \A u \in Users : DOMAIN received'[u] = 1 .. world.most
         /\ \A u \in Users, n \in 1 .. world.most :
              (\A i, j : Brings(m, u, n, i) /\ Brings(m, u, n, j) => i = j) =>
                \/ received'[u][n] = received[u][n]
                \/ received'[u][n] = received[u][n] + 1 /\ \E j : Brings(m, u, n, j)
<1>1. /\ DOMAIN received = Users /\ \A u \in Users : DOMAIN received[u] = 1 .. world.most
      /\ \A u \in Users, n \in 1 .. world.most : received[u][n] \in {0, 1}
  BY DEF TextsOK, TextOK
<1>2. CASE UNCHANGED received
  BY <1>1, <1>2
<1>3. CASE IsChat(m)
  <2>1. received' = [received EXCEPT ![m.for][m.n] = @ + 1]
    BY <1>3 DEF Shown, IsChat
  <2>2. DOMAIN received' = Users /\ \A u \in Users : DOMAIN received'[u] = 1 .. world.most
    BY <1>1, <2>1
  <2>3. ASSUME NEW u \in Users, NEW n \in 1 .. world.most
        PROVE  \/ received'[u][n] = received[u][n]
               \/ received'[u][n] = received[u][n] + 1 /\ u = m.for /\ n = m.n
    BY <1>1, <2>1
  <2> QED
    BY <1>3, <2>2, <2>3 DEF Brings
<1>4. CASE m.id = "LOG_IN_MSG_ACK" /\ m.err = 0
  <2>1. received' = [received EXCEPT ![m.u] =
                       [n \in DOMAIN @ |-> @[n] + getOfflineMsgList(m, n)]]
    BY <1>4 DEF Shown, doLoginResponse
  <2>2. DOMAIN received' = Users /\ \A u \in Users : DOMAIN received'[u] = 1 .. world.most
    BY <1>1, <2>1
  <2>3. \A u \in Users, n \in 1 .. world.most :
          IF u = m.u THEN received'[u][n] = received[u][n] + getOfflineMsgList(m, n)
          ELSE received'[u][n] = received[u][n]
    BY <1>1, <2>1
  <2>4. ASSUME NEW u \in Users, NEW n \in 1 .. world.most, u = m.u,
               \A i, j : Brings(m, u, n, i) /\ Brings(m, u, n, j) => i = j
        PROVE  \/ received'[u][n] = received[u][n]
               \/ received'[u][n] = received[u][n] + 1 /\ \E j : Brings(m, u, n, j)
    <3>1. LoggedIn(m, u) /\ ForOwner(m.off, u)
      BY <1>4, <2>4 DEF LoggedIn, AnswerKept
    <3>2. PICK S : S = Texts(m.off, u, n)
      OBVIOUS
    <3>3. {i \in DOMAIN m.off : IsChat(m.off[i]) /\ m.off[i].n = n} = S
      BY <3>1, <3>2 DEF ForOwner, Texts
    <3>4. getOfflineMsgList(m, n) = Cardinality(S)
      BY <3>3 DEF getOfflineMsgList
    <3>5. \A j \in S : Brings(m, u, n, j)
      BY <3>1, <3>2 DEF Brings
    <3>6. CASE S = {}
      BY <1>1, <2>3, <2>4, <3>4, <3>6, FS_EmptySet
    <3>7. ASSUME NEW j \in S
          PROVE  received'[u][n] = received[u][n] + 1 /\ Brings(m, u, n, j)
      <4>1. S = {j}
        BY <2>4, <3>5, <3>7
      <4>2. Cardinality(S) = 1
        BY <4>1, FS_Singleton
      <4> QED
        BY <2>3, <2>4, <3>4, <3>5, <4>2
    <3> QED
      BY <3>6, <3>7
  <2> QED
    BY <2>2, <2>3, <2>4
<1> QED
  BY <1>2, <1>3, <1>4 DEF Shown, doLoginResponse, IsChat

(* What a client reads leaves its queue, and is shown or lost.             *)
LEMMA ReadMoves ==
  ASSUME SessionInv, KeptOK, TextsOK, NEW c \in Clients, Read(c)
  PROVE  KeptOK' /\ TextsOK'
<1>1. /\ Own(c) /\ (\E k : Dropped(down[c], k, down'[c]))
      /\ UNCHANGED received \/ Shown(c, down[c][1])
  BY ReadKeeps
<1>2. PICK k0 : Dropped(down[c], k0, down'[c])
  BY <1>1
<1>3. /\ UNCHANGED <<world, handler, up, published, subscribed, offline, typed>>
      /\ \A d \in Clients \ {c} : down'[d] = down[d]
  BY <1>1 DEF Own, Alone
<1>4. IsSeq(down[c]) /\ world \in Worlds
  BY DEF SessionInv, ClientOK, ChatTypes
<1>5. /\ Len(down[c]) \in Nat /\ DOMAIN down[c] = 1 .. Len(down[c])
      /\ DOMAIN down'[c] = 1 .. Len(down[c]) - k0
      /\ \A x \in 1 .. Len(down[c]) - k0 :
           down'[c][x] = down[c][x + k0] /\ x + k0 \in 1 .. Len(down[c])
      /\ k0 \in 1 .. Len(down[c])
  BY <1>2, <1>4, DropFacts
<1>6. ASSUME NEW d \in Clients, NEW i \in DOMAIN down'[d] PROVE AnswerKept(down'[d][i])
  <2>1. CASE d = c
    BY <1>5, <1>6, <2>1 DEF KeptOK
  <2>2. CASE d # c
    BY <1>3, <1>6, <2>2 DEF KeptOK
  <2> QED
    BY <2>1, <2>2
<1>7. KeptOK'
  BY <1>3, <1>6, ClientKept
<1>8. PICK m : m = down[c][1]
  OBVIOUS
<1>9. AnswerKept(m) /\ 1 \in DOMAIN down[c]
  BY <1>5, <1>8 DEF KeptOK
<1>10. \A u, n, j : Brings(m, u, n, j) => Held(Boxes, u, n, "down", c, 1, j)
  BY <1>8, <1>9, BoxesAre DEF Held, BringsIn
<1>11. ASSUME NEW u, NEW n, NEW k, NEW h, NEW i, NEW j, Held(Boxes', u, n, k, h, i, j)
       PROVE  \/ Held(Boxes, u, n, k, h, i, j) /\ (k # "down" \/ h # c)
              \/ k = "down" /\ h = c /\ i \in Int /\ i + k0 # 1 /\ Held(Boxes, u, n, "down", c, i + k0, j)
  <2>1. CASE k # "down"
    BY <1>3, <1>11, <2>1, BoxesAre DEF Held
  <2>2. CASE k = "down" /\ h # c
    BY <1>3, <1>11, <2>2, BoxesAre DEF Held
  <2>3. CASE k = "down" /\ h = c
    <3>1. BringsIn(down'[c], u, n, i, j)
      BY <1>11, <2>3, BoxesAre DEF Held
    <3>2. BringsIn(down[c], u, n, i + k0, j) /\ i \in Int /\ i + k0 # 1
      BY <1>2, <1>4, <3>1, BringsDropped
    <3> QED
      BY <2>3, <3>2, BoxesAre DEF Held
  <2> QED
    BY <2>1, <2>2, <2>3
<1>12. ASSUME NEW u, NEW n PROVE Carried(Boxes, Boxes', u, n)
  <2>1. MovesOn(Boxes, Boxes', u, n, "down", c, 1, k0, "down", c, 0, 0)
    BY <1>5, <1>11 DEF MovesOn
  <2> QED
    BY <2>1 DEF Carried
<1>13. ASSUME NEW u \in Users, NEW n \in 1 .. world.most
       PROVE  /\ TextOK(Boxes, u, n, received[u][n], typed)
              /\ TextOK(Boxes', u, n, received[u][n], typed)
              /\ \A i, j : Brings(m, u, n, i) /\ Brings(m, u, n, j) => i = j
  <2>1. TextOK(Boxes, u, n, received[u][n], typed)
    BY DEF TextsOK
  <2>2. TextOK(Boxes', u, n, received[u][n], typed)
    BY <1>12, <2>1, CarriedKeeps
  <2>3. \A i, j : Brings(m, u, n, i) /\ Brings(m, u, n, j) => i = j
    BY <1>10, <2>1 DEF TextOK, InOnePlace
  <2> QED
    BY <2>1, <2>2, <2>3
<1>14. CASE UNCHANGED received
  BY <1>3, <1>7, <1>13, <1>14 DEF TextsOK
<1>15. CASE Shown(c, m)
  <2>1. /\ DOMAIN received' = Users /\ \A u \in Users : DOMAIN received'[u] = 1 .. world.most
        /\ \A u \in Users, n \in 1 .. world.most :
             (\A i, j : Brings(m, u, n, i) /\ Brings(m, u, n, j) => i = j) =>
               \/ received'[u][n] = received[u][n]
               \/ received'[u][n] = received[u][n] + 1 /\ \E j : Brings(m, u, n, j)
    BY <1>4, <1>9, <1>15, ShownFacts
  <2>2. ASSUME NEW u \in Users, NEW n \in 1 .. world.most
        PROVE  TextOK(Boxes', u, n, received'[u][n], typed)
    <3>1. CASE received'[u][n] = received[u][n]
      BY <1>13, <3>1
    <3>2. ASSUME NEW j, Brings(m, u, n, j), received'[u][n] = received[u][n] + 1
          PROVE  TextOK(Boxes', u, n, received'[u][n], typed)
      <4>1. Held(Boxes, u, n, "down", c, 1, j)
        BY <1>10, <3>2
      <4>2. received[u][n] = 0 /\ ~(n > typed)
        BY <1>13, <4>1 DEF TextOK, Nowhere
      <4>3. ASSUME NEW k1, NEW h1, NEW i1, NEW j1, Held(Boxes, u, n, k1, h1, i1, j1)
            PROVE  k1 = "down" /\ h1 = c /\ i1 = 1
        BY <1>13, <4>1, <4>3 DEF TextOK, InOnePlace
      <4>4. Nowhere(Boxes', u, n)
        BY <1>11, <4>3 DEF Nowhere
      <4>5. InOnePlace(Boxes', u, n)
        BY <4>4 DEF InOnePlace, Nowhere
      <4> QED
        BY <3>2, <4>2, <4>4, <4>5 DEF TextOK
    <3> QED
      BY <1>13, <2>1, <3>1, <3>2
  <2> QED
    BY <1>3, <1>7, <2>1, <2>2 DEF TextsOK
<1> QED
  BY <1>1, <1>8, <1>14, <1>15

-----------------------------------------------------------------------------
(* All steps.                                                              *)

(* At first there is no text.                                              *)
LEMMA TextsInit ==
  ASSUME Init
  PROVE  KeptOK /\ TextsOK
<1>1. /\ offline = [u \in Users |-> <<>>] /\ published = [s \in Servers |-> <<>>]
      /\ subscribed = [s \in Servers |-> {}] /\ handler = [c \in Clients |-> Idle]
      /\ up = [c \in Clients |-> <<>>] /\ down = [c \in Clients |-> <<>>]
      /\ typed = 0 /\ received = [u \in Users |-> [n \in 1 .. world.most |-> 0]]
  BY DEF Init, ServiceInit
<1>2. Idle.pc = "idle"
  BY DEF Idle
<1>3. HandlerKept(Idle) /\ Prefixed(Idle, offline) /\ \A u : ForOwner(<<>>, u)
  BY <1>2, NoMessage DEF HandlerKept, Prefixed, ForOwner
<1>4. SubscribedOK
  BY <1>1 DEF SubscribedOK
<1>5. KeptOK
  BY <1>1, <1>3, <1>4, NoMessage DEF KeptOK
<1>6. \A u, n, i, j : ~BringsIn(<<>>, u, n, i, j) /\ j \notin Texts(<<>>, u, n)
  BY NoMessage DEF BringsIn, Texts
<1>7. \A u, n, i : ~Carries(Idle, u, n, i) /\ ~Answering(Idle, u)
  BY <1>2 DEF Carries, Answering
<1>8. ASSUME NEW u \in Users, NEW n, NEW k, NEW h, NEW i, NEW j, Held(Boxes, u, n, k, h, i, j)
      PROVE  FALSE
  <2>1. CASE k = "offline"
    <3>1. PICK e : e = <<>>
      OBVIOUS
    <3>2. offline[u] = e /\ \A x : x \notin Texts(e, u, n)
      BY <1>1, <1>6, <3>1
    <3> QED
      BY <1>8, <2>1, <3>2, BoxesAre DEF Held
  <2>2. CASE k = "published"
    BY <1>1, <1>6, <1>8, <2>2, BoxesAre DEF Held
  <2>3. CASE k = "down"
    BY <1>1, <1>6, <1>8, <2>3, BoxesAre DEF Held
  <2>4. CASE k = "login" \/ k = "handler"
    BY <1>1, <1>7, <1>8, <2>4, BoxesAre DEF Held
  <2>5. CASE k = "up"
    BY <1>1, <1>8, <2>5, NoMessage, BoxesAre DEF Held
  <2> QED
    BY <1>8, <2>1, <2>2, <2>3, <2>4, <2>5 DEF Held
<1>9. ASSUME NEW u \in Users, NEW n PROVE TextOK(Boxes, u, n, 0, typed)
  <2>1. Nowhere(Boxes, u, n) /\ InOnePlace(Boxes, u, n)
    BY <1>8 DEF Nowhere, InOnePlace
  <2> QED
    BY <2>1 DEF TextOK
<1>10. TextsOK
  BY <1>1, <1>9 DEF TextsOK
<1> QED
  BY <1>5, <1>10

(* Every step keeps a text in one place.                                   *)
LEMMA TextsNext ==
  ASSUME OneSession, OneHome, SessionInv, KeptOK, TextsOK, [Next]_vars
  PROVE  KeptOK' /\ TextsOK'
<1>1. CASE UNCHANGED vars
  <2>1. UNCHANGED <<world, handler, up, down, published, subscribed, offline, received, typed>>
    BY <1>1 DEF vars, serverVars, clientVars, redis, tables
  <2>2. KeptOK'
    BY <2>1, ClientKept DEF KeptOK
  <2>3. Boxes' = Boxes
    BY <2>1 DEF Boxes
  <2> QED
    BY <2>1, <2>2, <2>3 DEF TextsOK
<1>2. CASE ServiceStep /\ UNCHANGED clientVars
  <2>1. /\ KeptOK' /\ UNCHANGED <<world, typed, received>>
        /\ \A u \in Users, n \in Nat : Carried(Boxes, Boxes', u, n)
    BY <1>2, ServiceMoves
  <2>2. world.most \in Nat
    BY ChatAssumption DEF SessionInv, ChatTypes
  <2>3. ASSUME NEW u \in Users, NEW n \in 1 .. world.most
        PROVE  TextOK(Boxes', u, n, received[u][n], typed)
    <3>1. n \in Nat /\ TextOK(Boxes, u, n, received[u][n], typed)
      BY <2>2 DEF TextsOK
    <3> QED
      BY <2>1, <3>1, CarriedKeeps
  <2> QED
    BY <2>1, <2>3 DEF TextsOK
<1>3. ASSUME NEW c \in Clients, ClientStep(c) PROVE KeptOK' /\ TextsOK'
  <2>1. ASSUME NEW ok \in BOOLEAN, Login(c, ok) PROVE KeptOK' /\ TextsOK'
    <3>1. PICK req : req = [id |-> "LOG_IN", u |-> world.account[c], ok |-> ok]
      OBVIOUS
    <3>2. Typed(c, req, "login") /\ ~IsChat(req)
      BY <2>1, <3>1, LoginKeeps DEF IsChat
    <3> QED
      BY <3>2, TypedMoves
  <2>2. CASE Register(c)
    <3>1. PICK req : req = [id |-> "REG"]
      OBVIOUS
    <3>2. Typed(c, req, "reg") /\ ~IsChat(req)
      BY <2>2, <3>1, RegisterKeeps DEF IsChat
    <3> QED
      BY <3>2, TypedMoves
  <2>3. CASE Logout(c)
    <3>1. PICK req : req = [id |-> "LOG_OUT", u |-> world.account[c]]
      OBVIOUS
    <3>2. Typed(c, req, "menu") /\ ~IsChat(req)
      BY <2>3, <3>1, LogoutKeeps DEF IsChat
    <3> QED
      BY <3>2, TypedMoves
  <2>4. CASE Command(c)
    BY <2>4, CommandKeeps, TypedMoves
  <2>5. CASE Wake(c) \/ Quit(c) \/ QuitMenu(c) \/ ReadClosed(c)
    BY <2>5, WakeKeeps, QuitKeeps, QuitMenuKeeps, OwnMoves
  <2>6. CASE Read(c)
    BY <2>6, ReadMoves
  <2> QED
    BY <1>3, <2>1, <2>2, <2>3, <2>4, <2>5, <2>6 DEF ClientStep
<1> QED
  BY <1>1, <1>2, <1>3 DEF Next, Service

(* A text in one place at most is nowhere else once it was shown.          *)
LEMMA OnePlaceEach ==
  ASSUME TextsOK
  PROVE  AtMostOnce
<1> SUFFICES ASSUME NEW u \in Users, NEW n \in 1 .. world.most
             PROVE  Cardinality(Places(u, n)) + received[u][n] <= 1
  BY DEF AtMostOnce
<1>1. ASSUME NEW p \in Places(u, n)
      PROVE  \E k, h, i, j : p = <<k, h, i, j>> /\ Held(Boxes, u, n, k, h, i, j)
  <2>1. CASE \E j \in Texts(offline[u], u, n) : p = <<"offline", u, 0, j>>
    BY <2>1, BoxesAre DEF Held
  <2>2. CASE \E s \in Servers : \E i \in Texts(published[s], u, n) : p = <<"published", s, i, 0>>
    BY <2>2, BoxesAre DEF Held, BringsIn, Brings, Texts
  <2>3. CASE \E c \in Clients : \E i \in Texts(down[c], u, n) : p = <<"down", c, i, 0>>
    BY <2>3, BoxesAre DEF Held, BringsIn, Brings, Texts
  <2>4. CASE \E c \in Clients : \E i \in DOMAIN down[c] :
               LoggedIn(down[c][i], u) /\ \E j \in Texts(down[c][i].off, u, n) : p = <<"down", c, i, j>>
    BY <2>4, BoxesAre DEF Held, BringsIn, Brings
  <2>5. CASE \E c \in Clients : Answering(handler[c], u)
               /\ \E j \in Texts(handler[c].off, u, n) : p = <<"login", c, 0, j>>
    BY <2>5, BoxesAre DEF Held
  <2> QED
    BY <1>1, <2>1, <2>2, <2>3, <2>4, <2>5 DEF Places
<1>2. TextOK(Boxes, u, n, received[u][n], typed)
  BY DEF TextsOK
<1>3. PICK S : S = Places(u, n)
  OBVIOUS
<1>4. \A p, q \in S : p = q
  BY <1>1, <1>2, <1>3 DEF TextOK, InOnePlace
<1>5. received[u][n] = 1 => S = {}
  BY <1>1, <1>2, <1>3 DEF TextOK, Nowhere
<1>6. CASE S = {}
  BY <1>2, <1>3, <1>6, FS_EmptySet DEF TextOK
<1>7. ASSUME NEW p \in S PROVE Cardinality(S) = 1 /\ received[u][n] = 0
  <2>1. S = {p}
    BY <1>4
  <2> QED
    BY <1>2, <1>5, <2>1, FS_Singleton DEF TextOK
<1> QED
  BY <1>3, <1>6, <1>7

-----------------------------------------------------------------------------
(* The theorems.                                                           *)

(* MayLogin and the states of the main thread let one login of an account  *)
(* be under way at a time, and what a client waits for is in one place.    *)
THEOREM OneLoginAtATime == OneSession => (Spec => []SessionInv)
<1> SUFFICES ASSUME OneSession PROVE Spec => []SessionInv
  OBVIOUS
<1>1. Init => SessionInv
  BY SessionInit
<1>2. SessionInv /\ [Next]_vars => SessionInv'
  BY SessionNext
<1> QED
  BY <1>1, <1>2, PTL DEF Spec

(* When no handler is under way, a user's row says "online" exactly if a   *)
(* server has a connection for it in _userConnMap that is not gone:        *)
(* logins, logouts and disconnections that overlap leave the table and the *)
(* maps of all servers in agreement (ChatService login, logout,            *)
(* clientCloseException).                                                  *)
THEOREM RowsAlwaysAgree == OneSession => (Spec => []RowsAgree)
<1> SUFFICES ASSUME OneSession PROVE Spec => []RowsAgree
  OBVIOUS
<1>1. Init => SessionInv /\ RowsInv
  BY SessionInit, RowsInit
<1>2. SessionInv /\ RowsInv /\ [Next]_vars => SessionInv' /\ RowsInv'
  BY SessionNext, RowsNext
<1>3. SessionInv /\ RowsInv => RowsAgree
  BY QuietRows
<1> QED
  BY <1>1, <1>2, <1>3, PTL DEF Spec

(* A text reaches a user at most once, by whichever way it goes - the      *)
(* connection, Redis, or the table of offline messages and a later login - *)
(* while an account is used by one client at a time and on one server      *)
(* (ChatService oneChat, groupChat, login, redis_sub_msg_handler; the      *)
(* client's readTaskHandler).                                              *)
THEOREM TextsReachOnce == OneSession /\ OneHome => (Spec => []AtMostOnce)
<1> SUFFICES ASSUME OneSession, OneHome PROVE Spec => []AtMostOnce
  OBVIOUS
<1>1. Init => SessionInv /\ KeptOK /\ TextsOK
  BY SessionInit, TextsInit
<1>2. SessionInv /\ KeptOK /\ TextsOK /\ [Next]_vars => SessionInv' /\ KeptOK' /\ TextsOK'
  BY SessionNext, TextsNext
<1>3. TextsOK => AtMostOnce
  BY OnePlaceEach
<1> QED
  BY <1>1, <1>2, <1>3, PTL DEF Spec

=============================================================================
