------------------------------- MODULE MCChat -------------------------------
(* The worlds: what the tables hold at first, and what users do.           *)
EXTENDS ChatClient

CONSTANTS u1, u2, c1, c2, c3, s1, s2

Base == [home |-> [c \in Clients |-> s1],
         account |-> [c \in Clients |-> IF c = c2 THEN u2 ELSE u1],
         idle |-> {c3}, row |-> [u \in Users |-> "offline"],
         friend |-> {<<u1, u2>>}, groupuser |-> Groups \X Users,
         may |-> {"LOG_IN", "LOG_OUT", "ONE_CHAT"}, most |-> 3, shared |-> FALSE]

\* One account, now in this client, now in that one; they may be killed.
Sessions == [Base EXCEPT !.idle = {c2}, !.most = 4,
                          !.may = {"LOG_IN", "LOG_OUT", "die", "quit", "wrong"}]
\* Two friends on two servers, and a group.
TwoServers == [Base EXCEPT !.home = [c \in Clients |-> IF c = c2 THEN s2 ELSE s1],
                           !.may = {"LOG_IN", "LOG_OUT", "GROUP_CHAT"}]
\* Nothing but one user: the rest is made.
Making == [Base EXCEPT !.row = [u \in Users |-> IF u = u1 THEN "offline" ELSE "none"],
                       !.friend = {}, !.groupuser = {},
                       !.may = {"LOG_IN", "REG", "ADD_FRIEND", "CREATE_GROUP", "ADD_TO_GROUP"}]
Stopping == [Base EXCEPT !.idle = {c2, c3}, !.may = {"LOG_IN", "SIGINT"}]
AllWorlds == {Base, Sessions, TwoServers, Making, Stopping}

=============================================================================
