------------------------------ MODULE HttpRoute ------------------------------
(***************************************************************************)
(* The router of the servlets (web/http/base/HttpRoute.h, HttpRoute.cpp):  *)
(* a trie per method, filled by GET and POST of the ServletDispatcher and  *)
(* asked for every path that no servlet serves.                            *)
(*                                                                         *)
(* A path is a sequence of tokens, slashes and names; a name in Wild       *)
(* begins with a colon.  A handler is the number of its registration.      *)
(***************************************************************************)
EXTENDS Naturals, Sequences, SequencesExt

CONSTANTS
    Methods,        \* the methods of requests and registrations
    Patterns,       \* the patterns that are registered, as tokens
    Paths,          \* the paths that are asked for, as tokens
    Wild,           \* the names that begin with a colon
    MaxRoutes       \* bound: registrations

VARIABLES
    roots,          \* Router::roots_: the tries, as sequences of nodes
    routes          \* the registrations made, in order (history)

routeVars == <<roots, routes>>

Slash == "/"
NoPattern == <<>>       \* pattern_ of an inner node
NoNode == 0

Node(part, wild) ==
    [part |-> part, iswild |-> wild, pattern |-> NoPattern, handler |-> 0,
     children |-> <<>>]

Root == 1
NewTrie == <<Node(<<Slash>>, FALSE)>>

RouteInit == roots = [m \in Methods |-> <<>>] /\ routes = <<>>

-----------------------------------------------------------------------------
(* Trie.                                                                   *)

\* Split: the token behind a slash is never looked at, so that the second of
\* two slashes begins a part.
Split(s) ==
    LET first == IF s # <<>> /\ s[1] = Slash THEN 2 ELSE 1
        Look(acc, i) ==
            IF i < acc.next \/ s[i] # Slash THEN acc
            ELSE [parts |-> Append(acc.parts, SubSeq(s, acc.begin, i - 1)),
                  begin |-> i + 1, next |-> i + 2]
        scan == FoldLeft(Look, [parts |-> <<>>, begin |-> first, next |-> first],
                         [i \in 1 .. Len(s) |-> i])
    IN  Append(scan.parts, SubSeq(s, scan.begin, Len(s)))

IsWild(part) == part # <<>> /\ part[1] \in Wild

Fits(trie, child, part) == trie[child].part = part \/ trie[child].iswild

\* FindChildren, in the order of insertion
FindChildren(trie, node, part) ==
    SelectSeq(trie[node].children, LAMBDA child : Fits(trie, child, part))

\* FindChild: the first of them
FindChild(trie, node, part) ==
    LET fits == FindChildren(trie, node, part)
    IN  IF fits = <<>> THEN NoNode ELSE Head(fits)

\* insert: down the trie, with new nodes where no child fits
RECURSIVE insert(_, _, _, _, _)
insert(trie, parts, node, pattern, handler) ==
    IF parts = <<>>
    THEN [trie EXCEPT ![node].pattern = pattern, ![node].handler = handler]
    ELSE LET part == Head(parts)
             child == FindChild(trie, node, part)
             new == Len(trie) + 1
         IN  IF child # NoNode
             THEN insert(trie, Tail(parts), child, pattern, handler)
             ELSE insert(Append([trie EXCEPT ![node].children = Append(@, new)],
                                Node(part, IsWild(part))),
                         Tail(parts), new, pattern, handler)

\* Mutant of search: the first child that fits decides.
RECURSIVE searchFirst(_, _, _)
searchFirst(trie, parts, node) ==
    IF parts = <<>>
    THEN IF trie[node].pattern = NoPattern THEN NoNode ELSE node
    ELSE LET child == FindChild(trie, node, Head(parts))
         IN  IF child = NoNode THEN NoNode ELSE searchFirst(trie, Tail(parts), child)

\* search: depth first, the children in order
RECURSIVE search(_, _, _)
search(trie, parts, node) ==
    IF parts = <<>>
    THEN IF trie[node].pattern = NoPattern THEN NoNode ELSE node
    ELSE LET children == FindChildren(trie, node, Head(parts))
             found == SelectSeq([i \in DOMAIN children |->
                                    search(trie, Tail(parts), children[i])],
                                LAMBDA n : n # NoNode)
         IN  IF found = <<>> THEN NoNode ELSE Head(found)

-----------------------------------------------------------------------------
(* Router.                                                                 *)

AddRouter(method, pattern) ==
    LET trie == IF roots[method] = <<>> THEN NewTrie ELSE roots[method]
    IN  /\ Len(routes) < MaxRoutes
        /\ roots' = [roots EXCEPT ![method] =
                        insert(trie, Split(pattern), Root, pattern, Len(routes) + 1)]
        /\ routes' = Append(routes, [method |-> method, pattern |-> pattern])

\* findRoute: the handler, and the parameters that the pattern of the node
\* names; a route without a parameter is not used by dispatch.
NoRoute == [found |-> FALSE, flag |-> FALSE, handler |-> 0, params |-> {}]

findRoute(method, path) ==
    LET trie == roots[method]
        parts == Split(path)
        node == IF trie = <<>> THEN NoNode ELSE search(trie, parts, Root)
        named == Split(trie[node].pattern)
        params == {i \in DOMAIN named : IsWild(named[i])}
    IN  IF node = NoNode THEN NoRoute
        ELSE [found |-> TRUE, flag |-> params # {}, handler |-> trie[node].handler,
              params |-> {<<named[i], parts[i]>> : i \in params}]

RouteNext == \E m \in Methods, p \in Patterns : AddRouter(m, p)

-----------------------------------------------------------------------------
(* What a router is for, told by the patterns alone.                       *)

Matches(pattern, path) ==
    LET p == Split(pattern)  s == Split(path)
    IN  Len(p) = Len(s) /\ \A i \in DOMAIN p : IsWild(p[i]) \/ p[i] = s[i]

\* p has a name where q, the same so far, has a wildcard.
Beats(p, q) ==
    \E i \in DOMAIN Split(p) \cap DOMAIN Split(q) :
        /\ SubSeq(Split(p), 1, i - 1) = SubSeq(Split(q), 1, i - 1)
        /\ ~IsWild(Split(p)[i]) /\ IsWild(Split(q)[i])

\* A wildcard registered first takes in what is registered later at its place
\* (FindChild does not tell a name from a wildcard).  Programs that register
\* names first, and use one name for a wildcard, are not concerned.
Clean(rs) ==
    \A i, j \in DOMAIN rs :
        LET p == Split(rs[i].pattern)  q == Split(rs[j].pattern)
        IN  i < j /\ rs[i].method = rs[j].method =>
              \A k \in DOMAIN p \cap DOMAIN q :
                 SubSeq(p, 1, k - 1) = SubSeq(q, 1, k - 1) /\ p[k] # q[k] => ~IsWild(p[k])

\* The registration a request is for: the last one of the pattern that no
\* other pattern for the path beats.
Wanted(method, path) ==
    LET fit == {i \in DOMAIN routes : routes[i].method = method
                                       /\ Matches(routes[i].pattern, path)}
        best == {i \in fit : \A j \in fit : ~Beats(routes[j].pattern, routes[i].pattern)}
    IN  IF fit = {} THEN 0 ELSE Max(best)

\* A request finds the handler of the most special pattern that matches its
\* path, whatever else was registered and in which order, with the parts of
\* the path that the pattern names as parameters; also where the search has to
\* come back from a name that leads nowhere to a wildcard beside it.
RouteIsBest ==
    Clean(routes) =>
        \A m \in Methods, path \in Paths :
            LET route == findRoute(m, path)  n == Wanted(m, path)
            IN  /\ route.found = (n # 0) /\ route.handler = n
                /\ n # 0 =>
                     LET p == Split(routes[n].pattern)
                     IN  route.params = {<<p[i], Split(path)[i]>> :
                                            i \in {k \in DOMAIN p : IsWild(p[k])}}

=============================================================================
