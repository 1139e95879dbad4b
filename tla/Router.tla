-------------------------------- MODULE Router --------------------------------
(***************************************************************************)
(* router/router.cpp and the final handler of core/shard.cpp.  Routes are  *)
(* registered, then the shards match requests against the one tree that    *)
(* Server hands to all of them by reference.                               *)
(*                                                                         *)
(* A node of the tree is the sequence of edges that leads to it: a static  *)
(* segment, the one parameter child or the one wildcard child.  match()    *)
(* writes the method into the shared member lookup_method_ and search()    *)
(* reads it at every node where the path ends; each read is a step, so     *)
(* that the other shards' writes fall between them.                        *)
(***************************************************************************)
EXTENDS Naturals, Sequences, SequencesExt, TLC

CONSTANTS Shards,     \* threads that share the router
          Patterns,   \* route patterns: sequences of <<kind, text>>, kinds "s", "p", "w"
          Methods,    \* request methods, "ANY" excluded
          Paths,      \* request paths, split at '/' after the leading one
          MaxRoutes,  \* bound on registrations
          ExHandlers  \* exception_handlers_: per handler, the outcomes it catches

VARIABLES table,      \* handlers: <<node, method>> -> index of the route in `routes'
          wsTable,    \* websocket_handler: node -> index in `routes'
          names,      \* param_name and wildcard_name: <<node, kind>> -> name
          routes,     \* route_infos_ and websocket_route_infos_, in order
          lookup,     \* lookup_method_
          call        \* per shard, the request it is matching

vars == <<table, wsTable, names, routes, lookup, call>>

NoCall == [st |-> "idle"]
Outcomes == {"ok", "binding", "validation", "app", "std", "unknown"}

Init ==
  /\ table = << >> /\ wsTable = << >> /\ names = << >>
  /\ routes = <<>>
  /\ lookup = "GET"
  /\ call = [s \in Shards |-> NoCall]

-----------------------------------------------------------------------------
(* insert() and insert_websocket(): a wildcard ends the pattern, parameter *)
(* and wildcard children keep the name they were created with.             *)
Edge(seg) == IF seg[1] = "s" THEN seg ELSE <<seg[1], "">>
Used(p) == IF \E i \in DOMAIN p : p[i][1] = "w"
             THEN SubSeq(p, 1, CHOOSE i \in DOMAIN p : p[i][1] = "w" /\ \A j \in 1..(i - 1) : p[j][1] # "w")
             ELSE p
Node(p) == [i \in DOMAIN Used(p) |-> Edge(p[i])]
Naming(p) ==
  LET at == {i \in DOMAIN Used(p) : p[i][1] # "s"}
  IN [k \in {<<SubSeq(Node(p), 1, i - 1), p[i][1]>> : i \in at} |-> p[Len(k[1]) + 1][2]]

AddRoute(p, m) ==
  /\ Len(routes) < MaxRoutes /\ \A s \in Shards : call[s] = NoCall
  /\ routes' = Append(routes, [pattern |-> p, method |-> m])
  /\ table' = (<<Node(p), m>> :> Len(routes')) @@ table
  /\ names' = names @@ Naming(p)
  /\ UNCHANGED <<wsTable, lookup, call>>

AddWebSocket(p) ==
  /\ Len(routes) < MaxRoutes /\ \A s \in Shards : call[s] = NoCall
  /\ routes' = Append(routes, [pattern |-> p, method |-> "WS"])
  /\ wsTable' = (Node(p) :> Len(routes')) @@ wsTable
  /\ names' = names @@ Naming(p)
  /\ UNCHANGED <<table, lookup, call>>

-----------------------------------------------------------------------------
(* What search() does on the way, in order: it binds a parameter, removes  *)
(* it again (search_websocket only) and looks for a handler at a node.     *)
Bind(name, value) == <<[op |-> "bind", name |-> name, value |-> value]>>
Unbind(name) == <<[op |-> "unbind", name |-> name]>>
Look(node) == <<[op |-> "look", node |-> node]>>

Nodes == {k[1] : k \in DOMAIN table} \cup DOMAIN wsTable
HasStatic(node, text) == \E n \in Nodes : IsPrefix(Append(node, <<"s", text>>), n)
Ends(path, i) == i > Len(path) \/ (i = Len(path) /\ path[i] = "")

RECURSIVE VisitGreedy(_, _, _, _)
VisitGreedy(path, node, i, ws) ==
  IF Ends(path, i) THEN Look(node)
  ELSE IF HasStatic(node, path[i]) THEN VisitGreedy(path, Append(node, <<"s", path[i]>>), i + 1, ws)
  ELSE IF <<node, "p">> \in DOMAIN names
         THEN Bind(names[node, "p"], <<path[i]>>) \o VisitGreedy(path, Append(node, <<"p", "">>), i + 1, ws)
  ELSE <<>>

RECURSIVE Visit(_, _, _, _)
Visit(path, node, i, ws) ==
  IF Ends(path, i) THEN Look(node)
  ELSE (IF HasStatic(node, path[i]) THEN Visit(path, Append(node, <<"s", path[i]>>), i + 1, ws) ELSE <<>>)
       \o (IF <<node, "p">> \in DOMAIN names
             THEN Bind(names[node, "p"], <<path[i]>>)
                  \o Visit(path, Append(node, <<"p", "">>), i + 1, ws)
                  \o (IF ws THEN Unbind(names[node, "p"]) ELSE <<>>)
             ELSE <<>>)
       \o (IF <<node, "w">> \in DOMAIN names /\ (ws => Append(node, <<"w", "">>) \in DOMAIN wsTable)
             THEN Bind(names[node, "w"], SubSeq(path, i, Len(path))) \o Look(Append(node, <<"w", "">>))
             ELSE <<>>)

(* Node::get_handler: the method's own handler, or the one for ANY.        *)
GetHandler(node, m) ==
  IF <<node, m>> \in DOMAIN table THEN table[node, m]
  ELSE IF <<node, "ANY">> \in DOMAIN table THEN table[node, "ANY"] ELSE 0

(* match(): lookup_method_ is written before the search begins.            *)
Match(s, m, path) ==
  /\ call[s].st = "idle" /\ routes # <<>>
  /\ lookup' = m
  /\ call' = [call EXCEPT ![s] = [st |-> "search", method |-> m, path |-> path, params |-> << >>,
                                  todo |-> Visit(path, <<>>, 1, FALSE), found |-> 0]]
  /\ UNCHANGED <<table, wsTable, names, routes>>

MatchWebSocket(s, path) ==
  /\ call[s].st = "idle" /\ routes # <<>>
  /\ call' = [call EXCEPT ![s] = [st |-> "search", method |-> "WS", path |-> path, params |-> << >>,
                                  todo |-> Visit(path, <<>>, 1, TRUE), found |-> 0]]
  /\ UNCHANGED <<table, wsTable, names, routes, lookup>>

Drop(params, name) == [n \in DOMAIN params \ {name} |-> params[n]]
Handler(c, node) ==
  IF c.method # "WS" THEN GetHandler(node, lookup)
  ELSE IF node \in DOMAIN wsTable THEN wsTable[node] ELSE 0

(* One step of the search up to and including the next look at a node.     *)
Apply(params, ops) ==
  FoldLeft(LAMBDA ps, o : IF o.op = "bind" THEN (o.name :> o.value) @@ ps
                          ELSE IF o.op = "unbind" THEN Drop(ps, o.name) ELSE ps, params, ops)

Search(s) ==
  LET c == call[s]
      looks == {i \in DOMAIN c.todo : c.todo[i].op = "look"}
      k == CHOOSE i \in looks : \A j \in looks : i <= j
      h == Handler(c, c.todo[k].node)
  IN /\ c.st = "search"
     /\ call' = [call EXCEPT ![s] =
          IF looks = {} THEN [c EXCEPT !.st = "missed", !.params = << >>, !.todo = <<>>]
          ELSE [c EXCEPT !.st = IF h # 0 THEN "matched" ELSE "search",
                         !.found = h,
                         !.params = Apply(c.params, SubSeq(c.todo, 1, k)),
                         !.todo = IF h # 0 THEN <<>> ELSE SubSeq(c.todo, k + 1, Len(c.todo))]]
     /\ UNCHANGED <<table, wsTable, names, routes, lookup>>

-----------------------------------------------------------------------------
(* The final handler of the pipeline: static files for GET and HEAD only   *)
(* when no route matched, 404, or the handler and what it throws; the first*)
(* exception handler whose type fits answers, after the two built-in ones. *)
FirstCatcher(o) == {i \in DOMAIN ExHandlers : o \in ExHandlers[i] /\ \A j \in 1..(i - 1) : o \notin ExHandlers[j]}

StatusOf(o) ==
  CASE o = "ok" -> "handler"
    [] o \in {"binding", "validation"} -> "400"
    [] o \in {"app", "std"} -> IF FirstCatcher(o) # {} THEN "catcher" ELSE "500"
    [] OTHER -> "500"

Missed(s) ==
  /\ call[s].st = "missed"
  /\ \E file \in BOOLEAN :
       call' = [call EXCEPT ![s] = [st |-> "answered", method |-> @.method, path |-> @.path, found |-> 0,
                  params |-> << >>,
                  reply |-> IF file /\ @.method \in {"GET", "HEAD"} THEN "file" ELSE "404"]]
  /\ UNCHANGED <<table, wsTable, names, routes, lookup>>

Invoke(s) ==
  /\ call[s].st = "matched"
  /\ \E o \in Outcomes :
       call' = [call EXCEPT ![s] = [st |-> "answered", method |-> @.method, path |-> @.path, found |-> @.found,
                                    params |-> @.params, reply |-> StatusOf(o)]]
  /\ UNCHANGED <<table, wsTable, names, routes, lookup>>

Register == \E p \in Patterns : AddWebSocket(p) \/ \E m \in Methods \cup {"ANY"} : AddRoute(p, m)
Serve(s) ==
  \/ \E path \in Paths : MatchWebSocket(s, path) \/ \E m \in Methods : Match(s, m, path)
  \/ Search(s) \/ Missed(s) \/ Invoke(s)
Next == Register \/ \E s \in Shards : Serve(s)
Spec == Init /\ [][Next]_vars

-----------------------------------------------------------------------------
(* The reference: the routes that fit a request, most specific first.      *)
Fits(p, path) ==
  LET u == Used(p)
  IN /\ \A i \in DOMAIN u : ~Ends(path, i) /\ (u[i][1] = "s" => u[i][2] = path[i])
     /\ (u # <<>> /\ Last(u)[1] = "w") \/ Ends(path, Len(u) + 1)
Rank(k) == CASE k = "s" -> 1 [] k = "p" -> 2 [] k = "w" -> 3
Before(p, q) ==
  LET u == Used(p)
      v == Used(q)
  IN \E i \in 1..Len(u) :
       i <= Len(v) /\ Rank(u[i][1]) < Rank(v[i][1]) /\ \A j \in 1..(i - 1) : u[j][1] = v[j][1]
Suitable(m, path) ==
  {r \in DOMAIN routes :
     /\ routes[r].method = m \/ (m # "WS" /\ routes[r].method = "ANY")
     /\ Fits(routes[r].pattern, path)}
Better(q, r, m) ==
  \/ Before(routes[q].pattern, routes[r].pattern)
  \/ Node(routes[q].pattern) = Node(routes[r].pattern)
     /\ \/ routes[q].method = m /\ routes[r].method # m
        \/ routes[q].method = routes[r].method /\ q > r
Best(m, path) == {r \in Suitable(m, path) : ~\E q \in Suitable(m, path) : Better(q, r, m)}

(* The parameters of the route that answers: each name of its positions,   *)
(* as the tree has it, with the segment (or the rest) that it stands for.  *)
Bindings(p, path) ==
  LET n == Node(p)
      at == {i \in DOMAIN n : n[i][1] # "s"}
  IN {<<names[SubSeq(n, 1, i - 1), n[i][1]],
        IF n[i][1] = "p" THEN <<path[i]>> ELSE SubSeq(path, i, Len(path))>> : i \in at}
Bound(ps) == {<<n, ps[n]>> : n \in DOMAIN ps}

(* A request is answered by the most specific route that fits its path and *)
(* method (the last one registered, its method before ANY), whatever the   *)
(* search tried before, with its own segments as parameters; over a        *)
(* WebSocket with no parameter of an abandoned branch.  A static file      *)
(* never hides a route, and no request is lost to a handler's exception.   *)
RouteFound ==
  \A s \in Shards : call[s].st \in {"matched", "missed", "answered"} =>
    LET c == call[s]
        best == Best(c.method, c.path)
    IN /\ best = IF c.found = 0 THEN {} ELSE {c.found}
       /\ c.found # 0 => /\ Bindings(routes[c.found].pattern, c.path) \subseteq Bound(c.params)
                         /\ c.method = "WS" => Bindings(routes[c.found].pattern, c.path) = Bound(c.params)
       /\ c.st = "answered" => (c.reply \in {"file", "404"} <=> best = {})

(* "READ-ONLY after routes are registered.  Safe to share across shards":  *)
(* a request is dispatched with its own method.                            *)
OwnMethod ==
  \A s \in Shards : call[s].st = "matched" => routes[call[s].found].method \in {call[s].method, "ANY"}
=============================================================================
