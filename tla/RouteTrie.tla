---- MODULE RouteTrie ----
(***************************************************************************)
(* buildTrie() over the routes of one tenant, segment by segment.  A node  *)
(* is named by the labels on the way to it from the root: an exact segment *)
(* is its own label, all parameter segments share the label Param.         *)
(***************************************************************************)
EXTENDS Integers, Sequences

CONSTANTS
    RouteIds, Services, Methods,
    Segments,   \* path segments, the empty one included
    Params,     \* the parameter segments among them, ":name"
    Lists,      \* lists of routes buildTrie is called with
    Empty,      \* the empty segment
    Param,      \* the label of a parameter segment
    None        \* no route, no name

\* A path pattern is the list that split("/") makes of it: "/" is <<"", "">>.
Route == [id : RouteIds, service : Services, method : Methods, pathPattern : Seq(Segments)]

ASSUME RoutesAssumption ==
    /\ Params \subseteq Segments /\ Empty \in Segments \ Params /\ Param \notin Segments
    /\ Lists \subseteq Seq(Route)
    /\ None \notin RouteIds \cup Segments

\* uq_routes_service_method_path: no service has a method and a pattern twice.
ASSUME UniqueConstraint ==
    \A list \in Lists : \A a, b \in DOMAIN list :
      a # b => \/ list[a].service # list[b].service
               \/ list[a].method # list[b].method
               \/ list[a].pathPattern # list[b].pathPattern

\* Leading slash stripped, and split; nothing is left of "/".
SegmentsOf(pattern) ==
    LET raw == IF Len(pattern) > 1 /\ pattern[1] = Empty THEN Tail(pattern) ELSE pattern
    IN IF raw = <<Empty>> THEN <<>> ELSE raw

VARIABLES
    routes,  \* the list
    n,       \* the route insertRoute works on
    k,       \* the segment it is at
    node,    \* the node it stands on
    trie     \* the nodes made so far

vars == <<routes, n, k, node, trie>>

\* TrieNode; the children are the longer paths in the domain of trie.
Node == [paramName : Segments \cup {None}, routes : [Methods -> RouteIds \cup {None}]]
makeNode == [paramName |-> None, routes |-> [m \in Methods |-> None]]

\* trie with the node x made or replaced.
With(x, new) == [y \in DOMAIN trie \cup {x} |-> IF y = x THEN new ELSE trie[y]]

segments == SegmentsOf(routes[n].pathPattern)

Init ==
    /\ routes \in Lists
    /\ n = 1 /\ k = 1
    /\ node = <<>>
    /\ trie = [x \in {<<>>} |-> makeNode]

\* At a segment of a route.
AtSegment(parameter) ==
    /\ n <= Len(routes)
    /\ k <= Len(segments)
    /\ segments[k] \in Params <=> parameter

\* Faulty variants for TypeOK and FirstNameKept: the child is not made; the name
\* is set by every route.
ParamSegmentUnmade ==
    /\ AtSegment(TRUE)
    /\ node' = Append(node, Param) /\ k' = k + 1
    /\ UNCHANGED <<routes, n, trie>>
ParamSegmentRenaming ==
    /\ AtSegment(TRUE)
    /\ LET child == Append(node, Param)
           named == [trie EXCEPT ![node].paramName = segments[k]]
       IN /\ trie' = [y \in DOMAIN trie \cup {child} |->
                        IF y \in DOMAIN trie THEN named[y] ELSE makeNode]
          /\ node' = child
    /\ k' = k + 1 /\ UNCHANGED <<routes, n>>

\* A parameter segment: the first one to come by makes the child and names it.
ParamSegment ==
    /\ AtSegment(TRUE)
    /\ LET child == Append(node, Param) IN
       /\ node' = child
       /\ IF child \in DOMAIN trie THEN UNCHANGED trie
          ELSE trie' = [y \in DOMAIN trie \cup {child} |->
                          IF y = child THEN makeNode
                          ELSE IF y = node THEN [trie[y] EXCEPT !.paramName = segments[k]]
                          ELSE trie[y]]
    /\ k' = k + 1
    /\ UNCHANGED <<routes, n>>

\* Faulty variant for NodesOnTheWay: insertion descends the way a lookup would.
ExactSegmentMatching ==
    /\ AtSegment(FALSE)
    /\ LET param == Append(node, Param)
           child == Append(node, segments[k])
       IN IF child \notin DOMAIN trie /\ param \in DOMAIN trie
          THEN node' = param /\ UNCHANGED trie
          ELSE /\ node' = child
               /\ IF child \in DOMAIN trie THEN UNCHANGED trie ELSE trie' = With(child, makeNode)
    /\ k' = k + 1
    /\ UNCHANGED <<routes, n>>

\* An exact segment.
ExactSegment ==
    /\ AtSegment(FALSE)
    /\ LET child == Append(node, segments[k]) IN
       /\ node' = child
       /\ IF child \in DOMAIN trie THEN UNCHANGED trie ELSE trie' = With(child, makeNode)
    /\ k' = k + 1
    /\ UNCHANGED <<routes, n>>

\* Faulty variant for TrieTells: the first registration stays.
RegisterFirst ==
    /\ n <= Len(routes) /\ k > Len(segments)
    /\ trie' = IF trie[node].routes[routes[n].method] # None THEN trie
               ELSE [trie EXCEPT ![node].routes[routes[n].method] = routes[n].id]
    /\ n' = n + 1 /\ k' = 1 /\ node' = <<>>
    /\ UNCHANGED routes

\* The end of the pattern: last write wins, and on to the next route.
Register ==
    /\ n <= Len(routes) /\ k > Len(segments)
    /\ trie' = [trie EXCEPT ![node].routes[routes[n].method] = routes[n].id]
    /\ n' = n + 1 /\ k' = 1 /\ node' = <<>>
    /\ UNCHANGED routes

\* buildTrie has returned.
Returned == n > Len(routes) /\ UNCHANGED vars

Next == ParamSegment \/ ExactSegment \/ Register \/ Returned

Spec == Init /\ [][Next]_vars

----------------------------------------------------------------------------
\* The labels of the first l segments of the j-th route: the node they lead to.
NodeOf(j, l) ==
    LET s == SegmentsOf(routes[j].pathPattern)
    IN [h \in 1..l |-> IF s[h] \in Params THEN Param ELSE s[h]]
Leaf(j) == NodeOf(j, Len(SegmentsOf(routes[j].pathPattern)))

\* insertRoute has been at (or past) the l-th segment of the j-th route.
Passed(j, l) ==
    /\ j \in 1..Len(routes)
    /\ l \in 1..Len(SegmentsOf(routes[j].pathPattern))
    /\ j < n \/ (j = n /\ l < k)

\* The j-th route has been registered, for method m at node x.
RegisteredAt(j, m, x) == j < n /\ routes[j].method = m /\ Leaf(j) = x

\* Types; the walk stands on a node that exists, the one its segments lead to.
TypeOK ==
    /\ routes \in Lists
    /\ n \in 1..(Len(routes) + 1)
    /\ k \in Nat \ {0}
    /\ {<<>>, node} \subseteq DOMAIN trie
    /\ \A x \in DOMAIN trie : trie[x] \in Node
    /\ n <= Len(routes) => k <= Len(segments) + 1 /\ node = NodeOf(n, k - 1)
    /\ n > Len(routes) => k = 1 /\ node = <<>>

\* The entry of x for m is the last route registered there, if one was.
Tells(x, m) ==
    IF trie[x].routes[m] = None
    THEN \A j \in 1..Len(routes) : ~RegisteredAt(j, m, x)
    ELSE \E j \in 1..Len(routes) :
           /\ RegisteredAt(j, m, x) /\ trie[x].routes[m] = routes[j].id
           /\ \A l \in (j + 1)..Len(routes) : ~RegisteredAt(l, m, x)

\* At each node and method stands the last route registered there, and nothing
\* stands where none was: exact and parameter segments never get in each
\* other's way, whatever the order of the list.
TrieTells ==
    /\ \A x \in DOMAIN trie : \A m \in Methods : Tells(x, m)
    /\ \A j \in 1..Len(routes) : j < n => Leaf(j) \in DOMAIN trie

\* There is a node for every prefix of every pattern and no other: a lookup that
\* descends finds a route below, and no path is cut off from the root.
NodesOnTheWay ==
    /\ \A x \in DOMAIN trie :
         x = <<>> \/ \E j \in 1..Len(routes) : Passed(j, Len(x)) /\ NodeOf(j, Len(x)) = x
    /\ \A j \in 1..Len(routes) : \A l \in 1..Len(SegmentsOf(routes[j].pathPattern)) :
         Passed(j, l) => NodeOf(j, l) \in DOMAIN trie

\* The j-th route has passed node x along a parameter segment.
Names(j, x) ==
    /\ Passed(j, Len(x) + 1) /\ NodeOf(j, Len(x)) = x
    /\ SegmentsOf(routes[j].pathPattern)[Len(x) + 1] \in Params

\* A parameter keeps the name that the first route to pass gave it, and has one
\* exactly if it has a child.
FirstNameKept ==
    \A x \in DOMAIN trie :
      /\ Append(x, Param) \in DOMAIN trie <=> trie[x].paramName # None
      /\ trie[x].paramName # None =>
           \E j \in 1..Len(routes) :
             /\ Names(j, x)
             /\ trie[x].paramName = SegmentsOf(routes[j].pathPattern)[Len(x) + 1]
             /\ \A i \in 1..(j - 1) : ~Names(i, x)

\* "if the same method + path already exists, last write wins - duplicate
\* registration is a configuration error caught at the DB level via the unique
\* constraint": no registration replaces another route.
DuplicatesCaught == \A j \in 1..(n - 1) : trie[Leaf(j)].routes[routes[j].method] = routes[j].id
====
