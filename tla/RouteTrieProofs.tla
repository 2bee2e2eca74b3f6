---- MODULE RouteTrieProofs ----
(***************************************************************************)
(* The trie holds what was registered in it and nothing else, for any list *)
(* of routes.                                                              *)
(***************************************************************************)
EXTENDS RouteTrie, SequenceTheorems, TLAPS

Labels == Segments \cup {Param}

\* Normalising a pattern leaves a list of segments.
LEMMA SegmentsOfType ==
    ASSUME NEW p \in Seq(Segments)
    PROVE  SegmentsOf(p) \in Seq(Segments)
<1>1. ASSUME Len(p) > 1 PROVE Tail(p) \in Seq(Segments)
  <2>1. p # <<>>
    BY <1>1
  <2> QED
    BY <2>1
<1>2. <<>> \in Seq(Segments)
  OBVIOUS
<1> QED
  BY <1>1, <1>2 DEF SegmentsOf

\* The routes of the list and their segments.
LEMMA RouteTypes ==
    ASSUME routes \in Lists
    PROVE  /\ Len(routes) \in Nat
           /\ \A j \in 1..Len(routes) :
                /\ routes[j] \in Route
                /\ SegmentsOf(routes[j].pathPattern) \in Seq(Segments)
<1>1. routes \in Seq(Route)
  BY RoutesAssumption
<1>2. \A j \in 1..Len(routes) : routes[j] \in Route
  BY <1>1
<1> QED
  BY <1>1, <1>2, SegmentsOfType DEF Route

\* The node of one segment more is the child under that segment's label.
LEMMA NodeOfChild ==
    ASSUME routes \in Lists, NEW j \in 1..Len(routes),
           NEW l \in 1..Len(SegmentsOf(routes[j].pathPattern))
    PROVE  LET s == SegmentsOf(routes[j].pathPattern) IN
           NodeOf(j, l) = Append(NodeOf(j, l - 1), IF s[l] \in Params THEN Param ELSE s[l])
<1> DEFINE s == SegmentsOf(routes[j].pathPattern)
           lab(h) == IF s[h] \in Params THEN Param ELSE s[h]
<1>1. s \in Seq(Segments) /\ Len(s) \in Nat
  BY RouteTypes
<1>2. \A h \in 1..Len(s) : lab(h) \in Labels
  BY <1>1 DEF Labels
<1> HIDE DEF s
<1>3. l \in Nat /\ l - 1 \in Nat /\ l \in 1..Len(s)
  BY <1>1 DEF s
<1>4. NodeOf(j, l) = [h \in 1..l |-> lab(h)] /\ NodeOf(j, l - 1) = [h \in 1..(l - 1) |-> lab(h)]
  BY DEF NodeOf, s
<1> HIDE DEF lab
<1>5. [h \in 1..(l - 1) |-> lab(h)] \in Seq(Labels)
      /\ Len([h \in 1..(l - 1) |-> lab(h)]) = l - 1
  BY <1>1, <1>2, <1>3
<1>6. [h \in 1..l |-> lab(h)] \in Seq(Labels) /\ Len([h \in 1..l |-> lab(h)]) = l
  BY <1>1, <1>2, <1>3
<1>7. [h \in 1..l |-> lab(h)] = Append([h \in 1..(l - 1) |-> lab(h)], lab(l))
  BY <1>2, <1>3, <1>5, <1>6
<1> QED
  BY <1>4, <1>7 DEF lab, s

LEMMA RootNode == \A j : NodeOf(j, 0) = <<>>
  BY DEF NodeOf

\* The step from one route to the next leaves the walk at the root.
LEMMA TypeInit == Init => TypeOK
<1> SUFFICES ASSUME Init PROVE TypeOK
  OBVIOUS
<1>1. makeNode \in Node
  BY DEF makeNode, Node
<1>2. n <= Len(routes) => segments \in Seq(Segments)
  BY RouteTypes DEF Init, segments
<1>3. Len(routes) \in Nat
  BY RouteTypes DEF Init
<1> QED
  BY <1>1, <1>2, <1>3, RootNode DEF Init, TypeOK

\* A step along a segment: what both kinds of step have in common.
LEMMA WalkType ==
    ASSUME TypeOK, NEW parameter \in BOOLEAN, AtSegment(parameter),
           k' = k + 1, UNCHANGED <<routes, n>>,
           node' = Append(node, IF segments[k] \in Params THEN Param ELSE segments[k]),
           {<<>>, node'} \subseteq DOMAIN trie',
           \A x \in DOMAIN trie' : trie'[x] \in Node
    PROVE  TypeOK'
<1>1. /\ n \in 1..Len(routes) /\ k \in 1..Len(segments) /\ segments \in Seq(Segments)
      /\ node = NodeOf(n, k - 1)
  BY RouteTypes DEF TypeOK, AtSegment, segments
<1>2. node' = NodeOf(n, k)
  BY <1>1, NodeOfChild DEF TypeOK, segments
<1>3. segments' = segments
  BY DEF segments
<1>4. NodeOf(n, k)' = NodeOf(n, k + 1)
  BY DEF NodeOf
<1>5. NodeOf(n, k - 1)' = NodeOf(n, k)
  BY <1>1 DEF NodeOf
<1>6. k' <= Len(segments) + 1 /\ k' \in Nat \ {0} /\ ~(n > Len(routes))
  BY <1>1
<1> QED
  BY <1>1, <1>2, <1>3, <1>5, <1>6 DEF TypeOK

LEMMA TypeNext == TypeOK /\ [Next]_vars => TypeOK'
<1> SUFFICES ASSUME TypeOK, [Next]_vars PROVE TypeOK'
  OBVIOUS
<1>0. makeNode \in Node
  BY DEF makeNode, Node
<1>1. CASE ParamSegment
  <2>1. segments[k] \in Params /\ segments[k] \in Segments
    BY <1>1, RoutesAssumption DEF ParamSegment, AtSegment
  <2>2. {<<>>, node'} \subseteq DOMAIN trie' /\ \A x \in DOMAIN trie' : trie'[x] \in Node
    <3> DEFINE child == Append(node, Param)
               name == segments[k]
    <3>1. /\ node' = child /\ name \in Segments
          /\ IF child \in DOMAIN trie THEN UNCHANGED trie
             ELSE trie' = [y \in DOMAIN trie \cup {child} |->
                             IF y = child THEN makeNode
                             ELSE IF y = node THEN [trie[y] EXCEPT !.paramName = name]
                             ELSE trie[y]]
      BY <1>1, <2>1 DEF ParamSegment
    <3>2. <<>> \in DOMAIN trie /\ \A y \in DOMAIN trie : trie[y] \in Node
      BY DEF TypeOK
    <3> HIDE DEF child, name
    <3>3. \A y \in DOMAIN trie : [trie[y] EXCEPT !.paramName = name] \in Node
      BY <3>1, <3>2 DEF Node
    <3> QED
      BY <1>0, <3>1, <3>2, <3>3
  <2> QED
    BY <1>1, <2>1, <2>2, WalkType DEF ParamSegment
<1>2. CASE ExactSegment
  <2>1. segments[k] \notin Params
    BY <1>2 DEF ExactSegment, AtSegment
  <2>2. {<<>>, node'} \subseteq DOMAIN trie' /\ \A x \in DOMAIN trie' : trie'[x] \in Node
    BY <1>0, <1>2 DEF ExactSegment, With, TypeOK
  <2> QED
    BY <1>2, <2>1, <2>2, WalkType DEF ExactSegment
<1>3. CASE Register
  <2>1. routes[n] \in Route
    BY <1>3, RouteTypes DEF Register, TypeOK
  <2>2. /\ DOMAIN trie' = DOMAIN trie
        /\ \A x \in DOMAIN trie' : trie'[x] \in Node
    BY <1>3, <2>1 DEF Register, TypeOK, Node, Route
  <2>3. NodeOf(n, k - 1)' = <<>>
    BY <1>3 DEF Register, NodeOf
  <2>4. /\ routes' \in Lists /\ n' \in 1..(Len(routes') + 1)
        /\ k' \in Nat \ {0} /\ k' = 1 /\ node' = <<>>
    BY <1>3, RouteTypes DEF Register, TypeOK
  <2>5. n' <= Len(routes') => Len(segments') \in Nat
    <3> SUFFICES ASSUME n' <= Len(routes') PROVE Len(segments') \in Nat
      OBVIOUS
    <3>1. routes' = routes /\ n' \in 1..Len(routes)
      BY <1>3, <2>4, RouteTypes DEF Register, TypeOK
    <3>2. SegmentsOf(routes[n'].pathPattern) \in Seq(Segments)
      BY <3>1, RouteTypes DEF TypeOK
    <3> QED
      BY <3>1, <3>2 DEF segments
  <2>6. <<>> \in DOMAIN trie
    BY DEF TypeOK
  <2> QED
    BY <2>2, <2>3, <2>4, <2>5, <2>6 DEF TypeOK
<1>4. CASE UNCHANGED vars
  BY <1>4 DEF vars, TypeOK, segments, NodeOf
<1> QED
  BY <1>1, <1>2, <1>3, <1>4 DEF Next, Returned

----------------------------------------------------------------------------
\* A step along a segment makes at most the node it moves to, and registers
\* nothing.
Walk == /\ n <= Len(routes) /\ k <= Len(segments) /\ k' = k + 1 /\ UNCHANGED <<routes, n>>
        /\ DOMAIN trie' = DOMAIN trie \cup {node'}
        /\ \A x \in DOMAIN trie : trie'[x].routes = trie[x].routes
        /\ node' \notin DOMAIN trie => trie'[node'] = makeNode

LEMMA SegmentStepsWalk ==
    ASSUME TypeOK, ParamSegment \/ ExactSegment
    PROVE  Walk
<1>1. CASE ExactSegment
  BY <1>1 DEF ExactSegment, With, AtSegment, Walk
<1>2. CASE ParamSegment
  <2> DEFINE child == Append(node, Param)
  <2>1. /\ node' = child
        /\ IF child \in DOMAIN trie THEN UNCHANGED trie
           ELSE trie' = [y \in DOMAIN trie \cup {child} |->
                           IF y = child THEN makeNode
                           ELSE IF y = node THEN [trie[y] EXCEPT !.paramName = segments[k]]
                           ELSE trie[y]]
    BY <1>2 DEF ParamSegment
  <2>2. \A y \in DOMAIN trie : [trie[y] EXCEPT !.paramName = segments[k]].routes = trie[y].routes
    BY DEF TypeOK, Node
  <2> HIDE DEF child
  <2>3. /\ DOMAIN trie' = DOMAIN trie \cup {node'}
        /\ \A x \in DOMAIN trie : trie'[x].routes = trie[x].routes
        /\ node' \notin DOMAIN trie => trie'[node'] = makeNode
    BY <2>1, <2>2
  <2> QED
    BY <1>2, <2>3 DEF ParamSegment, AtSegment, Walk
<1> QED
  BY <1>1, <1>2

\* Registering changes one entry, that of the pattern's own leaf.
LEMMA RegisterStep ==
    ASSUME TypeOK, Register
    PROVE  /\ n \in 1..Len(routes) /\ n' = n + 1 /\ routes' = routes
           /\ node = Leaf(n) /\ node \in DOMAIN trie
           /\ routes[n].id \in RouteIds /\ routes[n].method \in Methods
           /\ DOMAIN trie' = DOMAIN trie
           /\ \A x \in DOMAIN trie : \A m \in Methods :
                trie'[x].routes[m] = IF x = node /\ m = routes[n].method
                                     THEN routes[n].id ELSE trie[x].routes[m]
<1>1. /\ n \in 1..Len(routes) /\ n' = n + 1 /\ routes' = routes /\ node \in DOMAIN trie
      /\ routes[n] \in Route
  BY RouteTypes DEF Register, TypeOK
<1>2. segments \in Seq(Segments) /\ segments = SegmentsOf(routes[n].pathPattern)
  BY <1>1, RouteTypes DEF TypeOK, segments
<1>3. k - 1 = Len(segments) /\ node = NodeOf(n, k - 1)
  BY <1>1, <1>2 DEF Register, TypeOK
<1>4. node = Leaf(n)
  BY <1>2, <1>3 DEF Leaf
<1>5. routes[n].id \in RouteIds /\ routes[n].method \in Methods
  BY <1>1 DEF Route
<1>6. /\ DOMAIN trie' = DOMAIN trie
      /\ \A x \in DOMAIN trie : \A m \in Methods :
           trie'[x].routes[m] = IF x = node /\ m = routes[n].method
                                THEN routes[n].id ELSE trie[x].routes[m]
  <2> DEFINE id == routes[n].id
             method == routes[n].method
  <2>1. trie' = [trie EXCEPT ![node].routes[method] = id]
    BY DEF Register
  <2>2. \A x \in DOMAIN trie : trie[x] \in Node
    BY DEF TypeOK
  <2> HIDE DEF id, method
  <2>3. /\ DOMAIN trie' = DOMAIN trie
        /\ \A x \in DOMAIN trie : \A m \in Methods :
             trie'[x].routes[m] = IF x = node /\ m = method THEN id ELSE trie[x].routes[m]
    BY <2>1, <2>2 DEF Node
  <2> QED
    BY <2>3 DEF id, method
<1> QED
  BY <1>1, <1>4, <1>5, <1>6

LEMMA TellsNext == TypeOK /\ TrieTells /\ [Next]_vars => TrieTells'
<1> SUFFICES ASSUME TypeOK, TrieTells, [Next]_vars PROVE TrieTells'
  OBVIOUS
<1>0. Len(routes) \in Nat /\ n \in 1..(Len(routes) + 1)
  BY RouteTypes DEF TypeOK
<1>1. CASE ParamSegment \/ ExactSegment
  <2>1. Walk
    BY <1>1, SegmentStepsWalk
  <2>2. /\ routes' = routes /\ n' = n
        /\ \A j, m, x : RegisteredAt(j, m, x)' <=> RegisteredAt(j, m, x)
        /\ \A j : Leaf(j)' = Leaf(j)
    BY <2>1 DEF Walk, RegisteredAt, Leaf, NodeOf
  <2>3. ASSUME NEW x \in DOMAIN trie', NEW m \in Methods PROVE Tells(x, m)'
    <3>1. CASE x \in DOMAIN trie
      <4>1. trie'[x].routes = trie[x].routes /\ Tells(x, m)
        BY <2>1, <3>1 DEF Walk, TrieTells
      <4> QED
        BY <2>2, <4>1 DEF Tells
    <3>2. CASE x \notin DOMAIN trie
      <4>1. trie'[x] = makeNode
        BY <2>1, <3>2 DEF Walk
      <4>2. trie'[x].routes[m] = None
        BY <4>1 DEF makeNode
      <4>3. \A j \in 1..Len(routes) : ~RegisteredAt(j, m, x)
        BY <3>2 DEF TrieTells, RegisteredAt
      <4> QED
        BY <2>2, <4>2, <4>3 DEF Tells
    <3> QED
      BY <3>1, <3>2
  <2>4. \A j \in 1..Len(routes) : j < n => Leaf(j) \in DOMAIN trie'
    BY <2>1 DEF Walk, TrieTells
  <2> QED
    BY <2>2, <2>3, <2>4 DEF TrieTells
<1>2. CASE Register
  <2> DEFINE M == routes[n].method
  <2>1. /\ n \in 1..Len(routes) /\ n' = n + 1 /\ routes' = routes
        /\ node = Leaf(n) /\ node \in DOMAIN trie
        /\ routes[n].id \in RouteIds /\ DOMAIN trie' = DOMAIN trie
        /\ \A x \in DOMAIN trie : \A m \in Methods :
             trie'[x].routes[m] = IF x = node /\ m = M
                                  THEN routes[n].id ELSE trie[x].routes[m]
    BY <1>2, RegisterStep
  <2>2. \A j : Leaf(j)' = Leaf(j)
    BY <2>1 DEF Leaf, NodeOf
  <2>3. ASSUME NEW j \in 1..Len(routes), NEW m, NEW x
        PROVE  RegisteredAt(j, m, x)' <=>
                 (RegisteredAt(j, m, x) \/ (j = n /\ m = M /\ x = node))
    BY <1>0, <2>1, <2>2 DEF RegisteredAt
  <2>4. ASSUME NEW x \in DOMAIN trie', NEW m \in Methods PROVE Tells(x, m)'
    <3>1. CASE x = node /\ m = M
      <4>1. trie'[x].routes[m] = routes[n].id /\ routes[n].id # None
        BY <2>1, <3>1, RoutesAssumption
      <4>2. PICK j \in 1..Len(routes) : j = n
        BY <2>1
      <4>3. RegisteredAt(j, m, x)'
        BY <2>3, <3>1, <4>2
      <4>4. \A l \in (j + 1)..Len(routes) : ~RegisteredAt(l, m, x)'
        <5> SUFFICES ASSUME NEW l \in (j + 1)..Len(routes) PROVE ~(l < n')
          BY DEF RegisteredAt
        <5> QED
          BY <1>0, <2>1, <4>2
      <4>5. trie'[x].routes[m] # None /\ trie'[x].routes[m] = routes'[j].id
        BY <2>1, <4>1, <4>2
      <4> QED
        BY <2>1, <4>3, <4>4, <4>5 DEF Tells
    <3>2. CASE ~(x = node /\ m = M)
      <4>1. trie'[x].routes[m] = trie[x].routes[m] /\ Tells(x, m)
        BY <2>1, <3>2 DEF TrieTells
      <4>2. \A j \in 1..Len(routes) : RegisteredAt(j, m, x)' <=> RegisteredAt(j, m, x)
        BY <2>3, <3>2
      <4>3. \A j \in 1..Len(routes) : \A l \in (j + 1)..Len(routes) : l \in 1..Len(routes)
        BY <1>0
      <4> QED
        BY <2>1, <4>1, <4>2, <4>3 DEF Tells
    <3> QED
      BY <3>1, <3>2
  <2>5. ASSUME NEW j \in 1..Len(routes), j < n + 1 PROVE Leaf(j) \in DOMAIN trie
    BY <1>0, <2>1, <2>5 DEF TrieTells
  <2> QED
    BY <2>1, <2>2, <2>4, <2>5 DEF TrieTells
<1>3. CASE UNCHANGED vars
  BY <1>3 DEF vars, TrieTells, Tells, RegisteredAt, Leaf, NodeOf
<1> QED
  BY <1>1, <1>2, <1>3 DEF Next, Returned

----------------------------------------------------------------------------
\* The length of a node is its depth.
LEMMA NodeOfType ==
    ASSUME routes \in Lists, NEW j \in 1..Len(routes),
           NEW l \in 0..Len(SegmentsOf(routes[j].pathPattern))
    PROVE  NodeOf(j, l) \in Seq(Labels) /\ Len(NodeOf(j, l)) = l
<1> DEFINE s == SegmentsOf(routes[j].pathPattern)
           lab(h) == IF s[h] \in Params THEN Param ELSE s[h]
<1>1. s \in Seq(Segments) /\ Len(s) \in Nat
  BY RouteTypes
<1>2. \A h \in 1..Len(s) : lab(h) \in Labels
  BY <1>1 DEF Labels
<1>3. NodeOf(j, l) = [h \in 1..l |-> lab(h)] /\ l \in 0..Len(s)
  BY DEF NodeOf
<1> HIDE DEF s, lab
<1> QED
  BY <1>1, <1>2, <1>3

\* Where a walk moves to, and what it has passed then.
LEMMA WalkPasses ==
    ASSUME TypeOK, TypeOK', Walk
    PROVE  /\ n \in 1..Len(routes) /\ k \in 1..Len(SegmentsOf(routes[n].pathPattern))
           /\ routes' = routes /\ n' = n /\ k' = k + 1
           /\ node = NodeOf(n, k - 1) /\ node' = NodeOf(n, k)
           /\ \A j, l : NodeOf(j, l)' = NodeOf(j, l)
           /\ \A j, l : Passed(j, l)' <=> (Passed(j, l) \/ (j = n /\ l = k))
<1>1. /\ n \in 1..Len(routes) /\ routes' = routes /\ n' = n /\ k' = k + 1
      /\ segments = SegmentsOf(routes[n].pathPattern) /\ k \in Nat \ {0}
      /\ k <= Len(segments) /\ node = NodeOf(n, k - 1)
  BY RouteTypes DEF Walk, TypeOK, segments
<1>2. k \in 1..Len(segments)
  BY <1>1, RouteTypes DEF TypeOK
<1>3. \A j, l : NodeOf(j, l)' = NodeOf(j, l)
  BY <1>1 DEF NodeOf
<1>4. node' = NodeOf(n, k)
  <2>1. n' <= Len(routes') => node' = NodeOf(n, k - 1)'
    BY DEF TypeOK
  <2>2. NodeOf(n, k - 1)' = NodeOf(n, k)
    BY <1>1 DEF NodeOf
  <2> QED
    BY <1>1, <2>1, <2>2, RouteTypes DEF TypeOK
<1>5. ASSUME NEW j, NEW l PROVE Passed(j, l)' <=> (Passed(j, l) \/ (j = n /\ l = k))
  BY <1>1, <1>2 DEF Passed
<1> QED
  BY <1>1, <1>2, <1>3, <1>4, <1>5

\* Registering passes nothing more: the whole pattern was passed already.
LEMMA RegisterPasses ==
    ASSUME TypeOK, Register
    PROVE  /\ \A j, l : NodeOf(j, l)' = NodeOf(j, l)
           /\ \A j, l : Passed(j, l)' <=> Passed(j, l)
<1>1. /\ n \in 1..Len(routes) /\ n' = n + 1 /\ routes' = routes /\ k' = 1
  BY RegisterStep DEF Register
<1>2. k > Len(SegmentsOf(routes[n].pathPattern)) /\ k \in Nat
  BY DEF Register, segments, TypeOK
<1>3. Len(SegmentsOf(routes[n].pathPattern)) \in Nat
  BY <1>1, RouteTypes DEF TypeOK
<1>4. ASSUME NEW j, NEW l PROVE Passed(j, l)' <=> Passed(j, l)
  BY <1>1, <1>2, <1>3 DEF Passed
<1> QED
  BY <1>1, <1>4 DEF NodeOf

LEMMA NodesNext ==
    ASSUME TypeOK, TypeOK', NodesOnTheWay, [Next]_vars
    PROVE  NodesOnTheWay'
<1>1. CASE ParamSegment \/ ExactSegment
  <2>0. Walk
    BY <1>1, SegmentStepsWalk
  <2>1. /\ n \in 1..Len(routes) /\ k \in 1..Len(SegmentsOf(routes[n].pathPattern))
        /\ routes' = routes /\ n' = n /\ k' = k + 1
        /\ node' = NodeOf(n, k)
        /\ \A j, l : NodeOf(j, l)' = NodeOf(j, l)
        /\ \A j, l : Passed(j, l)' <=> (Passed(j, l) \/ (j = n /\ l = k))
    BY <2>0, WalkPasses
  <2>2. DOMAIN trie' = DOMAIN trie \cup {node'}
    BY <2>0 DEF Walk
  <2>3. Len(node') = k
    BY <2>1, NodeOfType, RouteTypes DEF TypeOK
  <2>4. ASSUME NEW x \in DOMAIN trie', x # <<>>
        PROVE  \E j \in 1..Len(routes) : Passed(j, Len(x))' /\ NodeOf(j, Len(x)) = x
    <3>1. CASE x \in DOMAIN trie
      BY <2>1, <2>4, <3>1 DEF NodesOnTheWay
    <3>2. CASE x = node'
      <4>1. PICK j \in 1..Len(routes), l \in {k} : j = n
        BY <2>1
      <4>2. Passed(j, l)' /\ NodeOf(j, l) = x /\ Len(x) = l
        BY <2>1, <2>3, <3>2, <4>1
      <4> QED
        BY <4>2
    <3> QED
      BY <2>2, <3>1, <3>2
  <2>5. ASSUME NEW j \in 1..Len(routes),
               NEW l \in 1..Len(SegmentsOf(routes[j].pathPattern)), Passed(j, l)'
        PROVE  NodeOf(j, l) \in DOMAIN trie'
    BY <2>1, <2>2, <2>5 DEF NodesOnTheWay
  <2> QED
    BY <2>1, <2>4, <2>5 DEF NodesOnTheWay
<1>2. CASE Register
  <2>1. DOMAIN trie' = DOMAIN trie /\ routes' = routes
    BY <1>2, RegisterStep
  <2> QED
    BY <1>2, <2>1, RegisterPasses DEF NodesOnTheWay
<1>3. CASE UNCHANGED vars
  BY <1>3 DEF vars, NodesOnTheWay, Passed, NodeOf
<1> QED
  BY <1>1, <1>2, <1>3 DEF Next, Returned

----------------------------------------------------------------------------
LEMMA OneParamChildEach ==
    ASSUME NEW x \in Seq(Labels), NEW y \in Seq(Labels), Append(x, Param) = Append(y, Param)
    PROVE  x = y
<1>1. Param \in Labels
  BY DEF Labels
<1> QED
  BY <1>1, AppendInjective

\* The nodes are lists of labels, closed under going up.
LEMMA NodesAreLists ==
    ASSUME TypeOK, NodesOnTheWay
    PROVE  DOMAIN trie \subseteq Seq(Labels)
<1> SUFFICES ASSUME NEW x \in DOMAIN trie PROVE x \in Seq(Labels)
  OBVIOUS
<1>0. CASE x = <<>>
  BY <1>0
<1>1. CASE x # <<>>
  <2>1. PICK j \in 1..Len(routes) : Passed(j, Len(x)) /\ NodeOf(j, Len(x)) = x
    BY <1>1 DEF NodesOnTheWay
  <2>2. Len(x) \in 0..Len(SegmentsOf(routes[j].pathPattern))
    BY <2>1 DEF Passed
  <2> QED
    BY <2>1, <2>2, NodeOfType DEF TypeOK
<1> QED
  BY <1>0, <1>1

LEMMA ParentsExist ==
    ASSUME TypeOK, NodesOnTheWay, NEW y \in Seq(Labels), NEW a \in Labels,
           Append(y, a) \in DOMAIN trie
    PROVE  y \in DOMAIN trie
<1> DEFINE x == Append(y, a)
<1>1. x # <<>> /\ Len(x) = Len(y) + 1 /\ Len(y) \in Nat
  BY AppendProperties
<1>2. PICK j \in 1..Len(routes) : Passed(j, Len(x)) /\ NodeOf(j, Len(x)) = x
  BY <1>1 DEF NodesOnTheWay
<1> DEFINE s == SegmentsOf(routes[j].pathPattern)
           l == Len(y) + 1
           lab == IF s[l] \in Params THEN Param ELSE s[l]
<1>3. l \in 1..Len(s) /\ s \in Seq(Segments) /\ Len(s) \in Nat
  BY <1>1, <1>2, RouteTypes DEF Passed, TypeOK
<1>4. NodeOf(j, l) = Append(NodeOf(j, l - 1), lab)
  BY <1>3, NodeOfChild DEF TypeOK
<1>5. NodeOf(j, l - 1) \in Seq(Labels) /\ lab \in Labels
  <2>1. l - 1 \in 0..Len(s)
    BY <1>1, <1>3
  <2>2. NodeOf(j, l - 1) \in Seq(Labels)
    BY <2>1, NodeOfType DEF TypeOK
  <2> QED
    BY <2>2, <1>3 DEF Labels
<1>6. NodeOf(j, l - 1) = y
  BY <1>1, <1>2, <1>4, <1>5, AppendInjective
<1>7. CASE Len(y) = 0
  BY <1>7 DEF TypeOK
<1>8. CASE Len(y) # 0
  <2>1. l - 1 \in 1..Len(s)
    BY <1>1, <1>3, <1>8
  <2>2. Passed(j, l - 1)
    BY <1>1, <1>2, <2>1 DEF Passed, TypeOK
  <2> QED
    BY <1>6, <2>1, <2>2 DEF NodesOnTheWay
<1> QED
  BY <1>7, <1>8

\* A new node has no child and no name yet, and neither has its name's child.
LEMMA NewNode ==
    ASSUME TypeOK, NodesOnTheWay, NEW x \in Seq(Labels), x \notin DOMAIN trie
    PROVE  Append(x, Param) \notin DOMAIN trie \cup {x}
<1>1. Append(x, Param) # x
  BY AppendProperties DEF Labels
<1> QED
  BY <1>1, ParentsExist DEF Labels

\* A route that has named x has made the child.
LEMMA NamingMakesChild ==
    ASSUME TypeOK, NodesOnTheWay, NEW j \in 1..Len(routes), NEW x \in Seq(Labels), Names(j, x)
    PROVE  Append(x, Param) \in DOMAIN trie
<1> DEFINE s == SegmentsOf(routes[j].pathPattern)
           l == Len(x) + 1
<1>1. l \in 1..Len(s) /\ Passed(j, l) /\ s[l] \in Params /\ Len(x) \in Nat
      /\ NodeOf(j, Len(x)) = x
  BY DEF Names, Passed
<1>2. NodeOf(j, l) = Append(NodeOf(j, l - 1), Param)
  BY <1>1, NodeOfChild DEF TypeOK
<1>3. l - 1 = Len(x)
  BY <1>1
<1> QED
  BY <1>1, <1>2, <1>3 DEF NodesOnTheWay

\* Names along a step that passes the k-th segment of the n-th route.
LEMMA WalkNames ==
    ASSUME TypeOK, TypeOK', Walk, NEW j \in 1..Len(routes), NEW x
    PROVE  Names(j, x)' <=> \/ Names(j, x)
                            \/ /\ j = n /\ Len(x) + 1 = k /\ NodeOf(j, Len(x)) = x
                               /\ SegmentsOf(routes[j].pathPattern)[Len(x) + 1] \in Params
  BY WalkPasses DEF Names

LEMMA FirstNameWalk ==
    ASSUME TypeOK, TypeOK', NodesOnTheWay, FirstNameKept, ParamSegment \/ ExactSegment
    PROVE  FirstNameKept'
<1>0. Walk
  BY SegmentStepsWalk
<1>1. /\ n \in 1..Len(routes) /\ k \in 1..Len(SegmentsOf(routes[n].pathPattern))
      /\ routes' = routes /\ n' = n
      /\ node = NodeOf(n, k - 1) /\ node \in DOMAIN trie
      /\ node \in Seq(Labels) /\ Len(node) = k - 1
      /\ segments = SegmentsOf(routes[n].pathPattern) /\ segments \in Seq(Segments)
      /\ k \in 1..Len(segments)
  <2>1. /\ n \in 1..Len(routes) /\ k \in 1..Len(SegmentsOf(routes[n].pathPattern))
        /\ routes' = routes /\ n' = n /\ node = NodeOf(n, k - 1)
    BY <1>0, WalkPasses
  <2>2. SegmentsOf(routes[n].pathPattern) \in Seq(Segments)
    BY <2>1, RouteTypes DEF TypeOK
  <2>3. k - 1 \in 0..Len(SegmentsOf(routes[n].pathPattern))
    BY <2>1, <2>2
  <2>4. node \in Seq(Labels) /\ Len(node) = k - 1
    BY <2>1, <2>3, NodeOfType DEF TypeOK
  <2> QED
    BY <2>1, <2>2, <2>4 DEF TypeOK, segments
<1>2. DOMAIN trie \subseteq Seq(Labels) /\ Param \in Labels /\ Segments \subseteq Labels
  BY NodesAreLists DEF Labels
\* Nothing about an older route changes.
<1>3. ASSUME NEW x, NEW j \in 1..Len(routes), Names(j, x),
             \A i \in 1..(j - 1) : ~Names(i, x), j < n \/ j = n
      PROVE  Names(j, x)' /\ \A i \in 1..(j - 1) : ~Names(i, x)'
  <2>1. Names(j, x)'
    BY <1>0, <1>3, WalkNames
  <2>2. ASSUME NEW i \in 1..(j - 1) PROVE ~Names(i, x)'
    <3>1. i \in 1..Len(routes) /\ i # n
      BY <1>1, <1>3, RouteTypes DEF TypeOK
    <3> QED
      BY <1>0, <1>3, <3>1, WalkNames
  <2> QED
    BY <2>1, <2>2
<1>4. \A x : \A j \in 1..Len(routes) : Names(j, x) => j < n \/ j = n
  BY DEF Names, Passed
\* A node that keeps its name.
<1>5. ASSUME NEW x \in DOMAIN trie, trie'[x].paramName = trie[x].paramName,
             trie[x].paramName # None
      PROVE  \E j \in 1..Len(routes) :
               /\ Names(j, x)'
               /\ trie'[x].paramName = SegmentsOf(routes[j].pathPattern)[Len(x) + 1]
               /\ \A i \in 1..(j - 1) : ~Names(i, x)'
  <2>1. PICK j \in 1..Len(routes) :
          /\ Names(j, x)
          /\ trie[x].paramName = SegmentsOf(routes[j].pathPattern)[Len(x) + 1]
          /\ \A i \in 1..(j - 1) : ~Names(i, x)
    BY <1>5 DEF FirstNameKept
  <2>2. Names(j, x)' /\ \A i \in 1..(j - 1) : ~Names(i, x)'
    BY <1>3, <1>4, <2>1
  <2> QED
    BY <1>5, <2>1, <2>2
<1>6. CASE node' \in DOMAIN trie
  <2>1. trie' = trie
    BY <1>6 DEF ParamSegment, ExactSegment
  <2> QED
    BY <1>1, <1>5, <2>1 DEF FirstNameKept
<1>7. CASE node' \notin DOMAIN trie /\ ExactSegment
  <2>1. /\ node' = Append(node, segments[k]) /\ segments[k] \in Labels
        /\ segments[k] # Param
        /\ trie' = With(node', makeNode)
    BY <1>1, <1>2, <1>7, RoutesAssumption DEF ExactSegment
  <2>2. /\ DOMAIN trie' = DOMAIN trie \cup {node'} /\ trie'[node'] = makeNode
        /\ \A x \in DOMAIN trie : trie'[x] = trie[x]
    BY <1>7, <2>1 DEF With
  <2>3. node' \in Seq(Labels)
    BY <1>1, <2>1, AppendProperties
  <2>4. ASSUME NEW x \in DOMAIN trie'
        PROVE  Append(x, Param) \in DOMAIN trie' <=> trie'[x].paramName # None
    <3>1. CASE x = node'
      BY <1>7, <2>2, <2>3, <3>1, NewNode DEF makeNode
    <3>2. CASE x \in DOMAIN trie
      <4>1. Append(x, Param) # node'
        BY <1>1, <1>2, <2>1, <3>2, AppendInjective
      <4> QED
        BY <2>2, <3>2, <4>1 DEF FirstNameKept
    <3> QED
      BY <2>2, <3>1, <3>2
  <2>5. ASSUME NEW x \in DOMAIN trie', trie'[x].paramName # None
        PROVE  x \in DOMAIN trie /\ trie'[x].paramName = trie[x].paramName
    BY <2>2, <2>5 DEF makeNode
  <2> QED
    BY <1>1, <1>5, <2>4, <2>5 DEF FirstNameKept
<1>8. CASE node' \notin DOMAIN trie /\ ParamSegment
  <2> DEFINE name == segments[k]
  <2>1. /\ node' = Append(node, Param) /\ name \in Params /\ name # None
        /\ trie' = [y \in DOMAIN trie \cup {node'} |->
                      IF y = node' THEN makeNode
                      ELSE IF y = node THEN [trie[y] EXCEPT !.paramName = name]
                      ELSE trie[y]]
    BY <1>8, RoutesAssumption DEF ParamSegment, AtSegment
  <2>2. node' \in Seq(Labels) /\ node' # node
    BY <1>1, <1>2, <1>8, <2>1, AppendProperties
  <2>3. \A y \in DOMAIN trie : [trie[y] EXCEPT !.paramName = name].paramName = name
    BY DEF TypeOK, Node
  <2> HIDE DEF name
  <2>4. /\ DOMAIN trie' = DOMAIN trie \cup {node'} /\ trie'[node'] = makeNode
        /\ trie'[node].paramName = name
        /\ \A x \in DOMAIN trie : x # node => trie'[x] = trie[x]
    BY <1>1, <1>8, <2>1, <2>2, <2>3
  <2>5. ASSUME NEW x \in DOMAIN trie'
        PROVE  Append(x, Param) \in DOMAIN trie' <=> trie'[x].paramName # None
    <3>1. CASE x = node'
      BY <1>8, <2>4, <2>2, <3>1, NewNode DEF makeNode
    <3>2. CASE x = node
      BY <2>1, <2>4, <3>2
    <3>3. CASE x \in DOMAIN trie /\ x # node
      <4>0. x \in Seq(Labels) /\ x # node /\ node' = Append(node, Param)
        BY <1>2, <2>1, <3>3
      <4>1. Append(x, Param) # node'
        <5> SUFFICES ASSUME Append(x, Param) = Append(node, Param) PROVE x = node
          BY <4>0
        <5> QED
          BY <1>1, <4>0, OneParamChildEach
      <4>2. /\ trie'[x] = trie[x]
            /\ Append(x, Param) \in DOMAIN trie <=> trie[x].paramName # None
        BY <2>4, <3>3 DEF FirstNameKept
      <4> QED
        BY <2>4, <4>1, <4>2
    <3> QED
      BY <2>4, <3>1, <3>2, <3>3
  <2>6. PICK x0 \in DOMAIN trie, j0 \in 1..Len(routes) : x0 = node /\ j0 = n
    BY <1>1
  <2>7. /\ Names(j0, x0)'
        /\ name = SegmentsOf(routes[j0].pathPattern)[Len(x0) + 1]
    <3>1. Len(x0) + 1 = k /\ Len(x0) = k - 1
      BY <1>1, <2>6
    <3>2. /\ NodeOf(j0, Len(x0)) = x0
          /\ SegmentsOf(routes[j0].pathPattern)[Len(x0) + 1] = name
      BY <1>1, <2>6, <3>1 DEF name
    <3> QED
      BY <1>0, <2>1, <2>6, <3>1, <3>2, WalkNames
  <2>8. ASSUME NEW i \in 1..(j0 - 1) PROVE ~Names(i, x0)'
    <3>1. i \in 1..Len(routes) /\ i # n
      BY <1>1, <2>6, RouteTypes DEF TypeOK
    <3>2. ~Names(i, x0)
      BY <1>1, <1>8, <2>1, <2>6, <3>1, NamingMakesChild
    <3> QED
      BY <1>0, <3>1, <3>2, WalkNames
  <2>9. ASSUME NEW x \in DOMAIN trie', trie'[x].paramName # None
        PROVE  \E j \in 1..Len(routes) :
                 /\ Names(j, x)'
                 /\ trie'[x].paramName = SegmentsOf(routes[j].pathPattern)[Len(x) + 1]
                 /\ \A i \in 1..(j - 1) : ~Names(i, x)'
    <3>1. CASE x = x0
      BY <2>4, <2>6, <2>7, <2>8, <3>1
    <3>2. CASE x # x0
      <4>1. x \in DOMAIN trie /\ trie'[x].paramName = trie[x].paramName
        BY <2>4, <2>6, <2>9, <3>2 DEF makeNode
      <4> QED
        BY <1>5, <2>9, <4>1
    <3> QED
      BY <3>1, <3>2
  <2> QED
    BY <1>1, <2>5, <2>9 DEF FirstNameKept
<1> QED
  BY <1>6, <1>7, <1>8

LEMMA FirstNameNext ==
    ASSUME TypeOK, TypeOK', NodesOnTheWay, FirstNameKept, [Next]_vars
    PROVE  FirstNameKept'
<1>1. CASE ParamSegment \/ ExactSegment
  BY <1>1, FirstNameWalk
<1>2. CASE Register
  <2>1. /\ DOMAIN trie' = DOMAIN trie /\ routes' = routes
        /\ \A x \in DOMAIN trie : trie'[x].paramName = trie[x].paramName
    <3>1. DOMAIN trie' = DOMAIN trie /\ routes' = routes
      BY <1>2, RegisterStep
    <3>2. \A x \in DOMAIN trie : trie[x] \in Node
      BY DEF TypeOK
    <3> QED
      BY <1>2, <3>1, <3>2 DEF Register, Node
  <2>2. \A j, x : Names(j, x)' <=> Names(j, x)
    BY <1>2, <2>1, RegisterPasses DEF Names
  <2> QED
    BY <2>1, <2>2 DEF FirstNameKept
<1>3. CASE UNCHANGED vars
  BY <1>3 DEF vars, FirstNameKept, Names, Passed, NodeOf
<1> QED
  BY <1>1, <1>2, <1>3 DEF Next, Returned

----------------------------------------------------------------------------
\* Nothing is registered, passed or named before the first step.
LEMMA TrieInit == Init => TrieTells /\ NodesOnTheWay /\ FirstNameKept
<1> SUFFICES ASSUME Init PROVE TrieTells /\ NodesOnTheWay /\ FirstNameKept
  OBVIOUS
<1>1. /\ n = 1 /\ k = 1 /\ DOMAIN trie = {<<>>} /\ trie[<<>>] = makeNode
      /\ routes \in Lists
  BY DEF Init
<1>2. TrieTells
  <2>1. \A j \in 1..Len(routes) : ~(j < n)
    BY <1>1, RouteTypes
  <2>2. \A m \in Methods : trie[<<>>].routes[m] = None
    BY <1>1 DEF makeNode
  <2> QED
    BY <1>1, <2>1, <2>2 DEF TrieTells, Tells, RegisteredAt
<1>3. \A j, l : ~Passed(j, l)
  BY <1>1, RouteTypes DEF Passed
<1>4. FirstNameKept
  <2>1. Append(<<>>, Param) \notin {<<>>}
    <3>1. <<>> \in Seq(Labels) /\ Param \in Labels
      BY DEF Labels
    <3> QED
      BY <3>1, AppendProperties
  <2>2. trie[<<>>].paramName = None
    BY <1>1 DEF makeNode
  <2>3. ASSUME NEW x \in DOMAIN trie
        PROVE  /\ Append(x, Param) \notin DOMAIN trie
               /\ trie[x].paramName = None
    BY <1>1, <2>1, <2>2
  <2> QED
    BY <2>3 DEF FirstNameKept
<1> QED
  BY <1>1, <1>2, <1>3, <1>4 DEF NodesOnTheWay

\* The inductive invariant: the four properties hold each other up.
TrieInv == TypeOK /\ TrieTells /\ NodesOnTheWay /\ FirstNameKept

LEMMA TrieInvariant == Spec => []TrieInv
<1>1. Init => TrieInv
  BY TypeInit, TrieInit DEF TrieInv
<1>2. TrieInv /\ [Next]_vars => TrieInv'
  BY TypeNext, TellsNext, NodesNext, FirstNameNext DEF TrieInv
<1> QED
  BY <1>1, <1>2, PTL DEF Spec

\* The walk never leaves the trie, and stands where its segments lead.
THEOREM TrieTypeCorrect == Spec => []TypeOK
<1>1. TrieInv => TypeOK
  BY DEF TrieInv
<1> QED
  BY <1>1, TrieInvariant, PTL

\* Every entry of the trie is the last route registered for it.
THEOREM LastRegistrationStands == Spec => []TrieTells
<1>1. TrieInv => TrieTells
  BY DEF TrieInv
<1> QED
  BY <1>1, TrieInvariant, PTL

\* The nodes are the prefixes of the registered patterns, no more and no less.
THEOREM NodesAreThePrefixes == Spec => []NodesOnTheWay
<1>1. TrieInv => NodesOnTheWay
  BY DEF TrieInv
<1> QED
  BY <1>1, TrieInvariant, PTL

\* The first route to pass names the parameter, for good.
THEOREM FirstNameStands == Spec => []FirstNameKept
<1>1. TrieInv => FirstNameKept
  BY DEF TrieInv
<1> QED
  BY <1>1, TrieInvariant, PTL

----------------------------------------------------------------------------
(* When no registration is lost.                                           *)

\* No two routes of the list are for the same method at the same node.
Unambiguous ==
    \A a, b \in 1..Len(routes) :
      a # b => Leaf(a) # Leaf(b) \/ routes[a].method # routes[b].method

Registered == {<<Leaf(j), routes[j].method, routes[j].id>> : j \in 1..(n - 1)}
Entries == {e \in (DOMAIN trie) \X Methods \X RouteIds : trie[e[1]].routes[e[2]] = e[3]}

LEMMA RegisteredStands ==
    ASSUME TypeOK, TrieTells, Unambiguous, NEW j \in 1..(n - 1)
    PROVE  /\ j \in 1..Len(routes) /\ routes[j] \in Route
           /\ Leaf(j) \in DOMAIN trie
           /\ trie[Leaf(j)].routes[routes[j].method] = routes[j].id
<1> DEFINE x == Leaf(j)
           m == routes[j].method
<1>1. j \in 1..Len(routes) /\ routes[j] \in Route /\ j < n
  BY RouteTypes DEF TypeOK
<1>2. x \in DOMAIN trie /\ m \in Methods /\ RegisteredAt(j, m, x)
  BY <1>1 DEF TrieTells, Route, RegisteredAt
<1>3. Tells(x, m)
  BY <1>2 DEF TrieTells
<1>4. PICK i \in 1..Len(routes) : RegisteredAt(i, m, x) /\ trie[x].routes[m] = routes[i].id
  BY <1>1, <1>2, <1>3 DEF Tells
<1>5. i = j
  BY <1>1, <1>4 DEF Unambiguous, RegisteredAt
<1> QED
  BY <1>1, <1>2, <1>4, <1>5

LEMMA EntriesRegistered ==
    ASSUME TypeOK, TrieTells, Unambiguous
    PROVE  Entries = Registered
<1>1. ASSUME NEW e \in Entries PROVE e \in Registered
  <2>1. PICK x \in DOMAIN trie, m \in Methods, i \in RouteIds :
          e = <<x, m, i>> /\ trie[x].routes[m] = i
    BY DEF Entries
  <2>2. Tells(x, m) /\ i # None
    BY RoutesAssumption DEF TrieTells
  <2>3. PICK j \in 1..Len(routes) : RegisteredAt(j, m, x) /\ trie[x].routes[m] = routes[j].id
    BY <2>1, <2>2 DEF Tells
  <2>4. j \in 1..(n - 1)
    BY <2>3, RouteTypes DEF RegisteredAt, TypeOK
  <2>5. e = <<Leaf(j), routes[j].method, routes[j].id>>
    BY <2>1, <2>3 DEF RegisteredAt
  <2> QED
    BY <2>4, <2>5 DEF Registered
<1>2. ASSUME NEW e \in Registered PROVE e \in Entries
  <2>1. PICK j \in 1..(n - 1) : e = <<Leaf(j), routes[j].method, routes[j].id>>
    BY DEF Registered
  <2> QED
    BY <2>1, RegisteredStands DEF Entries, Route
<1> QED
  BY <1>1, <1>2

\* In a list without two routes for the same method and node no registration
\* replaces another, and the trie holds exactly the routes registered so far:
\* then, and that is what the unique constraint fails to ensure, the order in
\* which the database lists the routes does not matter.
THEOREM UnambiguousListsKept ==
    Spec => [](Unambiguous => DuplicatesCaught /\ Entries = Registered)
<1>1. TrieInv => (Unambiguous => DuplicatesCaught /\ Entries = Registered)
  BY RegisteredStands, EntriesRegistered DEF TrieInv, DuplicatesCaught
<1> QED
  BY <1>1, TrieInvariant, PTL
====
