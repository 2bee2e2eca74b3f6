---- MODULE MCRouteTrie ----
(***************************************************************************)
(* RouteTrie for every list of at most MaxRoutes of the rows below, in any *)
(* order that ORDER BY path_pattern, method can give under some collation. *)
(***************************************************************************)
EXTENDS RouteTrie

CONSTANTS users, orders, me, id, userId, s1, s2, GET, POST, MaxRoutes

MCPatterns ==
    { <<Empty, Empty>>,                   \* "/"
      <<Empty, users, id>>, <<Empty, users, userId>>,
      <<Empty, users, id, orders>>, <<Empty, users, me, orders>>,
      <<Empty, users, Empty>> }           \* "/users/"

MCRouteIds == Services \X Methods \X MCPatterns
MCRows ==
    { [id |-> <<s, m, p>>, service |-> s, method |-> m, pathPattern |-> p] :
        s \in Services, m \in Methods, p \in MCPatterns }

\* Sorted by pattern, under any collation, and within a pattern by method.
Sorted(list) ==
    \A a, b \in DOMAIN list : a < b =>
      /\ list[a].pathPattern = list[b].pathPattern =>
           /\ list[a].method = POST => list[b].method # GET
           /\ \A c \in a..b : list[c].pathPattern = list[a].pathPattern
      /\ list[a] # list[b]

MCLists == { list \in UNION {[1..len -> MCRows] : len \in 0..MaxRoutes} : Sorted(list) }
====
