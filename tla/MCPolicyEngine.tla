---- MODULE MCPolicyEngine ----
(***************************************************************************)
(* SlugDecision for every policy of at most MaxLen required permissions,   *)
(* repetitions included, out of the slugs that are posted, and every set   *)
(* of granted permissions out of those that are posted.  What is posted    *)
(* includes what has to be refused: colons within a field, empty fields,   *)
(* fields too long, too few and too many segments, unknown actions.        *)
(***************************************************************************)
EXTENDS SlugDecision

CONSTANTS n, long, bad, MaxLen

Body(r, a, sp) == [resource |-> r, action |-> a, specificity |-> sp]

MCSegments == {n, long, bad, Empty, "read"}
MCBodies ==
    {Body(<<n>>, "read", Undefined), Body(<<n>>, "read", Null),
     Body(<<n>>, "read", <<n>>), Body(<<n>>, "read", <<"read">>),
     Body(<<"read">>, "read", Null),
     Body(<<n, "read">>, "read", Null), Body(<<n>>, "read", <<Empty>>),
     Body(<<Empty>>, "read", Null), Body(<<bad>>, "read", Null),
     Body(<<long>>, "read", Null), Body(<<n>>, n, Null)}

MCSlugs ==
    {<<n, "read">>, <<n, "read", n>>, <<n, "read", "read">>, <<"read", "read">>,
     <<long, "read">>,
     <<n>>, <<n, n>>, <<n, "read", Empty>>, <<Empty, "read">>, <<bad, "read">>,
     <<n, "read", "read", "read">>}
MCPolicies ==
    [requiredPermissions : UNION {[1..k -> MCSlugs] : k \in 0..MaxLen},
     matchStrategy : Strategies]
MCVersions == {<<1, 1>>, <<2, 1>>}
====
