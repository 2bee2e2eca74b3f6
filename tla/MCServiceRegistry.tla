---- MODULE MCServiceRegistry ----
(***************************************************************************)
(* ServiceRegistry for two tenants with a service and a policy each.       *)
(***************************************************************************)
EXTENDS ServiceRegistry

CONSTANTS t1, t2,       \* tenants
          s1, s2, n1,   \* services of t1 and of t2, and one to be created
          k1, k2,       \* names: k1 is taken in both tenants
          getA, getB,   \* endpoints
          q1, q2, q9    \* policies of t1 and of t2, and one that is not there

MCPolicyTenant == [q \in {q1, q2} |-> IF q = q1 THEN t1 ELSE t2]

MCSeed == {[id |-> s1, tenant |-> t1, name |-> k1], [id |-> s2, tenant |-> t2, name |-> k1]}

MCCall(op, t, name, x, e, q, ok) ==
    [op |-> op, tenant |-> t, name |-> name, service |-> x, endpoint |-> e,
     policy |-> q, valid |-> ok]
NewService(t, name, ok) == MCCall("createService", t, name, s1, getA, None, ok)
NewRoute(t, x, e, q) == MCCall("createRoute", t, k1, x, e, q, TRUE)
List(op, t, x) == MCCall(op, t, k1, x, getA, None, TRUE)

MCCalls ==
    { NewService(t1, k1, TRUE), NewService(t1, k2, TRUE),
      NewService(t1, k2, FALSE), NewService(None, k2, TRUE),
      NewRoute(t1, s1, getA, None), NewRoute(t1, s1, getA, q1),
      NewRoute(t1, s1, getB, q2),    \* a policy of the other tenant
      NewRoute(t1, s1, getB, q9),    \* no such policy
      NewRoute(t1, s2, getA, None),  \* a service of the other tenant
      NewRoute(t1, n1, getA, None),  \* a service another request may create
      NewRoute(t2, s2, getA, q2),
      List("listRoutes", t1, s1), List("listRoutes", t1, s2),
      List("getAllRoutes", t1, s1), List("getAllRoutes", t2, s1) }
====
