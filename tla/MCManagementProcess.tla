---- MODULE MCManagementProcess ----
(***************************************************************************)
(* A small instance of ManagementProcess: one tenant whose principal gets  *)
(* a permission in two assignments, a policy, and a tenant that is new.    *)
(***************************************************************************)
EXTENDS ManagementProcess

CONSTANTS t1, t2, p1, r1, m1, n1, k1, k2

SeedRow(i, t) == [id |-> i, tenant |-> t, key |-> k1]

MCSeed ==
    [tenants |-> {[id |-> t1, slug |-> k1]},
     rows |-> [principals  |-> {SeedRow(p1, t1)},
               roles       |-> {SeedRow(r1, t1)},
               permissions |-> {SeedRow(m1, t1)},
               policies    |-> {}]]

LinkCall(op, i, j) ==
    [op |-> op, tenant |-> t1, key |-> None, of |-> i, to |-> j, valid |-> TRUE]
CreateCall(op, t, k) ==
    [op |-> op, tenant |-> t, key |-> k, of |-> None, to |-> None, valid |-> TRUE]

MCCalls ==
    {LinkCall("assignPermission", r1, m1),
     LinkCall("assignRole", p1, r1),
     CreateCall("createPolicy", t1, k1),
     CreateCall("createTenant", None, k2)}
====
