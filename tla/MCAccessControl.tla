---- MODULE MCAccessControl ----
(***************************************************************************)
(* Small instances of AccessControl: two tenants whose rows mirror each    *)
(* other, so that every identifier of one is a foreign one for the other.  *)
(***************************************************************************)
EXTENDS AccessControl

CONSTANTS t1, t2, t3,      \* tenants (t3 is created by a request, or absent)
          p1, p2,          \* principals of t1 and of t2
          r1, r2,          \* roles
          m1, m2,          \* permissions
          n1, n2, n3,      \* ids of rows still to be created
          k1, k2, k3       \* natural keys

SeedRow(i, t) == [id |-> i, tenant |-> t, key |-> k1]

MCSeed ==
    [tenants |-> {[id |-> t1, slug |-> k1], [id |-> t2, slug |-> k2]},
     rows |-> [principals  |-> {SeedRow(p1, t1), SeedRow(p2, t2)},
               roles       |-> {SeedRow(r1, t1), SeedRow(r2, t2)},
               permissions |-> {SeedRow(m1, t1), SeedRow(m2, t2)},
               policies    |-> {}]]

LinkCall(op, t, i, j) ==
    [op |-> op, tenant |-> t, key |-> None, of |-> i, to |-> j, valid |-> TRUE]
CreateCall(op, t, k, ok) ==
    [op |-> op, tenant |-> t, key |-> k, of |-> None, to |-> None, valid |-> ok]

\* Assignments within a tenant, and with a principal, role or permission of
\* the other one.
LinkCalls ==
    {LinkCall("assignPermission", t1, r1, m1),
     LinkCall("assignPermission", t1, r1, m2),
     LinkCall("assignRole", t1, p1, r1),
     LinkCall("assignRole", t1, p1, r2),
     LinkCall("assignRole", t2, p1, r2)}

\* Creates that compete for a key, under a tenant that may not exist yet, with
\* bodies that fail validation; an assignment of what they may have created.
CreateCalls ==
    {CreateCall("createTenant", None, k3, TRUE),
     CreateCall("createTenant", None, k3, FALSE),
     CreateCall("createPrincipal", t3, k2, TRUE),
     CreateCall("createRole", t1, k2, TRUE),
     CreateCall("createRole", t1, k3, FALSE),
     CreateCall("createPermission", t1, k2, TRUE),
     CreateCall("createPolicy", t3, k2, TRUE),
     LinkCall("assignPermission", t1, r1, n1)}

AllKindsOfCalls == LinkCalls \cup CreateCalls

\* The assignments that can succeed, tried again after a failure.
RetryCalls ==
    {LinkCall("assignPermission", t1, r1, m1), LinkCall("assignRole", t1, p1, r1)}

\* A policy and the client's retry of it after an error.
PolicyCalls == {CreateCall("createPolicy", t1, k1, TRUE)}
====
