---- MODULE AccessControlProofs ----
(***************************************************************************)
(* Theorems about AccessControl, for every value of its constants.         *)
(***************************************************************************)
EXTENDS AccessControl, TLAPS

\* A slot with a statement in flight serves a request some client sent.
CallSent == \A s \in Slots : pc[s] # "idle" => call[s] \in Calls

TypeInv == TypeOK /\ CallSent

LEMMA InitTypes == Init => TypeInv
<1> SUFFICES ASSUME Init PROVE TypeInv
  OBVIOUS
<1> USE ParametersAssumption, SeedAssumption
<1>1. TypeOK
  BY DEF Init, TypeOK, Change, NoCall
<1>2. CallSent
  BY DEF Init, CallSent
<1> QED
  BY <1>1, <1>2 DEF TypeInv

\* What the type invariant says of a slot that awaits a statement.
LEMMA CallTypes ==
    ASSUME TypeInv, NEW s \in Slots, pc[s] # "idle"
    PROVE  /\ call[s] \in Calls /\ call[s] \in AllCalls
           /\ call[s].op \in Ops
           /\ call[s].op = "createTenant" => call[s].key \in Keys
           /\ call[s].op # "createTenant" => call[s].tenant \in TenantIds
           /\ call[s].op \in Creates => call[s].key \in Keys
           /\ call[s].op \in Assigns => call[s].of \in Ids /\ call[s].to \in Ids
<1>1. call[s] \in Calls
  BY DEF TypeInv, CallSent
<1>2. call[s] \in AllCalls
  BY <1>1, ParametersAssumption
<1> QED
  BY <1>1, <1>2, ParametersAssumption DEF AllCalls

\* What the handler of either assignment does when its INSERT returns.
LinkReturns(s, lost) ==
    /\ pc[s] = "link" /\ call[s].op \in Assigns /\ call' = call
    /\ change' = [change EXCEPT ![s] = {AssignedChange(call[s])}]
    /\ uncovered' \in {uncovered, uncovered \cup {AssignedChange(call[s])}}
    /\ Outcome(lost)
    /\ IF lost
       THEN Answer(s, 500) /\ UNCHANGED awaiting
       ELSE /\ GoTo(s, "bump")
            /\ awaiting' = [awaiting EXCEPT ![s] = Increments(call[s].op)]

LEMMA LinkReturnsLemma ==
    ASSUME NEW s \in Slots, LinkPermission(s) \/ LinkRole(s)
    PROVE  \E lost \in BOOLEAN : LinkReturns(s, lost)
  BY DEF LinkPermission, LinkRole, Linked, LinkReturns, Assigns

LEMMA NextTypes == TypeInv /\ [Next]_vars => TypeInv'
<1> SUFFICES ASSUME TypeInv, [Next]_vars PROVE TypeInv'
  OBVIOUS
<1> USE ParametersAssumption DEF TypeInv, TypeOK, CallSent
<1>1. ASSUME NEW s \in Slots, NEW c \in Calls, Receive(s, c) PROVE TypeInv'
  BY <1>1 DEF Receive, dbVars
<1>2. ASSUME NEW s \in Slots, RequireTenant(s) PROVE TypeInv'
  BY <1>2 DEF RequireTenant, Answer, GoTo, dbVars
<1>3. ASSUME NEW s \in Slots, CreateTenant(s) PROVE TypeInv'
  BY <1>3, CallTypes DEF CreateTenant, Answer, Outcome, TenantRow
<1>4. ASSUME NEW s \in Slots, CreatePrincipal(s) PROVE TypeInv'
  BY <1>4, CallTypes DEF CreatePrincipal, Answer, Outcome, Row, Tables, Creates
<1>5. ASSUME NEW s \in Slots, CreateModelRow(s) PROVE TypeInv'
  <2>1. /\ call[s].op \in Ops /\ call[s].tenant \in TenantIds /\ call[s].key \in Keys
        /\ TableOf(call[s].op) \in Tables
    BY <1>5, CallTypes DEF CreateModelRow, Creates, TableOf, Tables
  <2>2. Increments(call[s].op) \subseteq {"of", "to", "policy", "principal"}
    BY DEF Increments
  <2> QED
    BY <1>5, <2>1, <2>2 DEF CreateModelRow, Answer, GoTo, Outcome, Row, Change
<1>6. ASSUME NEW s \in Slots, NEW end \in {"of", "to"}, Lookup(s, end) PROVE TypeInv'
  BY <1>6 DEF Lookup, Answer, GoTo, dbVars
<1>7. ASSUME NEW s \in Slots, RecheckRole(s) PROVE TypeInv'
  BY <1>7 DEF RecheckRole, Answer, GoTo, dbVars
<1> DEFINE LinkTyped(s) ==
             /\ change' \in [Slots -> SUBSET Change] /\ uncovered' \subseteq Change
             /\ failures' \in 0..MaxFailures
             /\ pc' \in [Slots -> {"idle", "tenant", "insert", "lookup", "recheck", "link", "bump"}]
             /\ status' \in [Slots -> {0, Broken, 201, 204, 400, 404, 409, 500}]
             /\ awaiting' \in [Slots -> SUBSET {"of", "to", "policy", "principal"}]
             /\ call[s] \in Calls /\ \A z \in Slots \ {s} : pc'[z] = pc[z]
             /\ call[s].of \in Ids /\ call[s].to \in Ids
<1>8. ASSUME NEW s \in Slots, LinkPermission(s) \/ LinkRole(s) PROVE LinkTyped(s)
  <2>1. PICK lost \in BOOLEAN : LinkReturns(s, lost)
    BY <1>8, LinkReturnsLemma
  <2>2. call[s].of \in Ids /\ call[s].to \in Ids /\ call[s].tenant \in TenantIds
    BY <2>1, CallTypes DEF LinkReturns, Assigns
  <2>3. AssignedChange(call[s]) \in Change
    BY <2>1, <2>2 DEF LinkReturns, AssignedChange, Change, Assigns, Ops
  <2>4. change' \in [Slots -> SUBSET Change] /\ uncovered' \subseteq Change
    BY <2>1, <2>3 DEF LinkReturns
  <2>5. failures' \in 0..MaxFailures
    BY <2>1 DEF LinkReturns, Outcome
  <2>6. /\ pc' \in [Slots -> {"idle", "tenant", "insert", "lookup", "recheck", "link", "bump"}]
        /\ status' \in [Slots -> {0, Broken, 201, 204, 400, 404, 409, 500}]
        /\ call[s] \in Calls /\ \A z \in Slots \ {s} : pc'[z] = pc[z]
    BY <2>1 DEF LinkReturns, Answer, GoTo
  <2>7. Increments(call[s].op) \in SUBSET {"of", "to", "policy", "principal"}
    BY DEF Increments
  <2>8. \/ UNCHANGED awaiting
        \/ awaiting' = [awaiting EXCEPT ![s] = Increments(call[s].op)]
    BY <2>1 DEF LinkReturns
  <2> QED
    BY <2>2, <2>4, <2>5, <2>6, <2>7, <2>8
<1>9. ASSUME NEW s \in Slots, LinkPermission(s) PROVE TypeInv'
  <2>1. LinkTyped(s)
    BY <1>8, <1>9
  <2>2. rolePermissions' \subseteq Link
    BY <1>9, <2>1 DEF LinkPermission, Link
  <2> QED
    BY <1>9, <2>1, <2>2 DEF LinkPermission
<1>10. ASSUME NEW s \in Slots, LinkRole(s) PROVE TypeInv'
  <2>1. LinkTyped(s)
    BY <1>8, <1>10
  <2>2. principalRoles' \subseteq Link
    BY <1>10, <2>1 DEF LinkRole, Link
  <2> QED
    BY <1>10, <2>1, <2>2 DEF LinkRole
<1>12. ASSUME NEW s \in Slots, IncrementPolicyVersion(s) PROVE TypeInv'
  BY <1>12 DEF IncrementPolicyVersion, Outcome, Incrementable, Settle, SuccessCode
<1>13. ASSUME NEW s \in Slots, IncrementPrincipalVersion(s) PROVE TypeInv'
  BY <1>13 DEF IncrementPrincipalVersion, Outcome, Incrementable, Settle, SuccessCode
<1>14. ASSUME NEW s \in Slots, StatementFails(s) PROVE TypeInv'
  BY <1>14 DEF StatementFails, Answer, Settle, SuccessCode, dbVars
<1>15. CASE UNCHANGED vars
  BY <1>15 DEF vars, dbVars, slotVars
<1>16. CASE Quiet
  BY <1>15, <1>16 DEF Quiet
<1> QED
  BY <1>1, <1>2, <1>3, <1>4, <1>5, <1>6, <1>7, <1>9, <1>10, <1>12, <1>13, <1>14, <1>15, <1>16
  DEF Next, Step

\* Every table, counter and slot keeps the values its columns and its handler
\* allow: no counter passes the integer limit, no request is answered with a
\* status the routes do not send.
THEOREM TypeCorrect == Spec => []TypeOK
<1>1. TypeInv => TypeOK
  BY DEF TypeInv
<1> QED
  BY InitTypes, NextTypes, <1>1, PTL DEF Spec

----------------------------------------------------------------------------
(* Frames: what a step of one slot leaves alone, and that rows only grow.  *)

Untouched(z) ==
    /\ pc'[z] = pc[z] /\ call'[z] = call[z] /\ status'[z] = status[z]
    /\ awaiting'[z] = awaiting[z] /\ found'[z] = found[z]
    /\ change'[z] = change[z] /\ applied'[z] = applied[z]

LEMMA OthersUntouched ==
    ASSUME TypeInv, NEW s \in Slots,
           (\E c \in Calls : Receive(s, c)) \/ Step(s)
    PROVE  \A z \in Slots \ {s} : Untouched(z)
<1> SUFFICES ASSUME NEW z \in Slots \ {s} PROVE Untouched(z)
  OBVIOUS
<1> USE DEF TypeInv, TypeOK, Untouched
<1>1. CASE \E c \in Calls : Receive(s, c)
  BY <1>1 DEF Receive
<1>2. CASE RequireTenant(s)
  BY <1>2 DEF RequireTenant, Answer, GoTo
<1>3. CASE CreateTenant(s)
  BY <1>3 DEF CreateTenant, Answer
<1>4. CASE CreatePrincipal(s)
  BY <1>4 DEF CreatePrincipal, Answer
<1>5. CASE CreateModelRow(s)
  BY <1>5 DEF CreateModelRow, Answer, GoTo
<1>6. CASE \E end \in {"of", "to"} : Lookup(s, end)
  BY <1>6 DEF Lookup, Answer, GoTo
<1>7. CASE RecheckRole(s)
  BY <1>7 DEF RecheckRole, Answer, GoTo
<1>8. CASE LinkPermission(s)
  BY <1>8 DEF LinkPermission, Linked, Answer, GoTo
<1>9. CASE LinkRole(s)
  BY <1>9 DEF LinkRole, Linked, Answer, GoTo
<1>10. CASE IncrementPolicyVersion(s)
  BY <1>10 DEF IncrementPolicyVersion, Settle
<1>11. CASE IncrementPrincipalVersion(s)
  BY <1>11 DEF IncrementPrincipalVersion, Settle
<1>12. CASE StatementFails(s)
  BY <1>12 DEF StatementFails, Settle, Answer
<1> QED
  BY <1>1, <1>2, <1>3, <1>4, <1>5, <1>6, <1>7, <1>8, <1>9, <1>10, <1>11, <1>12 DEF Step

RowsGrow == \A tb \in Tables : rows[tb] \subseteq rows'[tb]

LEMMA FindMonotone ==
    ASSUME RowsGrow, NEW tb \in Tables, NEW t, NEW i, FindById(tb, t, i)
    PROVE  FindById(tb, t, i)'
  BY DEF RowsGrow, FindById

\* Ids are unique over all tables, and a create preserves that.
UniqueIds ==
    \A tb1, tb2 \in Tables : \A x \in rows[tb1], y \in rows[tb2] :
      x.id = y.id => tb1 = tb2 /\ x = y

LEMMA InsertRow ==
    ASSUME TypeInv, UniqueIds, NEW table \in Tables, NEW t, NEW k,
           NEW i \in Ids \ UsedIds,
           rows' = [rows EXCEPT ![table] = @ \cup {[id |-> i, tenant |-> t, key |-> k]}]
    PROVE  RowsGrow /\ UniqueIds'
<1>1. \A tb \in Tables : \A x \in rows[tb] : x.id # i
  BY DEF UsedIds
<1> DEFINE x0 == [id |-> i, tenant |-> t, key |-> k]
<1>2. rows \in [Tables -> SUBSET Row]
  BY DEF TypeInv, TypeOK
<1>3. \A tb \in Tables : rows'[tb] = IF tb = table
          THEN rows[tb] \cup {x0} ELSE rows[tb]
  <2>1. rows' = [rows EXCEPT ![table] = rows[table] \cup {x0}]
    OBVIOUS
  <2> HIDE DEF x0
  <2> QED
    BY <1>2, <2>1
<1>4. RowsGrow
  BY <1>3 DEF RowsGrow
<1>5. ASSUME NEW tb1 \in Tables, NEW tb2 \in Tables,
             NEW x \in rows'[tb1], NEW y \in rows'[tb2], x.id = y.id
      PROVE  tb1 = tb2 /\ x = y
  BY <1>1, <1>3, <1>5 DEF UniqueIds
<1> QED
  BY <1>4, <1>5 DEF UniqueIds

LEMMA NextRows == TypeInv /\ UniqueIds /\ [Next]_vars => RowsGrow /\ UniqueIds'
<1> SUFFICES ASSUME TypeInv, UniqueIds, [Next]_vars PROVE RowsGrow /\ UniqueIds'
  OBVIOUS
<1>1. CASE UNCHANGED rows
  BY <1>1 DEF RowsGrow, UniqueIds
<1>2. ASSUME NEW s \in Slots, CreatePrincipal(s) PROVE RowsGrow /\ UniqueIds'
  <2>1. CASE UNCHANGED rows
    BY <1>1, <2>1
  <2>2. CASE ~UNCHANGED rows
    BY <1>2, <2>2, InsertRow DEF CreatePrincipal, Tables
  <2> QED
    BY <2>1, <2>2
<1>3. ASSUME NEW s \in Slots, CreateModelRow(s) PROVE RowsGrow /\ UniqueIds'
  <2>1. CASE UNCHANGED rows
    BY <1>1, <2>1
  <2>2. CASE ~UNCHANGED rows
    <3>1. TableOf(call[s].op) \in Tables
      BY <1>3 DEF CreateModelRow, TableOf, Tables
    <3> QED
      BY <1>3, <2>2, <3>1, InsertRow DEF CreateModelRow
  <2> QED
    BY <2>1, <2>2
<1>4. UNCHANGED rows \/ \E s \in Slots : CreatePrincipal(s) \/ CreateModelRow(s)
  <2>1. ASSUME NEW s \in Slots, Step(s)
        PROVE  UNCHANGED rows \/ CreatePrincipal(s) \/ CreateModelRow(s)
    BY <2>1 DEF Step, RequireTenant, CreateTenant, Lookup, RecheckRole,
       LinkPermission, LinkRole, IncrementPolicyVersion,
       IncrementPrincipalVersion, StatementFails, dbVars
  <2>2. ASSUME NEW s \in Slots, NEW c \in Calls, Receive(s, c) PROVE UNCHANGED rows
    BY <2>2 DEF Receive, dbVars
  <2>3. UNCHANGED vars => UNCHANGED rows
    BY DEF vars, dbVars
  <2> QED
    BY <2>1, <2>2, <2>3 DEF Next, Quiet
<1> QED
  BY <1>1, <1>2, <1>3, <1>4

LEMMA InitRows == Init => UniqueIds
  BY SeedAssumption DEF Init, UniqueIds

----------------------------------------------------------------------------
(* Tenants are kept apart.  A handler past its lookups has seen both ends  *)
(* of the link it is about to write in its tenant, and rows only grow, so  *)
(* they are still there when the INSERT runs.                              *)

EndFound(c, end) ==
    IF end = "of" THEN FindById(OfTable(c.op), c.tenant, c.of)
                  ELSE FindById(ToTable(c.op), c.tenant, c.to)

EndsChecked(s) ==
    /\ pc[s] \in {"lookup", "recheck", "link"} => call[s].op \in Assigns
    /\ pc[s] = "tenant" => call[s].op # "createTenant" /\ found[s] = {}
    /\ pc[s] = "lookup" => \A end \in found[s] : EndFound(call[s], end)
    /\ pc[s] \in {"recheck", "link"} =>
         EndFound(call[s], "of") /\ EndFound(call[s], "to")

IsolationInv == UniqueIds /\ (\A s \in Slots : EndsChecked(s)) /\ TenantIsolation

LEMMA EndFoundMonotone ==
    ASSUME RowsGrow, NEW c, NEW end, EndFound(c, end)
    PROVE  EndFound(c, end)'
<1>1. OfTable(c.op) \in Tables /\ ToTable(c.op) \in Tables
  BY DEF OfTable, ToTable, Tables
<1> QED
  BY <1>1, FindMonotone DEF EndFound

LEMMA UntouchedEnds ==
    ASSUME TypeInv, RowsGrow, NEW z \in Slots, Untouched(z), EndsChecked(z)
    PROVE  EndsChecked(z)'
<1>1. PICK c : c = call[z]
  OBVIOUS
<1>2. ASSUME NEW end, EndFound(c, end) PROVE EndFound(c, end)'
  BY <1>2, EndFoundMonotone
<1> QED
  BY <1>1, <1>2 DEF Untouched, EndsChecked

LEMMA NextEnds ==
    ASSUME TypeInv, RowsGrow, NEW s \in Slots, EndsChecked(s),
           (\E c \in Calls : Receive(s, c)) \/ Step(s)
    PROVE  EndsChecked(s)'
<1> USE DEF TypeInv, TypeOK
<1> DEFINE Labels == {"tenant", "lookup", "recheck", "link"}
<1>0. PICK c : c = call[s]
  OBVIOUS
<1>00. ASSUME NEW end, EndFound(c, end) PROVE EndFound(c, end)'
  BY <1>00, EndFoundMonotone
<1>1. CASE \E d \in Calls : Receive(s, d)
  BY <1>1 DEF Receive, EndsChecked
<1>2. CASE RequireTenant(s)
  <2>1. call[s].op \notin Creates => call[s].op \in Assigns
    BY <1>2, CallTypes DEF RequireTenant, EndsChecked, Ops
  <2> QED
    BY <1>2, <2>1 DEF RequireTenant, Answer, GoTo, EndsChecked
<1>3. CASE \E end \in {"of", "to"} : Lookup(s, end)
  <2>1. PICK end \in {"of", "to"} : Lookup(s, end)
    BY <1>3
  <2>2. call[s].op \in Assigns /\ \A e \in found[s] : EndFound(c, e)
    BY <1>0, <2>1 DEF Lookup, EndsChecked
  <2>3. \A e \in found'[s] : EndFound(c, e)
    BY <1>0, <2>1, <2>2 DEF Lookup, EndFound
  <2>4. \A e \in found'[s] : EndFound(c, e)'
    BY <1>00, <2>3
  <2>5. call'[s] = c /\ pc'[s] \in {"lookup", "idle", "recheck", "link"}
    BY <1>0, <2>1 DEF Lookup, Answer, GoTo
  <2>6. pc'[s] \in {"recheck", "link"} => found'[s] = {"of", "to"}
    BY <2>1 DEF Lookup, BothThere, Answer, GoTo
  <2> QED
    BY <1>0, <2>2, <2>4, <2>5, <2>6 DEF EndsChecked
<1>4. CASE RecheckRole(s)
  <2>1. EndFound(c, "of") /\ EndFound(c, "to") /\ call[s].op \in Assigns
    BY <1>0, <1>4 DEF RecheckRole, EndsChecked
  <2>2. EndFound(c, "of")' /\ EndFound(c, "to")'
    BY <1>00, <2>1
  <2> QED
    BY <1>0, <1>4, <2>1, <2>2 DEF RecheckRole, Answer, GoTo, EndsChecked
<1>5. CASE pc'[s] \notin Labels
  BY <1>5 DEF EndsChecked
<1>6. CreateTenant(s) \/ CreatePrincipal(s) => pc'[s] \notin Labels
  BY DEF CreateTenant, CreatePrincipal, Answer
<1>7. CreateModelRow(s) => pc'[s] \notin Labels
  BY DEF CreateModelRow, Answer, GoTo
<1>8. LinkPermission(s) \/ LinkRole(s) => pc'[s] \notin Labels
  BY LinkReturnsLemma DEF LinkReturns, Answer, GoTo
<1>9. IncrementPolicyVersion(s) \/ IncrementPrincipalVersion(s) => pc'[s] \notin Labels
  BY DEF IncrementPolicyVersion, IncrementPrincipalVersion, Settle
<1>10. StatementFails(s) => pc'[s] \notin Labels
  BY DEF StatementFails, Settle, Answer
<1> QED
  BY <1>1, <1>2, <1>3, <1>4, <1>5, <1>6, <1>7, <1>8, <1>9, <1>10 DEF Step

LEMMA InitIsolation == Init => IsolationInv
  BY InitRows DEF Init, IsolationInv, EndsChecked, TenantIsolation

LEMMA SameTenantMonotone ==
    ASSUME RowsGrow, NEW tb1 \in Tables, NEW i, NEW tb2 \in Tables, NEW j,
           SameTenant(tb1, i, tb2, j)
    PROVE  SameTenant(tb1, i, tb2, j)'
  BY DEF RowsGrow, SameTenant

\* No other step writes a junction table.
LEMMA OnlyLinksLink ==
    ASSUME NEW s \in Slots
    PROVE  /\ \A c \in Calls : Receive(s, c) =>
                UNCHANGED <<rolePermissions, principalRoles>>
           /\ Step(s) => \/ UNCHANGED <<rolePermissions, principalRoles>>
                         \/ LinkPermission(s) /\ UNCHANGED principalRoles
                         \/ LinkRole(s) /\ UNCHANGED rolePermissions
<1>1. ASSUME NEW c \in Calls, Receive(s, c)
      PROVE  UNCHANGED <<rolePermissions, principalRoles>>
  BY <1>1 DEF Receive, dbVars
<1>2. ASSUME Step(s)
      PROVE  \/ UNCHANGED <<rolePermissions, principalRoles>>
             \/ LinkPermission(s) /\ UNCHANGED principalRoles
             \/ LinkRole(s) /\ UNCHANGED rolePermissions
  BY <1>2 DEF Step, RequireTenant, CreateTenant, CreatePrincipal, CreateModelRow,
     Lookup, RecheckRole, LinkPermission, LinkRole, IncrementPolicyVersion,
     IncrementPrincipalVersion, StatementFails, dbVars
<1> QED
  BY <1>1, <1>2

LEMMA NextIsolation == TypeInv /\ IsolationInv /\ [Next]_vars => IsolationInv'
<1> SUFFICES ASSUME TypeInv, IsolationInv, [Next]_vars PROVE IsolationInv'
  OBVIOUS
<1>1. RowsGrow /\ UniqueIds'
  BY NextRows DEF IsolationInv
<1>2. ASSUME NEW z \in Slots PROVE EndsChecked(z)'
  <2>1. EndsChecked(z)
    BY DEF IsolationInv
  <2>2. ASSUME NEW s \in Slots, (\E c \in Calls : Receive(s, c)) \/ Step(s)
        PROVE  EndsChecked(z)'
    <3>1. CASE z = s
      BY <1>1, <2>1, <2>2, <3>1, NextEnds
    <3>2. CASE z # s
      BY <1>1, <2>1, <2>2, <3>2, OthersUntouched, UntouchedEnds
    <3> QED
      BY <3>1, <3>2
  <2>3. CASE UNCHANGED vars
    <3>1. Untouched(z)
      BY <2>3 DEF vars, slotVars, Untouched
    <3> QED
      BY <1>1, <2>1, <3>1, UntouchedEnds
  <2> QED
    BY <2>2, <2>3 DEF Next, Quiet
<1>3. \A l \in rolePermissions : SameTenant("roles", l.of, "permissions", l.to)'
  BY <1>1, SameTenantMonotone DEF IsolationInv, TenantIsolation, Tables
<1>4. \A l \in principalRoles : SameTenant("principals", l.of, "roles", l.to)'
  BY <1>1, SameTenantMonotone DEF IsolationInv, TenantIsolation, Tables
<1>5. ASSUME NEW l \in rolePermissions' \ rolePermissions
      PROVE  SameTenant("roles", l.of, "permissions", l.to)'
  <2>1. PICK s \in Slots : LinkPermission(s)
    BY <1>5, OnlyLinksLink DEF Next, Quiet, vars, dbVars
  <2>2. l.of = call[s].of /\ l.to = call[s].to /\ UNCHANGED rows
    BY <1>5, <2>1 DEF LinkPermission
  <2>3. /\ FindById("roles", call[s].tenant, call[s].of)
        /\ FindById("permissions", call[s].tenant, call[s].to)
    BY <2>1 DEF LinkPermission, IsolationInv, EndsChecked, EndFound, OfTable, ToTable
  <2> QED
    BY <2>2, <2>3 DEF FindById, SameTenant
<1>6. ASSUME NEW l \in principalRoles' \ principalRoles
      PROVE  SameTenant("principals", l.of, "roles", l.to)'
  <2>1. PICK s \in Slots : LinkRole(s)
    BY <1>6, OnlyLinksLink DEF Next, Quiet, vars, dbVars
  <2>2. /\ l.of = call[s].of /\ l.to = call[s].to /\ UNCHANGED rows
        /\ FindById("principals", call[s].tenant, call[s].of)
        /\ FindById("roles", call[s].tenant, call[s].to)
    BY <1>6, <2>1 DEF LinkRole
  <2> QED
    BY <2>2 DEF FindById, SameTenant
<1>7. TenantIsolation'
  BY <1>3, <1>4, <1>5, <1>6 DEF TenantIsolation
<1> QED
  BY <1>1, <1>2, <1>7 DEF IsolationInv

\* No junction row links rows of two tenants, whatever the clients send and
\* however the handlers interleave.
THEOREM TenantsIsolated == Spec => []TenantIsolation
<1>1. IsolationInv => TenantIsolation
  BY DEF IsolationInv
<1> QED
  BY InitTypes, NextTypes, InitIsolation, NextIsolation, <1>1, PTL DEF Spec

LEMMA IsolationConfines == TypeInv /\ IsolationInv => FlatConfined
<1> SUFFICES ASSUME TypeInv, IsolationInv, NEW t \in TenantIds, NEW p \in Ids,
                    FlatPermissionSlugs(t, p) # {}
             PROVE  \E x \in rows["principals"] : x.id = p /\ x.tenant = t
  BY DEF FlatConfined
<1>1. PICK pr \in principalRoles : pr.of = p /\ FindById("roles", t, pr.to)
  BY DEF FlatPermissionSlugs
<1>2. PICK x \in rows["principals"], y \in rows["roles"] :
        x.id = p /\ y.id = pr.to /\ x.tenant = y.tenant
  BY <1>1 DEF IsolationInv, TenantIsolation, SameTenant
<1>3. PICK z \in rows["roles"] : z.id = pr.to /\ z.tenant = t
  BY <1>1 DEF FindById
<1>4. y = z
  BY <1>2, <1>3 DEF IsolationInv, UniqueIds, Tables
<1> QED
  BY <1>2, <1>3, <1>4

\* The flat permission set of a principal is empty in every tenant but its own,
\* although the query never compares the principal's tenant.
THEOREM FlatSlugsConfined == Spec => []FlatConfined
  BY InitTypes, NextTypes, InitIsolation, NextIsolation, IsolationConfines, PTL DEF Spec

----------------------------------------------------------------------------
(* A success answers for its increments.  Written says that the row behind *)
(* a change is in its table: rows are never taken out, so a change that is *)
(* written can be asked for again but never becomes uncovered again.       *)

Written(u) ==
    /\ u.op = "assignPermission" => [of |-> u.of, to |-> u.to] \in rolePermissions
    /\ u.op = "assignRole" => [of |-> u.of, to |-> u.to] \in principalRoles
    /\ u.op \notin Assigns => u.of \in UsedIds

Early == {"tenant", "insert", "lookup", "recheck", "link"}

Accounted(s) ==
    /\ pc[s] \in Early => status[s] \in {0, Broken} /\ change[s] = {} /\ applied[s] = {}
    /\ pc[s] = "bump" =>
         /\ status[s] \in {0, Broken, 500}
         /\ status[s] = 0 => Increments(call[s].op) \subseteq awaiting[s] \cup applied[s]
    /\ status[s] \in {201, 204} =>
         /\ pc[s] = "idle"
         /\ \/ call[s].op \in {"createTenant", "createPrincipal"} /\ change[s] = {}
            \/ Increments(call[s].op) \subseteq applied[s]
    /\ "policy" \in applied[s] => change[s] \cap uncovered = {}
    /\ \A u \in change[s] : u.tenant = call[s].tenant /\ Written(u)

AckInv == \A s \in Slots : Accounted(s)

LEMMA InitAck == Init => AckInv
  BY DEF Init, AckInv, Accounted, Early

LEMMA AckInvCovers == TypeInv /\ AckInv => AckCovered
<1> SUFFICES ASSUME TypeInv, AckInv, NEW s \in Slots, status[s] \in {201, 204}
             PROVE  /\ change[s] \cap uncovered = {}
                    /\ call[s].op = "assignRole" => applied[s] = {"policy", "principal"}
  BY DEF AckCovered
<1>1. applied[s] \subseteq {"policy", "principal"}
  BY DEF TypeInv, TypeOK
<1>2. \/ call[s].op \in {"createTenant", "createPrincipal"} /\ change[s] = {}
      \/ Increments(call[s].op) \subseteq applied[s]
  BY DEF AckInv, Accounted
<1>3. "policy" \in applied[s] => change[s] \cap uncovered = {}
  BY DEF AckInv, Accounted
<1> QED
  BY <1>1, <1>2, <1>3 DEF Increments

\* The two outcomes of UPDATE tenants ... policy_version + 1.
LEMMA PolicyVersionCases ==
    ASSUME NEW s \in Slots, IncrementPolicyVersion(s)
    PROVE  \/ /\ HasTenant(call[s].tenant)
              /\ Incrementable(policyVersion[call[s].tenant])
              /\ policyVersion' = [policyVersion EXCEPT ![call[s].tenant] = @ + 1]
              /\ uncovered' = {u \in uncovered : u.tenant # call[s].tenant}
           \/ /\ ~(/\ HasTenant(call[s].tenant)
                   /\ Incrementable(policyVersion[call[s].tenant]))
              /\ UNCHANGED <<policyVersion, uncovered, applied>>
<1> DEFINE Counts == /\ HasTenant(call[s].tenant)
                     /\ Incrementable(policyVersion[call[s].tenant])
<1>1. CASE Counts
  BY <1>1 DEF IncrementPolicyVersion
<1>2. CASE ~Counts
  BY <1>2 DEF IncrementPolicyVersion
<1> QED
  BY <1>1, <1>2

\* No assignment is ever taken back.
LEMMA JunctionsGrow ==
    ASSUME [Next]_vars
    PROVE  rolePermissions \subseteq rolePermissions' /\ principalRoles \subseteq principalRoles'
<1>1. ASSUME NEW s \in Slots, Step(s)
      PROVE  rolePermissions \subseteq rolePermissions' /\ principalRoles \subseteq principalRoles'
  BY <1>1, OnlyLinksLink DEF LinkPermission, LinkRole
<1> QED
  BY <1>1, OnlyLinksLink DEF Next, Quiet, vars, dbVars

\* The junction tables grow, and with them and the rows everything written.
LEMMA WrittenMonotone ==
    ASSUME TypeInv, UniqueIds, [Next]_vars, NEW u, Written(u)
    PROVE  Written(u)'
<1>1. rolePermissions \subseteq rolePermissions' /\ principalRoles \subseteq principalRoles'
  BY JunctionsGrow
<1>2. UsedIds \subseteq UsedIds'
  BY NextRows DEF RowsGrow, UsedIds
<1> QED
  BY <1>1, <1>2 DEF Written

\* What a step adds to uncovered was not in its table before.
LEMMA NewlyUncovered ==
    ASSUME TypeInv, NEW s \in Slots, Step(s), NEW u \in uncovered', u \notin uncovered
    PROVE  ~Written(u)
<1>1. CASE CreateModelRow(s)
  BY <1>1 DEF CreateModelRow, Written, Assigns
<1>2. CASE LinkPermission(s)
  BY <1>2 DEF LinkPermission, Linked, AssignedChange, Written
<1>3. CASE LinkRole(s)
  <2>1. u = AssignedChange(call[s]) /\ [of |-> u.of, to |-> u.to] \notin principalRoles
    BY <1>3 DEF LinkRole, Linked, AssignedChange
  <2> QED
    BY <1>3, <2>1 DEF LinkRole, AssignedChange, Written
<1>4. CASE uncovered' \subseteq uncovered
  BY <1>4
<1>5. IncrementPolicyVersion(s) => uncovered' \subseteq uncovered
  BY PolicyVersionCases
<1>6. \/ CreateModelRow(s) \/ LinkPermission(s) \/ LinkRole(s)
      \/ IncrementPolicyVersion(s) \/ UNCHANGED uncovered
  BY DEF Step, RequireTenant, CreateTenant, CreatePrincipal, Lookup, RecheckRole,
     IncrementPrincipalVersion, StatementFails
<1> QED
  BY <1>1, <1>2, <1>3, <1>4, <1>5, <1>6

LEMMA UntouchedAck ==
    ASSUME TypeInv, UniqueIds, [Next]_vars, NEW z \in Slots, Untouched(z), Accounted(z),
           \A u \in uncovered' : u \in uncovered \/ ~Written(u)
    PROVE  Accounted(z)'
<1>1. \A u : Written(u) => Written(u)'
  BY WrittenMonotone
<1>2. "policy" \in applied[z] => change[z] \cap uncovered' = {}
  BY DEF Accounted
<1>3. \A u \in change[z] : u.tenant = call[z].tenant /\ Written(u)'
  BY <1>1 DEF Accounted
<1> QED
  BY <1>2, <1>3 DEF Untouched, Accounted

\* Either increment settles its member of the Promise.all, and a fulfilled one
\* has been applied.
LEMMA SettlePolicy ==
    ASSUME TypeInv, NEW s \in Slots, IncrementPolicyVersion(s)
    PROVE  \E ok \in BOOLEAN : /\ Settle(s, "policy", ok)
                               /\ applied[s] \subseteq applied'[s]
                               /\ ok => "policy" \in applied'[s]
<1> USE DEF TypeInv, TypeOK
<1>1. CASE HasTenant(call[s].tenant) /\ Incrementable(policyVersion[call[s].tenant])
  <2>1. PICK lost \in BOOLEAN :
          /\ applied' = [applied EXCEPT ![s] = @ \cup {"policy"}]
          /\ Settle(s, "policy", ~lost)
    BY <1>1 DEF IncrementPolicyVersion
  <2>2. PICK ok \in BOOLEAN : ok = ~lost
    OBVIOUS
  <2>3. Settle(s, "policy", ok)
    BY <2>1, <2>2
  <2> QED
    BY <2>1, <2>3
<1>2. CASE ~(HasTenant(call[s].tenant) /\ Incrementable(policyVersion[call[s].tenant]))
  BY <1>2 DEF IncrementPolicyVersion
<1> QED
  BY <1>1, <1>2

LEMMA SettlePrincipal ==
    ASSUME TypeInv, NEW s \in Slots, IncrementPrincipalVersion(s)
    PROVE  \E ok \in BOOLEAN : /\ Settle(s, "principal", ok)
                               /\ applied[s] \subseteq applied'[s]
                               /\ ok => "principal" \in applied'[s]
<1> USE DEF TypeInv, TypeOK
<1> DEFINE Counts == /\ FindById("principals", call[s].tenant, call[s].of)
                     /\ Incrementable(principalVersion[call[s].of])
<1>1. CASE Counts
  <2>1. PICK lost \in BOOLEAN :
          /\ applied' = [applied EXCEPT ![s] = @ \cup {"principal"}]
          /\ Settle(s, "principal", ~lost)
    BY <1>1 DEF IncrementPrincipalVersion
  <2>2. PICK ok \in BOOLEAN : ok = ~lost
    OBVIOUS
  <2>3. Settle(s, "principal", ok)
    BY <2>1, <2>2
  <2> QED
    BY <2>1, <2>3
<1>2. CASE ~Counts
  BY <1>2 DEF IncrementPrincipalVersion
<1> QED
  BY <1>1, <1>2

\* The slot that steps: one case per action.
LEMMA NextAck ==
    ASSUME TypeInv, IsolationInv, [Next]_vars, NEW s \in Slots, Accounted(s),
           (\E c \in Calls : Receive(s, c)) \/ Step(s)
    PROVE  Accounted(s)'
<1> USE DEF TypeInv, TypeOK, Broken
<1>1. CASE \E c \in Calls : Receive(s, c)
  BY <1>1 DEF Receive, Accounted, Early
<1>2. CASE RequireTenant(s)
  BY <1>2 DEF RequireTenant, Answer, GoTo, Accounted, Early
<1>3. CASE CreateTenant(s)
  BY <1>3 DEF CreateTenant, Answer, Accounted, Early
<1>4. CASE CreatePrincipal(s)
  BY <1>4 DEF CreatePrincipal, Answer, Accounted, Early
<1>5. CASE \E end \in {"of", "to"} : Lookup(s, end)
  BY <1>5 DEF Lookup, Answer, GoTo, Accounted, Early
<1>6. CASE RecheckRole(s)
  BY <1>6 DEF RecheckRole, Answer, GoTo, Accounted, Early
<1>7. CASE CreateModelRow(s)
  <2>1. /\ status[s] \in {0, Broken} /\ change[s] = {} /\ applied[s] = {}
        /\ call' = call /\ applied' = applied
    BY <1>7 DEF CreateModelRow, Accounted, Early
  <2>2. CASE KeyTaken(TableOf(call[s].op), call[s].tenant, call[s].key)
    BY <1>7, <2>1, <2>2 DEF CreateModelRow, Answer, Accounted, Early
  <2>3. CASE ~KeyTaken(TableOf(call[s].op), call[s].tenant, call[s].key)
    <3>1. PICK i \in Ids \ UsedIds, lost \in BOOLEAN :
            /\ rows' = [rows EXCEPT ![TableOf(call[s].op)] = @ \cup
                          {[id |-> i, tenant |-> call[s].tenant, key |-> call[s].key]}]
            /\ change' = [change EXCEPT ![s] =
                 {[op |-> call[s].op, tenant |-> call[s].tenant, of |-> i, to |-> None]}]
            /\ IF lost
               THEN Answer(s, 500) /\ UNCHANGED awaiting
               ELSE /\ GoTo(s, "bump")
                    /\ awaiting' = [awaiting EXCEPT ![s] = Increments(call[s].op)]
      BY <1>7, <2>3 DEF CreateModelRow
    <3>2. i \in UsedIds'
      <4>1. TableOf(call[s].op) \in Tables
        BY <1>7 DEF CreateModelRow, TableOf, Tables
      <4>2. [id |-> i, tenant |-> call[s].tenant, key |-> call[s].key]
              \in rows'[TableOf(call[s].op)]
        BY <3>1, <4>1
      <4> QED
        BY <4>1, <4>2 DEF UsedIds
    <3>3. \A u \in change'[s] : u.tenant = call[s].tenant /\ Written(u)'
      BY <1>7, <3>1, <3>2 DEF CreateModelRow, Written, Assigns
    <3>4. \/ pc'[s] = "idle" /\ status'[s] \in {Broken, 500}
          \/ /\ pc'[s] = "bump" /\ status'[s] \in {0, Broken}
             /\ awaiting'[s] = Increments(call[s].op)
      BY <2>1, <3>1 DEF Answer, GoTo
    <3> QED
      BY <2>1, <3>3, <3>4 DEF Accounted, Early
  <2> QED
    BY <2>2, <2>3
<1>8. CASE LinkPermission(s) \/ LinkRole(s)
  <2>1. PICK lost \in BOOLEAN : LinkReturns(s, lost)
    BY <1>8, LinkReturnsLemma
  <2>2. /\ status[s] \in {0, Broken} /\ change[s] = {} /\ applied[s] = {}
        /\ call' = call /\ applied' = applied
    BY <1>8, <2>1 DEF LinkPermission, LinkRole, Accounted, Early
  <2>3. change'[s] = {AssignedChange(call[s])}
    BY <2>1 DEF LinkReturns
  <2>4. \/ pc'[s] = "idle" /\ status'[s] \in {Broken, 500}
        \/ /\ pc'[s] = "bump" /\ status'[s] \in {0, Broken}
           /\ awaiting'[s] = Increments(call[s].op)
    BY <2>1, <2>2 DEF LinkReturns, Answer, GoTo
  <2>5. Written(AssignedChange(call[s]))'
    <3>1. CASE LinkPermission(s)
      BY <3>1 DEF LinkPermission, Written, AssignedChange, Assigns
    <3>2. CASE LinkRole(s)
      <4>1. /\ FindById("principals", call[s].tenant, call[s].of)
            /\ FindById("roles", call[s].tenant, call[s].to)
        BY <3>2 DEF LinkRole, IsolationInv, EndsChecked, EndFound, OfTable, ToTable
      <4> QED
        BY <3>2, <4>1 DEF LinkRole, Written, AssignedChange, Assigns
    <3> QED
      BY <1>8, <3>1, <3>2
  <2>6. \A u \in change'[s] : u.tenant = call[s].tenant /\ Written(u)'
    BY <2>2, <2>3, <2>5 DEF AssignedChange
  <2> QED
    BY <2>2, <2>4, <2>6 DEF Accounted, Early
<1>9. CASE IncrementPolicyVersion(s) \/ IncrementPrincipalVersion(s) \/ StatementFails(s)
  <2>1. call' = call /\ change' = change
    BY <1>9 DEF IncrementPolicyVersion, IncrementPrincipalVersion, StatementFails
  <2>2. \A u \in change'[s] : u.tenant = call[s].tenant /\ Written(u)'
    BY <2>1, WrittenMonotone DEF IsolationInv, Accounted
  <2>3. "policy" \in applied'[s] => change'[s] \cap uncovered' = {}
    <3>1. CASE IncrementPolicyVersion(s)
      <4>1. \/ \A u \in uncovered' : u.tenant # call[s].tenant
            \/ UNCHANGED <<uncovered, applied>>
        BY <3>1, PolicyVersionCases
      <4>2. \A u \in change[s] : u.tenant = call[s].tenant
        BY DEF Accounted
      <4> QED
        BY <2>1, <4>1, <4>2 DEF Accounted
    <3>2. CASE IncrementPrincipalVersion(s) \/ StatementFails(s)
      <4>1. uncovered' = uncovered /\ applied'[s] \subseteq applied[s] \cup {"principal"}
        <5>1. CASE IncrementPrincipalVersion(s)
          <6>1. uncovered' = uncovered
            BY <5>1 DEF IncrementPrincipalVersion
          <6>2. \/ applied' = [applied EXCEPT ![s] = @ \cup {"principal"}]
                \/ UNCHANGED applied
            BY <5>1 DEF IncrementPrincipalVersion
          <6> QED
            BY <6>1, <6>2
        <5>2. CASE StatementFails(s)
          BY <5>2 DEF StatementFails
        <5> QED
          BY <3>2, <5>1, <5>2
      <4> QED
        BY <2>1, <4>1 DEF Accounted
    <3> QED
      BY <1>9, <3>1, <3>2
  <2>4. CASE pc[s] = "bump"
    <3>1. PICK part \in {"policy", "principal", "of", "to"}, ok \in BOOLEAN :
            /\ Settle(s, part, ok)
            /\ applied[s] \subseteq applied'[s]
            /\ ok => part \in applied'[s]
      <4>1. CASE IncrementPolicyVersion(s)
        BY <4>1, SettlePolicy
      <4>2. CASE IncrementPrincipalVersion(s)
        BY <4>2, SettlePrincipal
      <4>3. CASE StatementFails(s)
        <5>1. PICK part \in awaiting[s] : Settle(s, part, FALSE)
          BY <2>4, <4>3 DEF StatementFails
        <5>2. PICK ok \in BOOLEAN : ok = FALSE
          OBVIOUS
        <5>3. part \in {"policy", "principal", "of", "to"} /\ applied' = applied
          BY <4>3, <5>1 DEF StatementFails
        <5>4. Settle(s, part, ok)
          BY <5>1, <5>2
        <5> QED
          BY <5>2, <5>3, <5>4
      <4> QED
        BY <1>9, <4>1, <4>2, <4>3
    <3> QED
      BY <2>1, <2>2, <2>3, <2>4, <3>1 DEF Settle, Accounted, Early
  <2>5. CASE pc[s] # "bump"
    <3>1. StatementFails(s)
      BY <1>9, <2>5 DEF IncrementPolicyVersion, IncrementPrincipalVersion
    <3>2. pc'[s] = "idle" /\ status'[s] \in {Broken, 500}
      BY <1>9, <2>1, <2>5, <3>1 DEF StatementFails, Answer, Accounted, Early
    <3> QED
      BY <2>1, <2>2, <2>3, <3>2 DEF Accounted, Early
  <2> QED
    BY <2>4, <2>5
<1> QED
  BY <1>1, <1>2, <1>3, <1>4, <1>5, <1>6, <1>7, <1>8, <1>9 DEF Step

LEMMA NextAckInv == TypeInv /\ IsolationInv /\ AckInv /\ [Next]_vars => AckInv'
<1> SUFFICES ASSUME TypeInv, IsolationInv, AckInv, [Next]_vars, NEW z \in Slots
             PROVE  Accounted(z)'
  BY DEF AckInv
<1>1. Accounted(z) /\ UniqueIds
  BY DEF AckInv, IsolationInv
<1>2. ASSUME NEW s \in Slots, (\E c \in Calls : Receive(s, c)) \/ Step(s)
      PROVE  Accounted(z)'
  <2>1. CASE z = s
    BY <1>1, <1>2, <2>1, NextAck
  <2>2. CASE z # s
    <3>1. Untouched(z)
      BY <1>2, <2>2, OthersUntouched
    <3>2. \A u \in uncovered' : u \in uncovered \/ ~Written(u)
      <4>1. CASE Step(s)
        BY <4>1, NewlyUncovered
      <4>2. CASE \E c \in Calls : Receive(s, c)
        BY <4>2 DEF Receive
      <4> QED
        BY <1>2, <4>1, <4>2
    <3> QED
      BY <1>1, <3>1, <3>2, UntouchedAck
  <2> QED
    BY <2>1, <2>2
<1>3. CASE UNCHANGED vars
  <2>1. Untouched(z) /\ uncovered' = uncovered
    BY <1>3 DEF vars, slotVars, Untouched
  <2> QED
    BY <1>1, <2>1, UntouchedAck
<1> QED
  BY <1>2, <1>3 DEF Next, Quiet

\* A request answered with 201 or 204 has had every change it asked for
\* followed by a policy_version++ of the tenant, and an assignment of a role
\* by a principal_version++ too: also for the retry that found its row there.
THEOREM AcknowledgedChangesCovered == Spec => []AckCovered
  BY InitTypes, NextTypes, InitIsolation, NextIsolation, InitAck, NextAckInv,
     AckInvCovers, PTL DEF Spec

----------------------------------------------------------------------------
(* While nothing fails, an uncovered change is owed an increment.  The     *)
(* tenants of changes and of requests past requireTenant exist, so no      *)
(* CreateTenant resets a counter that a change is waiting for.             *)

Owed(u) == \/ policyVersion[u.tenant] = IntMax
           \/ \E s \in Slots : pc[s] = "bump" /\ "policy" \in awaiting[s]
                               /\ call[s].tenant = u.tenant

TenantKnown(s) ==
    pc[s] \notin {"idle", "tenant"} =>
      \/ pc[s] = "insert" /\ call[s].op = "createTenant"
      \/ HasTenant(call[s].tenant)

OwedInv ==
    /\ \A s \in Slots : TenantKnown(s)
    /\ \A u \in uncovered : HasTenant(u.tenant)
    /\ ChangesOwed

LEMMA InitOwed == Init => OwedInv
  BY DEF Init, OwedInv, TenantKnown, ChangesOwed

LEMMA TenantsGrow == TypeInv /\ [Next]_vars => tenants \subseteq tenants'
<1> SUFFICES ASSUME TypeInv, [Next]_vars PROVE tenants \subseteq tenants'
  OBVIOUS
<1>1. ASSUME NEW s \in Slots, Step(s) PROVE tenants \subseteq tenants'
  BY <1>1 DEF Step, RequireTenant, CreateTenant, CreatePrincipal, CreateModelRow,
     Lookup, RecheckRole, LinkPermission, LinkRole, IncrementPolicyVersion,
     IncrementPrincipalVersion, StatementFails, dbVars
<1>2. ASSUME NEW s \in Slots, NEW c \in Calls, Receive(s, c) PROVE tenants \subseteq tenants'
  BY <1>2 DEF Receive, dbVars
<1> QED
  BY <1>1, <1>2 DEF Next, Quiet, vars, dbVars

LEMMA HasTenantMonotone ==
    ASSUME TypeInv, [Next]_vars, NEW t, HasTenant(t)
    PROVE  HasTenant(t)'
  BY TenantsGrow DEF HasTenant

LEMMA NextTenantKnown ==
    ASSUME TypeInv, [Next]_vars, NEW z \in Slots, TenantKnown(z)
    PROVE  TenantKnown(z)'
<1> USE DEF TypeInv, TypeOK
<1>1. PICK t : t = call[z].tenant
  OBVIOUS
<1>2. HasTenant(t) => HasTenant(t)'
  BY HasTenantMonotone
<1>3. CASE Untouched(z)
  BY <1>1, <1>2, <1>3 DEF Untouched, TenantKnown
<1>4. CASE \E c \in Calls : Receive(z, c)
  BY <1>4 DEF Receive, TenantKnown
<1>5. CASE RequireTenant(z)
  BY <1>1, <1>2, <1>5 DEF RequireTenant, Answer, GoTo, TenantKnown
<1>6. CASE Step(z) /\ ~RequireTenant(z)
  <2>1. call' = call
    BY <1>6 DEF Step, CreateTenant, CreatePrincipal, CreateModelRow, Lookup,
       RecheckRole, LinkPermission, LinkRole, IncrementPolicyVersion,
       IncrementPrincipalVersion, StatementFails
  <2>2. pc[z] = "tenant" => StatementFails(z)
    BY <1>6 DEF Step, CreateTenant, CreatePrincipal, CreateModelRow, Lookup,
       RecheckRole, LinkPermission, LinkRole, IncrementPolicyVersion,
       IncrementPrincipalVersion
  <2>3. pc[z] = "tenant" => pc'[z] = "idle"
    BY <2>2 DEF StatementFails, Answer
  <2>4. pc[z] # "idle"
    BY <1>6 DEF Step, CreateTenant, CreatePrincipal, CreateModelRow, Lookup,
       RecheckRole, LinkPermission, LinkRole, IncrementPolicyVersion,
       IncrementPrincipalVersion, StatementFails
  <2>5. pc[z] = "insert" /\ call[z].op = "createTenant" =>
          CreateTenant(z) \/ StatementFails(z)
    BY <1>6 DEF Step, CreatePrincipal, CreateModelRow, Lookup,
       RecheckRole, LinkPermission, LinkRole, IncrementPolicyVersion,
       IncrementPrincipalVersion
  <2>6. pc[z] = "insert" /\ call[z].op = "createTenant" => pc'[z] = "idle"
    BY <2>5 DEF CreateTenant, StatementFails, Answer
  <2> QED
    BY <1>1, <1>2, <2>1, <2>3, <2>4, <2>6 DEF TenantKnown
<1>7. ASSUME NEW s \in Slots, (\E c \in Calls : Receive(s, c)) \/ Step(s), z # s
      PROVE  Untouched(z)
  BY <1>7, OthersUntouched
<1>8. UNCHANGED vars => Untouched(z)
  BY DEF vars, slotVars, Untouched
<1> QED
  BY <1>3, <1>4, <1>5, <1>6, <1>7, <1>8 DEF Next, Quiet

\* What a step adds to uncovered belongs to the request that wrote it, which
\* goes on to its increments unless its answer was lost.
LEMMA NewChange ==
    ASSUME TypeInv, NEW s \in Slots, Step(s), NEW u \in uncovered', u \notin uncovered
    PROVE  /\ pc[s] \in {"insert", "link"} /\ call[s].op # "createTenant"
           /\ call' = call /\ u.tenant = call[s].tenant
           /\ \/ failures' = failures + 1
              \/ pc'[s] = "bump" /\ "policy" \in awaiting'[s]
<1> USE DEF TypeInv, TypeOK
<1>1. CASE CreateModelRow(s)
  <2>1. "policy" \in Increments(call[s].op)
    BY DEF Increments
  <2> QED
    BY <1>1, <2>1 DEF CreateModelRow, GoTo, Outcome
<1>2. CASE LinkPermission(s) \/ LinkRole(s)
  <2>1. PICK lost \in BOOLEAN : LinkReturns(s, lost)
    BY <1>2, LinkReturnsLemma
  <2>2. "policy" \in Increments(call[s].op)
    BY DEF Increments
  <2>3. u = AssignedChange(call[s])
    BY <2>1 DEF LinkReturns
  <2>4. \/ failures' = failures + 1
        \/ pc'[s] = "bump" /\ "policy" \in awaiting'[s]
    BY <2>1, <2>2 DEF LinkReturns, GoTo, Outcome
  <2> QED
    BY <2>1, <2>3, <2>4 DEF LinkReturns, AssignedChange, Assigns
<1>3. IncrementPolicyVersion(s) => uncovered' \subseteq uncovered
  BY PolicyVersionCases
<1>4. \/ CreateModelRow(s) \/ LinkPermission(s) \/ LinkRole(s)
      \/ IncrementPolicyVersion(s) \/ UNCHANGED uncovered
  BY DEF Step, RequireTenant, CreateTenant, CreatePrincipal, Lookup, RecheckRole,
     IncrementPrincipalVersion, StatementFails
<1> QED
  BY <1>1, <1>2, <1>3, <1>4

\* A counter at its limit stays there once its tenant exists.
LEMMA LimitStays ==
    ASSUME TypeInv, NEW s \in Slots, Step(s), NEW t \in TenantIds, HasTenant(t),
           policyVersion[t] = IntMax
    PROVE  policyVersion'[t] = IntMax
<1> USE DEF TypeInv, TypeOK
<1>1. CASE CreateTenant(s)
  BY <1>1 DEF CreateTenant
<1>2. CASE IncrementPolicyVersion(s)
  <2>1. CASE call[s].tenant = t
    BY <1>2, <2>1, PolicyVersionCases, ParametersAssumption DEF Incrementable
  <2>2. CASE call[s].tenant # t
    BY <1>2, <2>2, PolicyVersionCases
  <2> QED
    BY <2>1, <2>2
<1>3. CreateTenant(s) \/ IncrementPolicyVersion(s) \/ UNCHANGED policyVersion
  BY DEF Step, RequireTenant, CreatePrincipal, CreateModelRow, Lookup, RecheckRole,
     LinkPermission, LinkRole, IncrementPrincipalVersion, StatementFails, dbVars
<1> QED
  BY <1>1, <1>2, <1>3

\* The slot that owes the increment steps.
LEMMA DebtorSteps ==
    ASSUME TypeInv, NEW s \in Slots, Step(s), TenantKnown(s), failures' = 0,
           pc[s] = "bump", "policy" \in awaiting[s], NEW u \in uncovered \cap uncovered',
           u.tenant = call[s].tenant
    PROVE  Owed(u)'
<1> USE DEF TypeInv, TypeOK
<1>1. CASE IncrementPolicyVersion(s)
  <2>1. HasTenant(call[s].tenant)
    BY DEF TenantKnown
  <2>2. ~Incrementable(policyVersion[call[s].tenant])
    BY <1>1, <2>1, PolicyVersionCases
  <2>3. policyVersion[u.tenant] = IntMax
    BY <2>2, ParametersAssumption DEF Incrementable, Change
  <2>4. policyVersion' = policyVersion
    BY <1>1, <2>2, PolicyVersionCases
  <2> QED
    BY <2>3, <2>4 DEF Owed
<1>2. CASE IncrementPrincipalVersion(s)
  <2>1. \E ok \in BOOLEAN : Settle(s, "principal", ok)
    BY <1>2, SettlePrincipal
  <2>2. "policy" \in awaiting'[s] /\ pc'[s] = "bump"
    BY <2>1 DEF Settle
  <2>3. call' = call
    BY <1>2 DEF IncrementPrincipalVersion
  <2> QED
    BY <2>2, <2>3 DEF Owed
<1>3. ~StatementFails(s)
  <2>1. failures \in Nat
    BY ParametersAssumption
  <2>2. StatementFails(s) => failures' = failures + 1
    BY DEF StatementFails
  <2> QED
    BY <2>1, <2>2
<1> QED
  BY <1>1, <1>2, <1>3 DEF Step, RequireTenant, CreateTenant, CreatePrincipal,
     CreateModelRow, Lookup, RecheckRole, LinkPermission, LinkRole

LEMMA FailuresCount ==
    ASSUME NEW s \in Slots, (\E c \in Calls : Receive(s, c)) \/ Step(s)
    PROVE  failures' = failures \/ failures' = failures + 1
<1>1. CASE \E c \in Calls : Receive(s, c)
  BY <1>1 DEF Receive
<1>2. CASE CreateTenant(s) \/ CreatePrincipal(s) \/ CreateModelRow(s)
  BY <1>2 DEF CreateTenant, CreatePrincipal, CreateModelRow, Outcome
<1>3. CASE LinkPermission(s) \/ LinkRole(s)
  BY <1>3, LinkReturnsLemma DEF LinkReturns, Outcome
<1>4. CASE IncrementPolicyVersion(s)
  BY <1>4 DEF IncrementPolicyVersion, Outcome
<1>5. CASE IncrementPrincipalVersion(s)
  BY <1>5 DEF IncrementPrincipalVersion, Outcome
<1>6. CASE StatementFails(s) \/ UNCHANGED failures
  BY <1>6 DEF StatementFails
<1>7. RequireTenant(s) \/ RecheckRole(s) => UNCHANGED failures
  BY DEF RequireTenant, RecheckRole
<1>8. (\E end \in {"of", "to"} : Lookup(s, end)) => UNCHANGED failures
  BY DEF Lookup
<1> QED
  BY <1>1, <1>2, <1>3, <1>4, <1>5, <1>6, <1>7, <1>8 DEF Step

LEMMA NextOwed == TypeInv /\ OwedInv /\ [Next]_vars => OwedInv'
<1> SUFFICES ASSUME TypeInv, OwedInv, [Next]_vars PROVE OwedInv'
  OBVIOUS
<1> USE DEF TypeInv, TypeOK
<1>1. \A s \in Slots : TenantKnown(s)'
  BY NextTenantKnown DEF OwedInv
<1>2. ASSUME NEW s \in Slots, (\E c \in Calls : Receive(s, c)) \/ Step(s), NEW u \in uncovered'
      PROVE  HasTenant(u.tenant)' /\ (failures' = 0 => Owed(u)')
  <2>1. CASE u \notin uncovered
    <3>1. Step(s)
      BY <1>2, <2>1 DEF Receive
    <3>2. HasTenant(u.tenant)
      BY <2>1, <3>1, NewChange DEF OwedInv, TenantKnown
    <3>3. failures' = 0 => Owed(u)'
      BY <2>1, <3>1, NewChange, ParametersAssumption DEF Owed
    <3> QED
      BY <3>2, <3>3, HasTenantMonotone
  <2>2. CASE u \in uncovered
    <3>1. HasTenant(u.tenant) /\ u.tenant \in TenantIds
      BY <2>2 DEF OwedInv, Change
    <3>2. HasTenant(u.tenant)'
      BY <3>1, HasTenantMonotone
    <3>3. ASSUME failures' = 0 PROVE Owed(u)'
      <4>1. failures = 0
        <5>1. failures' = failures \/ failures' = failures + 1
          BY <1>2, FailuresCount
        <5> QED
          BY <3>3, <5>1, ParametersAssumption
      <4>2. Owed(u)
        BY <2>2, <4>1 DEF OwedInv, ChangesOwed, Owed
      <4>3. CASE policyVersion[u.tenant] = IntMax
        <5>1. CASE Step(s)
          BY <3>1, <4>3, <5>1, LimitStays DEF Owed
        <5>2. CASE \E c \in Calls : Receive(s, c)
          BY <4>3, <5>2 DEF Receive, dbVars, Owed
        <5> QED
          BY <1>2, <5>1, <5>2
      <4>4. ASSUME NEW z \in Slots, pc[z] = "bump", "policy" \in awaiting[z],
                   call[z].tenant = u.tenant
            PROVE  Owed(u)'
        <5>1. CASE z # s
          BY <1>2, <4>4, <5>1, OthersUntouched DEF Untouched, Owed
        <5>2. CASE z = s
          <6>1. Step(s)
            BY <1>2, <4>4, <5>2 DEF Receive
          <6> QED
            BY <1>2, <2>2, <3>3, <4>4, <5>2, <6>1, DebtorSteps DEF OwedInv
        <5> QED
          BY <5>1, <5>2
      <4> QED
        BY <4>2, <4>3, <4>4 DEF Owed
    <3> QED
      BY <3>2, <3>3
  <2> QED
    BY <2>1, <2>2
<1>3. CASE UNCHANGED vars
  BY <1>3 DEF vars, dbVars, slotVars, OwedInv, ChangesOwed, HasTenant, TenantKnown
<1>4. \/ \A u \in uncovered' : HasTenant(u.tenant)' /\ (failures' = 0 => Owed(u)')
      \/ UNCHANGED vars
  BY <1>2 DEF Next, Quiet
<1> QED
  BY <1>1, <1>3, <1>4 DEF OwedInv, ChangesOwed, Owed

\* As long as no statement has failed, every change that no policy_version++
\* has followed is owed one by a request in progress, or the counter is at the
\* limit of its column.
THEOREM UncoveredChangesOwed == Spec => []ChangesOwed
<1>1. OwedInv => ChangesOwed
  BY DEF OwedInv
<1> QED
  BY InitTypes, NextTypes, InitOwed, NextOwed, <1>1, PTL DEF Spec

----------------------------------------------------------------------------
(* What a client is told is there.                                         *)

\* A handler that increments has written, or found, what was asked for.
Fulfilled(s) == pc[s] = "bump" \/ status[s] \in {201, 204, 409} => Present(call[s])

AnswerInv == \A s \in Slots : Fulfilled(s)

LEMMA InitAnswers == Init => AnswerInv
  BY DEF Init, AnswerInv, Fulfilled

\* Nothing that is there goes away.
LEMMA PresentMonotone ==
    ASSUME TypeInv, UniqueIds, [Next]_vars, NEW c, c.op \in Ops, Present(c)
    PROVE  Present(c)'
<1>1. RowsGrow
  BY NextRows
<1>2. tenants \subseteq tenants'
  BY TenantsGrow
<1>3. rolePermissions \subseteq rolePermissions' /\ principalRoles \subseteq principalRoles'
  BY JunctionsGrow
<1>4. CASE c.op = "createTenant"
  BY <1>2, <1>4 DEF Present
<1>5. CASE c.op \in Creates
  <2>1. TableOf(c.op) \in Tables
    BY <1>5 DEF Creates, TableOf, Tables
  <2> QED
    BY <1>1, <1>5, <2>1 DEF Present, KeyTaken, RowsGrow, Creates
<1>6. CASE c.op \in Assigns
  <2>1. OfTable(c.op) \in Tables /\ ToTable(c.op) \in Tables
    BY DEF OfTable, ToTable, Tables
  <2>2. FindById(OfTable(c.op), c.tenant, c.of)' /\ FindById(ToTable(c.op), c.tenant, c.to)'
    BY <1>1, <1>6, <2>1, FindMonotone DEF Present, Creates, Assigns
  <2> QED
    BY <1>3, <1>6, <2>2 DEF Present, Creates, Assigns
<1> QED
  BY <1>4, <1>5, <1>6 DEF Ops

\* Every slot's request is of a kind there is.
LEMMA KnownOp ==
    ASSUME TypeInv, NEW s \in Slots
    PROVE  call[s].op \in Ops
  BY ParametersAssumption DEF TypeInv, TypeOK, AllCalls, NoCall, Ops

LEMMA UntouchedAnswers ==
    ASSUME TypeInv, UniqueIds, [Next]_vars, NEW z \in Slots, Untouched(z), Fulfilled(z)
    PROVE  Fulfilled(z)'
<1>1. PICK c : c = call[z]
  OBVIOUS
<1>2. Present(c) => Present(c)'
  BY <1>1, KnownOp, PresentMonotone
<1> QED
  BY <1>1, <1>2 DEF Untouched, Fulfilled

\* A step that brings a handler to an answer or to its increments has it right
\* if, whenever it does, what was asked for is there after it.
LEMMA AnswerStep ==
    ASSUME NEW s \in Slots, NEW c, call'[s] = c,
           pc'[s] # "bump" \/ Present(c)', status'[s] \notin {201, 204, 409} \/ Present(c)'
    PROVE  Fulfilled(s)'
  BY DEF Fulfilled

\* The step of a handler that brings it to its increments, or to an answer that
\* says what it asked for is there, finds it there.
LEMMA NextAnswers ==
    ASSUME TypeInv, IsolationInv, AckInv, [Next]_vars, NEW s \in Slots, Fulfilled(s),
           (\E c \in Calls : Receive(s, c)) \/ Step(s)
    PROVE  Fulfilled(s)'
<1> USE DEF TypeInv, TypeOK, Broken
<1>a. PICK c : c = call[s]
  OBVIOUS
<1>0. /\ c.op \in Ops
      /\ pc[s] \in Early => status[s] \in {0, Broken}
      /\ pc[s] = "bump" => status[s] \in {0, Broken, 500}
  BY <1>a, KnownOp DEF AckInv, Accounted
<1>1. CASE \E d \in Calls : Receive(s, d)
  BY <1>1 DEF Receive, Fulfilled
<1>2. CASE RequireTenant(s)
  <2>1. call' = call /\ status[s] \in {0, Broken}
    BY <1>0, <1>2 DEF RequireTenant, Early
  <2>2. pc'[s] # "bump" /\ status'[s] \in {0, Broken, 400, 404}
    BY <1>2, <2>1 DEF RequireTenant, Answer, GoTo
  <2> QED
    BY <1>a, <2>1, <2>2, AnswerStep
<1>3. CASE CreateTenant(s)
  <2>1. call'[s] = c /\ pc'[s] = "idle" /\ c.op = "createTenant"
    BY <1>a, <1>3 DEF CreateTenant, Answer
  <2>2. \E w \in tenants' : w.slug = c.key
    <3>1. CASE \E w \in tenants : w.slug = c.key
      BY <1>a, <1>3, <3>1 DEF CreateTenant
    <3>2. CASE ~\E w \in tenants : w.slug = c.key
      <4>1. PICK t \in TenantIds : tenants' = tenants \cup {[id |-> t, slug |-> c.key]}
        BY <1>a, <1>3, <3>2 DEF CreateTenant
      <4>2. [id |-> t, slug |-> c.key] \in tenants'
        BY <4>1
      <4> QED
        BY <4>2
    <3> QED
      BY <3>1, <3>2
  <2>3. Present(c)'
    BY <2>1, <2>2 DEF Present
  <2> QED
    BY <2>1, <2>3, AnswerStep
<1>4. CASE CreatePrincipal(s) \/ CreateModelRow(s)
  <2> DEFINE tb == TableOf(c.op)
  <2>1. call'[s] = c /\ c.op \in Creates /\ c.op # "createTenant" /\ tb \in Tables
    BY <1>a, <1>4 DEF CreatePrincipal, CreateModelRow, Creates, TableOf, Tables
  <2>2. CASE KeyTaken(tb, c.tenant, c.key) /\ UNCHANGED rows
    <3>1. KeyTaken(tb, c.tenant, c.key)'
      BY <2>2 DEF KeyTaken
    <3> QED
      BY <2>1, <3>1, AnswerStep DEF Present
  <2>3. CASE ~(KeyTaken(tb, c.tenant, c.key) /\ UNCHANGED rows)
    <3>1. \E i \in Ids : rows' = [rows EXCEPT ![tb] = @ \cup
                          {[id |-> i, tenant |-> c.tenant, key |-> c.key]}]
      BY <1>a, <1>4, <2>3 DEF CreatePrincipal, CreateModelRow, TableOf
    <3>2. PICK i \in Ids : [id |-> i, tenant |-> c.tenant, key |-> c.key] \in rows'[tb]
      BY <2>1, <3>1
    <3>3. KeyTaken(tb, c.tenant, c.key)'
      BY <3>2 DEF KeyTaken
    <3> QED
      BY <2>1, <3>3, AnswerStep DEF Present
  <2> QED
    BY <2>2, <2>3
<1>5. CASE (\E end \in {"of", "to"} : Lookup(s, end)) \/ RecheckRole(s)
  <2>1. call'[s] = c /\ pc'[s] # "bump" /\ status'[s] \in {0, Broken, 404, 500}
    BY <1>a, <1>0, <1>5 DEF Lookup, RecheckRole, Answer, GoTo, Early
  <2> QED
    BY <2>1, AnswerStep
<1>6. CASE LinkPermission(s) \/ LinkRole(s)
  <2>1. /\ c.op \in Assigns /\ EndFound(c, "of") /\ EndFound(c, "to")
        /\ call'[s] = c /\ UNCHANGED rows
    BY <1>a, <1>6 DEF LinkPermission, LinkRole, IsolationInv, EndsChecked, Assigns
  <2>2. /\ FindById(OfTable(c.op), c.tenant, c.of)' /\ FindById(ToTable(c.op), c.tenant, c.to)'
    BY <2>1 DEF EndFound, FindById
  <2>3. /\ c.op = "assignRole" => [of |-> c.of, to |-> c.to] \in principalRoles'
        /\ c.op # "assignRole" => [of |-> c.of, to |-> c.to] \in rolePermissions'
    BY <1>a, <1>6, <2>1 DEF LinkPermission, LinkRole, EndFound, OfTable, ToTable
  <2>4. Present(c)'
    BY <2>1, <2>2, <2>3 DEF Present, Assigns, Creates
  <2> QED
    BY <2>1, <2>4, AnswerStep
<1>7. CASE IncrementPolicyVersion(s) \/ IncrementPrincipalVersion(s)
  <2>1. pc[s] = "bump" /\ call'[s] = c
    BY <1>a, <1>7 DEF IncrementPolicyVersion, IncrementPrincipalVersion
  <2>2. Present(c)'
    BY <1>a, <1>0, <2>1, PresentMonotone DEF Fulfilled, IsolationInv
  <2> QED
    BY <2>1, <2>2, AnswerStep
<1>8. CASE StatementFails(s)
  <2>1. call'[s] = c
    BY <1>a, <1>8 DEF StatementFails
  <2>2. CASE pc[s] = "bump"
    <3>1. Present(c)'
      BY <1>a, <1>0, <2>2, PresentMonotone DEF Fulfilled, IsolationInv
    <3> QED
      BY <2>1, <3>1, AnswerStep
  <2>3. CASE pc[s] # "bump"
    <3>1. pc'[s] = "idle" /\ status'[s] \in {Broken, 500}
      BY <1>0, <1>8, <2>3 DEF StatementFails, Answer, Early
    <3> QED
      BY <2>1, <3>1, AnswerStep
  <2> QED
    BY <2>2, <2>3
<1> QED
  BY <1>1, <1>2, <1>3, <1>4, <1>5, <1>6, <1>7, <1>8 DEF Step

LEMMA NextAnswerInv ==
    TypeInv /\ IsolationInv /\ AckInv /\ AnswerInv /\ [Next]_vars => AnswerInv'
<1> SUFFICES ASSUME TypeInv, IsolationInv, AckInv, AnswerInv, [Next]_vars,
                    NEW z \in Slots
             PROVE  Fulfilled(z)'
  BY DEF AnswerInv
<1>1. ASSUME NEW s \in Slots, (\E c \in Calls : Receive(s, c)) \/ Step(s)
      PROVE  Fulfilled(z)'
  <2>1. CASE z = s
    BY <1>1, <2>1, NextAnswers DEF AnswerInv
  <2>2. CASE z # s
    BY <1>1, <2>2, OthersUntouched, UntouchedAnswers DEF AnswerInv, IsolationInv
  <2> QED
    BY <2>1, <2>2
<1>2. CASE UNCHANGED vars
  <2>1. Untouched(z)
    BY <1>2 DEF vars, slotVars, Untouched
  <2> QED
    BY <2>1, UntouchedAnswers DEF AnswerInv, IsolationInv
<1> QED
  BY <1>1, <1>2 DEF Next, Quiet

\* A client that is told 201, 204 or 409 finds what it asked for in its tenant,
\* also when its own INSERT inserted nothing.
THEOREM AnswersAreTrue == Spec => []AnswersHold
<1>1. AnswerInv => AnswersHold
  BY DEF AnswerInv, Fulfilled, AnswersHold
<1> QED
  BY InitTypes, NextTypes, InitIsolation, NextIsolation, InitAck, NextAckInv,
     InitAnswers, NextAnswerInv, <1>1, PTL DEF Spec

----------------------------------------------------------------------------
(* What it takes to break the two documented rules.  The code breaks both  *)
(* of them; it does so only if a statement fails, or loses its answer, or  *)
(* a counter has come to the limit of its column.                          *)

Untroubled ==
    /\ failures = 0
    /\ \A w \in tenants : Incrementable(policyVersion[w.id])
    /\ \A x \in rows["principals"] : Incrementable(principalVersion[x.id])

Clean(s) ==
    /\ pc[s] # "idle" => status[s] = 0
    /\ pc[s] = "bump" => awaiting[s] \subseteq Increments(call[s].op)
    /\ (pc[s] = "idle" /\ call[s].op = "assignRole") =>
         applied[s] \in {{}, {"policy", "principal"}}

CleanInv == Untroubled => \A s \in Slots : Clean(s)

LEMMA InitClean == Init => CleanInv
  BY DEF Init, CleanInv, Clean

\* A principal's counter at its limit stays there, too.
LEMMA PrincipalLimitStays ==
    ASSUME TypeInv, NEW s \in Slots, Step(s), NEW x \in rows["principals"],
           principalVersion[x.id] = IntMax
    PROVE  principalVersion'[x.id] = IntMax
<1> USE DEF TypeInv, TypeOK
<1>0. x.id \in UsedIds /\ x.id \in Ids /\ IntMax \in Nat
  BY ParametersAssumption DEF UsedIds, Row, Tables
<1>1. CASE CreatePrincipal(s)
  <2>1. CASE UNCHANGED principalVersion
    BY <2>1
  <2>2. CASE ~UNCHANGED principalVersion
    <3>1. PICK i \in Ids \ UsedIds : principalVersion' = [principalVersion EXCEPT ![i] = 1]
      BY <1>1, <2>2 DEF CreatePrincipal
    <3>2. i # x.id
      BY <1>0
    <3> QED
      BY <1>0, <3>1, <3>2
  <2> QED
    BY <2>1, <2>2
<1>2. CASE IncrementPrincipalVersion(s)
  <2>1. CASE call[s].of = x.id
    <3>1. ~Incrementable(principalVersion[call[s].of])
      BY <1>0, <2>1 DEF Incrementable
    <3> QED
      BY <1>2, <3>1 DEF IncrementPrincipalVersion
  <2>2. CASE call[s].of # x.id
    <3>1. \/ UNCHANGED principalVersion
          \/ principalVersion' = [principalVersion EXCEPT ![call[s].of] = @ + 1]
      BY <1>2 DEF IncrementPrincipalVersion
    <3> QED
      BY <1>0, <2>2, <3>1
  <2> QED
    BY <2>1, <2>2
<1>3. CreatePrincipal(s) \/ IncrementPrincipalVersion(s) \/ UNCHANGED principalVersion
  BY DEF Step, RequireTenant, CreateTenant, CreateModelRow, Lookup, RecheckRole,
     LinkPermission, LinkRole, IncrementPolicyVersion, StatementFails, dbVars
<1> QED
  BY <1>1, <1>2, <1>3

\* Trouble does not go away: where there is none now, there was none before.
LEMMA UntroubledBefore ==
    ASSUME TypeInv, UniqueIds, [Next]_vars, Untroubled'
    PROVE  Untroubled
<1> USE DEF TypeInv, TypeOK
<1>1. CASE UNCHANGED vars
  BY <1>1 DEF vars, dbVars, Untroubled, Incrementable
<1>2. ASSUME NEW s \in Slots, \E c \in Calls : Receive(s, c) PROVE Untroubled
  BY <1>2 DEF Receive, dbVars, Untroubled, Incrementable
<1>3. ASSUME NEW s \in Slots, Step(s) PROVE Untroubled
  <2>1. failures = 0
    <3>1. failures' = failures \/ failures' = failures + 1
      BY <1>3, FailuresCount
    <3> QED
      BY <3>1, ParametersAssumption DEF Untroubled
  <2>2. ASSUME NEW w \in tenants PROVE Incrementable(policyVersion[w.id])
    <3>1. w.id \in TenantIds /\ HasTenant(w.id)
      BY DEF TenantRow, HasTenant
    <3>2. policyVersion[w.id] = IntMax => policyVersion'[w.id] = IntMax
      BY <1>3, <3>1, LimitStays
    <3>3. policyVersion'[w.id] < IntMax
      BY TenantsGrow DEF Untroubled, Incrementable
    <3> QED
      BY <3>1, <3>2, <3>3, ParametersAssumption DEF Incrementable
  <2>3. ASSUME NEW x \in rows["principals"] PROVE Incrementable(principalVersion[x.id])
    <3>1. x.id \in Ids /\ x \in rows'["principals"]
      BY NextRows DEF Row, Tables, RowsGrow
    <3>2. principalVersion[x.id] = IntMax => principalVersion'[x.id] = IntMax
      BY <1>3, PrincipalLimitStays
    <3>3. principalVersion'[x.id] < IntMax
      BY <3>1 DEF Untroubled, Incrementable
    <3> QED
      BY <3>1, <3>2, <3>3, ParametersAssumption DEF Incrementable
  <2> QED
    BY <2>1, <2>2, <2>3 DEF Untroubled
<1> QED
  BY <1>1, <1>2, <1>3 DEF Next, Quiet

\* An increment that returns leaves the request clean.
LEMMA SettleClean ==
    ASSUME TypeInv, AckInv', NEW s \in Slots, NEW part, Settle(s, part, TRUE),
           pc[s] = "bump", Clean(s), call' = call, applied'[s] \subseteq {"policy", "principal"}
    PROVE  Clean(s)'
<1> USE DEF TypeInv, TypeOK
<1> DEFINE rest == awaiting[s] \ {part}
<1>1. status[s] = 0 /\ awaiting[s] \subseteq Increments(call[s].op)
  BY DEF Clean
<1>2. CASE rest = {}
  <2>1. pc'[s] = "idle" /\ status'[s] \in {201, 204}
    BY <1>1, <1>2 DEF Settle, SuccessCode
  <2>2. call'[s].op = "assignRole" => Increments(call'[s].op) \subseteq applied'[s]
    BY <2>1 DEF AckInv, Accounted
  <2> QED
    BY <2>1, <2>2 DEF Clean, Increments
<1>3. CASE rest # {}
  <2>1. pc'[s] = "bump" /\ status'[s] = 0 /\ awaiting'[s] = rest
    BY <1>1, <1>3 DEF Settle
  <2> QED
    BY <1>1, <2>1 DEF Clean
<1> QED
  BY <1>2, <1>3

\* The step of a handler while nothing is wrong.  It finds the rows whose
\* counters it increments, so that no increment is an error.
LEMMA NextClean ==
    ASSUME TypeInv, AckInv, AckInv', TypeInv', Untroubled, failures' = 0,
           NEW s \in Slots, TenantKnown(s), Fulfilled(s), Clean(s),
           (\E c \in Calls : Receive(s, c)) \/ Step(s)
    PROVE  Clean(s)'
<1> USE DEF TypeInv, TypeOK
<1>0. applied'[s] \subseteq {"policy", "principal"}
  OBVIOUS
<1>1. CASE \E c \in Calls : Receive(s, c)
  BY <1>1 DEF Receive, Clean
<1>2. CASE IncrementPolicyVersion(s)
  <2> DEFINE t == call[s].tenant
  <2>1. HasTenant(t)
    BY <1>2 DEF IncrementPolicyVersion, TenantKnown
  <2>2. Incrementable(policyVersion[t])
    BY <2>1 DEF HasTenant, Untroubled
  <2>3. PICK lost \in BOOLEAN : Outcome(lost) /\ Settle(s, "policy", ~lost)
    BY <1>2, <2>1, <2>2 DEF IncrementPolicyVersion
  <2>4. ~lost
    BY <2>3 DEF Outcome, Untroubled
  <2>5. Settle(s, "policy", TRUE)
    BY <2>3, <2>4
  <2> QED
    BY <1>0, <1>2, <2>5, SettleClean DEF IncrementPolicyVersion
<1>3. CASE IncrementPrincipalVersion(s)
  <2> DEFINE p == call[s].of
  <2>1. call[s].op = "assignRole"
    BY <1>3 DEF IncrementPrincipalVersion, Clean, Increments
  <2>2. FindById("principals", call[s].tenant, p)
    BY <1>3, <2>1 DEF IncrementPrincipalVersion, Fulfilled, Present, OfTable, Creates
  <2>3. Incrementable(principalVersion[p])
    BY <2>2 DEF FindById, Untroubled
  <2>4. PICK lost \in BOOLEAN : Outcome(lost) /\ Settle(s, "principal", ~lost)
    BY <1>3, <2>2, <2>3 DEF IncrementPrincipalVersion
  <2>5. ~lost
    BY <2>4 DEF Outcome, Untroubled
  <2>6. Settle(s, "principal", TRUE)
    BY <2>4, <2>5
  <2> QED
    BY <1>0, <1>3, <2>6, SettleClean DEF IncrementPrincipalVersion
<1>4. ~StatementFails(s)
  BY DEF StatementFails, Untroubled
<1>5. CASE pc[s] \in Early /\ Step(s) /\ ~StatementFails(s)
  <2>1. status[s] = 0 /\ applied[s] = {}
    BY <1>5 DEF AckInv, Accounted, Clean, Early
  <2>2. call' = call /\ applied'[s] = {}
    BY <1>5, <2>1 DEF Early, Step, RequireTenant, CreateTenant, CreatePrincipal,
       CreateModelRow, Lookup, RecheckRole, LinkPermission, LinkRole,
       IncrementPolicyVersion, IncrementPrincipalVersion
  <2>3. CASE CreateModelRow(s)
    <3>1. /\ pc'[s] # "idle" => status'[s] = 0
          /\ pc'[s] = "bump" => awaiting'[s] = Increments(call[s].op)
      BY <2>1, <2>3 DEF CreateModelRow, Answer, GoTo
    <3> QED
      BY <2>2, <3>1 DEF Clean
  <2>4. CASE LinkPermission(s) \/ LinkRole(s)
    <3>1. /\ pc'[s] # "idle" => status'[s] = 0
          /\ pc'[s] = "bump" => awaiting'[s] = Increments(call[s].op)
      BY <2>1, <2>4, LinkReturnsLemma DEF LinkReturns, Answer, GoTo
    <3> QED
      BY <2>2, <3>1 DEF Clean
  <2>5. CASE RequireTenant(s) \/ CreateTenant(s) \/ CreatePrincipal(s)
    <3>1. pc'[s] # "bump" /\ (pc'[s] # "idle" => status'[s] = 0)
      BY <2>1, <2>5 DEF RequireTenant, CreateTenant, CreatePrincipal, Answer, GoTo
    <3> QED
      BY <2>2, <3>1 DEF Clean
  <2>6. CASE (\E end \in {"of", "to"} : Lookup(s, end)) \/ RecheckRole(s)
    <3>1. pc'[s] # "bump" /\ (pc'[s] # "idle" => status'[s] = 0)
      BY <2>1, <2>6 DEF Lookup, RecheckRole, Answer, GoTo
    <3> QED
      BY <2>2, <3>1 DEF Clean
  <2> QED
    BY <1>5, <2>3, <2>4, <2>5, <2>6 DEF Step, Early, IncrementPolicyVersion,
       IncrementPrincipalVersion
<1>6. Step(s) /\ pc[s] \notin Early =>
        IncrementPolicyVersion(s) \/ IncrementPrincipalVersion(s) \/ StatementFails(s)
  BY DEF Step, Early, RequireTenant, CreateTenant, CreatePrincipal, CreateModelRow,
     Lookup, RecheckRole, LinkPermission, LinkRole
<1> QED
  BY <1>1, <1>2, <1>3, <1>4, <1>5, <1>6

LEMMA NextCleanInv ==
    /\ TypeInv /\ IsolationInv /\ AckInv /\ OwedInv /\ AnswerInv /\ CleanInv
    /\ [Next]_vars
    => CleanInv'
<1> SUFFICES ASSUME TypeInv, IsolationInv, AckInv, OwedInv, AnswerInv, CleanInv,
                    [Next]_vars, Untroubled', NEW z \in Slots
             PROVE  Clean(z)'
  BY DEF CleanInv
<1>1. Untroubled /\ Clean(z) /\ failures' = 0
  BY UntroubledBefore DEF IsolationInv, CleanInv, Untroubled
<1>2. AckInv' /\ TypeInv'
  BY NextAckInv, NextTypes
<1>3. Untouched(z) => Clean(z)'
  BY <1>1 DEF Untouched, Clean
<1>4. ASSUME NEW s \in Slots, (\E c \in Calls : Receive(s, c)) \/ Step(s)
      PROVE  Clean(z)'
  <2>1. CASE z = s
    BY <1>1, <1>2, <1>4, <2>1, NextClean DEF OwedInv, AnswerInv
  <2>2. CASE z # s
    BY <1>3, <1>4, <2>2, OthersUntouched
  <2> QED
    BY <2>1, <2>2
<1>5. UNCHANGED vars => Untouched(z)
  BY DEF vars, slotVars, Untouched
<1> QED
  BY <1>3, <1>4, <1>5 DEF Next, Quiet

LEMMA CleanKeepsRules ==
    TypeInv /\ OwedInv /\ CleanInv => (Untroubled => BothOrNeither /\ AnyChangeInvalidates)
<1> SUFFICES ASSUME TypeInv, OwedInv, CleanInv, Untroubled
             PROVE  BothOrNeither /\ AnyChangeInvalidates
  OBVIOUS
<1>1. BothOrNeither
  BY DEF CleanInv, Clean, BothOrNeither
<1>2. ASSUME \A s \in Slots : pc[s] = "idle", NEW u \in uncovered PROVE FALSE
  <2>1. PICK w \in tenants : w.id = u.tenant
    BY <1>2 DEF OwedInv, HasTenant
  <2>2. policyVersion[w.id] < IntMax /\ policyVersion[w.id] \in 0..IntMax
    BY <2>1 DEF Untroubled, Incrementable, TypeInv, TypeOK, TenantRow
  <2>3. policyVersion[u.tenant] = IntMax
    BY <1>2 DEF OwedInv, ChangesOwed, Untroubled
  <2> QED
    BY <2>1, <2>2, <2>3, ParametersAssumption
<1> QED
  BY <1>1, <1>2 DEF AnyChangeInvalidates

\* The two documented rules hold in every state that no failed statement and
\* no exhausted counter came before: what the runs that refute them need is
\* all it takes, and interleaving alone does not do it.
THEOREM RulesHoldUntilTrouble ==
    Spec => [](Untroubled => BothOrNeither /\ AnyChangeInvalidates)
  BY InitTypes, NextTypes, InitIsolation, NextIsolation, InitAck, NextAckInv,
     InitOwed, NextOwed, InitAnswers, NextAnswerInv, InitClean, NextCleanInv,
     CleanKeepsRules, PTL DEF Spec

----------------------------------------------------------------------------
(* What a request has left to do.  That a request in progress is answered  *)
(* in the end is a matter of fairness; that each of its steps brings it    *)
(* nearer to the end, and that it only waits for what is in flight, is not.*)

OneIf(b) == IF b THEN 1 ELSE 0
InFlight(s, part) == OneIf(part \in awaiting[s])

Left(s) ==
    IF pc[s] = "tenant" THEN 7
    ELSE IF pc[s] = "lookup" THEN 4 + InFlight(s, "of") + InFlight(s, "to")
    ELSE IF pc[s] = "recheck" THEN 4
    ELSE IF pc[s] \in {"link", "insert"} THEN 3
    ELSE IF pc[s] = "bump" THEN InFlight(s, "policy") + InFlight(s, "principal")
    ELSE 0

\* A Promise.all is awaited as long as one of its members is in flight.
Awaits(s) ==
    /\ pc[s] = "lookup" => awaiting[s] # {} /\ awaiting[s] \subseteq {"of", "to"}
    /\ pc[s] = "bump" => awaiting[s] # {} /\ awaiting[s] \subseteq {"policy", "principal"}

AwaitInv == \A s \in Slots : Awaits(s)

LEMMA InitAwait == Init => AwaitInv
  BY DEF Init, AwaitInv, Awaits

\* Zero steps are left exactly when the handler has ended.
LEMMA LeftRange ==
    ASSUME TypeInv, NEW s \in Slots, Awaits(s)
    PROVE  Left(s) \in 0..7 /\ (Left(s) = 0 <=> pc[s] = "idle")
  BY DEF TypeInv, TypeOK, Awaits, Left, InFlight, OneIf

\* A member of a Promise.all that settles is no longer in flight.
LEMMA SettleLeft ==
    ASSUME TypeInv, NEW s \in Slots, Awaits(s), pc[s] = "bump", NEW part \in awaiting[s],
           NEW ok, Settle(s, part, ok)
    PROVE  Awaits(s)' /\ Left(s)' < Left(s)
<1> USE DEF TypeInv, TypeOK
<1> DEFINE rest == awaiting[s] \ {part}
<1>1. part \in {"policy", "principal"} /\ awaiting[s] \subseteq {"policy", "principal"}
  BY DEF Awaits
<1>2. awaiting'[s] = rest /\ pc'[s] = IF rest = {} THEN "idle" ELSE "bump"
  BY DEF Settle
<1>3. Awaits(s)'
  BY <1>1, <1>2 DEF Awaits
<1>4. InFlight(s, "policy")' + InFlight(s, "principal")' <
        InFlight(s, "policy") + InFlight(s, "principal")
  BY <1>1, <1>2 DEF InFlight, OneIf
<1>5. Left(s) = InFlight(s, "policy") + InFlight(s, "principal") /\ Left(s) > 0
  BY <1>1 DEF Left, InFlight, OneIf
<1>6. Left(s)' = 0 \/ Left(s)' = InFlight(s, "policy")' + InFlight(s, "principal")'
  BY <1>2 DEF Left
<1> QED
  BY <1>3, <1>4, <1>5, <1>6

LEMMA StepLeft ==
    ASSUME TypeInv, NEW s \in Slots, Awaits(s), Step(s)
    PROVE  Awaits(s)' /\ Left(s)' < Left(s)
<1> USE DEF TypeInv, TypeOK
<1>0. ASSUME pc'[s] = "idle", pc[s] # "idle" PROVE Awaits(s)' /\ Left(s)' < Left(s)
  BY <1>0, LeftRange DEF Awaits, Left
<1>1. CASE RequireTenant(s)
  BY <1>1 DEF RequireTenant, Answer, GoTo, Awaits, Left, InFlight, OneIf
<1>2. CASE CreateTenant(s) \/ CreatePrincipal(s)
  BY <1>0, <1>2 DEF CreateTenant, CreatePrincipal, Answer
<1>3. CASE CreateModelRow(s)
  <2>1. pc[s] = "insert"
    BY <1>3 DEF CreateModelRow
  <2>2. \/ pc'[s] = "idle"
        \/ pc'[s] = "bump" /\ awaiting'[s] = Increments(call[s].op)
    BY <1>3 DEF CreateModelRow, Answer, GoTo
  <2>3. CASE pc'[s] = "bump" /\ awaiting'[s] = Increments(call[s].op)
    <3>1. awaiting'[s] \in {{"policy"}, {"policy", "principal"}}
      BY <2>3 DEF Increments
    <3>2. Left(s)' \in {1, 2} /\ Left(s) = 3
      BY <2>1, <2>3, <3>1 DEF Left, InFlight, OneIf
    <3>3. Left(s)' < Left(s)
      BY <3>2
    <3>4. Awaits(s)'
      BY <2>3, <3>1 DEF Awaits
    <3> QED
      BY <3>3, <3>4
  <2> QED
    BY <1>0, <2>1, <2>2, <2>3
<1>4. CASE \E end \in {"of", "to"} : Lookup(s, end)
  <2>1. PICK end \in {"of", "to"} : Lookup(s, end)
    BY <1>4
  <2>2. /\ pc[s] = "lookup" /\ end \in awaiting[s] /\ awaiting[s] \subseteq {"of", "to"}
        /\ awaiting'[s] = awaiting[s] \ {end}
    BY <2>1 DEF Lookup, Awaits
  <2>3. \/ awaiting[s] # {end} /\ pc'[s] = "lookup"
        \/ pc'[s] \in {"idle", "recheck", "link"}
    BY <2>1, <2>2 DEF Lookup, Answer, GoTo
  <2> QED
    BY <2>2, <2>3 DEF Awaits, Left, InFlight, OneIf
<1>5. CASE RecheckRole(s)
  BY <1>5 DEF RecheckRole, Answer, GoTo, Awaits, Left
<1>6. CASE LinkPermission(s) \/ LinkRole(s)
  <2>1. pc[s] = "link"
    BY <1>6 DEF LinkPermission, LinkRole
  <2>2. \/ pc'[s] = "idle"
        \/ pc'[s] = "bump" /\ awaiting'[s] = Increments(call[s].op)
    BY <1>6, LinkReturnsLemma DEF LinkReturns, Answer, GoTo
  <2>3. CASE pc'[s] = "bump" /\ awaiting'[s] = Increments(call[s].op)
    <3>1. awaiting'[s] \in {{"policy"}, {"policy", "principal"}}
      BY <2>3 DEF Increments
    <3>2. Left(s)' \in {1, 2} /\ Left(s) = 3
      BY <2>1, <2>3, <3>1 DEF Left, InFlight, OneIf
    <3>3. Left(s)' < Left(s)
      BY <3>2
    <3>4. Awaits(s)'
      BY <2>3, <3>1 DEF Awaits
    <3> QED
      BY <3>3, <3>4
  <2> QED
    BY <1>0, <2>1, <2>2, <2>3
<1>7. CASE IncrementPolicyVersion(s)
  <2>1. pc[s] = "bump" /\ "policy" \in awaiting[s]
    BY <1>7 DEF IncrementPolicyVersion
  <2> QED
    BY <1>7, <2>1, SettlePolicy, SettleLeft
<1>8. CASE IncrementPrincipalVersion(s)
  <2>1. pc[s] = "bump" /\ "principal" \in awaiting[s]
    BY <1>8 DEF IncrementPrincipalVersion
  <2> QED
    BY <1>8, <2>1, SettlePrincipal, SettleLeft
<1>9. CASE StatementFails(s)
  <2>1. CASE pc[s] = "bump"
    BY <1>9, <2>1, SettleLeft DEF StatementFails
  <2>2. CASE pc[s] # "bump"
    BY <1>0, <1>9, <2>2 DEF StatementFails, Answer
  <2> QED
    BY <2>1, <2>2
<1> QED
  BY <1>1, <1>2, <1>3, <1>4, <1>5, <1>6, <1>7, <1>8, <1>9 DEF Step

LEMMA NextAwait == TypeInv /\ AwaitInv /\ [Next]_vars => AwaitInv'
<1> SUFFICES ASSUME TypeInv, AwaitInv, [Next]_vars, NEW z \in Slots PROVE Awaits(z)'
  BY DEF AwaitInv
<1>1. Untouched(z) => Awaits(z)'
  BY DEF Untouched, AwaitInv, Awaits
<1>2. ASSUME \E c \in Calls : Receive(z, c) PROVE Awaits(z)'
  BY <1>2 DEF Receive, TypeInv, TypeOK, Awaits
<1>3. ASSUME NEW s \in Slots, (\E c \in Calls : Receive(s, c)) \/ Step(s)
      PROVE  Awaits(z)'
  <2>1. CASE z = s
    BY <1>2, <1>3, <2>1, StepLeft DEF AwaitInv
  <2>2. CASE z # s
    BY <1>1, <1>3, <2>2, OthersUntouched
  <2> QED
    BY <2>1, <2>2
<1>4. UNCHANGED vars => Untouched(z)
  BY DEF vars, slotVars, Untouched
<1> QED
  BY <1>1, <1>3, <1>4 DEF Next, Quiet

\* A step brings its request nearer to the end and no other one further away.
StepsRunOut ==
    \A s \in Slots : Step(s) =>
      /\ Left(s)' < Left(s)
      /\ \A z \in Slots \ {s} : Left(z)' = Left(z)

LEMMA AwaitingRunsOut == ASSUME TypeInv, AwaitInv PROVE StepsRunOut
<1>1. ASSUME NEW s \in Slots, Step(s), NEW z \in Slots \ {s} PROVE Left(z)' = Left(z)
  BY <1>1, OthersUntouched DEF Untouched, Left, InFlight
<1> QED
  BY <1>1, StepLeft DEF AwaitInv, StepsRunOut

\* No handler waits for nothing, and none goes round in circles: at most seven
\* of its steps lead a request to its end, which is the only place where none
\* is left, and no other request's step takes it back.
THEOREM RequestsRunOut ==
    Spec => /\ [](\A s \in Slots : Left(s) \in 0..7 /\ (Left(s) = 0 <=> pc[s] = "idle"))
            /\ [][StepsRunOut]_vars
<1>1. TypeInv /\ AwaitInv =>
        \A s \in Slots : Left(s) \in 0..7 /\ (Left(s) = 0 <=> pc[s] = "idle")
  BY LeftRange DEF AwaitInv
<1>2. TypeInv /\ AwaitInv => [StepsRunOut]_vars
  BY AwaitingRunsOut
<1> QED
  BY InitTypes, NextTypes, InitAwait, NextAwait, <1>1, <1>2, PTL DEF Spec
====
