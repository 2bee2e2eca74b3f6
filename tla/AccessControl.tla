---- MODULE AccessControl ----
(***************************************************************************)
(* The management plane of the policy engine: the admin HTTP handlers that *)
(* write tenants, principals, roles, permissions, policies and the two     *)
(* assignment tables, and the version counters they increment.             *)
(*                                                                         *)
(* A handler is a sequence of awaits, each of which is one SQL statement   *)
(* in its own implicit transaction, so handlers interleave between         *)
(* statements.  A statement can fail without an effect, or take effect and *)
(* have its answer lost with the connection.  One slot is one request in   *)
(* progress.  No code deletes or updates a row except for the counters.    *)
(***************************************************************************)
EXTENDS Integers, FiniteSets

CONSTANTS
    Slots,        \* requests that can be in progress together
    TenantIds,    \* ids crypto.randomUUID() may give a tenant
    Ids,          \* ids it may give a row of any other table
    Keys,         \* natural keys: slug, external_id, role or policy name
    None,         \* "no such field"
    Seed,         \* the tables when the observation starts
    Calls,        \* the requests clients send
    IntMax,       \* largest value of a Postgres integer column
    LosesAnswers, \* whether a connection can break between an effect and its answer
    MaxRequests,  \* bound on the requests received
    MaxFailures   \* bound on the statements that fail or lose their answer

Tables == {"principals", "roles", "permissions", "policies"}
Row == [id : Ids, tenant : TenantIds, key : Keys]
TenantRow == [id : TenantIds, slug : Keys]
Link == [of : Ids, to : Ids]

Creates == {"createPrincipal", "createRole", "createPermission", "createPolicy"}
Assigns == {"assignPermission", "assignRole"}
Ops == Creates \cup Assigns \cup {"createTenant"}

\* The table a create writes, and the tables that hold the two ends of a link.
TableOf(op) == CASE op = "createPrincipal"  -> "principals"
                 [] op = "createRole"       -> "roles"
                 [] op = "createPermission" -> "permissions"
                 [] op = "createPolicy"     -> "policies"
OfTable(op) == IF op = "assignRole" THEN "principals" ELSE "roles"
ToTable(op) == IF op = "assignRole" THEN "roles" ELSE "permissions"

AllCalls ==
    [op : Ops, tenant : TenantIds \cup {None}, key : Keys \cup {None},
     of : Ids \cup {None}, to : Ids \cup {None}, valid : BOOLEAN]

\* A change of the authorization model: what a decision may depend on.
Change == [op : Ops, tenant : TenantIds, of : Ids, to : Ids \cup {None}]

ASSUME ParametersAssumption ==
    /\ None \notin TenantIds \cup Ids \cup Keys
    /\ IntMax \in Nat \ {0} /\ MaxRequests \in Nat /\ MaxFailures \in Nat
    /\ LosesAnswers \in BOOLEAN
    /\ Calls \subseteq AllCalls
    /\ \A c \in Calls :
         /\ c.op = "createTenant" => c.key # None
         /\ c.op # "createTenant" => c.tenant # None
         /\ c.op \in Creates => c.key # None
         /\ c.op \in Assigns => c.of # None /\ c.to # None

ASSUME SeedAssumption ==
    /\ Seed.tenants \subseteq TenantRow
    /\ Seed.rows \in [Tables -> SUBSET Row]
    /\ \A tb \in Tables : \A x \in Seed.rows[tb] :
         \E w \in Seed.tenants : w.id = x.tenant
    /\ \A tb1, tb2 \in Tables : \A x \in Seed.rows[tb1], y \in Seed.rows[tb2] :
         x.id = y.id => tb1 = tb2 /\ x = y

VARIABLES
    tenants,           \* table tenants
    rows,              \* tables principals, roles, permissions, policies
    rolePermissions,   \* junction table role_permissions
    principalRoles,    \* junction table principal_roles
    policyVersion,     \* tenants.policy_version (0: no such tenant)
    principalVersion,  \* principals.principal_version (0: no such principal)
    pc,                \* the statement each slot awaits
    call,              \* the request each slot serves
    status,            \* the HTTP status it was answered with (0: not yet), or Broken
    awaiting,          \* unsettled members of the Promise.all a slot is in
    found,             \* the lookups of that Promise.all that returned a row
    change,            \* history: the model changes a request asked for
    applied,           \* history: the counters a request incremented
    uncovered,         \* history: changes no later policy_version++ followed
    received,          \* requests received so far
    failures           \* statements that failed or lost their answer so far

dbVars == <<tenants, rows, rolePermissions, principalRoles,
            policyVersion, principalVersion>>
slotVars == <<pc, call, status, awaiting, found, change, applied>>
vars == <<dbVars, slotVars, uncovered, received, failures>>

----------------------------------------------------------------------------
(* Statements as functions of the tables. *)

\* SELECT * FROM tenants WHERE id = t
HasTenant(t) == \E w \in tenants : w.id = t

\* Faulty variant for TenantIsolation and FlatConfined: no tenant_id condition.
FindByIdAlone(table, t, i) == \E x \in rows[table] : x.id = i

\* SELECT * FROM <table> WHERE tenant_id = t AND id = i
FindById(table, t, i) == \E x \in rows[table] : x.id = i /\ x.tenant = t

\* The ids of all rows: randomUUID does not return one that is in use.
UsedIds == {x.id : x \in UNION {rows[tb] : tb \in Tables}}

\* UNIQUE (tenant_id, slug | external_id | name)
KeyTaken(table, t, k) == \E x \in rows[table] : x.tenant = t /\ x.key = k

\* Faulty variant for TypeOK: the limit itself can still be incremented.
IncrementableOffByOne(v) == v <= IntMax

\* SET <counter> = <counter> + 1 is an error beyond the integer's range.
Incrementable(v) == v < IntMax

\* RoleRepository.getFlatPermissionSlugs: principal -> roles -> permissions.
\* The principal's own tenant is not part of the query.
FlatPermissionSlugs(t, p) ==
    {x.key : x \in {y \in rows["permissions"] :
        /\ y.tenant = t
        /\ \E pr \in principalRoles, rp \in rolePermissions :
             /\ pr.of = p
             /\ FindById("roles", t, pr.to)
             /\ rp.of = pr.to /\ rp.to = y.id}}

----------------------------------------------------------------------------
(* How a request ends, and how a Promise.all does. *)

SuccessCode(op) == IF op \in Assigns THEN 204 ELSE 201

\* No handler sets it: the client's connection broke before any answer.
Broken == -1

\* A client has one answer, and none over a connection that broke.
Answer(s, code) ==
    /\ pc' = [pc EXCEPT ![s] = "idle"]
    /\ status' = [status EXCEPT ![s] = IF @ = 0 THEN code ELSE @]

GoTo(s, label) ==
    /\ pc' = [pc EXCEPT ![s] = label]
    /\ UNCHANGED status

\* Faulty variant for Answered: a rejected increment is swallowed.
SettleSwallowing(s, part, fulfilled) ==
    LET rest == awaiting[s] \ {part} IN
    /\ awaiting' = [awaiting EXCEPT ![s] = rest]
    /\ status' = [status EXCEPT ![s] =
                    IF fulfilled /\ rest = {} THEN SuccessCode(call[s].op) ELSE @]
    /\ pc' = [pc EXCEPT ![s] = IF rest = {} THEN "idle" ELSE @]

\* A member of the increments' Promise.all settles.  The first rejection
\* answers 500; the other increment stays in flight and still takes effect.
Settle(s, part, fulfilled) ==
    LET rest == awaiting[s] \ {part} IN
    /\ awaiting' = [awaiting EXCEPT ![s] = rest]
    /\ status' = [status EXCEPT ![s] =
                    IF @ # 0 THEN @
                    ELSE IF ~fulfilled THEN 500
                    ELSE IF rest = {} THEN SuccessCode(call[s].op) ELSE 0]
    /\ pc' = [pc EXCEPT ![s] = IF rest = {} THEN "idle" ELSE @]

\* A statement whose effect is kept either returns or loses its answer.
Outcome(lost) ==
    /\ lost => LosesAnswers /\ failures < MaxFailures
    /\ failures' = IF lost THEN failures + 1 ELSE failures

\* Faulty variants for ChangesOwed: only the assignments increment policy_version,
\* or an assigned role is left to principal_version alone.
IncrementsOfAssigns(op) ==
    CASE op = "assignRole"       -> {"policy", "principal"}
      [] op = "assignPermission" -> {"policy"}
      [] OTHER                   -> {}
IncrementsByOwner(op) == IF op = "assignRole" THEN {"principal"} ELSE {"policy"}

\* The increments a handler awaits once its write has returned.
Increments(op) == IF op = "assignRole" THEN {"policy", "principal"} ELSE {"policy"}

----------------------------------------------------------------------------
(* Handlers. *)

\* A request arrives.  Only POST /admin/tenants has no tenant to look up
\* first: it validates its body at once.
Receive(s, c) ==
    /\ pc[s] = "idle"
    /\ received < MaxRequests
    /\ received' = received + 1
    /\ call' = [call EXCEPT ![s] = c]
    /\ change' = [change EXCEPT ![s] = {}]
    /\ applied' = [applied EXCEPT ![s] = {}]
    /\ awaiting' = [awaiting EXCEPT ![s] = {}]
    /\ found' = [found EXCEPT ![s] = {}]
    /\ pc' = [pc EXCEPT ![s] =
                IF c.op # "createTenant" THEN "tenant"
                ELSE IF c.valid THEN "insert" ELSE "idle"]
    /\ status' = [status EXCEPT ![s] =
                    IF c.op = "createTenant" /\ ~c.valid THEN 400 ELSE 0]
    /\ UNCHANGED <<dbVars, uncovered, failures>>

\* requireTenant, then the body's schema, then the service method starts.
RequireTenant(s) ==
    /\ pc[s] = "tenant"
    /\ IF ~HasTenant(call[s].tenant) THEN Answer(s, 404) /\ UNCHANGED awaiting
       ELSE IF ~call[s].valid THEN Answer(s, 400) /\ UNCHANGED awaiting
       ELSE IF call[s].op \in Creates THEN GoTo(s, "insert") /\ UNCHANGED awaiting
       ELSE /\ GoTo(s, "lookup")
            /\ awaiting' = [awaiting EXCEPT ![s] = {"of", "to"}]
    /\ UNCHANGED <<dbVars, call, found, change, applied, uncovered, received, failures>>

\* INSERT INTO tenants: key_version and policy_version default to 1.
CreateTenant(s) ==
    /\ pc[s] = "insert" /\ call[s].op = "createTenant"
    /\ IF \E w \in tenants : w.slug = call[s].key
       THEN /\ Answer(s, 409)
            /\ UNCHANGED <<tenants, policyVersion, failures>>
       ELSE \E t \in TenantIds, lost \in BOOLEAN :
            /\ ~HasTenant(t)
            /\ tenants' = tenants \cup {[id |-> t, slug |-> call[s].key]}
            /\ policyVersion' = [policyVersion EXCEPT ![t] = 1]
            /\ Outcome(lost)
            /\ Answer(s, IF lost THEN 500 ELSE 201)
    /\ UNCHANGED <<rows, rolePermissions, principalRoles, principalVersion, call,
                   awaiting, found, change, applied, uncovered, received>>

\* createPrincipal inserts and answers: it increments no counter.
CreatePrincipal(s) ==
    /\ pc[s] = "insert" /\ call[s].op = "createPrincipal"
    /\ IF KeyTaken("principals", call[s].tenant, call[s].key)
       THEN /\ Answer(s, 409)
            /\ UNCHANGED <<rows, principalVersion, failures>>
       ELSE \E i \in Ids \ UsedIds, lost \in BOOLEAN :
            /\ rows' = [rows EXCEPT !["principals"] = @ \cup
                          {[id |-> i, tenant |-> call[s].tenant, key |-> call[s].key]}]
            /\ principalVersion' = [principalVersion EXCEPT ![i] = 1]
            /\ Outcome(lost)
            /\ Answer(s, IF lost THEN 500 ELSE 201)
    /\ UNCHANGED <<tenants, rolePermissions, principalRoles, policyVersion, call,
                   awaiting, found, change, applied, uncovered, received>>

\* createRole, createPermission, createPolicy: insert, then policy_version++.
CreateModelRow(s) ==
    /\ pc[s] = "insert"
    /\ call[s].op \in {"createRole", "createPermission", "createPolicy"}
    /\ IF KeyTaken(TableOf(call[s].op), call[s].tenant, call[s].key)
       THEN /\ Answer(s, 409)
            /\ UNCHANGED <<rows, awaiting, change, uncovered, failures>>
       ELSE \E i \in Ids \ UsedIds, lost \in BOOLEAN :
            LET u == [op |-> call[s].op, tenant |-> call[s].tenant, of |-> i, to |-> None]
            IN
            /\ rows' = [rows EXCEPT ![TableOf(call[s].op)] = @ \cup
                          {[id |-> i, tenant |-> call[s].tenant, key |-> call[s].key]}]
            /\ change' = [change EXCEPT ![s] = {u}]
            /\ uncovered' = uncovered \cup {u}
            /\ Outcome(lost)
            /\ IF lost
               THEN Answer(s, 500) /\ UNCHANGED awaiting
               ELSE /\ GoTo(s, "bump")
                    /\ awaiting' = [awaiting EXCEPT ![s] = Increments(call[s].op)]
    /\ UNCHANGED <<tenants, rolePermissions, principalRoles, policyVersion,
                   principalVersion, call, found, applied, received>>

\* Faulty variant for AnswersHold: only the row on the left is looked at.
LeftThere(back) == "of" \in back

\* Neither of the two rows is null.
BothThere(back) == back = {"of", "to"}

\* One of the two findById of assignPermissionToRole or assignRoleToPrincipal
\* returns; with both back, an absent row is a 404.
Lookup(s, end) ==
    /\ pc[s] = "lookup" /\ end \in awaiting[s]
    /\ LET table == IF end = "of" THEN OfTable(call[s].op) ELSE ToTable(call[s].op)
           id    == IF end = "of" THEN call[s].of ELSE call[s].to
           back  == found[s] \cup
                      (IF FindById(table, call[s].tenant, id) THEN {end} ELSE {})
       IN
       /\ found' = [found EXCEPT ![s] = back]
       /\ awaiting' = [awaiting EXCEPT ![s] = @ \ {end}]
       /\ IF awaiting[s] # {end} THEN UNCHANGED <<pc, status>>
          ELSE IF ~BothThere(back) THEN Answer(s, 404)
          ELSE IF call[s].op = "assignPermission" THEN GoTo(s, "recheck")
          ELSE GoTo(s, "link")
    /\ UNCHANGED <<dbVars, call, change, applied, uncovered, received, failures>>

\* roleRepo.assignPermission reads the role again; its Error is no NotFoundError.
RecheckRole(s) ==
    /\ pc[s] = "recheck"
    /\ IF FindById("roles", call[s].tenant, call[s].of)
       THEN GoTo(s, "link") ELSE Answer(s, 500)
    /\ UNCHANGED <<dbVars, call, awaiting, found, change, applied, uncovered,
                   received, failures>>

\* The change an assignment makes, whether or not its row was there before.
AssignedChange(c) ==
    [op |-> c.op, tenant |-> c.tenant, of |-> c.of, to |-> c.to]

\* Faulty variant for AckCovered: nothing to increment after a no-op.
LinkedIfInserted(s, inserted) ==
    /\ change' = [change EXCEPT ![s] = {AssignedChange(call[s])}]
    /\ UNCHANGED failures
    /\ IF inserted
       THEN /\ GoTo(s, "bump")
            /\ uncovered' = uncovered \cup {AssignedChange(call[s])}
            /\ awaiting' = [awaiting EXCEPT ![s] = Increments(call[s].op)]
       ELSE Answer(s, 204) /\ UNCHANGED <<uncovered, awaiting>>

\* What follows the junction INSERT: the increments, also after a no-op.
Linked(s, inserted) ==
    \E lost \in BOOLEAN :
      /\ change' = [change EXCEPT ![s] = {AssignedChange(call[s])}]
      /\ uncovered' = IF inserted THEN uncovered \cup {AssignedChange(call[s])}
                                  ELSE uncovered
      /\ Outcome(lost)
      /\ IF lost
         THEN Answer(s, 500) /\ UNCHANGED awaiting
         ELSE /\ GoTo(s, "bump")
              /\ awaiting' = [awaiting EXCEPT ![s] = Increments(call[s].op)]

\* INSERT INTO role_permissions ... ON CONFLICT DO NOTHING
LinkPermission(s) ==
    /\ pc[s] = "link" /\ call[s].op = "assignPermission"
    /\ LET row == [of |-> call[s].of, to |-> call[s].to] IN
       /\ rolePermissions' = rolePermissions \cup {row}
       /\ Linked(s, row \notin rolePermissions)
    /\ UNCHANGED <<tenants, rows, principalRoles, policyVersion, principalVersion,
                   call, found, applied, received>>

\* INSERT INTO principal_roles SELECT ... JOIN ... ON CONFLICT DO NOTHING: the
\* join yields the pair only when both ends are in the tenant.
LinkRole(s) ==
    /\ pc[s] = "link" /\ call[s].op = "assignRole"
    /\ LET joined == IF /\ FindById("principals", call[s].tenant, call[s].of)
                        /\ FindById("roles", call[s].tenant, call[s].to)
                     THEN {[of |-> call[s].of, to |-> call[s].to]} ELSE {}
       IN
       /\ principalRoles' = principalRoles \cup joined
       /\ Linked(s, ~(joined \subseteq principalRoles))
    /\ UNCHANGED <<tenants, rows, rolePermissions, policyVersion, principalVersion,
                   call, found, applied, received>>

\* Faulty variant for VersionIdentifies: the new value is computed from the row of
\* a new tenant, not by the database.
IncrementFromNewRow(s) ==
    /\ pc[s] = "bump" /\ "policy" \in awaiting[s]
    /\ policyVersion' = [policyVersion EXCEPT ![call[s].tenant] = 2]
    /\ uncovered' = {u \in uncovered : u.tenant # call[s].tenant}
    /\ applied' = [applied EXCEPT ![s] = @ \cup {"policy"}]
    /\ Settle(s, "policy", TRUE)
    /\ UNCHANGED <<tenants, rows, rolePermissions, principalRoles, principalVersion,
                   call, found, change, received, failures>>

\* UPDATE tenants SET policy_version = policy_version + 1: an error when there
\* is no such row or the integer is at its limit.
IncrementPolicyVersion(s) ==
    /\ pc[s] = "bump" /\ "policy" \in awaiting[s]
    /\ LET t == call[s].tenant IN
       IF HasTenant(t) /\ Incrementable(policyVersion[t])
       THEN \E lost \in BOOLEAN :
            /\ policyVersion' = [policyVersion EXCEPT ![t] = @ + 1]
            /\ uncovered' = {u \in uncovered : u.tenant # t}
            /\ applied' = [applied EXCEPT ![s] = @ \cup {"policy"}]
            /\ Outcome(lost)
            /\ Settle(s, "policy", ~lost)
       ELSE /\ Settle(s, "policy", FALSE)
            /\ UNCHANGED <<policyVersion, uncovered, applied, failures>>
    /\ UNCHANGED <<tenants, rows, rolePermissions, principalRoles, principalVersion,
                   call, found, change, received>>

\* UPDATE principals SET principal_version = principal_version + 1, likewise.
IncrementPrincipalVersion(s) ==
    /\ pc[s] = "bump" /\ "principal" \in awaiting[s]
    /\ LET p == call[s].of IN
       IF FindById("principals", call[s].tenant, p) /\ Incrementable(principalVersion[p])
       THEN \E lost \in BOOLEAN :
            /\ principalVersion' = [principalVersion EXCEPT ![p] = @ + 1]
            /\ applied' = [applied EXCEPT ![s] = @ \cup {"principal"}]
            /\ Outcome(lost)
            /\ Settle(s, "principal", ~lost)
       ELSE /\ Settle(s, "principal", FALSE)
            /\ UNCHANGED <<principalVersion, applied, failures>>
    /\ UNCHANGED <<tenants, rows, rolePermissions, principalRoles, policyVersion,
                   uncovered, call, found, change, received>>

\* A statement fails and leaves no effect: the handler's error reaches Fastify.
StatementFails(s) ==
    /\ pc[s] # "idle"
    /\ failures < MaxFailures
    /\ failures' = failures + 1
    /\ IF pc[s] = "bump"
       THEN \E part \in awaiting[s] : Settle(s, part, FALSE)
       ELSE Answer(s, 500) /\ awaiting' = [awaiting EXCEPT ![s] = {}]
    /\ UNCHANGED <<dbVars, call, found, change, applied, uncovered, received>>

----------------------------------------------------------------------------
NoCall == [op |-> "createTenant", tenant |-> None, key |-> None,
           of |-> None, to |-> None, valid |-> FALSE]

Init ==
    /\ tenants = Seed.tenants
    /\ rows = Seed.rows
    /\ rolePermissions = {} /\ principalRoles = {}
    /\ policyVersion = [t \in TenantIds |-> IF HasTenant(t) THEN 1 ELSE 0]
    /\ principalVersion = [i \in Ids |->
                             IF \E x \in rows["principals"] : x.id = i THEN 1 ELSE 0]
    /\ pc = [s \in Slots |-> "idle"]
    /\ call = [s \in Slots |-> NoCall]
    /\ status = [s \in Slots |-> 0]
    /\ awaiting = [s \in Slots |-> {}]
    /\ found = [s \in Slots |-> {}]
    /\ change = [s \in Slots |-> {}]
    /\ applied = [s \in Slots |-> {}]
    /\ uncovered = {} /\ received = 0 /\ failures = 0

\* The steps of the request in slot s, the arrival of one excepted.
Step(s) ==
    \/ RequireTenant(s)
    \/ CreateTenant(s)
    \/ CreatePrincipal(s)
    \/ CreateModelRow(s)
    \/ \E end \in {"of", "to"} : Lookup(s, end)
    \/ RecheckRole(s)
    \/ LinkPermission(s)
    \/ LinkRole(s)
    \/ IncrementPolicyVersion(s)
    \/ IncrementPrincipalVersion(s)
    \/ StatementFails(s)

\* The bound on requests is reached and every request has ended.
Quiet ==
    /\ received = MaxRequests
    /\ \A s \in Slots : pc[s] = "idle"
    /\ UNCHANGED vars

Next ==
    \/ \E s \in Slots : (\E c \in Calls : Receive(s, c)) \/ Step(s)
    \/ Quiet

Spec == Init /\ [][Next]_vars

\* Every statement sent to Postgres returns or fails in the end (a socket error
\* or connect_timeout rejects it), so a slot with work to do takes a step.
FairSpec == Spec /\ \A s \in Slots : WF_vars(Step(s))

----------------------------------------------------------------------------
(* Properties. *)

\* Types: every table holds rows of its columns, every counter stays within
\* the integer column, every slot awaits what its statement can settle.
TypeOK ==
    /\ tenants \subseteq TenantRow
    /\ rows \in [Tables -> SUBSET Row]
    /\ rolePermissions \subseteq Link /\ principalRoles \subseteq Link
    /\ policyVersion \in [TenantIds -> 0..IntMax]
    /\ principalVersion \in [Ids -> 0..IntMax]
    /\ pc \in [Slots -> {"idle", "tenant", "insert", "lookup", "recheck", "link", "bump"}]
    /\ call \in [Slots -> Calls \cup {NoCall}]
    /\ status \in [Slots -> {0, Broken, 201, 204, 400, 404, 409, 500}]
    /\ awaiting \in [Slots -> SUBSET {"of", "to", "policy", "principal"}]
    /\ found \in [Slots -> SUBSET {"of", "to"}]
    /\ change \in [Slots -> SUBSET Change]
    /\ applied \in [Slots -> SUBSET {"policy", "principal"}]
    /\ uncovered \subseteq Change
    /\ received \in 0..MaxRequests /\ failures \in 0..MaxFailures

\* Two rows belong to the same tenant.
SameTenant(tb1, i, tb2, j) ==
    \E x \in rows[tb1], y \in rows[tb2] : x.id = i /\ y.id = j /\ x.tenant = y.tenant

\* A junction row never crosses tenants, though neither junction table has a
\* tenant column and role_permissions' INSERT checks only the role: the checks
\* of the service, a Promise.all earlier, are what keeps tenants apart.
TenantIsolation ==
    /\ \A l \in rolePermissions : SameTenant("roles", l.of, "permissions", l.to)
    /\ \A l \in principalRoles : SameTenant("principals", l.of, "roles", l.to)

\* getFlatPermissionSlugs does not look at the principal's tenant, yet no
\* tenant obtains slugs for a principal that belongs to another one.
FlatConfined ==
    \A t \in TenantIds, p \in Ids :
      FlatPermissionSlugs(t, p) # {} =>
        \E x \in rows["principals"] : x.id = p /\ x.tenant = t

\* A request answered with success has had its change followed by a
\* policy_version++ of its tenant, and an assigned principal by an increment
\* of its own counter -- also when the junction row was left by an earlier
\* attempt that was answered 500 before it reached the counters.
AckCovered ==
    \A s \in Slots : status[s] \in {201, 204} =>
      /\ change[s] \cap uncovered = {}
      /\ call[s].op = "assignRole" => applied[s] = {"policy", "principal"}

\* What the request asks for is there, in its own tenant.
Present(c) ==
    IF c.op = "createTenant" THEN \E w \in tenants : w.slug = c.key
    ELSE IF c.op \in Creates THEN KeyTaken(TableOf(c.op), c.tenant, c.key)
    ELSE /\ FindById(OfTable(c.op), c.tenant, c.of)
         /\ FindById(ToTable(c.op), c.tenant, c.to)
         /\ [of |-> c.of, to |-> c.to] \in
              (IF c.op = "assignRole" THEN principalRoles ELSE rolePermissions)

\* A 201, 204 or 409 says that what was asked for is there.  A repeated INSERT
\* of an assignment, and one whose join finds no pair, insert nothing and are
\* answered 204 like the others: after the first the row is there, and the
\* second must not happen.
AnswersHold ==
    \A s \in Slots : status[s] \in {201, 204, 409} => Present(call[s])

\* As long as nothing has failed and the counter is not at its limit, a change
\* that decisions cached under the current policy_version have not seen is
\* owed an increment by some request in progress.
ChangesOwed ==
    failures = 0 =>
      \A u \in uncovered :
        \/ policyVersion[u.tenant] = IntMax
        \/ \E s \in Slots : pc[s] = "bump" /\ "policy" \in awaiting[s]
                            /\ call[s].tenant = u.tenant

\* The documented rule: "any change to the policy set invalidates the tenant's
\* decision cache" -- no change is left behind once every request has ended.
AnyChangeInvalidates ==
    (\A s \in Slots : pc[s] = "idle") => uncovered = {}

\* What the rule means to a client that repeats its request until it hears that
\* the row is there (201, or 409 for a repeated create): no change of its tenant
\* is left behind then, whatever became of the earlier attempts.
RetryInvalidates ==
    (\A s \in Slots : pc[s] = "idle") =>
      \A s \in Slots, u \in uncovered :
        status[s] \in {201, 204, 409} => u.tenant # call[s].tenant

\* The documented rule for assignRoleToPrincipal: "both must be incremented
\* atomically from the perspective of the caller" -- when the caller has its
\* answer and nothing is in flight, both counters moved or neither did.
BothOrNeither ==
    \A s \in Slots :
      (pc[s] = "idle" /\ call[s].op = "assignRole") =>
        applied[s] \in {{}, {"policy", "principal"}}

\* Every request is answered, and no increment stays in flight for ever.
Answered ==
    \A s \in Slots : pc[s] # "idle" ~> (pc[s] = "idle" /\ status[s] # 0)
====
