---- MODULE ServiceRegistry ----
(***************************************************************************)
(* The service registry: the admin handlers that create services and       *)
(* routes and list a service's routes, and the list of all routes of a     *)
(* tenant that buildTrie is given.  One slot is one request, one step one  *)
(* awaited SQL statement; a statement fails without an effect, or takes    *)
(* effect and loses its answer.  The order of a list is RouteTrie's part.  *)
(***************************************************************************)
EXTENDS Integers

CONSTANTS
    Slots,         \* requests that can be in progress together
    TenantIds,     \* rows of tenants
    ServiceIds,    \* ids a service may get
    RouteIds,      \* ids a route may get
    Names,         \* service names
    Endpoints,     \* pairs of a method and a path pattern
    PolicyIds,     \* policy ids a client may send
    PolicyTenant,  \* the tenant_id of each row of policies
    None,          \* no tenant, no policy, no name
    Seed,          \* the rows of services when the observation starts
    Calls,         \* the requests clients send
    MaxRequests,   \* bound on the requests received
    MaxFailures    \* bound on the statements that fail or lose their answer

Service == [id : ServiceIds, tenant : TenantIds, name : Names]

\* Rows of routes, and what a list shows of one: the name of a policy is
\* written as the policy that has it.
Policies == DOMAIN PolicyTenant
Route == [id : RouteIds, service : ServiceIds, tenant : TenantIds,
          endpoint : Endpoints, policy : Policies \cup {None}]
Listed == [route : Route, policyName : Policies \cup {None}]

Creates == {"createService", "createRoute"}
Ops == Creates \cup {"listRoutes", "getAllRoutes"}

\* A request.  tenant is None where the path names no tenant there is; valid is
\* whether the body passes its schema.
AllCalls ==
    [op : Ops, tenant : TenantIds \cup {None}, name : Names, service : ServiceIds,
     endpoint : Endpoints, policy : PolicyIds \cup {None}, valid : BOOLEAN]

\* What a slot serves before its first request.
NoCall == [op |-> "none"]

ASSUME RegistryAssumption ==
    /\ None \notin TenantIds \cup PolicyIds
    /\ Policies \subseteq PolicyIds /\ PolicyTenant \in [Policies -> TenantIds]
    /\ Calls \subseteq AllCalls
    /\ \A c \in Calls : c.op = "getAllRoutes" => c.tenant # None
    /\ Seed \subseteq Service
    /\ \A x, y \in Seed : x.id = y.id => x = y
    /\ MaxRequests \in Nat /\ MaxFailures \in Nat

VARIABLES
    services,      \* table services
    routes,        \* table routes
    pc,            \* the statement each slot awaits
    call,          \* the request each slot serves
    status,        \* how it was answered (0: not yet; 500 also: getAllRoutes threw)
    answer,        \* the list it was answered with
    acknowledged,  \* history: routes whose creation has been answered 201
    floor,         \* history: those acknowledged when the request arrived
    received,      \* requests received so far
    failures       \* statements that failed or lost their answer so far

tables == <<services, routes>>
slots == <<pc, call, status, answer>>
vars == <<tables, slots, acknowledged, floor, received, failures>>

----------------------------------------------------------------------------
(* Statements as functions of the tables. *)

\* Faulty variant for RoutesBelong: no tenant_id condition.
FindServiceByIdAlone(t, i) == \E x \in services : x.id = i

\* SELECT * FROM services WHERE tenant_id = t AND id = i
FindServiceById(t, i) == \E x \in services : x.id = i /\ x.tenant = t

\* UNIQUE (tenant_id, name)
NameTaken(t, name) == \E x \in services : x.tenant = t /\ x.name = name

\* Faulty variant for ListsFeedTheTrie: the policy is a part of the key.
EndpointTakenWithPolicy(c) ==
    \E x \in routes : x.service = c.service /\ x.endpoint = c.endpoint /\ x.policy = c.policy

\* UNIQUE (service_id, method, path_pattern)
EndpointTaken(c) == \E x \in routes : x.service = c.service /\ x.endpoint = c.endpoint

\* Faulty variant for TypeOK: policy_id is no reference.
AnyReference(p) == TRUE

\* policy_id REFERENCES policies, nullable; the policy's tenant is not looked at.
References(p) == p \in Policies \cup {None}

\* Faulty variant for ConflictMeansThere: the whole class of the error code.
ErrorStatusOfClass(violation) == IF violation \in {"unique", "foreign key"} THEN 409 ELSE 500

\* isUniqueViolation: the one code 23505.  Any other error reaches Fastify.
ErrorStatus(violation) == IF violation = "unique" THEN 409 ELSE 500

\* Faulty variant for ListsConfined: LEFT JOIN policies p ON p.id = r.policy_id.
JoinedById(x, t) == [route |-> x, policyName |-> x.policy]

\* LEFT JOIN policies p ON p.id = r.policy_id AND p.tenant_id = t
Joined(x, t) ==
    [route |-> x,
     policyName |-> IF x.policy # None /\ PolicyTenant[x.policy] = t THEN x.policy ELSE None]

\* Faulty variant for ListsKnowAcknowledged: JOIN instead of LEFT JOIN.
SelectedByInnerJoin(c) ==
    {Joined(x, c.tenant) : x \in {y \in routes :
        /\ y.tenant = c.tenant /\ (c.op = "listRoutes" => y.service = c.service)
        /\ y.policy # None /\ PolicyTenant[y.policy] = c.tenant}}

\* listRoutesByService and listAllRoutesByTenant.
Selected(c) ==
    {Joined(x, c.tenant) : x \in {y \in routes :
        y.tenant = c.tenant /\ (c.op = "listRoutes" => y.service = c.service)}}

----------------------------------------------------------------------------
(* Handlers. *)

Answer(s, code) ==
    /\ pc' = [pc EXCEPT ![s] = "idle"]
    /\ status' = [status EXCEPT ![s] = code]

GoTo(s, label) == pc' = [pc EXCEPT ![s] = label] /\ UNCHANGED status

\* A statement whose effect is kept either returns or loses its answer.
Outcome(lost) ==
    /\ lost => failures < MaxFailures
    /\ failures' = IF lost THEN failures + 1 ELSE failures

\* A request arrives.  getAllRoutes is called by the gateway at its start, for a
\* tenant there is; it is one statement and no handler.
Receive(s, c) ==
    /\ pc[s] = "idle"
    /\ received < MaxRequests
    /\ received' = received + 1
    /\ call' = [call EXCEPT ![s] = c]
    /\ pc' = [pc EXCEPT ![s] = IF c.op = "getAllRoutes" THEN "select" ELSE "tenant"]
    /\ status' = [status EXCEPT ![s] = 0]
    /\ answer' = [answer EXCEPT ![s] = {}]
    /\ floor' = [floor EXCEPT ![s] = acknowledged]
    /\ UNCHANGED <<tables, acknowledged, failures>>

\* requireTenant, then the schema of a body, then the service method starts.
RequireTenant(s) ==
    /\ pc[s] = "tenant"
    /\ IF call[s].tenant \notin TenantIds THEN Answer(s, 404)
       ELSE IF call[s].op \in Creates /\ ~call[s].valid THEN Answer(s, 400)
       ELSE GoTo(s, IF call[s].op = "createService" THEN "insert" ELSE "service")
    /\ UNCHANGED <<tables, call, answer, acknowledged, floor, received, failures>>

\* createRoute and listRoutes look the service up in the tenant first.
FindService(s) ==
    /\ pc[s] = "service"
    /\ IF FindServiceById(call[s].tenant, call[s].service)
       THEN GoTo(s, IF call[s].op = "createRoute" THEN "insert" ELSE "select")
       ELSE Answer(s, 404)
    /\ UNCHANGED <<tables, call, answer, acknowledged, floor, received, failures>>

\* Faulty variant for ActsAtomically: ON CONFLICT DO NOTHING.
CreateServiceIgnoringConflict(s) ==
    /\ pc[s] = "insert" /\ call[s].op = "createService"
    /\ IF NameTaken(call[s].tenant, call[s].name)
       THEN Answer(s, 201) /\ UNCHANGED <<services, failures>>
       ELSE \E i \in ServiceIds \ {x.id : x \in services}, lost \in BOOLEAN :
            /\ services' = services \cup
                 {[id |-> i, tenant |-> call[s].tenant, name |-> call[s].name]}
            /\ Outcome(lost)
            /\ Answer(s, IF lost THEN 500 ELSE 201)
    /\ UNCHANGED <<routes, call, answer, acknowledged, floor, received>>

\* INSERT INTO services
CreateService(s) ==
    /\ pc[s] = "insert" /\ call[s].op = "createService"
    /\ IF NameTaken(call[s].tenant, call[s].name)
       THEN Answer(s, ErrorStatus("unique")) /\ UNCHANGED <<services, failures>>
       ELSE \E i \in ServiceIds \ {x.id : x \in services}, lost \in BOOLEAN :
            /\ services' = services \cup
                 {[id |-> i, tenant |-> call[s].tenant, name |-> call[s].name]}
            /\ Outcome(lost)
            /\ Answer(s, IF lost THEN 500 ELSE 201)
    /\ UNCHANGED <<routes, call, answer, acknowledged, floor, received>>

\* INSERT INTO routes: Postgres finds a duplicate key before a missing reference.
CreateRoute(s) ==
    /\ pc[s] = "insert" /\ call[s].op = "createRoute"
    /\ IF EndpointTaken(call[s])
       THEN Answer(s, ErrorStatus("unique")) /\ UNCHANGED <<routes, acknowledged, failures>>
       ELSE IF ~References(call[s].policy)
       THEN Answer(s, ErrorStatus("foreign key")) /\ UNCHANGED <<routes, acknowledged, failures>>
       ELSE \E i \in RouteIds \ {x.id : x \in routes}, lost \in BOOLEAN :
            LET row == [id |-> i, service |-> call[s].service, tenant |-> call[s].tenant,
                        endpoint |-> call[s].endpoint, policy |-> call[s].policy]
            IN
            /\ routes' = routes \cup {row}
            /\ acknowledged' = IF lost THEN acknowledged ELSE acknowledged \cup {row}
            /\ Outcome(lost)
            /\ Answer(s, IF lost THEN 500 ELSE 201)
    /\ UNCHANGED <<services, call, answer, floor, received>>

\* The SELECT of a list.
SelectRoutes(s) ==
    /\ pc[s] = "select"
    /\ answer' = [answer EXCEPT ![s] = Selected(call[s])]
    /\ Answer(s, 200)
    /\ UNCHANGED <<tables, call, acknowledged, floor, received, failures>>

\* A statement fails and leaves no effect.
StatementFails(s) ==
    /\ pc[s] # "idle"
    /\ failures < MaxFailures
    /\ failures' = failures + 1
    /\ Answer(s, 500)
    /\ UNCHANGED <<tables, call, answer, acknowledged, floor, received>>

----------------------------------------------------------------------------
Init ==
    /\ services = Seed /\ routes = {}
    /\ pc = [s \in Slots |-> "idle"]
    /\ call = [s \in Slots |-> NoCall]
    /\ status = [s \in Slots |-> 0]
    /\ answer = [s \in Slots |-> {}]
    /\ acknowledged = {}
    /\ floor = [s \in Slots |-> {}]
    /\ received = 0 /\ failures = 0

\* The steps of the request in slot s, the arrival of one excepted.
Step(s) ==
    \/ RequireTenant(s)
    \/ FindService(s)
    \/ CreateService(s)
    \/ CreateRoute(s)
    \/ SelectRoutes(s)
    \/ StatementFails(s)

\* The bound on requests is reached and every request has ended.
Quiet ==
    /\ received = MaxRequests
    /\ \A s \in Slots : pc[s] = "idle"
    /\ UNCHANGED vars

Next ==
    \/ \E s \in Slots : (\E c \in Calls : Receive(s, c)) \/ Step(s)
    \/ Quiet

Spec == Init /\ [][Next]_vars

----------------------------------------------------------------------------
(* Properties. *)

\* Types: a route refers to a policy there is, or to none.
TypeOK ==
    /\ services \subseteq Service /\ routes \subseteq Route
    /\ pc \in [Slots -> {"idle", "tenant", "service", "insert", "select"}]
    /\ call \in [Slots -> AllCalls \cup {NoCall}]
    /\ status \in [Slots -> {0, 200, 201, 400, 404, 409, 500}]
    /\ answer \in [Slots -> SUBSET Listed]
    /\ acknowledged \subseteq Route /\ floor \in [Slots -> SUBSET Route]
    /\ received \in 0..MaxRequests /\ failures \in 0..MaxFailures

\* A route is stored under the tenant of its service: the two columns are
\* written from the request's path, and only the lookup a statement earlier
\* keeps them in agreement.
RoutesBelong ==
    \A x \in routes : \E y \in services : y.id = x.service /\ y.tenant = x.tenant

\* A list shows a tenant nothing of another one: its services only, and no name
\* of a policy of another tenant, though a route may refer to one.
ListsConfined ==
    \A s \in Slots : \A e \in answer[s] :
      /\ \E y \in services : y.id = e.route.service /\ y.tenant = call[s].tenant
      /\ e.policyName # None => PolicyTenant[e.policyName] = call[s].tenant

\* A list holds every route in its scope whose creation had been acknowledged
\* when the list was asked for, whatever was created or failed meanwhile; a
\* route without a policy, which the gateway must deny, is a route like any other.
ListsKnowAcknowledged ==
    \A s \in Slots : status[s] = 200 =>
      \A x \in floor[s] :
        x.tenant = call[s].tenant /\ (call[s].op = "listRoutes" => x.service = call[s].service)
          => \E e \in answer[s] : e.route = x

\* What is handed to buildTrie has no method and pattern twice for a service:
\* the assumption RouteTrie rests on.
ListsFeedTheTrie ==
    \A s \in Slots : \A d, e \in answer[s] :
      d.route.service = e.route.service /\ d.route.endpoint = e.route.endpoint => d = e

\* A client that is told 409 can rely on it: what it asked for is there, in its
\* tenant -- also after an attempt that was answered 500 and took effect.
ConflictMeansThere ==
    \A s \in Slots : status[s] = 409 =>
      IF call[s].op = "createService" THEN NameTaken(call[s].tenant, call[s].name)
      ELSE \E x \in routes : /\ x.tenant = call[s].tenant /\ x.service = call[s].service
                             /\ x.endpoint = call[s].endpoint

\* Requests are linearizable, though createRoute and listRoutes are several
\* statements and no transaction: each takes effect, or is refused for a reason
\* that holds, at one instant between its arrival and its answer.
Atomic == INSTANCE AtomicRegistry WITH request <- call, code <- status, list <- answer

ActsAtomically == Atomic!Spec
====
