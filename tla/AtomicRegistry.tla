---- MODULE AtomicRegistry ----
(***************************************************************************)
(* What the service registry promises to its clients: every request has    *)
(* its whole effect, or none, at one instant between its arrival and its   *)
(* answer, and is answered by what holds at such an instant.  Checks,      *)
(* lookups and statements of a handler, and what others do between them,   *)
(* do not appear here; of a failure it is only known that it is a 500.     *)
(***************************************************************************)
CONSTANTS
    Slots, TenantIds, ServiceIds, RouteIds, PolicyIds, PolicyTenant,
    None, Seed, Calls, NoCall

VARIABLES
    services, routes,  \* what has been created
    request,           \* per slot, the last request, or NoCall
    code,              \* per slot, how it was answered; 0: not yet
    list               \* per slot, the list it was answered with

vars == <<services, routes, request, code, list>>

Waiting(s) == request[s] # NoCall /\ code[s] = 0

\* The request names a service of its tenant.
InTenant(c) == \E x \in services : x.id = c.service /\ x.tenant = c.tenant

\* There is a service of that name in the tenant, an endpoint of that kind at
\* that service of the tenant.
Taken(c) ==
    IF c.op = "createService" THEN \E x \in services : x.tenant = c.tenant /\ x.name = c.name
    ELSE \E x \in routes : /\ x.tenant = c.tenant /\ x.service = c.service
                           /\ x.endpoint = c.endpoint

\* A policy is shown to the tenant it belongs to.
Shown(x, t) ==
    [route |-> x,
     policyName |-> IF x.policy \in {q \in DOMAIN PolicyTenant : PolicyTenant[q] = t}
                    THEN x.policy ELSE None]

\* The routes the request asks for.
Listing(c) ==
    {Shown(x, c.tenant) : x \in
        {y \in routes : y.tenant = c.tenant /\ (c.op = "listRoutes" => y.service = c.service)}}

----------------------------------------------------------------------------
Init ==
    /\ services = Seed /\ routes = {}
    /\ request = [s \in Slots |-> NoCall]
    /\ code = [s \in Slots |-> 0]
    /\ list = [s \in Slots |-> {}]

\* A client sends a request in a slot that serves none.
Send(s, c) ==
    /\ ~Waiting(s)
    /\ request' = [request EXCEPT ![s] = c]
    /\ code' = [code EXCEPT ![s] = 0]
    /\ list' = [list EXCEPT ![s] = {}]
    /\ UNCHANGED <<services, routes>>

\* An answer that says why nothing was done; what it says is so.
Refuse(s, n) ==
    LET c == request[s] IN
    /\ Waiting(s)
    /\ \/ n = 404 /\ (c.tenant \in TenantIds => c.op # "createService" /\ ~InTenant(c))
       \/ n = 400 /\ c.op \in {"createService", "createRoute"} /\ ~c.valid
       \/ n = 409 /\ c.op \in {"createService", "createRoute"} /\ Taken(c)
       \/ n = 500
    /\ code' = [code EXCEPT ![s] = n]
    /\ UNCHANGED <<services, routes, request, list>>

\* A service or a route comes into being, and all that is required of it holds
\* at that instant.  Its client may be left with a 500.
Create(s, i, n) ==
    LET c == request[s] IN
    /\ Waiting(s) /\ n \in {201, 500}
    /\ c.valid /\ c.tenant \in TenantIds /\ ~Taken(c)
    /\ \/ /\ c.op = "createService" /\ i \in ServiceIds \ {x.id : x \in services}
          /\ services' = services \cup {[id |-> i, tenant |-> c.tenant, name |-> c.name]}
          /\ UNCHANGED routes
       \/ /\ c.op = "createRoute" /\ i \in RouteIds \ {x.id : x \in routes}
          /\ InTenant(c) /\ c.policy \in DOMAIN PolicyTenant \cup {None}
          /\ routes' = routes \cup
               {[id |-> i, service |-> c.service, tenant |-> c.tenant,
                 endpoint |-> c.endpoint, policy |-> c.policy]}
          /\ UNCHANGED services
    /\ code' = [code EXCEPT ![s] = n]
    /\ UNCHANGED <<request, list>>

\* A list shows exactly what there is.
List(s) ==
    LET c == request[s] IN
    /\ Waiting(s)
    /\ c.op \in {"listRoutes", "getAllRoutes"} /\ c.tenant \in TenantIds
    /\ c.op = "listRoutes" => InTenant(c)
    /\ list' = [list EXCEPT ![s] = Listing(c)]
    /\ code' = [code EXCEPT ![s] = 200]
    /\ UNCHANGED <<services, routes, request>>

Next == \E s \in Slots :
    \/ \E c \in Calls : Send(s, c)
    \/ \E n \in {400, 404, 409, 500} : Refuse(s, n)
    \/ \E i \in ServiceIds \cup RouteIds, n \in {201, 500} : Create(s, i, n)
    \/ List(s)

Spec == Init /\ [][Next]_vars
====
