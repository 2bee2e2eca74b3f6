---- MODULE ServiceRegistryProofs ----
(***************************************************************************)
(* Routes stay with the tenant of their service, lists show what they      *)
(* should and nothing else, and a 409 can be relied on, for any number of  *)
(* requests, tenants and failures.                                         *)
(***************************************************************************)
EXTENDS ServiceRegistry, TLAPS

\* What the request in a slot is, given the statement it awaits.
Served(p, st, c) ==
    /\ p # "idle" \/ st # 0 => c \in Calls
    /\ p \notin {"idle", "tenant"} => c.tenant \in TenantIds
    /\ p = "insert" => c.op \in Creates

TypeInv == TypeOK /\ \A s \in Slots : Served(pc[s], status[s], call[s])

LEMMA InitTypes == Init => TypeInv
<1> SUFFICES ASSUME Init PROVE TypeInv
  OBVIOUS
<1>1. TypeOK
  BY RegistryAssumption DEF Init, TypeOK
<1>2. QED
  BY <1>1 DEF Init, TypeInv, Served

\* A client's request has the fields of a request.
LEMMA CallFields ==
  ASSUME NEW c \in Calls
  PROVE  /\ c \in AllCalls
         /\ c.op \in Ops /\ c.tenant \in TenantIds \cup {None} /\ c.name \in Names
         /\ c.service \in ServiceIds /\ c.endpoint \in Endpoints
         /\ c.policy \in PolicyIds \cup {None}
BY RegistryAssumption DEF AllCalls

\* A list of routes is a set of list entries.
LEMMA SelectedType ==
  ASSUME TypeOK, NEW c
  PROVE  Selected(c) \subseteq Listed
<1>1. ASSUME NEW x \in routes PROVE Joined(x, c.tenant) \in Listed
  <2>1. x \in Route
    BY DEF TypeOK
  <2>2. x.policy \in Policies \cup {None}
    BY <2>1 DEF Route
  <2>3. QED
    BY <2>1, <2>2 DEF Joined, Listed
<1>2. QED
  BY <1>1 DEF Selected

\* The row the request in slot s inserts under the id i.
RowOf(s, i) ==
    [id |-> i, service |-> call[s].service, tenant |-> call[s].tenant,
     endpoint |-> call[s].endpoint, policy |-> call[s].policy]

\* What the INSERT into routes does: it answers a refusal, or writes a new row.
LEMMA CreateRouteCases ==
  ASSUME NEW s \in Slots, CreateRoute(s)
  PROVE  \/ /\ UNCHANGED <<routes, acknowledged, failures>>
            /\ EndpointTaken(call[s]) /\ Answer(s, 409)
         \/ /\ UNCHANGED <<routes, acknowledged, failures>>
            /\ Answer(s, 500)
         \/ \E i \in RouteIds, lost \in BOOLEAN :
              /\ ~EndpointTaken(call[s]) /\ References(call[s].policy)
              /\ routes' = routes \cup {RowOf(s, i)}
              /\ acknowledged' = IF lost THEN acknowledged ELSE acknowledged \cup {RowOf(s, i)}
              /\ Outcome(lost)
              /\ Answer(s, IF lost THEN 500 ELSE 201)
<1>1. CASE EndpointTaken(call[s])
  BY <1>1 DEF CreateRoute, ErrorStatus
<1>2. CASE ~EndpointTaken(call[s]) /\ ~References(call[s].policy)
  BY <1>2 DEF CreateRoute, ErrorStatus
<1>3. CASE ~EndpointTaken(call[s]) /\ References(call[s].policy)
  BY <1>3 DEF CreateRoute, RowOf
<1>4. QED
  BY <1>1, <1>2, <1>3

LEMMA NextTypes == TypeInv /\ [Next]_vars => TypeInv'
<1> SUFFICES ASSUME TypeInv, [Next]_vars PROVE TypeInv'
  OBVIOUS
<1> USE RegistryAssumption
<1>a. TypeOK /\ \A s \in Slots : Served(pc[s], status[s], call[s])
  BY DEF TypeInv
<1> USE DEF TypeOK
<1>1. ASSUME NEW s \in Slots, NEW c \in Calls, Receive(s, c) PROVE TypeInv'
  <2>1. c \in AllCalls /\ (c.op = "getAllRoutes" => c.tenant \in TenantIds)
    BY CallFields
  <2>2. TypeOK'
    BY <1>1, <1>a, <2>1 DEF Receive, tables
  <2>3. QED
    BY <1>1, <1>a, <2>1, <2>2 DEF Receive, TypeInv, Served
<1>2. ASSUME NEW s \in Slots, RequireTenant(s) PROVE TypeInv'
  <2>1. TypeOK'
    BY <1>2, <1>a DEF RequireTenant, Answer, GoTo, tables
  <2>2. call[s] \in Calls /\ call[s].op \in Ops
    BY <1>2, <1>a, CallFields DEF RequireTenant, Served
  <2>3. QED
    BY <1>2, <1>a, <2>1, <2>2 DEF RequireTenant, Answer, GoTo, TypeInv, Served, Creates
<1>3. ASSUME NEW s \in Slots, FindService(s) PROVE TypeInv'
  <2>1. TypeOK'
    BY <1>3, <1>a DEF FindService, Answer, GoTo, tables
  <2>2. QED
    BY <1>3, <1>a, <2>1 DEF FindService, Answer, GoTo, TypeInv, Served, Creates
<1>4. ASSUME NEW s \in Slots, CreateService(s) PROVE TypeInv'
  <2>1. call[s] \in Calls /\ call[s].tenant \in TenantIds /\ call[s].name \in Names
    BY <1>4, <1>a, CallFields DEF CreateService, Served
  <2>2. services' \subseteq Service
    BY <1>4, <1>a, <2>1 DEF CreateService, Service
  <2>3. failures' \in 0..MaxFailures
    BY <1>4, <1>a DEF CreateService, Outcome
  <2>4. pc' = [pc EXCEPT ![s] = "idle"] /\ status' \in [Slots -> {0, 200, 201, 400, 404, 409, 500}]
    BY <1>4, <1>a DEF CreateService, Answer, ErrorStatus
  <2>5. TypeOK'
    BY <1>4, <1>a, <2>2, <2>3, <2>4 DEF CreateService
  <2>6. UNCHANGED call /\ \A x \in Slots \ {s} : status'[x] = status[x]
    BY <1>4, <1>a DEF CreateService, Answer
  <2>7. QED
    BY <1>a, <2>1, <2>4, <2>5, <2>6 DEF TypeInv, Served
<1>5. ASSUME NEW s \in Slots, CreateRoute(s) PROVE TypeInv'
  <2>1. /\ call[s] \in Calls /\ call[s].tenant \in TenantIds
        /\ call[s].service \in ServiceIds /\ call[s].endpoint \in Endpoints
    BY <1>5, <1>a, CallFields DEF CreateRoute, Served
  <2>2. \A i \in RouteIds : References(call[s].policy) => RowOf(s, i) \in Route
    BY <2>1 DEF RowOf, Route, References
  <2>3. /\ pc' = [pc EXCEPT ![s] = "idle"]
        /\ \E code \in {201, 409, 500} : status' = [status EXCEPT ![s] = code]
    BY <1>5, CreateRouteCases DEF Answer
  <2>4. /\ routes' \subseteq Route /\ acknowledged' \subseteq Route
        /\ failures' \in 0..MaxFailures
    BY <1>5, <1>a, <2>2, CreateRouteCases DEF Outcome
  <2>5. UNCHANGED <<services, call, answer, floor, received>>
    BY <1>5 DEF CreateRoute
  <2>6. TypeOK'
    BY <1>a, <2>3, <2>4, <2>5
  <2>7. QED
    BY <1>a, <2>1, <2>3, <2>5, <2>6 DEF TypeInv, Served
<1>6. ASSUME NEW s \in Slots, SelectRoutes(s) PROVE TypeInv'
  <2>1. TypeOK'
    BY <1>6, <1>a, SelectedType DEF SelectRoutes, Answer, tables
  <2>2. QED
    BY <1>6, <1>a, <2>1 DEF SelectRoutes, Answer, TypeInv, Served
<1>7. ASSUME NEW s \in Slots, StatementFails(s) PROVE TypeInv'
  <2>1. TypeOK'
    BY <1>7, <1>a DEF StatementFails, Answer, tables
  <2>2. QED
    BY <1>7, <1>a, <2>1 DEF StatementFails, Answer, TypeInv, Served
<1>8. ASSUME UNCHANGED vars PROVE TypeInv'
  BY <1>8, <1>a DEF vars, tables, slots, TypeInv, Served
<1>9. QED
  BY <1>1, <1>2, <1>3, <1>4, <1>5, <1>6, <1>7, <1>8 DEF Next, Step, Quiet

LEMMA Typed == Spec => []TypeInv
<1>1. QED
  BY InitTypes, NextTypes, PTL DEF Spec

\* Tables hold rows of their columns, and a route refers to a policy there is
\* or to none: what routes.policy_id REFERENCES policies(id) promises.
THEOREM RegistryTypeCorrect == Spec => []TypeOK
<1>1. TypeInv => TypeOK
  BY DEF TypeInv
<1>2. QED
  BY <1>1, Typed, PTL

----------------------------------------------------------------------------
(* The other properties carry each other. *)

\* Rows: a service has one id, a route the tenant of its service and an endpoint
\* of its own, and what was acknowledged is there.
RowsOK(sv, rt, ack) ==
    /\ \A x, y \in sv : x.id = y.id => x = y
    /\ \A x \in rt : \E y \in sv : y.id = x.service /\ y.tenant = x.tenant
    /\ \A x, y \in rt : x.service = y.service /\ x.endpoint = y.endpoint => x = y
    /\ ack \subseteq rt

\* A list a is right for the request c, whose sender had seen the routes fl.
ListOK(c, a, sv) ==
    /\ \A e \in a :
         /\ \E y \in sv : y.id = e.route.service /\ y.tenant = c.tenant
         /\ e.policyName # None => PolicyTenant[e.policyName] = c.tenant
    /\ \A d, e \in a :
         d.route.service = e.route.service /\ d.route.endpoint = e.route.endpoint => d = e

Complete(c, a, fl) ==
    \A x \in fl :
      x.tenant = c.tenant /\ (c.op = "listRoutes" => x.service = c.service)
        => \E e \in a : e.route = x

\* What the request c asked to create is there.
There(c, sv, rt) ==
    IF c.op = "createService" THEN \E x \in sv : x.tenant = c.tenant /\ x.name = c.name
    ELSE \E x \in rt : x.tenant = c.tenant /\ x.service = c.service /\ x.endpoint = c.endpoint

\* A slot at the INSERT of a route has found the service in its tenant.
SlotOK(p, c, st, a, fl, sv, rt) ==
    /\ p = "insert" /\ c.op = "createRoute" =>
         \E y \in sv : y.id = c.service /\ y.tenant = c.tenant
    /\ fl \subseteq rt
    /\ ListOK(c, a, sv)
    /\ st = 200 => Complete(c, a, fl)
    /\ st = 409 => There(c, sv, rt)

RegistryInv ==
    /\ RowsOK(services, routes, acknowledged)
    /\ \A s \in Slots :
         SlotOK(pc[s], call[s], status[s], answer[s], floor[s], services, routes)

LEMMA InitRegistry == Init => RegistryInv
<1> SUFFICES ASSUME Init PROVE RegistryInv
  OBVIOUS
<1>1. RowsOK(services, routes, acknowledged)
  BY RegistryAssumption DEF Init, RowsOK
<1>2. QED
  BY <1>1 DEF Init, RegistryInv, SlotOK, ListOK

\* More rows take nothing away: no row is ever deleted or changed.
LEMMA SlotMonotone ==
  ASSUME NEW p, NEW c, NEW st, NEW a, NEW fl, NEW sv, NEW rt, NEW sv2, NEW rt2,
         SlotOK(p, c, st, a, fl, sv, rt), sv \subseteq sv2, rt \subseteq rt2
  PROVE  SlotOK(p, c, st, a, fl, sv2, rt2)
BY DEF SlotOK, ListOK, There

\* A step of the request in slot s leaves the other slots as they are.
Elsewhere(s) ==
    /\ UNCHANGED <<call, floor>>
    /\ \A x \in Slots \ {s} : pc'[x] = pc[x] /\ status'[x] = status[x] /\ answer'[x] = answer[x]

LEMMA StepElsewhere ==
  ASSUME TypeOK, NEW s \in Slots, Step(s)
  PROVE  Elsewhere(s)
<1> USE DEF TypeOK, Elsewhere, Answer, GoTo
<1>1. CASE RequireTenant(s)
  BY <1>1 DEF RequireTenant
<1>2. CASE FindService(s)
  BY <1>2 DEF FindService
<1>3. CASE CreateService(s)
  BY <1>3 DEF CreateService
<1>4. CASE CreateRoute(s)
  <2>1. UNCHANGED <<call, answer, floor>>
    BY <1>4 DEF CreateRoute
  <2>2. QED
    BY <1>4, <2>1, CreateRouteCases
<1>5. CASE SelectRoutes(s)
  BY <1>5 DEF SelectRoutes
<1>6. CASE StatementFails(s)
  BY <1>6 DEF StatementFails
<1>7. QED
  BY <1>1, <1>2, <1>3, <1>4, <1>5, <1>6 DEF Step

\* Such a step, adding rows at most, has to be looked at in its own slot only.
LEMMA OtherSlots ==
  ASSUME RegistryInv, NEW s \in Slots, Elsewhere(s),
         services \subseteq services', routes \subseteq routes',
         RowsOK(services', routes', acknowledged'),
         SlotOK(pc'[s], call[s], status'[s], answer'[s], floor[s], services', routes')
  PROVE  RegistryInv'
<1>1. ASSUME NEW x \in Slots
      PROVE  SlotOK(pc'[x], call'[x], status'[x], answer'[x], floor'[x], services', routes')
  <2>1. CASE x = s
    BY <2>1 DEF Elsewhere
  <2>2. CASE x # s
    <3>1. /\ pc'[x] = pc[x] /\ status'[x] = status[x] /\ answer'[x] = answer[x]
          /\ call'[x] = call[x] /\ floor'[x] = floor[x]
      BY <2>2 DEF Elsewhere
    <3>2. SlotOK(pc[x], call[x], status[x], answer[x], floor[x], services, routes)
      BY DEF RegistryInv
    <3>3. SlotOK(pc[x], call[x], status[x], answer[x], floor[x], services', routes')
      BY <3>2, SlotMonotone
    <3>4. QED
      BY <3>1, <3>3
  <2>3. QED
    BY <2>1, <2>2
<1>2. QED
  BY <1>1 DEF RegistryInv

\* The SELECT of a list gives a right one, from rows that are right.
LEMMA SelectedOK ==
  ASSUME TypeOK, RowsOK(services, routes, acknowledged), NEW c, NEW fl, fl \subseteq routes
  PROVE  ListOK(c, Selected(c), services) /\ Complete(c, Selected(c), fl)
<1>1. ASSUME NEW e \in Selected(c)
      PROVE  /\ e.route \in routes /\ e.route.tenant = c.tenant
             /\ e = Joined(e.route, c.tenant)
             /\ e.policyName # None => PolicyTenant[e.policyName] = c.tenant
  BY DEF Selected, Joined
<1>2. ListOK(c, Selected(c), services)
  BY <1>1 DEF RowsOK, ListOK
<1>3. Complete(c, Selected(c), fl)
  <2>1. ASSUME NEW x \in fl, x.tenant = c.tenant, c.op = "listRoutes" => x.service = c.service
        PROVE  \E e \in Selected(c) : e.route = x
    <3>1. Joined(x, c.tenant) \in Selected(c)
      BY <2>1 DEF Selected
    <3>2. Joined(x, c.tenant).route = x
      BY DEF Joined
    <3>3. QED
      BY <3>1, <3>2
  <2>2. QED
    BY <2>1 DEF Complete
<1>4. QED
  BY <1>2, <1>3

LEMMA NextRegistry == TypeInv /\ RegistryInv /\ [Next]_vars => RegistryInv'
<1> SUFFICES ASSUME TypeInv, RegistryInv, [Next]_vars PROVE RegistryInv'
  OBVIOUS
<1>a. /\ TypeOK /\ RowsOK(services, routes, acknowledged)
      /\ \A s \in Slots : Served(pc[s], status[s], call[s])
      /\ \A s \in Slots :
           SlotOK(pc[s], call[s], status[s], answer[s], floor[s], services, routes)
  BY DEF TypeInv, RegistryInv
<1>1. ASSUME NEW s \in Slots, NEW c \in Calls, Receive(s, c) PROVE RegistryInv'
  <2>1. ASSUME NEW x \in Slots
        PROVE  SlotOK(pc'[x], call'[x], status'[x], answer'[x], floor'[x], services, routes)
    <3>1. CASE x = s
      <4>1. /\ pc'[x] # "insert" /\ status'[x] = 0 /\ answer'[x] = {} /\ floor'[x] = acknowledged
        BY <1>1, <1>a, <3>1 DEF Receive, TypeOK
      <4>2. QED
        BY <1>a, <4>1 DEF SlotOK, ListOK, RowsOK
    <3>2. CASE x # s
      <4>1. /\ pc'[x] = pc[x] /\ status'[x] = status[x] /\ answer'[x] = answer[x]
            /\ call'[x] = call[x] /\ floor'[x] = floor[x]
        BY <1>1, <1>a, <3>2 DEF Receive, TypeOK
      <4>2. QED
        BY <1>a, <4>1
    <3>3. QED
      BY <3>1, <3>2
  <2>2. QED
    BY <1>1, <1>a, <2>1 DEF Receive, tables, RegistryInv
<1>2. ASSUME NEW s \in Slots, RequireTenant(s) PROVE RegistryInv'
  <2>1. /\ UNCHANGED <<services, routes, acknowledged, answer>>
        /\ pc'[s] = "insert" => call[s].op = "createService"
        /\ status'[s] \in {status[s], 400, 404}
    BY <1>2, <1>a DEF RequireTenant, Answer, GoTo, tables, TypeOK
  <2>2. SlotOK(pc'[s], call[s], status'[s], answer'[s], floor[s], services', routes')
    BY <1>a, <2>1 DEF SlotOK
  <2>3. QED
    BY <1>2, <1>a, <2>1, <2>2, StepElsewhere, OtherSlots DEF Step
<1>3. ASSUME NEW s \in Slots, FindService(s) PROVE RegistryInv'
  <2>1. /\ UNCHANGED <<services, routes, acknowledged, answer>>
        /\ pc'[s] = "insert" => FindServiceById(call[s].tenant, call[s].service)
        /\ status'[s] \in {status[s], 404}
    BY <1>3, <1>a DEF FindService, Answer, GoTo, tables, TypeOK
  <2>2. SlotOK(pc'[s], call[s], status'[s], answer'[s], floor[s], services', routes')
    BY <1>a, <2>1 DEF SlotOK, FindServiceById
  <2>3. QED
    BY <1>3, <1>a, <2>1, <2>2, StepElsewhere, OtherSlots DEF Step
<1>4. ASSUME NEW s \in Slots, CreateService(s) PROVE RegistryInv'
  <2>1. /\ pc'[s] = "idle" /\ status'[s] \in {201, 409, 500}
        /\ status'[s] = 409 => NameTaken(call[s].tenant, call[s].name)
    BY <1>4, <1>a DEF CreateService, Answer, ErrorStatus, TypeOK
  <2>2. /\ UNCHANGED <<routes, acknowledged, answer>> /\ call[s].op = "createService"
        /\ \/ services' = services
           \/ \E row : services' = services \cup {row} /\ \A x \in services : x.id # row.id
    <3>1. CASE NameTaken(call[s].tenant, call[s].name)
      BY <1>4, <3>1 DEF CreateService
    <3>2. CASE ~NameTaken(call[s].tenant, call[s].name)
      <4>1. PICK i \in ServiceIds \ {x.id : x \in services} :
              services' = services \cup {[id |-> i, tenant |-> call[s].tenant, name |-> call[s].name]}
        BY <1>4, <3>2 DEF CreateService
      <4> DEFINE row == [id |-> i, tenant |-> call[s].tenant, name |-> call[s].name]
      <4>2. row.id = i
        OBVIOUS
      <4>3. QED
        BY <1>4, <4>1, <4>2 DEF CreateService
    <3>3. QED
      BY <3>1, <3>2
  <2>3. services \subseteq services' /\ RowsOK(services', routes', acknowledged')
    BY <1>a, <2>2 DEF RowsOK
  <2>4. SlotOK(pc'[s], call[s], status'[s], answer'[s], floor[s], services, routes)
    BY <1>a, <2>1, <2>2 DEF SlotOK, There, NameTaken
  <2>5. SlotOK(pc'[s], call[s], status'[s], answer'[s], floor[s], services', routes')
    BY <2>2, <2>3, <2>4, SlotMonotone
  <2>6. QED
    BY <1>4, <1>a, <2>2, <2>3, <2>5, StepElsewhere, OtherSlots DEF Step
<1>5. ASSUME NEW s \in Slots, CreateRoute(s) PROVE RegistryInv'
  <2>1. /\ pc[s] = "insert" /\ call[s].op = "createRoute"
        /\ UNCHANGED <<services, answer>>
    BY <1>5 DEF CreateRoute
  <2>2. PICK y \in services : y.id = call[s].service /\ y.tenant = call[s].tenant
    BY <1>a, <2>1 DEF SlotOK
  <2>3. /\ pc'[s] = "idle" /\ status'[s] \in {201, 409, 500}
        /\ status'[s] = 409 => EndpointTaken(call[s])
    BY <1>5, <1>a, CreateRouteCases DEF Answer, TypeOK
  <2>4. EndpointTaken(call[s]) => There(call[s], services, routes)
    <3>1. ASSUME NEW x \in routes, x.service = call[s].service, x.endpoint = call[s].endpoint
          PROVE  x.tenant = call[s].tenant
      BY <1>a, <2>2, <3>1 DEF RowsOK
    <3>2. QED
      BY <2>1, <3>1 DEF There, EndpointTaken
  <2>5. SlotOK(pc'[s], call[s], status'[s], answer'[s], floor[s], services, routes)
    BY <1>a, <2>1, <2>3, <2>4 DEF SlotOK
  <2>6. routes \subseteq routes' /\ RowsOK(services, routes', acknowledged')
    <3>1. CASE UNCHANGED <<routes, acknowledged>>
      BY <1>a, <3>1
    <3>2. ASSUME NEW i \in RouteIds, NEW lost \in BOOLEAN,
                 ~EndpointTaken(call[s]), routes' = routes \cup {RowOf(s, i)},
                 acknowledged' = (IF lost THEN acknowledged ELSE acknowledged \cup {RowOf(s, i)})
          PROVE  routes \subseteq routes' /\ RowsOK(services, routes', acknowledged')
      <4>1. /\ RowOf(s, i).service = call[s].service /\ RowOf(s, i).tenant = call[s].tenant
            /\ RowOf(s, i).endpoint = call[s].endpoint
        BY DEF RowOf
      <4>2. QED
        BY <1>a, <2>2, <3>2, <4>1 DEF RowsOK, EndpointTaken
    <3>3. QED
      BY <1>5, <3>1, <3>2, CreateRouteCases
  <2>7. SlotOK(pc'[s], call[s], status'[s], answer'[s], floor[s], services', routes')
    BY <2>1, <2>5, <2>6, SlotMonotone
  <2>8. QED
    BY <1>5, <1>a, <2>1, <2>6, <2>7, StepElsewhere, OtherSlots DEF Step
<1>6. ASSUME NEW s \in Slots, SelectRoutes(s) PROVE RegistryInv'
  <2>1. /\ UNCHANGED <<services, routes, acknowledged>>
        /\ pc'[s] = "idle" /\ status'[s] = 200 /\ answer'[s] = Selected(call[s])
    BY <1>6, <1>a DEF SelectRoutes, Answer, tables, TypeOK
  <2>2. ListOK(call[s], Selected(call[s]), services) /\ Complete(call[s], Selected(call[s]), floor[s])
    BY <1>a, SelectedOK DEF SlotOK
  <2>3. SlotOK(pc'[s], call[s], status'[s], answer'[s], floor[s], services', routes')
    BY <1>a, <2>1, <2>2 DEF SlotOK
  <2>4. QED
    BY <1>6, <1>a, <2>1, <2>3, StepElsewhere, OtherSlots DEF Step
<1>7. ASSUME NEW s \in Slots, StatementFails(s) PROVE RegistryInv'
  <2>1. /\ UNCHANGED <<services, routes, acknowledged, answer>>
        /\ pc'[s] = "idle" /\ status'[s] = 500
    BY <1>7, <1>a DEF StatementFails, Answer, tables, TypeOK
  <2>2. SlotOK(pc'[s], call[s], status'[s], answer'[s], floor[s], services', routes')
    BY <1>a, <2>1 DEF SlotOK
  <2>3. QED
    BY <1>7, <1>a, <2>1, <2>2, StepElsewhere, OtherSlots DEF Step
<1>8. ASSUME UNCHANGED vars PROVE RegistryInv'
  BY <1>8, <1>a DEF vars, tables, slots, RegistryInv
<1>9. QED
  BY <1>1, <1>2, <1>3, <1>4, <1>5, <1>6, <1>7, <1>8 DEF Next, Step, Quiet

LEMMA RegistryInvariant == Spec => []RegistryInv
<1>1. QED
  BY InitRegistry, NextRegistry, Typed, PTL DEF Spec

\* A route is stored under the tenant of its service, though the INSERT that
\* writes the two columns looks at neither.
THEOREM RoutesStayInTenant == Spec => []RoutesBelong
<1>1. RegistryInv => RoutesBelong
  BY DEF RegistryInv, RowsOK, RoutesBelong
<1>2. QED
  BY <1>1, RegistryInvariant, PTL

\* No list shows a tenant a service or a policy name of another one.
THEOREM ListsStayInTenant == Spec => []ListsConfined
<1>1. RegistryInv => ListsConfined
  BY DEF RegistryInv, SlotOK, ListOK, ListsConfined
<1>2. QED
  BY <1>1, RegistryInvariant, PTL

\* A list holds all that had been acknowledged when it was asked for.
THEOREM ListsAreCurrent == Spec => []ListsKnowAcknowledged
<1>1. RegistryInv => ListsKnowAcknowledged
  BY DEF RegistryInv, SlotOK, Complete, ListsKnowAcknowledged
<1>2. QED
  BY <1>1, RegistryInvariant, PTL

\* What buildTrie is given satisfies the unique constraint it relies on.
THEOREM ListsAreUnique == Spec => []ListsFeedTheTrie
<1>1. RegistryInv => ListsFeedTheTrie
  BY DEF RegistryInv, SlotOK, ListOK, ListsFeedTheTrie
<1>2. QED
  BY <1>1, RegistryInvariant, PTL

\* After a 409 what was asked for is there, in the client's own tenant.
THEOREM ConflictsAreReal == Spec => []ConflictMeansThere
<1>1. RegistryInv => ConflictMeansThere
  BY DEF RegistryInv, SlotOK, There, NameTaken, ConflictMeansThere
<1>2. QED
  BY <1>1, RegistryInvariant, PTL

----------------------------------------------------------------------------
(* The handlers implement AtomicRegistry. *)

\* What is settled about the request c at the statement p: what was checked
\* before it still holds.  A slot without an answer is idle before its first
\* request only.
StageOK(p, st, c, sv) ==
    /\ p = "idle" /\ st = 0 => c = NoCall
    /\ p # "idle" => st = 0
    /\ p = "tenant" => c.op # "getAllRoutes"
    /\ p = "service" => c.op \in {"createRoute", "listRoutes"}
    /\ p \in {"service", "insert"} /\ c.op \in Creates => c.valid
    /\ p = "select" =>
         /\ c.op \in {"listRoutes", "getAllRoutes"}
         /\ c.op = "listRoutes" => \E y \in sv : y.id = c.service /\ y.tenant = c.tenant

StageInv == \A s \in Slots : StageOK(pc[s], status[s], call[s], services)

LEMMA InitStage == Init => StageInv
BY DEF Init, StageInv, StageOK

\* A step of slot s has to be looked at in slot s only, for no service goes.
LEMMA StageElsewhere ==
  ASSUME StageInv, NEW s \in Slots, Elsewhere(s), services \subseteq services',
         StageOK(pc'[s], status'[s], call[s], services')
  PROVE  StageInv'
<1>1. ASSUME NEW x \in Slots PROVE StageOK(pc'[x], status'[x], call'[x], services')
  <2>1. CASE x = s
    BY <2>1 DEF Elsewhere
  <2>2. CASE x # s
    <3>1. StageOK(pc[x], status[x], call[x], services)
      BY DEF StageInv
    <3>2. pc'[x] = pc[x] /\ status'[x] = status[x] /\ call'[x] = call[x]
      BY <2>2 DEF Elsewhere
    <3>3. QED
      BY <3>1, <3>2 DEF StageOK
  <2>3. QED
    BY <2>1, <2>2
<1>2. QED
  BY <1>1 DEF StageInv

\* A slot that is idle and answered has no stage.
LEMMA Ended ==
  ASSUME NEW c, NEW st, st # 0, NEW sv
  PROVE  StageOK("idle", st, c, sv)
BY DEF StageOK

LEMMA NextStage == TypeInv /\ StageInv /\ [Next]_vars => StageInv'
<1> SUFFICES ASSUME TypeInv, StageInv, [Next]_vars PROVE StageInv'
  OBVIOUS
<1>a. /\ TypeOK
      /\ \A s \in Slots : Served(pc[s], status[s], call[s])
      /\ \A s \in Slots : StageOK(pc[s], status[s], call[s], services)
  BY DEF TypeInv, StageInv
<1>1. ASSUME NEW s \in Slots, NEW c \in Calls, Receive(s, c) PROVE StageInv'
  <2>1. ASSUME NEW x \in Slots PROVE StageOK(pc'[x], status'[x], call'[x], services)
    <3>1. CASE x = s
      <4>1. /\ pc'[x] = IF c.op = "getAllRoutes" THEN "select" ELSE "tenant"
            /\ status'[x] = 0 /\ call'[x] = c
        BY <1>1, <1>a, <3>1 DEF Receive, TypeOK
      <4>2. QED
        BY <4>1 DEF StageOK
    <3>2. CASE x # s
      <4>1. pc'[x] = pc[x] /\ status'[x] = status[x] /\ call'[x] = call[x]
        BY <1>1, <1>a, <3>2 DEF Receive, TypeOK
      <4>2. QED
        BY <1>a, <4>1
    <3>3. QED
      BY <3>1, <3>2
  <2>2. QED
    BY <1>1, <2>1 DEF Receive, tables, StageInv
<1>2. ASSUME NEW s \in Slots, RequireTenant(s) PROVE StageInv'
  <2>1. call[s].op \in Ops /\ call[s].op # "getAllRoutes" /\ status[s] = 0
    BY <1>2, <1>a, CallFields DEF RequireTenant, Served, StageOK
  <2>2. \/ pc'[s] = "idle" /\ status'[s] \in {400, 404}
        \/ /\ status'[s] = 0 /\ (call[s].op \in Creates => call[s].valid)
           /\ pc'[s] = IF call[s].op = "createService" THEN "insert" ELSE "service"
    BY <1>2, <1>a, <2>1 DEF RequireTenant, Answer, GoTo, TypeOK
  <2>3. StageOK(pc'[s], status'[s], call[s], services)
    BY <2>1, <2>2 DEF StageOK, Ops, Creates
  <2>4. QED
    BY <1>2, <1>a, <2>3, StepElsewhere, StageElsewhere DEF Step, RequireTenant, tables
<1>3. ASSUME NEW s \in Slots, FindService(s) PROVE StageInv'
  <2>1. /\ call[s].op \in {"createRoute", "listRoutes"} /\ status[s] = 0
        /\ call[s].op \in Creates => call[s].valid
    BY <1>3, <1>a DEF FindService, StageOK
  <2>2. \/ pc'[s] = "idle" /\ status'[s] = 404
        \/ /\ status'[s] = 0 /\ FindServiceById(call[s].tenant, call[s].service)
           /\ pc'[s] = IF call[s].op = "createRoute" THEN "insert" ELSE "select"
    BY <1>3, <1>a, <2>1 DEF FindService, Answer, GoTo, TypeOK
  <2>3. StageOK(pc'[s], status'[s], call[s], services)
    BY <2>1, <2>2 DEF StageOK, FindServiceById
  <2>4. QED
    BY <1>3, <1>a, <2>3, StepElsewhere, StageElsewhere DEF Step, FindService, tables
<1>4. ASSUME NEW s \in Slots, CreateService(s) PROVE StageInv'
  <2>1. pc'[s] = "idle" /\ status'[s] \in {201, 409, 500}
    BY <1>4, <1>a DEF CreateService, Answer, ErrorStatus, TypeOK
  <2>2. services \subseteq services'
    BY <1>4 DEF CreateService
  <2>3. QED
    BY <1>4, <1>a, <2>1, <2>2, Ended, StepElsewhere, StageElsewhere DEF Step
<1>5. ASSUME NEW s \in Slots, CreateRoute(s) PROVE StageInv'
  <2>1. pc'[s] = "idle" /\ status'[s] \in {201, 409, 500}
    BY <1>5, <1>a, CreateRouteCases DEF Answer, TypeOK
  <2>2. services \subseteq services'
    BY <1>5 DEF CreateRoute
  <2>3. QED
    BY <1>5, <1>a, <2>1, <2>2, Ended, StepElsewhere, StageElsewhere DEF Step
<1>6. ASSUME NEW s \in Slots, SelectRoutes(s) \/ StatementFails(s) PROVE StageInv'
  <2>1. /\ pc'[s] = "idle" /\ status'[s] \in {200, 500}
        /\ services \subseteq services'
    BY <1>6, <1>a DEF SelectRoutes, StatementFails, Answer, TypeOK, tables
  <2>2. QED
    BY <1>6, <1>a, <2>1, Ended, StepElsewhere, StageElsewhere DEF Step
<1>7. ASSUME UNCHANGED vars PROVE StageInv'
  BY <1>7, <1>a DEF vars, tables, slots, StageInv
<1>8. QED
  BY <1>1, <1>2, <1>3, <1>4, <1>5, <1>6, <1>7 DEF Next, Step, Quiet

\* A slot waits for its answer exactly while a statement of it is awaited.
LEMMA WaitingIsBusy ==
  ASSUME TypeInv, StageInv, NEW s \in Slots
  PROVE  /\ Atomic!Waiting(s) <=> pc[s] # "idle"
         /\ pc[s] # "idle" => call[s] \in Calls
<1>1. Served(pc[s], status[s], call[s]) /\ StageOK(pc[s], status[s], call[s], services)
  BY DEF TypeInv, StageInv
<1>2. \A c \in Calls : c # NoCall
  BY CallFields DEF NoCall, Ops, Creates
<1>3. QED
  BY <1>1, <1>2 DEF Served, StageOK, Atomic!Waiting

\* The join shows the policies a tenant may see.
LEMMA ListingSelects ==
  ASSUME TypeOK, NEW c
  PROVE  Selected(c) = Atomic!Listing(c)
<1>1. ASSUME NEW x \in routes PROVE Joined(x, c.tenant) = Atomic!Shown(x, c.tenant)
  <2>1. x.policy \in Policies \cup {None} /\ None \notin Policies
    BY RegistryAssumption DEF TypeOK, Route
  <2>2. QED
    BY <2>1 DEF Joined, Atomic!Shown, Policies
<1>2. QED
  BY <1>1 DEF Selected, Atomic!Listing

LEMMA InitAtomic == Init => Atomic!Init
BY DEF Init, Atomic!Init

\* The step at which a request takes effect, or is refused, is a step of
\* AtomicRegistry; a lookup that succeeds is none.
LEMMA StepAtomic ==
  TypeInv /\ RegistryInv /\ StageInv /\ [Next]_vars => [Atomic!Next]_(Atomic!vars)
<1> SUFFICES ASSUME TypeInv, RegistryInv, StageInv, [Next]_vars
             PROVE  Atomic!Next \/ UNCHANGED Atomic!vars
  OBVIOUS
<1>a. /\ TypeOK
      /\ \A s \in Slots : Served(pc[s], status[s], call[s])
      /\ \A s \in Slots : StageOK(pc[s], status[s], call[s], services)
      /\ \A s \in Slots :
           SlotOK(pc[s], call[s], status[s], answer[s], floor[s], services, routes)
      /\ RowsOK(services, routes, acknowledged)
  BY DEF TypeInv, StageInv, RegistryInv
<1>1. ASSUME NEW s \in Slots, NEW c \in Calls, Receive(s, c) PROVE Atomic!Next
  <2>1. Atomic!Send(s, c)
    BY <1>1, WaitingIsBusy DEF Receive, tables, Atomic!Send
  <2>2. QED
    BY <2>1 DEF Atomic!Next
<1>2. ASSUME NEW s \in Slots, RequireTenant(s) PROVE Atomic!Next \/ UNCHANGED Atomic!vars
  <2>0. Atomic!Waiting(s) /\ UNCHANGED <<services, routes, call, answer>>
    BY <1>2, WaitingIsBusy DEF RequireTenant, tables
  <2>1. CASE call[s].tenant \notin TenantIds
    <3>1. Atomic!Refuse(s, 404)
      BY <1>2, <2>0, <2>1 DEF RequireTenant, Answer, Atomic!Refuse
    <3>2. QED
      BY <3>1 DEF Atomic!Next
  <2>2. CASE call[s].tenant \in TenantIds /\ call[s].op \in Creates /\ ~call[s].valid
    <3>1. Atomic!Refuse(s, 400)
      BY <1>2, <2>0, <2>2 DEF RequireTenant, Answer, Creates, Atomic!Refuse
    <3>2. QED
      BY <3>1 DEF Atomic!Next
  <2>3. CASE call[s].tenant \in TenantIds /\ ~(call[s].op \in Creates /\ ~call[s].valid)
    BY <1>2, <2>0, <2>3 DEF RequireTenant, GoTo, Atomic!vars
  <2>4. QED
    BY <2>1, <2>2, <2>3
<1>3. ASSUME NEW s \in Slots, FindService(s) PROVE Atomic!Next \/ UNCHANGED Atomic!vars
  <2>0. Atomic!Waiting(s) /\ UNCHANGED <<services, routes, call, answer>>
    BY <1>3, WaitingIsBusy DEF FindService, tables
  <2>1. CASE FindServiceById(call[s].tenant, call[s].service)
    BY <1>3, <2>0, <2>1 DEF FindService, GoTo, Atomic!vars
  <2>2. CASE ~FindServiceById(call[s].tenant, call[s].service)
    <3>1. call[s].op # "createService" /\ ~Atomic!InTenant(call[s])
      BY <1>3, <1>a, <2>2 DEF FindService, FindServiceById, StageOK, Atomic!InTenant
    <3>2. Atomic!Refuse(s, 404)
      BY <1>3, <2>0, <2>2, <3>1 DEF FindService, Answer, Atomic!Refuse
    <3>3. QED
      BY <3>2 DEF Atomic!Next
  <2>3. QED
    BY <2>1, <2>2
<1>4. ASSUME NEW s \in Slots, CreateService(s) PROVE Atomic!Next
  <2>0. /\ Atomic!Waiting(s) /\ UNCHANGED <<routes, call, answer>>
        /\ call[s].op = "createService" /\ call[s].valid /\ call[s].tenant \in TenantIds
    BY <1>4, <1>a, WaitingIsBusy DEF CreateService, StageOK, Served, Creates
  <2>1. Atomic!Taken(call[s]) <=> NameTaken(call[s].tenant, call[s].name)
    BY <2>0 DEF Atomic!Taken, NameTaken
  <2>2. CASE NameTaken(call[s].tenant, call[s].name)
    <3>1. Atomic!Refuse(s, 409)
      BY <1>4, <2>0, <2>1, <2>2 DEF CreateService, Answer, ErrorStatus, Atomic!Refuse
    <3>2. QED
      BY <3>1 DEF Atomic!Next
  <2>3. CASE ~NameTaken(call[s].tenant, call[s].name)
    <3>1. PICK i \in ServiceIds \ {x.id : x \in services}, n \in {201, 500} :
            /\ services' = services \cup
                 {[id |-> i, tenant |-> call[s].tenant, name |-> call[s].name]}
            /\ status' = [status EXCEPT ![s] = n]
      BY <1>4, <2>3 DEF CreateService, Answer
    <3>2. Atomic!Create(s, i, n)
      BY <2>0, <2>1, <2>3, <3>1 DEF Atomic!Create
    <3>3. QED
      BY <3>2 DEF Atomic!Next
  <2>4. QED
    BY <2>2, <2>3
<1>5. ASSUME NEW s \in Slots, CreateRoute(s) PROVE Atomic!Next
  <2>0. /\ Atomic!Waiting(s) /\ UNCHANGED <<services, call, answer>>
        /\ pc[s] = "insert" /\ call[s].op = "createRoute"
        /\ call[s].valid /\ call[s].tenant \in TenantIds
    BY <1>5, <1>a, WaitingIsBusy DEF CreateRoute, StageOK, Served, Creates
  <2>1. Atomic!InTenant(call[s])
    BY <1>a, <2>0 DEF SlotOK, Atomic!InTenant
  <2>2. Atomic!Taken(call[s]) <=> EndpointTaken(call[s])
    <3>1. \A x \in routes : x.service = call[s].service => x.tenant = call[s].tenant
      BY <1>a, <2>1 DEF RowsOK, Atomic!InTenant
    <3>2. QED
      BY <2>0, <3>1 DEF Atomic!Taken, EndpointTaken
  <2>3. CASE EndpointTaken(call[s])
    <3>1. Atomic!Refuse(s, 409)
      BY <1>5, <2>0, <2>2, <2>3 DEF CreateRoute, Answer, ErrorStatus, Atomic!Refuse
    <3>2. QED
      BY <3>1 DEF Atomic!Next
  <2>4. CASE ~EndpointTaken(call[s]) /\ ~References(call[s].policy)
    <3>1. Atomic!Refuse(s, 500)
      BY <1>5, <2>0, <2>4 DEF CreateRoute, Answer, ErrorStatus, Atomic!Refuse
    <3>2. QED
      BY <3>1 DEF Atomic!Next
  <2>5. CASE ~EndpointTaken(call[s]) /\ References(call[s].policy)
    <3>1. PICK i \in RouteIds \ {x.id : x \in routes}, n \in {201, 500} :
            /\ routes' = routes \cup {RowOf(s, i)}
            /\ status' = [status EXCEPT ![s] = n]
      BY <1>5, <2>5 DEF CreateRoute, Answer, RowOf
    <3>2. Atomic!Create(s, i, n)
      BY <2>0, <2>1, <2>2, <2>5, <3>1 DEF Atomic!Create, RowOf, References, Policies
    <3>3. QED
      BY <3>2 DEF Atomic!Next
  <2>6. QED
    BY <2>3, <2>4, <2>5
<1>6. ASSUME NEW s \in Slots, SelectRoutes(s) PROVE Atomic!Next
  <2>1. /\ Atomic!Waiting(s) /\ call[s].tenant \in TenantIds
        /\ call[s].op \in {"listRoutes", "getAllRoutes"}
        /\ call[s].op = "listRoutes" => Atomic!InTenant(call[s])
    BY <1>6, <1>a, WaitingIsBusy DEF SelectRoutes, StageOK, Served, Atomic!InTenant
  <2>2. Selected(call[s]) = Atomic!Listing(call[s])
    BY <1>a, ListingSelects
  <2>3. Atomic!List(s)
    BY <1>6, <2>1, <2>2 DEF SelectRoutes, Answer, tables, Atomic!List
  <2>4. QED
    BY <2>3 DEF Atomic!Next
<1>7. ASSUME NEW s \in Slots, StatementFails(s) PROVE Atomic!Next
  <2>1. Atomic!Refuse(s, 500)
    BY <1>7, WaitingIsBusy DEF StatementFails, Answer, tables, Atomic!Refuse
  <2>2. QED
    BY <2>1 DEF Atomic!Next
<1>8. ASSUME UNCHANGED vars PROVE UNCHANGED Atomic!vars
  BY <1>8 DEF vars, tables, slots, Atomic!vars
<1>9. QED
  BY <1>1, <1>2, <1>3, <1>4, <1>5, <1>6, <1>7, <1>8 DEF Next, Step, Quiet

\* The handlers are linearizable: what several statements without a transaction
\* do to the tables and answer could have been done in one step.
THEOREM HandlersAreAtomic == Spec => ActsAtomically
<1>1. QED
  BY InitAtomic, InitStage, NextStage, StepAtomic, Typed, RegistryInvariant, PTL
     DEF Spec, ActsAtomically, Atomic!Spec

====
