# Verification of the Aegis policy engine

TLA+ specifications of the parts of this repository that have state, order or
loops, model-checked with TLC on small instances, and theorems about them,
proved with TLAPS for every value of the constants. Source paths below are those
of the repository (`src/core/...`, `src/adapters/...`, `db/migrations/...`).

## The system

Aegis has a management plane (an admin HTTP API over Postgres) and a runtime
plane (the enforcement pipeline, of which the identity service, the policy
engine, the context schemas and the route trie builder exist so far). The planes
do not call each other: they share the database, and version counters in it tell
the runtime plane which cached answers are out of date.

| Component | State | Operations | Correct means |
|---|---|---|---|
| Access control (`AccessControlService`, `routes/admin/roles.ts`, repositories) | principals, roles, permissions, two junction tables, `principal_version` | create principal / role / permission, assign permission / role, flatten | tenants stay apart; no acknowledged change is missing from the counters |
| Policy registry (`PolicyRegistryService`) | policies | create (list, get) | a stored policy is followed by `policy_version++` |
| Tenant registry (`TenantRegistryService`) | tenants, `key_version`, `policy_version` | create, get; rotation is announced | unique slugs; counters only grow and stay integers |
| Service registry (`ServiceRegistryService`) | services, routes | create service / route, list | routes stay with their service's tenant; lists are complete and show one tenant only |
| Identity service (`IdentityService`, `JwtValidatorAdapter`) | key cache (Redis), reads tenants and principals | `resolve` | the context is consistent; a rotated key goes out of use |
| Policy engine (`PolicyEngine.ts`) | none | `evaluate` | the right answer and the right reason |
| Route trie builder (`buildTrie.ts`) | the trie | `buildTrie` | the trie says what the list says |
| Context schemas (`adapters/schemas/context.ts`) | none | two serializers, five schemas | what is written can be read; what is accepted can be recorded |
| Permission slugs (`domain/Permission.ts`, the generated column, the bodies' schemas) | none | validate, build, generate | one slug per permission, the same wherever it is made |
| Composition (`src/server.ts`, `client.ts`) | the process, its two signals, one connection pool | start, shutdown | no half-done work at shutdown; a signal ends the process |
| Health routes, root `server.ts`, `config.ts`, scripts | none | - | - |
| Enforcement pipeline, permission resolver, Redis adapters, audit drain worker, HTTP adapter, route matcher | - | only ports and comments exist | - |

Interactions. An admin handler looks the tenant up, validates the body, calls one
service method and answers. A service method is a chain of awaited SQL
statements, each its own transaction on a pool of ten connections, so handlers
interleave between any two statements. `resolve` reads the key cache, on a miss
the tenant row, fills the cache, verifies the token and reads the principal row.
`getAllRoutes` of the service registry gives `buildTrie` its list. `evaluate` is
given a policy, the flat permission set and the two versions. SIGTERM and SIGINT
each start `shutdown()`: close the server, end the pool, exit.

What is hard here is not the code of one handler but what lies between its
awaits: a row that is written and a counter that is not; a check and the write
that relies on it; a cache fill that passes the deletion of the entry it fills;
retries of what has already half happened; a process that ends, or dies, in
between; lists whose order decides; three places that must agree on what a slug
is. The hazards, each at its line and with the properties about it, are in
`PROJECT.json`.

## Modules

| Module | Models |
|---|---|
| `AccessControl` | all writing admin handlers and the statements they await |
| `Invalidation` | abstract: what the version counter of a tenant promises to a cache |
| `ManagementProcess` | the process around the handlers: start, signals, shutdown, kill; extends `AccessControl`, implements `Invalidation` |
| `PolicyDecision` | abstract: what a decision is |
| `PolicyEngine` | `evaluate`, iteration by iteration; extends and implements `PolicyDecision` |
| `PermissionSlugs` | validation, construction and generation of slugs, as operators |
| `SlugDecision` | the engine on slugs that requests have created; extends `PolicyEngine` and `PermissionSlugs` |
| `IdentityService` | `resolve` beside rotation, expiry and version advances |
| `RouteTrie` | `buildTrie`, segment by segment |
| `AtomicRegistry` | abstract: what a client may take the service registry for |
| `ServiceRegistry` | the handlers that create services and routes and list routes; implements `AtomicRegistry` |
| `ContextWire` | the serializers and the schemas, one value at a time |
| `MC*` | instances for TLC |
| `*Proofs` | theorems and their proofs |

Operators whose comment begins with "Faulty variant" are not part of any
specification: each is a plausible mistake in the definition below it, and
`PROJECT.json` ("mutants") says which property rejects it.

### AccessControl

A slot is one request in progress; `pc[s]` is the statement it awaits, `call[s]`
what it was sent. `Receive` is the arrival, `RequireTenant` the tenant lookup and
the body's schema, `CreateTenant`, `CreatePrincipal` and `CreateModelRow` the
INSERTs (roles, permissions and policies share one shape: insert, then
`policy_version++`), `Lookup` the two reads of the `Promise.all` before an
assignment, in either order, `RecheckRole` the second role lookup in
`RoleRepository.assignPermission`, `LinkPermission` and `LinkRole` the junction
INSERTs, `IncrementPolicyVersion` and `IncrementPrincipalVersion` the counters,
in either order where `Promise.all` starts both. A statement can fail without an
effect (`StatementFails`), or take effect and lose its answer (`lost`, where the
constant `LosesAnswers` lets connections break there). The first
rejection of a `Promise.all` answers 500 while the other member stays in flight.
`valid` abstracts the body's schema, `key` the natural key (slug, external id,
name). Rows are never deleted: no code deletes any.

History variables: `change` is the change of the authorization model a request
has made, `uncovered` the changes after which no `policy_version++` of their
tenant has followed, `applied` the counters a request has moved. They guard no
action.

- `TenantIsolation`: a junction row never crosses tenants, though neither junction
  table has a tenant column and the INSERT into `role_permissions` does not check
  the permission.
- `FlatConfined`: `getFlatPermissionSlugs`, whose query does not mention the
  principal's tenant, gives nothing for a foreign principal.
- `AckCovered`: after an answer of 201 or 204 the counters have moved since the
  change, also when the change was left by an attempt that failed earlier and the
  INSERT of this one did nothing.
- `AnswersHold`: after a 201, a 204 or a 409 what the request asked for is there, in
  its own tenant. The INSERT of a role assignment selects its rows through a join
  and would silently insert nothing; only the lookups before it make a 204 true.
- `ChangesOwed`: without a failure, and below the integer's limit, an uncovered
  change always has a request in progress that will cover it. Of failures and of
  the limit it says nothing: that is `AckCovered` and the run `access_policy_retry`.
- `Answered`: every request is answered and no increment stays in flight.

### Invalidation and ManagementProcess

`Invalidation` states what `policy_version` is for, without tables or handlers: a
tenant has a `model` (all that its decisions may depend on, the counters
excepted), a `version`, the `base` the model was when the version took its value,
and changes that are `stale`, stored but not followed by an increment. Only a
`Store` alters a model, and the change is stale from then on; only `Invalidate`
ends that; and no client is `told` of a change while it is stale.

`ManagementProcess` puts the process of `src/server.ts` around the handlers of
`AccessControl`. `Start` is `start()`; the tables are those the last process left.
`Arrive` and `Work` are the handlers' steps while the process serves: a closing
server accepts no request, and an ending pool lets the statements in flight finish
and takes no other. `Signal` starts the `shutdown()` of SIGTERM or SIGINT (one
each: the handlers are registered with `process.on` and there is no flag),
`CloseServer` is the return of `server.close()`, when every request has been
answered, `Exit` that of `sql.end()` and `process.exit(0)`, which also ends the
other signal's shutdown. `Kill` is the death of the process at any point. A client
that has no answer when its process ends, by either, is not answered: it sees its
connection break (`Broken`, which no handler sets), and nothing answers it later.
What the process
had sent may still be executed by Postgres, also after the next `Start`
(`OrphanRuns`, whose answer nobody hears), or not (`OrphanVanishes`). Fastify,
Postgres.js, the operating system and Postgres are external: what is modelled of
them is what `shutdown` relies on. The code's own continuation after a row, the
increment, is lost with the process: an orphaned slot only ever executes the
statements it had sent.

- `KeepsThePromise`: `Invalidation!Spec` under the mapping `model <- Model`, the
  policies of the tenant and the flat slugs of all principals, `stale <-
  uncovered`, `told <-` the changes of requests answered with success. It holds
  through failures, retries, kills and late statements.
- `VersionIdentifies`: while no change of a tenant is stale, its model is the one
  its `policy_version` was given for, so that caching under it is right.
- `ExitBreaksNothing`: the step that ends the process by `shutdown()` breaks no
  client's connection: each has its answer by then. `Exit` would break them
  (`Break(Busy)`); that there are none is what awaiting `server.close()` gives.
- `NothingLeftBehind`: unless a statement failed, a process was killed or a counter
  is at its limit, a process that ends by `shutdown()` leaves no row without its
  increment (the code's "process must not be killed mid-audit-write",
  `src/server.ts:161`, for what it writes today). What a kill leaves is the subject
  of `KeepsThePromise` and `VersionIdentifies`.
- `ShutdownEnds`: a signal ends the process. `Answered` holds here as well: a
  client is answered, or sees its connection break with its process.

A handler whose client has been answered (the other member of a `Promise.all` that
failed, say) is not waited for by `server.close()`, but by `sql.end()` if its
statement is in flight.

### PolicyDecision and PolicyEngine

`IsDecision` states the promise: allowed exactly if the policy is satisfied, the
versions passed through, and the reason names the first held slug (ANY) or the
first missing one (ALL). `PolicyEngine` has a frame and a loop index and is shown
to implement it (`Implements`, whose refinement mapping is the identity on the
four shared variables). `NothingDecidedYet` is the loop invariant.

The header of `PolicyEngine.ts` says that every reason names the deciding slug
(line 43). The reason of an ALL policy that allows names none, as
`core/runtime/context/index.ts:88-91` has it, and the specification follows the
code.

### PermissionSlugs and SlugDecision

A text is the sequence of its segments between colons, so that concatenating with
a colon is concatenation and a field with a colon in it has two segments; a
segment matches `^[a-z0-9-]+$` or not, has at most 100 characters or not.
`AcceptsPermission` is the body's schema, `ChecksPass` the CHECKs of the table,
`GeneratedSlug` the generated column, `buildPermissionSlug` and
`isValidPermissionSlug` the functions of `domain/Permission.ts`, with the handling
of null, undefined and empty specificities that each of them has.

`SlugDecision` runs the engine on a policy that `CreatePolicyBody` accepts and on
the flat slugs of rows that requests have created. `permissions` is the set
`getFlatPermissionSlugs` returns for the `granted` rows.

- `DecidesOnRows`: the engine compares opaque strings, and its answer is
  nevertheless the one on resources, actions and specificities; a slug no
  permission can have (one segment of it longer than 100 characters) is never
  satisfied.
- `SlugsAgree`: for every granted row the generated column is what
  `buildPermissionSlug` builds and what a policy may require, and no two rows
  share it.

### IdentityService

One process per call, one step per awaited call. A token is a record: what it
claims, the key that signed it, and `sound`, whether audience, expiry, issuer and
claim shapes pass. `Throw` is the rejection of any awaited call; a SET that is
reported as failed may have been applied. Beside the calls run `Expire` (TTL or
eviction), `IncrementVersion` (an admin call) and key rotation.

Of a rotation there is code for one write, `incrementKeyVersion`
(`TenantRepository.ts:85-94`), which changes `key_version` and not `public_key`,
and comments that prescribe the deletion of the cached entry
(`IdentityService.ts:45, 136-137`, `CachePort.ts:36`). A rotation is therefore
three steps: `IncrementKeyVersion` and `WritePublicKey`, in either order, with
calls of `resolve` in between that read, cache and use a version with the other
one's key; and, once both columns are written, `DropEntry`, which need not come.
That the deletion follows both writes is the one assumption, and it is what the
comments ask for. A rotation that dropped the entry between its writes would leave
a half rotated row in the cache.

`tenants[t]` is the history of what a row has held, its last element the row
(`Row`), so that properties can speak of what it held once. `settled[t]` is where
in it the last rotation was over; it guards the three steps of a rotation and
nothing of `resolve`. `keyFloor` and `principalFloor` remember what it and the
principal's version were when a call began, and guard nothing.

- `ContextSound`: the tenant, principal, key version and principal version of a
  context belong together, though they come from a token, a cache and two rows at
  different times: the key that verified the token and the version in the context
  are a pair that the tenant's row held. That this need not be the version the key
  is meant to have, while a rotation is half written, is the rotation's business
  and not one of `resolve`.
- `StaleOnlyByOvertaking`: once a rotation is over an entry differs from its row
  only where the deletion overtook a fill.
- `RotatedKeyOnlyByOvertaking`: the service's promise that a later call uses the
  rotated key (`NextRequestUsesRotatedKey`, which a run refutes) fails for tenants
  with such a fill and for no other.
- `StaleEntriesGo`: the TTL ends every staleness, also when the deletion never
  comes. `RequestsEnd`: every call ends.

### RouteTrie

A trie node is named by the labels that lead to it, parameter segments sharing
the label `Param`; `children` and `paramChild` are the longer names in the domain
of `trie`. `SegmentsOf` is the strip-and-split at the head of `insertRoute`, with
the empty segments a trailing slash leaves. `TrieTells`, `NodesOnTheWay` and
`FirstNameKept` together say what the trie is, given the list.

### ServiceRegistry

Slots as in AccessControl. `RequireTenant` is the tenant lookup and the body's
schema, `FindService` the service lookup of `createRoute` and `listRoutes`,
`CreateService` and `CreateRoute` the INSERTs with their constraints,
`SelectRoutes` the SELECT of `listRoutesByService` or, for the operation
`getAllRoutes`, of `listAllRoutesByTenant`. A request may name a tenant, service
or policy of another tenant or none there is. `Joined` is the LEFT JOIN that adds
a policy's name. `acknowledged` and `floor` remember what clients had been told
when a list was asked for, and guard nothing.

- `RoutesBelong`: a route's tenant is that of its service. Both columns are
  foreign keys of their own, and only the lookup one await earlier relates them.
- `ListsConfined`: a list shows services and policy names of its own tenant only,
  though `createRoute` accepts a policy of any tenant (the route then refers to it,
  and its name reads as null). What such a route means to the gateway is open: the
  code that would evaluate it does not exist.
- `ListsKnowAcknowledged`: a list is complete, routes without a policy included.
- `ListsFeedTheTrie`: what `buildTrie` gets satisfies `UniqueConstraint` of
  RouteTrie.
- `ConflictMeansThere`: a 409 says that what was asked for is there, after a
  first attempt with a lost answer as well. An unknown policy is a foreign-key
  error and answered 500.
- `ActsAtomically`: `AtomicRegistry!Spec`, in which a request is one step: it creates,
  lists or refuses, and the reason it gives holds at that instant. `createRoute`
  and `listRoutes` are three statements and no transaction; the refinement says
  that clients cannot tell, failed statements and lost answers included (the
  abstract `Create` may be answered 500). The mapping is `request <- call`,
  `code <- status`, `list <- answer`.

### ContextWire

A value, what `JSON.parse` makes of its serialized form, and what the schema makes
of that. A Set is serialized in any order. A timestamp is an instant with the form
it is in, Date or ISO string; the ids of an audit record are equal to each other
to keep the instances few. A third kind of value, a request, is the route and the
identity context as their producers assemble them, and meets `RouteContextSchema`
and `IdentityContextSchema` without a serializer.

- `PermissionContextsReadBack`: what goes into the cache comes back as the same
  set, or is refused if the schema would never have let it in.
- `AcceptedRequestsAudited`: no request that was accepted fails at the end, at
  `AuditRecordSchema`, whatever policy decides it and however. The pipeline that
  assembles the record is not written; `RecordOf` takes each field from where the
  interface says it comes (`core/runtime/context/index.ts:99-122`). A route
  without a policy has no `policyId` to record, though its denial is a decision:
  this is listed as a hazard.

## Runs

| Run | Bounds | States | Shows |
|---|---|---|---|
| `access_control` | 2 slots, 3 requests of 13 calls (5 assignments over two mirrored tenants, 8 creates and late assignments), 1 failure, integers up to 2 | 175,487 | the seven properties of AccessControl |
| `management_process` | 2 slots, 2 requests of 4 calls, 1 failure, 1 kill, both signals, any number of starts | 96,564 | shutdown, crash, and the refinement of Invalidation |
| `access_policy_retry` | 2 requests one after the other, 1 failed statement, no lost answer | counterexample | an increment fails, the retry is answered 409, no counter follows the change |
| `access_assign_atomic` | 2 requests, 1 failure | counterexample | one counter without the other |
| `policy_engine` | policies of up to 3 of 11 posted slugs, repetitions included, every set of granted rows out of 11 posted bodies | 39,328 | refinement, loop invariant, termination, slugs |
| `identity_service` | 2 calls, 2 tenants, 8 tokens, 3 keys, 1 rotation of two writes, 2 principal versions | 442,942 | contexts, staleness, the way a rotated key comes back, termination |
| `identity_next_request` | the same | counterexample | the rotated-out key is used again |
| `route_trie` | every list of up to 3 of 24 rows, in any order a collation can give | 100,273 | the three statements about the trie |
| `route_trie_duplicates` | the same | counterexample | silent replacement |
| `context_wire` | 2 strings and the empty one, versions 0..2, 2 instants | 37,584 | permission contexts read back, accepted requests audited |
| `context_wire_audit` | the same | counterexample | audit records do not |
| `service_registry` | 2 slots, 3 requests of 15 calls over two tenants, 1 failure | 277,849 | the six invariants of ServiceRegistry, the refinement of AtomicRegistry |

Why the bounds are enough. Two slots already give every pair of handlers at every
pair of statements; a third request, served after the first ones, sees the rows
they left (retry after a failure, link after a create). One failure is
all the properties turn on: each speaks of what one missing effect leaves behind.
`IntMax` is small so that a counter reaches its limit. Two calls of `resolve` are
what the fill race needs; one rotation separates old from new and, by its two
writes in either order, the two halves from each other. One kill separates a
process from the next one; with two requests there is one whose statement is
orphaned and one that runs beside it. The posted bodies and slugs hold each way to
be refused (colons in a field, empty or overlong fields, wrong characters, unknown
actions, too few and too many segments) besides pairs that would collide. Three
routes show a
collision, a route that passes between, and a route below. Every action of every
specification occurs in some passing run. Deadlock is checked where a run ends in
a state with a named step (`Quiet`, `Returned`); it is not checked for
`IdentityService`, whose calls and rotations are finitely many and end, nor for
`ContextWire`, where a value is written and read once.

Fairness. `AccessControl`: weak fairness per slot on the steps of its request,
because a statement sent to Postgres is answered or, when its socket fails, is
rejected; nothing makes a request arrive. `IdentityService`: weak fairness on the
steps of each call, for the same reason, and on `Expire`, because Redis honours
the TTL of a SET. There is none on rotation or on the deletion after it.
`PolicyEngine`: weak fairness on its steps, because the function is synchronous.
`ManagementProcess`: weak fairness on the steps of a handler and of an orphaned
statement (it is executed, or its connection goes), and on the two awaits of each
signal's `shutdown()`, which return once what they wait for is done. Nothing makes
a request, a signal, a kill or a start happen.

## Disagreements found

Each is a run with `expect: violation` and an entry in `findings`.

1. `createPolicy` (also `createRole`, `createPermission`) can leave a change that
   no counter ever follows: row committed, increment failed, retry answered 409
   (`PolicyRegistryService.ts:59` against its comment on line 18). The run checks
   the rule as a client that repeats its request until it hears of the row can hold
   it (`RetryInvalidates`), and lets no answer be lost, so that its trace is this
   sequence. A lost answer of the INSERT leads to the same end.
2. `assignRoleToPrincipal` increments two counters that "must be incremented
   atomically" with two independent statements (`AccessControlService.ts:191-195`).
3. A cache fill in flight restores a key after a rotation has deleted it, and the
   next request uses the rotated-out key (`IdentityService.ts:138` against lines
   11-13); the cache key carries no version (line 46, against `Tenant.ts:19`).
4. The unique constraint that is said to catch duplicate routes does not:
   it is per service and on the raw pattern (`buildTrie.ts:108-110`).
5. `serializedAuditRecord` writes `tenant` where `AuditRecordSchema` requires
   `tenantId` (`context.ts:208` and 179): no audit record could be read back.

## Proofs

All are in the `*Proofs` modules, from the named assumptions on the constants
(`ParametersAssumption`, `SeedAssumption`, `PoliciesAssumption`,
`IdentityAssumption`, `RoutesAssumption`, `RegistryAssumption`, `KillsAssumption`,
`SegmentsAssumption`, `PostedAssumption`, `ValuesAssumption`) and nothing else. The seed of
AccessControl is any content of the tables in which every row's tenant exists and
ids are unique.

- AccessControl. `TypeInv` adds to `TypeOK` that a slot at work serves a call a
  client sent; what the awaited statement reads of it is typed by that.
  `IsolationInv` adds to `TenantIsolation` that ids are unique over all tables and
  that a slot past its lookups found both ends in its tenant: rows are never
  deleted, so that the check still holds at the write, however many awaits later.
  `FlatConfined` follows from it without a further induction. `AckInv` accounts for
  every slot: what it owes is being awaited or has been applied, unless it has been
  answered 500 or its connection broke; a change whose increment has been applied is covered; and a change
  is written in the tables, so that it never becomes uncovered again. `OwedInv` adds
  to `ChangesOwed` that the tenants of changes, and of requests past the tenant
  lookup, exist: no creation resets a counter a change is waiting for. `AnswerInv`
  says of each answer, and of each request past its INSERT, that what was asked for
  is there (`Fulfilled`); rows stay, so that `AnswersHold` is kept by every later
  step.
- ManagementProcess. A step is a step of AccessControl, or gives slots up, or
  leaves tables and slots alone (`StepKinds`), so that the invariants of
  AccessControl carry over (`TablesInv`, with two facts of its own: an idle slot
  that has not answered has not been called, and tenants are those with a counter).
  `ProcessInv` adds `PoolInv`: once the pool ends, all that is at work has been
  answered and has a statement the pool waits for, which is why nothing is left at
  the exit; and, while no process has been killed, `OwedInv`. `PromiseKept` is the
  refinement: `StepCases` says of every step of a handler that it stores one
  change, moves one counter, creates a tenant, or touches nothing decisions depend
  on; each is a step of `Invalidation`, and `AckInv` gives that clients are told of
  covered changes only. `VersionsIdentify` is an induction over the steps of
  `Invalidation`, which by then are all there are. A kill needs little of its own:
  a client whose connection broke was told nothing, and `AckInv` asks nothing of its
  slot (`LosesTables`). `PoolInv` also says that no slot still at work has a broken
  connection while the process serves, so that all the pool waits for has been
  answered: `ShutdownBreaksNothing` is the step `Exit` taken from there.
  For the same reason `SafeThroughRestarts` has no case for it: what it states is
  kept in tables and counters, never in a process.
- SlugDecision. That slugs identify rows (`SlugsIdentifyRows`) and are exactly what
  a policy may require (`GeneratedSlugsValid`, `ValidSlugsGenerated`) rests on the
  fields being single segments; both directions are needed for `DecisionsOnRows`,
  which combines them with what `EngineInv` knows of an answer. `SlugEngine` says
  that the engine with `granted` beside it is the engine, so that its theorems
  apply.
- PolicyEngine. `EngineInv` is the type and the loop invariant, what the frame says
  of the policy (non-empty, of that strategy), and that an answer returned is
  right; every step of the engine is then `Decide` or a stutter. Policies may have
  any length. `EngineIsDeterministic`: `IsDecision` has one solution, reason
  included, so that a refinement of it cannot hide a choice.
- IdentityService. `IdentityInv`: each call knows at each await what `CallOK` says
  (its entry is something its tenant's row has held, the token verifies under it
  once validated, its floor is not above the principal's row), each cached entry is
  such contents (`CachedOK`), and an entry that differs from the row, in the cache
  or in the hand of a call about to write it, belongs to a tenant that is rotating
  or overtaken (`Hot`). Rows only gain contents (`SinceGrows`), so that none of this
  depends on which column a rotation writes first or on what a version pairs with.
  `FloorInv`, over it, compares with what the last rotation left. Unless a fill was
  overtaken, what is cached or about to be cached is that or newer, and the floor
  of a call is not above it.
- RouteTrie. `TrieInv` is the conjunction of the four invariants: they carry each
  other. The unique constraint is not used, as they hold of any list. Where no two
  routes share a node and a method (`Unambiguous`), the entries of the trie are
  exactly the routes registered (`UnambiguousListsKept`).
- ServiceRegistry. `TypeInv` adds to `TypeOK` what a slot's request is known to be;
  `RegistryInv` adds that service ids are unique and that a slot at the INSERT of a
  route has found its service in its tenant. `ConflictMeansThere` needs
  `RoutesBelong`: the constraint speaks of the service, the answer of the tenant.
  `HandlersAreAtomic` maps the arrival to `Send`, the statement that answers to
  `Create`, `List` or `Refuse`, and every other to a stutter. `StageInv` carries what
  was checked to where it is used: a service that was found is still there, in the
  tenant, at the INSERT or the SELECT, as no service goes.
- ContextWire. `WireInv` says what is on the wire and what was read, given the
  original; `WiredRead` is the step from an array in any order back to the set.

Where the findings end. A counterexample shows that a rule can be broken; these
theorems say, for every value of the constants, what it takes to break it.

| Rule of the code's comments | Theorem | Broken only by |
|---|---|---|
| both counters or neither; every change invalidates | `RulesHoldUntilTrouble`, and with shutdowns and restarts `ShutdownKeepsRules` | a statement that failed or lost its answer, a counter at the integer's limit, a kill; never by interleaving |
| the next request uses the rotated key | `RotatedKeyHasOneEscape` | a fill that the deletion of the entry overtook |
| duplicate routes are caught | `UnambiguousListsKept` | two routes of one method that end at one node |
| audit records are read back | `NoAuditRecordReadBack` | every record: none is |

`RulesHoldUntilTrouble` is an induction of its own: `CleanInv` says that until
something fails a request that increments has not been answered and that an
assignment ends with both counters moved or none, and `OwedInv` gives that no change
is left uncovered when all is idle.

Termination. TLAPS proves nothing under fairness here, but what liveness rests on
besides fairness is safety and is proved: that a measure (`Left`) falls with every
step of a request, that no other step raises it, and that it is zero only at the
end. `RequestsRunOut` (seven steps of a handler at most, each awaiting something
that is in flight), `CallsRunOut` (five of `resolve`, and what a call has ended with
stays), `EvaluationRunsOut` (two more than the policy has slugs) and `ShutdownRunsOut` (a
signal stops new requests, every statement executed leaves fewer, and an ending pool
does not keep one waiting) are these halves of `Answered`, `RequestsEnd`,
`Terminates` and `ShutdownEnds`. The other half, that a statement in flight is
executed or rejected and that some step of a request is enabled until it ends, is
what the runs check under the stated fairness.

Only model-checked: the liveness properties themselves (`Answered`, `Terminates`,
`StaleEntriesGo`, `RequestsEnd`, `ShutdownEnds`), which need fairness and ENABLED;
and the counterexamples. Every other property of a passing run is a theorem.

## Not modelled, and why

- The enforcement pipeline, permission resolver, Redis adapters, audit drain worker,
  HTTP adapter and route matcher are announced in ports and comments and have no
  code. `src/server.ts:125-138` wires a cache stub that throws on every call; the
  identity service is modelled with the cache its port describes.
- List and get endpoints change nothing; the tenant lookup is part of the handlers
  that use it.
- Health routes, the root `server.ts`, configuration and scripts: I/O without state.
- The wiring in `build()`: construction without behaviour. The handlers of
  ServiceRegistry inside ManagementProcess: they write one row each and move no
  counter, so that a shutdown or a kill between their statements leaves nothing
  half done that a failure in `service_registry` does not.
- A second signal of the same name, which would start one more `shutdown()`: it
  awaits the same two things as the other signal's.
- `updated_at` triggers, `metadata`, `plan_tier`, context versions of policies: no
  modelled behaviour depends on them.

## Plan

Done: AccessControl, ManagementProcess over it and the promise it implements,
PolicyDecision / PolicyEngine, the slugs, IdentityService, RouteTrie,
ServiceRegistry and the AtomicRegistry it implements, ContextWire, the proofs of all
their safety properties and refinements, the boundaries of the findings, and the
measures behind the liveness properties.

1. The composition of `ServiceRegistry` with `RouteTrie`: the list given to
   `buildTrie` at a gateway's start, and what a route created after it means to a
   trie that is not built again. It waits for the reload that is announced
   (`db/migrations/1747000000002_services_and_audit.js:19`).
2. Composition of the existing pieces of the gateway: `resolve`, the flat projection
   under the two versions, `evaluate`. `Invalidation` is its interface to the
   management plane; it waits for the permission resolver and the pipeline.
3. `Invalidation` for `principal_version`, the second counter a projection is
   cached under.
4. An atomic specification of the assignments of `AccessControl`, as `AtomicRegistry`
   is of the registry: a link is made at one instant, the counters move later. Proved
   from `IsolationInv` and `AnswerInv`.
5. Lemmas for a list that grows: that `buildTrie` of a list and of the same list
   reordered agree on what is `Unambiguous` in it.
