---- MODULE ContextWire ----
(***************************************************************************)
(* The boundaries of the pipeline's contexts.  The Redis adapters are      *)
(* given serializers and schemas that parse their output: one value goes   *)
(* through JSON and back.  The HTTP adapter and the identity service hand  *)
(* over objects that a schema validates: one request is accepted or not.   *)
(***************************************************************************)
EXTENDS Integers, Sequences, FiniteSets

CONSTANTS
    Ids,       \* non-empty strings: ids, slugs, actions, reasons
    Empty,     \* the empty string
    Versions,  \* version numbers
    Times,     \* instants
    ZodError,  \* what a schema answers for a value it refuses
    None       \* not there (yet)

ASSUME ValuesAssumption == Empty \notin Ids /\ Versions \subseteq Nat

Strings == Ids \cup {Empty}

Methods == {"GET", "POST", "PUT", "PATCH", "DELETE", "HEAD", "OPTIONS"}

\* requestMetadata is TRUE when each of its values is a string, as it has to be.
RouteContext ==
    [routeId : Strings, method : {"GET", "TRACE"}, action : Strings,
     resourceType : Strings, requestMetadata : BOOLEAN]

IdentityContext ==
    [tenantId : Strings, principalId : Strings,
     keyVersion : Versions, principalVersion : Versions]

PermissionContext ==
    [tenantId : Strings, principalId : Ids, permissions : SUBSET Strings,
     policyVersion : Versions, principalVersion : Versions]

Decision ==
    [allowed : BOOLEAN, reason : Ids,
     evaluatedPolicyVersion : Versions, evaluatedPrincipalVersion : Versions]

\* What a request brings: its route, its identity, and the tenant's policy_version.
Request == [route : RouteContext, identity : IdentityContext, policyVersion : Versions \ {0}]

\* Records the pipeline assembles, each id the same as the next to keep them few.
AuditRecord ==
    { [tenantId |-> s, principalId |-> s, routeId |-> s, policyId |-> s, action |-> s,
       decision |-> d, timestamp |-> t] : s \in Ids, d \in Decision, t \in Times }

VARIABLES
    kind,      \* what goes through: "permissions", "audit", "request"
    original,  \* the value
    wire,      \* what JSON.parse makes of what JSON.stringify wrote, or the value
    readBack   \* what the schema makes of that: a value, or ZodError

vars == <<kind, original, wire, readBack>>

\* The orders in which a Set can hold the elements of S.
Orders(S) == { s \in [1..Cardinality(S) -> S] : \A x \in S : \E a \in DOMAIN s : s[a] = x }

\* serializePermissionContext: the Set becomes an array.
WiredPermissions(ctx) == { [ctx EXCEPT !.permissions = order] : order \in Orders(ctx.permissions) }

\* serializedAuditRecord: the fields as they are named there; the time in ISO.
WiredAudit(record) ==
    [tenant |-> record.tenantId, principalId |-> record.principalId,
     routeId |-> record.routeId, policyId |-> record.policyId, action |-> record.action,
     decision |-> record.decision, timestamp |-> <<"ISO", record.timestamp>>]

\* obj has the fields of a schema; those it does not have are undefined.
Has(obj, fields) == fields \subseteq DOMAIN obj

NonEmpty(s) == s # Empty

\* Faulty variant for PermissionContextsReadBack: z.array(z.string()).
ParsePermissionsOfAnyStrings(obj) ==
    IF /\ NonEmpty(obj.tenantId) /\ NonEmpty(obj.principalId)
       /\ obj.policyVersion > 0 /\ obj.principalVersion > 0
    THEN [obj EXCEPT !.permissions = {obj.permissions[a] : a \in DOMAIN obj.permissions}]
    ELSE ZodError

\* Faulty variant for AcceptedRequestsAudited: any string is an action.
RouteParsesAnyAction(r) ==
    /\ NonEmpty(r.routeId) /\ NonEmpty(r.resourceType)
    /\ r.method \in Methods /\ r.requestMetadata

\* RouteContextSchema and IdentityContextSchema: they leave what they accept as
\* it is.
RouteParses(r) ==
    /\ NonEmpty(r.routeId) /\ NonEmpty(r.action) /\ NonEmpty(r.resourceType)
    /\ r.method \in Methods /\ r.requestMetadata

IdentityParses(i) ==
    /\ NonEmpty(i.tenantId) /\ NonEmpty(i.principalId)
    /\ i.keyVersion > 0 /\ i.principalVersion > 0

\* PermissionContextSchema.
ParsePermissions(obj) ==
    IF /\ NonEmpty(obj.tenantId) /\ NonEmpty(obj.principalId)
       /\ \A a \in DOMAIN obj.permissions : NonEmpty(obj.permissions[a])
       /\ obj.policyVersion > 0 /\ obj.principalVersion > 0
    THEN [obj EXCEPT !.permissions = {obj.permissions[a] : a \in DOMAIN obj.permissions}]
    ELSE ZodError

\* DecisionSchema.
DecisionParses(d) ==
    /\ NonEmpty(d.reason)
    /\ d.evaluatedPolicyVersion >= 0 /\ d.evaluatedPrincipalVersion >= 0

\* AuditRecordSchema: the time is a Date or a string in ISO.
AuditParses(obj) ==
    /\ Has(obj, {"tenantId", "principalId", "routeId", "policyId", "action",
                 "decision", "timestamp"})
    /\ \A f \in {"tenantId", "principalId", "routeId", "policyId", "action"} : NonEmpty(obj[f])
    /\ DecisionParses(obj.decision)
    /\ obj.timestamp[1] \in {"Date", "ISO"}

ParseAudit(obj) ==
    IF AuditParses(obj)
    THEN [tenantId |-> obj.tenantId, principalId |-> obj.principalId, routeId |-> obj.routeId,
          policyId |-> obj.policyId, action |-> obj.action, decision |-> obj.decision,
          timestamp |-> obj.timestamp[2]]
    ELSE ZodError

Init ==
    /\ \/ kind = "permissions" /\ original \in PermissionContext
       \/ kind = "audit" /\ original \in AuditRecord
       \/ kind = "request" /\ original \in Request
    /\ wire = None /\ readBack = None

WritePermissions ==
    /\ kind = "permissions" /\ wire = None
    /\ wire' \in WiredPermissions(original)
    /\ UNCHANGED <<kind, original, readBack>>

WriteAudit ==
    /\ kind = "audit" /\ wire = None
    /\ wire' = WiredAudit(original)
    /\ UNCHANGED <<kind, original, readBack>>

Read ==
    /\ wire # None /\ readBack = None /\ kind # "request"
    /\ readBack' = IF kind = "permissions" THEN ParsePermissions(wire) ELSE ParseAudit(wire)
    /\ UNCHANGED <<kind, original, wire>>

\* Both contexts of a request meet their schemas as they were assembled.
Validate ==
    /\ kind = "request" /\ readBack = None
    /\ readBack' = IF RouteParses(original.route) /\ IdentityParses(original.identity)
                   THEN original ELSE ZodError
    /\ UNCHANGED <<kind, original, wire>>

Next == WritePermissions \/ WriteAudit \/ Read \/ Validate

Spec == Init /\ [][Next]_vars

----------------------------------------------------------------------------
\* A permission context the schema would not accept.
Malformed(ctx) ==
    \/ Empty \in {ctx.tenantId, ctx.principalId} \cup ctx.permissions
    \/ ctx.policyVersion = 0 \/ ctx.principalVersion = 0

\* A permission context comes back from the cache as the very set of slugs that
\* went in, whatever the order of the array; one that no resolver may produce is
\* refused instead of read.
PermissionContextsReadBack ==
    kind = "permissions" /\ readBack # None =>
      IF Malformed(original) THEN readBack = ZodError ELSE readBack = original

\* The record of a decision on a request, as AuditRecordSchema gets it before it
\* is written: ids of the request's contexts, a policy and an instant.
RecordOf(request, policyId, d, t) ==
    [tenantId |-> request.identity.tenantId, principalId |-> request.identity.principalId,
     routeId |-> request.route.routeId, policyId |-> policyId,
     action |-> request.route.action, decision |-> d, timestamp |-> <<"Date", t>>]

\* A request whose contexts were accepted cannot fail at the very end, when its
\* decision is to be recorded ("write to buffer [...] throws -> deny"): whatever
\* policy decided and however, the last schema accepts what the first ones did.
AcceptedRequestsAudited ==
    kind = "request" /\ readBack # None /\ readBack # ZodError =>
      \A policyId \in Ids, d \in Decision, t \in Times :
        /\ d.evaluatedPolicyVersion = readBack.policyVersion
        /\ d.evaluatedPrincipalVersion = readBack.identity.principalVersion
        => AuditParses(RecordOf(readBack, policyId, d, t))

\* "AuditRecordSchema [...] used by AuditDrainWorker when reading records back from
\* the stream", and what was buffered "will eventually reach the persistent audit
\* log": what was written to the stream can be read from it.
AuditRecordsReadBack == kind = "audit" /\ readBack # None => readBack = original
====
