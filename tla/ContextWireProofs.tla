---- MODULE ContextWireProofs ----
(***************************************************************************)
(* What ContextWire promises holds for every choice of strings, versions   *)
(* and instants.                                                           *)
(***************************************************************************)
EXTENDS ContextWire, TLAPS

\* What the two steps of a permission context, and the one of a request, have
\* left behind.
WireInv ==
    /\ kind = "permissions" =>
         /\ original \in PermissionContext
         /\ wire # None => wire \in WiredPermissions(original)
         /\ readBack # None => wire # None /\ readBack = ParsePermissions(wire)
    /\ kind = "request" =>
         /\ original \in Request
         /\ readBack \notin {None, ZodError} =>
              /\ readBack = original
              /\ RouteParses(original.route) /\ IdentityParses(original.identity)

LEMMA InitWire == Init => WireInv
  BY DEF Init, WireInv

LEMMA NextWire == WireInv /\ [Next]_vars => WireInv'
<1> SUFFICES ASSUME WireInv, [Next]_vars PROVE WireInv'
  OBVIOUS
<1>1. CASE WritePermissions
  BY <1>1 DEF WritePermissions, WireInv
<1>2. CASE WriteAudit
  BY <1>2 DEF WriteAudit, WireInv
<1>3. CASE Read
  BY <1>3 DEF Read, WireInv
<1>4. CASE Validate
  BY <1>4 DEF Validate, WireInv
<1>5. CASE UNCHANGED vars
  BY <1>5 DEF vars, WireInv
<1> QED
  BY <1>1, <1>2, <1>3, <1>4, <1>5 DEF Next

\* An array that holds the elements of S is read as S.
LEMMA OrderRead ==
    ASSUME NEW S, NEW order \in Orders(S)
    PROVE  {order[a] : a \in DOMAIN order} = S
  BY DEF Orders

LEMMA WiredRead ==
    ASSUME NEW ctx \in PermissionContext, NEW w \in WiredPermissions(ctx)
    PROVE  ParsePermissions(w) = IF Malformed(ctx) THEN ZodError ELSE ctx
<1>1. PICK order \in Orders(ctx.permissions) : w = [ctx EXCEPT !.permissions = order]
  BY DEF WiredPermissions
<1>2. /\ w.tenantId = ctx.tenantId /\ w.principalId = ctx.principalId
      /\ w.policyVersion = ctx.policyVersion /\ w.principalVersion = ctx.principalVersion
      /\ w.permissions = order
  BY <1>1 DEF PermissionContext
<1>3. {w.permissions[a] : a \in DOMAIN w.permissions} = ctx.permissions
  BY <1>1, <1>2, OrderRead
<1>4. [w EXCEPT !.permissions = ctx.permissions] = ctx
  BY <1>1 DEF PermissionContext
<1>5. ctx.policyVersion \in Nat /\ ctx.principalVersion \in Nat
  BY ValuesAssumption DEF PermissionContext
<1>6. (\A a \in DOMAIN w.permissions : NonEmpty(w.permissions[a])) <=> Empty \notin ctx.permissions
  BY <1>3 DEF NonEmpty
<1>7. Malformed(ctx) <=>
        ~(/\ NonEmpty(w.tenantId) /\ NonEmpty(w.principalId)
          /\ \A a \in DOMAIN w.permissions : NonEmpty(w.permissions[a])
          /\ w.policyVersion > 0 /\ w.principalVersion > 0)
  BY <1>2, <1>5, <1>6 DEF Malformed, NonEmpty
<1> QED
  BY <1>3, <1>4, <1>7 DEF ParsePermissions

\* Whatever the strings and in whatever order: a well-formed permission context
\* is read back as it was written, and a malformed one is refused.
THEOREM PermissionsReadBack == Spec => []PermissionContextsReadBack
<1>1. WireInv => PermissionContextsReadBack
  BY WiredRead DEF WireInv, PermissionContextsReadBack
<1> QED
  BY InitWire, NextWire, <1>1, PTL DEF Spec

\* A request whose contexts were accepted has a decision that can be recorded.
THEOREM AcceptedAudited == Spec => []AcceptedRequestsAudited
<1>1. ASSUME WireInv, kind = "request", readBack # None, readBack # ZodError,
             NEW policyId \in Ids, NEW d \in Decision, NEW t \in Times
      PROVE  AuditParses(RecordOf(readBack, policyId, d, t))
  <2> DEFINE record == RecordOf(readBack, policyId, d, t)
  <2>1. RouteParses(readBack.route) /\ IdentityParses(readBack.identity)
    BY <1>1 DEF WireInv
  <2>2. \A f \in {"tenantId", "principalId", "routeId", "policyId", "action"} : record[f] # Empty
    BY <2>1, ValuesAssumption DEF RouteParses, IdentityParses, NonEmpty, RecordOf
  <2>3. DecisionParses(record.decision)
    <3>1. record.decision = d
      BY DEF RecordOf
    <3>2. d.reason # Empty
      BY ValuesAssumption DEF Decision
    <3>3. d.evaluatedPolicyVersion \in Nat /\ d.evaluatedPrincipalVersion \in Nat
      BY ValuesAssumption DEF Decision
    <3> QED
      BY <3>1, <3>2, <3>3 DEF DecisionParses, NonEmpty
  <2>4. DOMAIN record = {"tenantId", "principalId", "routeId", "policyId", "action",
                         "decision", "timestamp"}
    BY DEF RecordOf
  <2>5. record.timestamp = <<"Date", t>>
    BY DEF RecordOf
  <2>6. record.timestamp[1] = "Date"
    BY <2>5
  <2>7. Has(record, {"tenantId", "principalId", "routeId", "policyId", "action",
                     "decision", "timestamp"})
    BY <2>4 DEF Has
  <2>8. \A f \in {"tenantId", "principalId", "routeId", "policyId", "action"} : NonEmpty(record[f])
    BY <2>2 DEF NonEmpty
  <2>9. record.timestamp[1] \in {"Date", "ISO"}
    BY <2>6
  <2> HIDE DEF record
  <2>10. AuditParses(record)
    BY <2>3, <2>7, <2>8, <2>9 DEF AuditParses
  <2> QED
    BY <2>10 DEF record
<1>2. WireInv => AcceptedRequestsAudited
  BY <1>1 DEF AcceptedRequestsAudited
<1> QED
  BY InitWire, NextWire, <1>2, PTL DEF Spec

----------------------------------------------------------------------------
(* The disagreement between serializer and schema is no matter of values.  *)

AuditInv ==
    kind = "audit" =>
      /\ wire # None => \E record \in AuditRecord : wire = WiredAudit(record)
      /\ readBack # None => readBack = ZodError

\* What the serializer writes has no tenantId for the schema to read.
LEMMA WiredAuditRefused ==
    ASSUME NEW record \in AuditRecord
    PROVE  ParseAudit(WiredAudit(record)) = ZodError
<1>1. "tenantId" \notin DOMAIN WiredAudit(record)
  BY DEF WiredAudit
<1> QED
  BY <1>1 DEF ParseAudit, AuditParses, Has

LEMMA NextAudit ==
    (kind = "audit" => original \in AuditRecord) /\ AuditInv /\ [Next]_vars => AuditInv'
<1> SUFFICES ASSUME kind = "audit" => original \in AuditRecord, AuditInv, [Next]_vars
             PROVE  AuditInv'
  OBVIOUS
<1>1. CASE WritePermissions
  BY <1>1 DEF WritePermissions, AuditInv
<1>2. CASE WriteAudit
  BY <1>2 DEF WriteAudit, AuditInv
<1>3. CASE Read
  <2>1. ASSUME kind = "audit" PROVE readBack' = ZodError
    <3>1. readBack' = ParseAudit(wire) /\ \E record \in AuditRecord : wire = WiredAudit(record)
      BY <1>3, <2>1 DEF Read, AuditInv
    <3> QED
      BY <3>1, WiredAuditRefused
  <2> QED
    BY <1>3, <2>1 DEF Read, AuditInv
<1>4. CASE Validate
  BY <1>4 DEF Validate, AuditInv
<1>5. CASE UNCHANGED vars
  BY <1>5 DEF vars, AuditInv
<1> QED
  BY <1>1, <1>2, <1>3, <1>4, <1>5 DEF Next

\* No audit record whatsoever that the serializer writes is accepted by the
\* schema that is to read it.
THEOREM NoAuditRecordReadBack ==
    Spec => [](kind = "audit" /\ readBack # None => readBack = ZodError)
<1> DEFINE Typed == kind = "audit" => original \in AuditRecord
<1>1. Init => Typed /\ AuditInv
  BY DEF Init, AuditInv
<1>2. Typed /\ [Next]_vars => Typed'
  BY DEF Next, WritePermissions, WriteAudit, Read, Validate, vars
<1>3. AuditInv => (kind = "audit" /\ readBack # None => readBack = ZodError)
  BY DEF AuditInv
<1> HIDE DEF Typed
<1>4. Typed /\ AuditInv /\ [Next]_vars => AuditInv'
  BY NextAudit DEF Typed
<1> QED
  BY <1>1, <1>2, <1>3, <1>4, PTL DEF Spec
====
