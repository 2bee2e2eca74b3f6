---- MODULE IdentityService ----
(***************************************************************************)
(* resolve() of the identity service: one process per token, one step per  *)
(* awaited call, over the key cache and the tenant and principal rows.     *)
(* Beside it run what it shares those with: key rotation, of which only    *)
(* the write of key_version has code and the comments prescribe the rest,  *)
(* expiry of cache entries, and the admin calls that advance a principal's *)
(* version.                                                                *)
(***************************************************************************)
EXTENDS Integers, Sequences

CONSTANTS
    Requests,             \* calls of resolve()
    TenantIds,            \* rows of tenants
    Principals,           \* rows of principals
    Owner,                \* the tenant_id of each principal's row
    Keys,                 \* RSA key pairs
    FirstKey,             \* the public_key each tenant is created with
    Tokens,               \* tokens that arrive
    MaxRotations,         \* bound on the key rotations of each tenant
    MaxPrincipalVersion,  \* bound on version advances
    None                  \* no token, no key, no claim

\* What a token claims, the key that signed it, and whether everything else
\* that is checked of it passes: exp, aud, iss, and that every claim is there.
\* tenantId is None where the unverified payload yields no usable one.
ASSUME IdentityAssumption ==
    /\ MaxPrincipalVersion \in Nat \ {0}
    /\ Owner \in [Principals -> TenantIds]
    /\ FirstKey \in [TenantIds -> Keys]
    /\ MaxRotations \in [TenantIds -> Nat]
    /\ \A tok \in Tokens : tok.signer \in Keys /\ tok.sound \in BOOLEAN
    /\ None \notin TenantIds \cup Keys

VARIABLES
    tenants,           \* the contents each row has had, the last being the present one
    principals,        \* principal_version of each row
    cache,             \* publicKey:<tenantId>: entry and TTL, or None
    settled,           \* ghost: position in tenants of what the last rotation left
    req,               \* the calls
    overtaken          \* ghost: tenants whose entry was dropped while a fill was on its way

vars == <<tenants, principals, cache, settled, req, overtaken>>

\* TenantKeyEntry; version 0 stands for "none resolved".
Entry == [publicKey : Keys \cup {None}, keyVersion : Nat]
NoEntry == [publicKey |-> None, keyVersion |-> 0]

PCs == {"idle", "get", "findTenant", "set", "validate", "findPrincipal", "resolved", "denied"}
Done == {"resolved", "denied"}

KeyPair(key, version) == [publicKey |-> key, keyVersion |-> version]

\* The two columns as SELECT returns them: both of one moment.
Row(t) == tenants[t][Len(tenants[t])]

\* What a row has held from its n-th contents on.
Since(rows, n) == {rows[i] : i \in n..Len(rows)}

\* A rotation of t has begun and the entry is not dropped yet.
Rotating(t) == settled[t] # Len(tenants[t])

Call(pc, token, keyFloor, principalFloor) ==
    [pc |-> pc, token |-> token, entry |-> NoEntry, context |-> None,
     keyFloor |-> keyFloor, principalFloor |-> principalFloor]

Calls ==
    [pc : PCs, token : Tokens \cup {None}, entry : Entry,
     context : {None} \cup [tenantId : TenantIds, principalId : Principals,
                            keyVersion : Nat, principalVersion : Nat],
     keyFloor : Nat, principalFloor : Nat]

Go(r, pc) == req' = [req EXCEPT ![r].pc = pc]

\* Any error: nothing of the call is left.
Deny(r) == req' = [req EXCEPT ![r] = Call("denied", None, 0, 0)]

Rows == <<tenants, principals>>

----------------------------------------------------------------------------
\* Step 1: the claimed tenant, before any verification.  What the last rotation
\* had left when the call began, and the principal's version then, are remembered
\* as ghosts.
Resolve(r) == \E tok \in Tokens :
    /\ req[r].pc = "idle"
    /\ IF tok.tenantId = None THEN Deny(r)
       ELSE req' = [req EXCEPT ![r] = Call("get", tok,
              IF tok.tenantId \in TenantIds THEN settled[tok.tenantId] ELSE 0,
              IF tok.sub \in Principals THEN principals[tok.sub] ELSE 0)]
    /\ UNCHANGED <<Rows, cache, settled, overtaken>>

\* Faulty variant for ContextSound: one cache key for all tenants.
CacheGetUnscoped(r) ==
    /\ req[r].pc = "get"
    /\ \/ \E t \in TenantIds :
            /\ cache[t].ttl
            /\ req' = [req EXCEPT ![r].pc = "validate", ![r].entry = cache[t].entry]
       \/ (\A t \in TenantIds : ~cache[t].ttl) /\ Go(r, "findTenant")
    /\ UNCHANGED <<Rows, cache, settled, overtaken>>

\* fetchTenantKey: cache hit, or go to the database.
CacheGet(r) ==
    LET t == req[r].token.tenantId IN
    /\ req[r].pc = "get"
    /\ IF t \in TenantIds /\ cache[t].entry # NoEntry
       THEN req' = [req EXCEPT ![r].pc = "validate", ![r].entry = cache[t].entry]
       ELSE Go(r, "findTenant")
    /\ UNCHANGED <<Rows, cache, settled, overtaken>>

\* Faulty variant for RequestsEnd: an unknown tenant is awaited.
FindTenantAwaiting(r) ==
    LET t == req[r].token.tenantId IN
    /\ req[r].pc = "findTenant"
    /\ t \in TenantIds
    /\ req' = [req EXCEPT ![r].pc = "set", ![r].entry = Row(t)]
    /\ UNCHANGED <<Rows, cache, settled, overtaken>>

\* fetchTenantKey: the row, if there is one.
FindTenant(r) ==
    LET t == req[r].token.tenantId IN
    /\ req[r].pc = "findTenant"
    /\ IF t \in TenantIds
       THEN req' = [req EXCEPT ![r].pc = "set", ![r].entry = Row(t)]
       ELSE Deny(r)
    /\ UNCHANGED <<Rows, cache, settled, overtaken>>

\* Faulty variant for TypeOK and StaleEntriesGo: SET without EX.
FillWithoutTTL(r) == [entry |-> req[r].entry, ttl |-> FALSE]

\* The value of cache.set(cacheKey, entry, KEY_CACHE_TTL_SECONDS).
Fill(r) == [entry |-> req[r].entry, ttl |-> TRUE]

\* fetchTenantKey: the entry read from the row is written, whatever happened
\* to the row since.
CacheSet(r) ==
    /\ req[r].pc = "set"
    /\ cache' = [cache EXCEPT ![req[r].token.tenantId] = Fill(r)]
    /\ Go(r, "validate")
    /\ UNCHANGED <<Rows, settled, overtaken>>

\* Steps 3 and 4: jwt.verify against the key resolved in step 2, the claims of
\* the verified payload, and the tenant once more.  Verified and unverified
\* payload are the same bytes.
Verifies(tok, key) == tok.sound /\ tok.signer = key

Validate(r) ==
    /\ req[r].pc = "validate"
    /\ IF Verifies(req[r].token, req[r].entry.publicKey)
       THEN Go(r, "findPrincipal") ELSE Deny(r)
    /\ UNCHANGED <<Rows, cache, settled, overtaken>>

\* Faulty variant for ContextSound: the version is read from the row once more.
ContextReadAgain(r) ==
    [tenantId |-> req[r].token.tenantId, principalId |-> req[r].token.sub,
     keyVersion |-> Row(req[r].token.tenantId).keyVersion,
     principalVersion |-> principals[req[r].token.sub]]

Context(r) ==
    [tenantId |-> req[r].token.tenantId, principalId |-> req[r].token.sub,
     keyVersion |-> req[r].entry.keyVersion,
     principalVersion |-> principals[req[r].token.sub]]

\* WHERE tenant_id = ... AND id = ...
Found(r) == req[r].token.sub \in Principals /\ Owner[req[r].token.sub] = req[r].token.tenantId

\* Faulty variant for StaleOnlyByOvertaking and RotatedKeyOnlyByOvertaking: a
\* successful call renews the entry it used.
FindPrincipalRenewing(r) ==
    /\ req[r].pc = "findPrincipal"
    /\ IF Found(r)
       THEN /\ req' = [req EXCEPT ![r].pc = "resolved", ![r].context = Context(r)]
            /\ cache' = [cache EXCEPT ![req[r].token.tenantId] = Fill(r)]
       ELSE Deny(r) /\ UNCHANGED cache
    /\ UNCHANGED <<Rows, settled, overtaken>>

\* Step 5: the principal in the verified tenant, and the context.
FindPrincipal(r) ==
    /\ req[r].pc = "findPrincipal"
    /\ IF Found(r)
       THEN req' = [req EXCEPT ![r].pc = "resolved", ![r].context = Context(r)]
       ELSE Deny(r)
    /\ UNCHANGED <<Rows, cache, settled, overtaken>>

\* An awaited call rejects, and resolve() with it.  A SET that is reported as
\* failed may have been applied.
Throw(r) ==
    /\ req[r].pc \in {"get", "findTenant", "set", "findPrincipal"}
    /\ Deny(r)
    /\ \/ UNCHANGED cache
       \/ /\ req[r].pc = "set"
          /\ cache' = [cache EXCEPT ![req[r].token.tenantId] = Fill(r)]
    /\ UNCHANGED <<Rows, settled, overtaken>>

----------------------------------------------------------------------------
\* Key rotation writes both columns, in either order and not at one moment.  In
\* between, a row pairs a key with the version of the other one.
Write(t, row) ==
    /\ Len(tenants[t]) <= 2 * MaxRotations[t]
    /\ tenants' = [tenants EXCEPT ![t] = Append(@, row)]
    /\ UNCHANGED <<principals, cache, settled, req, overtaken>>

\* UPDATE tenants SET key_version = key_version + 1: once in a rotation.
IncrementKeyVersion(t) ==
    /\ Row(t).keyVersion = tenants[t][settled[t]].keyVersion
    /\ Write(t, KeyPair(Row(t).publicKey, Row(t).keyVersion + 1))

\* The new public_key (no code writes it yet): once in a rotation too.
WritePublicKey(t) == \E key \in Keys \ {Row(t).publicKey} :
    /\ Row(t).publicKey = tenants[t][settled[t]].publicKey
    /\ Write(t, KeyPair(key, Row(t).keyVersion))

\* A call of t has an entry in hand that it is about to write.
Filling(t) == \E r \in Requests : req[r].pc = "set" /\ req[r].token.tenantId = t

\* With both written, cache.del(tenantKeyCacheKey(id)), as the comments prescribe.
\* It need not come: no fairness.
DropEntry(t) ==
    /\ Row(t).keyVersion # tenants[t][settled[t]].keyVersion
    /\ Row(t).publicKey # tenants[t][settled[t]].publicKey
    /\ cache' = [cache EXCEPT ![t] = [entry |-> NoEntry, ttl |-> FALSE]]
    /\ settled' = [settled EXCEPT ![t] = Len(tenants[t])]
    /\ overtaken' = IF Filling(t) THEN overtaken \cup {t} ELSE overtaken
    /\ UNCHANGED <<Rows, req>>

\* The TTL of an entry ends (an eviction looks the same).
Expire(t) ==
    /\ cache[t].ttl
    /\ cache' = [cache EXCEPT ![t] = [entry |-> NoEntry, ttl |-> FALSE]]
    /\ UNCHANGED <<Rows, settled, req, overtaken>>

\* An admin call assigns a role.
IncrementVersion(p) ==
    /\ principals[p] < MaxPrincipalVersion
    /\ principals' = [principals EXCEPT ![p] = @ + 1]
    /\ UNCHANGED <<tenants, cache, settled, req, overtaken>>

Init ==
    /\ tenants = [t \in TenantIds |-> <<KeyPair(FirstKey[t], 1)>>]
    /\ principals = [p \in Principals |-> 1]
    /\ cache = [t \in TenantIds |-> [entry |-> NoEntry, ttl |-> FALSE]]
    /\ settled = [t \in TenantIds |-> 1]
    /\ req = [r \in Requests |-> Call("idle", None, 0, 0)]
    /\ overtaken = {}

Step(r) ==
    \/ CacheGet(r) \/ FindTenant(r) \/ CacheSet(r)
    \/ Validate(r) \/ FindPrincipal(r)

Environment ==
    \/ \E t \in TenantIds :
         IncrementKeyVersion(t) \/ WritePublicKey(t) \/ DropEntry(t) \/ Expire(t)
    \/ \E p \in Principals : IncrementVersion(p)

Next ==
    \/ \E r \in Requests : Resolve(r) \/ Step(r) \/ Throw(r)
    \/ Environment

Spec == Init /\ [][Next]_vars

\* Awaited calls settle, and Redis expires what was SET with a TTL.
FairSpec ==
    /\ Spec
    /\ \A r \in Requests : WF_vars(Step(r))
    /\ \A t \in TenantIds : WF_vars(Expire(t))

----------------------------------------------------------------------------
\* Types; nothing is cached without a TTL.
TypeOK ==
    /\ tenants \in [TenantIds -> Seq(Entry \ {NoEntry})]
    /\ settled \in [TenantIds -> Nat] /\ overtaken \subseteq TenantIds
    /\ \A t \in TenantIds : settled[t] \in DOMAIN tenants[t]
    /\ principals \in [Principals -> 1..MaxPrincipalVersion]
    /\ cache \in [TenantIds -> [entry : Entry, ttl : BOOLEAN]]
    /\ \A t \in TenantIds : cache[t].ttl <=> cache[t].entry # NoEntry
    /\ req \in [Requests -> Calls]
    /\ \A r \in Requests : req[r].pc \notin {"idle", "denied"} => req[r].token \in Tokens

\* A context names a principal of the tenant it names; the token verifies under
\* a key that this tenant's row has held, and the context's keyVersion is the one
\* the row held together with that key, also in the middle of a rotation; and
\* the principalVersion is no older than the call.  resolve() assembles these from
\* two rows and a cache that it reads at different times.
ContextSound ==
    \A r \in Requests : req[r].pc = "resolved" =>
      LET ctx == req[r].context IN
      /\ ctx.principalId \in Principals /\ Owner[ctx.principalId] = ctx.tenantId
      /\ \E row \in Since(tenants[ctx.tenantId], 1) :
           Verifies(req[r].token, row.publicKey) /\ row.keyVersion = ctx.keyVersion
      /\ ctx.principalVersion \in req[r].principalFloor..principals[ctx.principalId]

\* The cached entry is not what the row holds.
Stale(t) == cache[t].entry \notin {NoEntry, Row(t)}

\* There is one way for an entry to differ from its row once a rotation is over: a
\* call had read the row before the rotation was and wrote the cache after the
\* entry was dropped.  Nothing a call does with an entry it found there revives it.
StaleOnlyByOvertaking ==
    \A t \in TenantIds : Stale(t) => Rotating(t) \/ t \in overtaken

\* The backstop works, however the entry became stale: it does not stay.
StaleEntriesGo == \A t \in TenantIds : Stale(t) ~> ~Stale(t)

\* Every call ends with a context or a denial.
RequestsEnd == \A r \in Requests : req[r].pc # "idle" ~> req[r].pc \in Done

\* "if the cache is invalidated mid-flight, the in-progress request completes
\* against the key it resolved; the next request picks up the rotated key": a
\* call that begins after a rotation is over, its cache invalidation included,
\* is not resolved against the key that was rotated out.
NextRequestUsesRotatedKey ==
    \A r \in Requests : req[r].pc = "resolved" =>
      \E row \in Since(tenants[req[r].context.tenantId], req[r].keyFloor) :
        req[r].entry.publicKey = row.publicKey

\* That sentence fails in one way only: while no fill of a tenant was overtaken
\* by the invalidation of its entry, every call of the tenant that begins after
\* a rotation is over uses what that rotation left in the row, or something
\* newer -- wherever the calls in progress, the expiry of the entry and the two
\* writes of further rotations fall.
RotatedKeyOnlyByOvertaking ==
    \A r \in Requests :
      LET t == req[r].context.tenantId IN
      req[r].pc = "resolved" /\ req[r].entry \notin Since(tenants[t], req[r].keyFloor)
        => t \in overtaken
====
