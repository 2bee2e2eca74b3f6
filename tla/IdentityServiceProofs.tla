---- MODULE IdentityServiceProofs ----
(***************************************************************************)
(* A resolved context is sound, and a stale entry has the one cause it can *)
(* have, for any number of calls, tenants, keys, rotations and tokens.     *)
(***************************************************************************)
EXTENDS IdentityService, TLAPS

\* The contents of a row.
Pair == Entry \ {NoEntry}

\* What a row has held it has held for ever.
LEMMA SinceGrows ==
    ASSUME NEW rows \in Seq(Pair), NEW row \in Pair, NEW n \in Nat \ {0}
    PROVE  Since(rows, n) \subseteq Since(Append(rows, row), n)
<1>1. ASSUME NEW i \in n..Len(rows)
      PROVE  i \in n..Len(Append(rows, row)) /\ Append(rows, row)[i] = rows[i]
  OBVIOUS
<1> QED
  BY <1>1 DEF Since

\* What it has held since a later moment it has held since an earlier one.
LEMMA SinceEarlier ==
    ASSUME NEW rows \in Seq(Pair), NEW n \in Nat, NEW m \in Nat, n <= m
    PROVE  Since(rows, m) \subseteq Since(rows, n)
<1>1. \A i \in m..Len(rows) : i \in n..Len(rows)
  OBVIOUS
<1> QED
  BY <1>1 DEF Since

\* entry has been the contents of t's row.
KeyOf(entry, t, tn) == t \in TenantIds /\ entry # NoEntry /\ entry \in Since(tn[t], 1)

\* entry is not the contents of t's row now.
Differs(entry, t, tn) == entry # tn[t][Len(tn[t])]

\* What a call c knows at each of its awaits.  tn and pr are the tenants'
\* and the principals' rows, hot the tenants in which an entry may be stale.
CallOK(c, tn, pr, hot) ==
    /\ c \in Calls
    /\ c.pc \notin {"idle", "denied"} =>
         /\ c.token \in Tokens
         /\ c.token.sub \in Principals => c.principalFloor <= pr[c.token.sub]
    /\ c.pc \in {"set", "validate", "findPrincipal", "resolved"} =>
         KeyOf(c.entry, c.token.tenantId, tn)
    /\ c.pc = "set" /\ Differs(c.entry, c.token.tenantId, tn) => c.token.tenantId \in hot
    /\ c.pc \in {"findPrincipal", "resolved"} => Verifies(c.token, c.entry.publicKey)
    /\ c.pc = "resolved" =>
         /\ c.token.sub \in Principals /\ Owner[c.token.sub] = c.token.tenantId
         /\ c.context.tenantId = c.token.tenantId
         /\ c.context.principalId = c.token.sub
         /\ c.context.keyVersion = c.entry.keyVersion
         /\ c.context.principalVersion \in c.principalFloor..pr[c.token.sub]

\* What a cached value e of tenant t says.
CachedOK(e, t, tn, hot) ==
    /\ e \in [entry : Entry, ttl : BOOLEAN]
    /\ e.ttl <=> e.entry # NoEntry
    /\ e.entry # NoEntry => /\ KeyOf(e.entry, t, tn)
                            /\ Differs(e.entry, t, tn) => t \in hot

RowsOK ==
    /\ tenants \in [TenantIds -> Seq(Pair)]
    /\ settled \in [TenantIds -> Nat]
    /\ \A t \in TenantIds : settled[t] \in DOMAIN tenants[t]
    /\ principals \in [Principals -> 1..MaxPrincipalVersion]
    /\ overtaken \subseteq TenantIds

Hot == {t \in TenantIds : Rotating(t)} \cup overtaken

\* The inductive invariant.
IdentityInv ==
    /\ RowsOK
    /\ req \in [Requests -> Calls]
    /\ \A r \in Requests : CallOK(req[r], tenants, principals, Hot)
    /\ cache \in [TenantIds -> [entry : Entry, ttl : BOOLEAN]]
    /\ \A t \in TenantIds : CachedOK(cache[t], t, tenants, Hot)

\* A tenant's row has contents, the last rotation's among them.
LEMMA RowKnown ==
    ASSUME RowsOK, NEW t \in TenantIds
    PROVE  /\ tenants[t] \in Seq(Pair) /\ Len(tenants[t]) \in Nat \ {0}
           /\ settled[t] \in 1..Len(tenants[t])
           /\ Row(t) \in Pair /\ Row(t) \in Since(tenants[t], settled[t])
           /\ Row(t) \in Since(tenants[t], 1)
<1>1. tenants[t] \in Seq(Pair) /\ settled[t] \in DOMAIN tenants[t]
  BY DEF RowsOK
<1>2. Len(tenants[t]) \in Nat /\ DOMAIN tenants[t] = 1..Len(tenants[t])
  BY <1>1
<1>3. /\ Len(tenants[t]) \in settled[t]..Len(tenants[t])
      /\ Len(tenants[t]) \in 1..Len(tenants[t])
  BY <1>1, <1>2
<1>4. Row(t) \in Pair
  BY <1>1, <1>2, <1>3 DEF Row
<1> QED
  BY <1>1, <1>2, <1>3, <1>4 DEF Row, Since

LEMMA IdentityInitInv == Init => IdentityInv
<1> SUFFICES ASSUME Init PROVE IdentityInv
  OBVIOUS
<1> USE IdentityAssumption
<1>1. NoEntry \in Entry
  BY DEF NoEntry, Entry
<1>2. RowsOK
  <2>1. ASSUME NEW t \in TenantIds PROVE KeyPair(FirstKey[t], 1) \in Pair
    BY DEF KeyPair, Pair, Entry, NoEntry
  <2>2. ASSUME NEW t \in TenantIds
        PROVE  tenants[t] \in Seq(Pair) /\ settled[t] \in DOMAIN tenants[t]
    BY <2>1 DEF Init
  <2> QED
    BY <2>2 DEF Init, RowsOK
<1>3. Call("idle", None, 0, 0) \in Calls
  BY <1>1 DEF Call, Calls, PCs
<1>4. \A r \in Requests : CallOK(req[r], tenants, principals, Hot)
  BY <1>3 DEF Init, CallOK, Call
<1>5. \A t \in TenantIds : CachedOK(cache[t], t, tenants, Hot)
  BY <1>1 DEF Init, CachedOK
<1> QED
  BY <1>1, <1>2, <1>3, <1>4, <1>5 DEF Init, IdentityInv

\* A step that changes one call, and the cache in at most one valid place.
LEMMA CallStep ==
    ASSUME IdentityInv, UNCHANGED <<Rows, settled, overtaken>>,
           NEW r \in Requests, NEW c, CallOK(c, tenants, principals, Hot),
           req' = [req EXCEPT ![r] = c],
           \/ UNCHANGED cache
           \/ \E t \in TenantIds : \E e :
                CachedOK(e, t, tenants, Hot) /\ cache' = [cache EXCEPT ![t] = e]
    PROVE  IdentityInv'
<1>1. /\ tenants' = tenants /\ principals' = principals /\ Hot' = Hot
      /\ settled' = settled /\ overtaken' = overtaken
  BY DEF Rows, Hot, Rotating
<1>2. RowsOK'
  BY <1>1 DEF IdentityInv, RowsOK
<1>3. c \in Calls
  BY DEF CallOK
<1>4. req' \in [Requests -> Calls]
  BY <1>3 DEF IdentityInv
<1>5. ASSUME NEW s \in Requests PROVE CallOK(req'[s], tenants, principals, Hot)
  BY DEF IdentityInv
<1>6. /\ cache' \in [TenantIds -> [entry : Entry, ttl : BOOLEAN]]
      /\ \A t \in TenantIds : CachedOK(cache'[t], t, tenants, Hot)
  <2>1. CASE UNCHANGED cache
    BY <2>1 DEF IdentityInv
  <2>2. ASSUME NEW t \in TenantIds, NEW e, CachedOK(e, t, tenants, Hot),
               cache' = [cache EXCEPT ![t] = e]
        PROVE  <1>6!1 /\ <1>6!2
    <3>1. e \in [entry : Entry, ttl : BOOLEAN]
      BY <2>2 DEF CachedOK
    <3> QED
      BY <2>2, <3>1 DEF IdentityInv
  <2> QED
    BY <2>1, <2>2
<1> QED
  BY <1>1, <1>2, <1>4, <1>5, <1>6 DEF IdentityInv

\* A denied call knows nothing.
LEMMA DeniedOK == CallOK(Call("denied", None, 0, 0), tenants, principals, Hot)
  BY DEF CallOK, Call, Calls, PCs, Entry, NoEntry

LEMMA DenyInv ==
    ASSUME IdentityInv, UNCHANGED <<Rows, cache, settled, overtaken>>,
           NEW r \in Requests, Deny(r)
    PROVE  IdentityInv'
<1>1. req' = [req EXCEPT ![r] = Call("denied", None, 0, 0)]
  BY DEF Deny
<1> QED
  BY <1>1, DeniedOK, CallStep

\* The types of a call that is under way.
LEMMA UnderWay ==
    ASSUME IdentityInv, NEW r \in Requests, req[r].pc \notin {"idle", "denied"}
    PROVE  /\ req[r] \in Calls /\ req[r].token \in Tokens
           /\ CallOK(req[r], tenants, principals, Hot)
           /\ req[r].token.sub \in Principals =>
                req[r].principalFloor <= principals[req[r].token.sub]
  BY DEF IdentityInv, CallOK

LEMMA ResolveInv ==
    ASSUME IdentityInv, NEW r \in Requests, Resolve(r)
    PROVE  IdentityInv'
<1>0. PICK tok \in Tokens :
        /\ req[r].pc = "idle"
        /\ IF tok.tenantId = None THEN Deny(r)
           ELSE req' = [req EXCEPT ![r] = Call("get", tok,
              IF tok.tenantId \in TenantIds THEN settled[tok.tenantId] ELSE 0,
              IF tok.sub \in Principals THEN principals[tok.sub] ELSE 0)]
        /\ UNCHANGED <<Rows, cache, settled, overtaken>>
  BY DEF Resolve
<1>1. CASE tok.tenantId = None
  BY <1>0, <1>1, DenyInv
<1>2. CASE tok.tenantId # None
  <2> DEFINE kf == IF tok.tenantId \in TenantIds THEN settled[tok.tenantId] ELSE 0
             pf == IF tok.sub \in Principals THEN principals[tok.sub] ELSE 0
  <2>1. kf \in Nat /\ pf \in Nat
    BY IdentityAssumption DEF IdentityInv, RowsOK
  <2>2. tok.sub \in Principals => pf <= principals[tok.sub]
    BY IdentityAssumption DEF IdentityInv, RowsOK
  <2>3. req' = [req EXCEPT ![r] = Call("get", tok, kf, pf)]
    BY <1>0, <1>2
  <2> HIDE DEF kf, pf
  <2>4. CallOK(Call("get", tok, kf, pf), tenants, principals, Hot)
    BY <2>1, <2>2 DEF CallOK, Call, Calls, PCs, Entry, NoEntry
  <2> QED
    BY <1>0, <2>3, <2>4, CallStep
<1> QED
  BY <1>1, <1>2

LEMMA CacheGetInv ==
    ASSUME IdentityInv, NEW r \in Requests, CacheGet(r)
    PROVE  IdentityInv'
<1> DEFINE t == req[r].token.tenantId
<1>0. req[r].pc = "get" /\ UNCHANGED <<Rows, cache, settled, overtaken>>
  BY DEF CacheGet
<1>1. /\ req[r] \in Calls /\ req[r].token \in Tokens
      /\ req[r].token.sub \in Principals =>
           req[r].principalFloor <= principals[req[r].token.sub]
  BY <1>0, UnderWay
<1>2. CASE t \in TenantIds /\ cache[t].entry # NoEntry
  <2> DEFINE c == [req[r] EXCEPT !.pc = "validate", !.entry = cache[t].entry]
  <2>1. req' = [req EXCEPT ![r] = c]
    BY <1>2 DEF CacheGet
  <2>2. cache[t].entry \in Entry /\ KeyOf(cache[t].entry, t, tenants)
    BY <1>2 DEF IdentityInv, CachedOK
  <2>3. c \in Calls
    BY <1>1, <2>2 DEF Calls, PCs
  <2>4. /\ c.pc = "validate" /\ c.entry = cache[t].entry /\ c.token = req[r].token
        /\ c.principalFloor = req[r].principalFloor
    BY <1>1 DEF Calls
  <2> HIDE DEF c
  <2>5. CallOK(c, tenants, principals, Hot)
    BY <1>1, <2>2, <2>3, <2>4 DEF CallOK
  <2> QED
    BY <1>0, <2>1, <2>5, CallStep
<1>3. CASE ~(t \in TenantIds /\ cache[t].entry # NoEntry)
  <2> DEFINE c == [req[r] EXCEPT !.pc = "findTenant"]
  <2>1. req' = [req EXCEPT ![r] = c]
    BY <1>3 DEF CacheGet, Go
  <2>2. /\ c \in Calls /\ c.pc = "findTenant" /\ c.token = req[r].token
        /\ c.principalFloor = req[r].principalFloor
    BY <1>1 DEF Calls, PCs
  <2> HIDE DEF c
  <2>3. CallOK(c, tenants, principals, Hot)
    BY <1>1, <2>2 DEF CallOK
  <2> QED
    BY <1>0, <2>1, <2>3, CallStep
<1> QED
  BY <1>2, <1>3

LEMMA FindTenantInv ==
    ASSUME IdentityInv, NEW r \in Requests, FindTenant(r)
    PROVE  IdentityInv'
<1> DEFINE t == req[r].token.tenantId
<1>0. req[r].pc = "findTenant" /\ UNCHANGED <<Rows, cache, settled, overtaken>>
  BY DEF FindTenant
<1>1. /\ req[r] \in Calls /\ req[r].token \in Tokens
      /\ req[r].token.sub \in Principals =>
           req[r].principalFloor <= principals[req[r].token.sub]
  BY <1>0, UnderWay
<1>2. CASE t \in TenantIds
  <2> DEFINE c == [req[r] EXCEPT !.pc = "set", !.entry = Row(t)]
  <2>1. req' = [req EXCEPT ![r] = c]
    BY <1>2 DEF FindTenant
  <2>2. /\ Row(t) \in Entry /\ KeyOf(Row(t), t, tenants) /\ ~Differs(Row(t), t, tenants)
    BY <1>2, RowKnown DEF IdentityInv, Row, Pair, KeyOf, Differs
  <2>3. /\ c \in Calls /\ c.pc = "set" /\ c.entry = Row(t) /\ c.token = req[r].token
        /\ c.principalFloor = req[r].principalFloor
    BY <1>1, <2>2 DEF Calls, PCs
  <2> HIDE DEF c
  <2>4. CallOK(c, tenants, principals, Hot)
    BY <1>1, <2>2, <2>3 DEF CallOK
  <2> QED
    BY <1>0, <2>1, <2>4, CallStep
<1>3. CASE t \notin TenantIds
  BY <1>0, <1>3, DenyInv DEF FindTenant
<1> QED
  BY <1>2, <1>3

\* What a call at cache.set writes is as good as what is cached anywhere.
LEMMA FillOK ==
    ASSUME IdentityInv, NEW r \in Requests, req[r].pc = "set"
    PROVE  /\ req[r].token.tenantId \in TenantIds
           /\ CachedOK(Fill(r), req[r].token.tenantId, tenants, Hot)
<1> DEFINE t == req[r].token.tenantId
<1>1. /\ req[r].entry \in Entry /\ KeyOf(req[r].entry, t, tenants)
      /\ Differs(req[r].entry, t, tenants) => t \in Hot
  BY DEF IdentityInv, CallOK, Calls
<1>2. req[r].entry # NoEntry /\ t \in TenantIds
  BY <1>1 DEF KeyOf
<1> QED
  BY <1>1, <1>2 DEF CachedOK, Fill

LEMMA CacheSetInv ==
    ASSUME IdentityInv, NEW r \in Requests, CacheSet(r)
    PROVE  IdentityInv'
<1> DEFINE c == [req[r] EXCEPT !.pc = "validate"]
<1>0. /\ req[r].pc = "set" /\ UNCHANGED <<Rows, settled, overtaken>>
      /\ cache' = [cache EXCEPT ![req[r].token.tenantId] = Fill(r)]
      /\ req' = [req EXCEPT ![r] = c]
  BY DEF CacheSet, Go
<1>1. /\ req[r] \in Calls /\ req[r].token \in Tokens
      /\ req[r].token.sub \in Principals =>
           req[r].principalFloor <= principals[req[r].token.sub]
      /\ KeyOf(req[r].entry, req[r].token.tenantId, tenants)
  BY <1>0, UnderWay DEF CallOK
<1>2. /\ c \in Calls /\ c.pc = "validate" /\ c.entry = req[r].entry
      /\ c.token = req[r].token /\ c.principalFloor = req[r].principalFloor
  BY <1>1 DEF Calls, PCs
<1> HIDE DEF c
<1>3. CallOK(c, tenants, principals, Hot)
  BY <1>1, <1>2 DEF CallOK
<1> QED
  BY <1>0, <1>3, FillOK, CallStep

LEMMA ValidateInv ==
    ASSUME IdentityInv, NEW r \in Requests, Validate(r)
    PROVE  IdentityInv'
<1> DEFINE c == [req[r] EXCEPT !.pc = "findPrincipal"]
<1>0. req[r].pc = "validate" /\ UNCHANGED <<Rows, cache, settled, overtaken>>
  BY DEF Validate
<1>1. /\ req[r] \in Calls /\ req[r].token \in Tokens
      /\ req[r].token.sub \in Principals =>
           req[r].principalFloor <= principals[req[r].token.sub]
      /\ KeyOf(req[r].entry, req[r].token.tenantId, tenants)
  BY <1>0, UnderWay DEF CallOK
<1>2. CASE Verifies(req[r].token, req[r].entry.publicKey)
  <2>1. req' = [req EXCEPT ![r] = c]
    BY <1>2 DEF Validate, Go
  <2>2. /\ c \in Calls /\ c.pc = "findPrincipal" /\ c.entry = req[r].entry
        /\ c.token = req[r].token /\ c.principalFloor = req[r].principalFloor
    BY <1>1 DEF Calls, PCs
  <2> HIDE DEF c
  <2>3. CallOK(c, tenants, principals, Hot)
    BY <1>1, <1>2, <2>2 DEF CallOK
  <2> QED
    BY <1>0, <2>1, <2>3, CallStep
<1>3. CASE ~Verifies(req[r].token, req[r].entry.publicKey)
  BY <1>0, <1>3, DenyInv DEF Validate
<1> QED
  BY <1>2, <1>3

LEMMA FindPrincipalInv ==
    ASSUME IdentityInv, NEW r \in Requests, FindPrincipal(r)
    PROVE  IdentityInv'
<1> DEFINE c == [req[r] EXCEPT !.pc = "resolved", !.context = Context(r)]
<1>0. req[r].pc = "findPrincipal" /\ UNCHANGED <<Rows, cache, settled, overtaken>>
  BY DEF FindPrincipal
<1>1. /\ req[r] \in Calls /\ req[r].token \in Tokens
      /\ req[r].token.sub \in Principals =>
           req[r].principalFloor <= principals[req[r].token.sub]
      /\ KeyOf(req[r].entry, req[r].token.tenantId, tenants)
      /\ Verifies(req[r].token, req[r].entry.publicKey)
  BY <1>0, UnderWay DEF CallOK
<1>2. CASE Found(r)
  <2>1. req' = [req EXCEPT ![r] = c]
    BY <1>2 DEF FindPrincipal
  <2>2. /\ req[r].token.sub \in Principals
        /\ Owner[req[r].token.sub] = req[r].token.tenantId
        /\ req[r].token.tenantId \in TenantIds
        /\ principals[req[r].token.sub] \in Nat
        /\ req[r].entry.keyVersion \in Nat /\ req[r].principalFloor \in Nat
    BY <1>1, <1>2, IdentityAssumption DEF Found, KeyOf, IdentityInv, RowsOK, Calls, Entry
  <2>3. /\ Context(r) \in [tenantId : TenantIds, principalId : Principals,
                           keyVersion : Nat, principalVersion : Nat]
        /\ Context(r).tenantId = req[r].token.tenantId
        /\ Context(r).principalId = req[r].token.sub
        /\ Context(r).keyVersion = req[r].entry.keyVersion
        /\ Context(r).principalVersion = principals[req[r].token.sub]
    BY <2>2 DEF Context
  <2>4. /\ c \in Calls /\ c.pc = "resolved" /\ c.entry = req[r].entry
        /\ c.context = Context(r)
        /\ c.token = req[r].token /\ c.principalFloor = req[r].principalFloor
    BY <1>1, <2>3 DEF Calls, PCs
  <2> HIDE DEF c
  <2>5. CallOK(c, tenants, principals, Hot)
    BY <1>1, <2>2, <2>3, <2>4 DEF CallOK
  <2> QED
    BY <1>0, <2>1, <2>5, CallStep
<1>3. CASE ~Found(r)
  BY <1>0, <1>3, DenyInv DEF FindPrincipal
<1> QED
  BY <1>2, <1>3

LEMMA ThrowInv ==
    ASSUME IdentityInv, NEW r \in Requests, Throw(r)
    PROVE  IdentityInv'
<1>1. /\ UNCHANGED <<Rows, settled, overtaken>>
      /\ req' = [req EXCEPT ![r] = Call("denied", None, 0, 0)]
      /\ \/ UNCHANGED cache
         \/ /\ req[r].pc = "set"
            /\ cache' = [cache EXCEPT ![req[r].token.tenantId] = Fill(r)]
  BY DEF Throw, Deny
<1>2. CASE UNCHANGED cache
  BY <1>1, <1>2, DeniedOK, CallStep
<1>3. CASE /\ req[r].pc = "set"
           /\ cache' = [cache EXCEPT ![req[r].token.tenantId] = Fill(r)]
  BY <1>1, <1>3, FillOK, DeniedOK, CallStep
<1> QED
  BY <1>1, <1>2, <1>3

\* What is known survives new contents of rows, as long as a tenant whose row has
\* changed is hot, and one that cools down has no call at cache.set.
LEMMA CallSurvives ==
    ASSUME NEW tn, NEW tn2, \A t \in TenantIds : Since(tn[t], 1) \subseteq Since(tn2[t], 1),
           NEW pr \in [Principals -> Nat], NEW pr2 \in [Principals -> Nat],
           \A p \in Principals : pr[p] <= pr2[p],
           NEW hot, NEW hot2, NEW c, CallOK(c, tn, pr, hot),
           c.pc = "set" =>
             \/ c.token.tenantId \in hot2
             \/ /\ tn2[c.token.tenantId] = tn[c.token.tenantId]
                /\ c.token.tenantId \notin hot
    PROVE  CallOK(c, tn2, pr2, hot2)
<1>1. \A e, t : KeyOf(e, t, tn) => KeyOf(e, t, tn2)
  BY DEF KeyOf
<1>2. c \in Calls
  BY DEF CallOK
<1>3. c.principalFloor \in Nat
  BY <1>2 DEF Calls
<1>4. c.pc = "resolved" => c.context.principalVersion \in c.principalFloor..pr2[c.token.sub]
  BY <1>3 DEF CallOK
<1>5. c.pc \notin {"idle", "denied"} =>
        /\ c.token \in Tokens
        /\ c.token.sub \in Principals => c.principalFloor <= pr2[c.token.sub]
  BY <1>3 DEF CallOK
<1>6. c.pc = "set" /\ Differs(c.entry, c.token.tenantId, tn2) => c.token.tenantId \in hot2
  BY DEF CallOK, Differs
<1> QED
  BY <1>1, <1>2, <1>4, <1>5, <1>6 DEF CallOK

\* A write of a row adds contents to what it has held, and the rotation it
\* belongs to is under way.
LEMMA WriteKnown ==
    ASSUME IdentityInv, NEW t \in TenantIds, NEW row \in Pair, Write(t, row)
    PROVE  /\ tenants' \in [TenantIds -> Seq(Pair)]
           /\ \A s \in TenantIds : \A n \in Nat \ {0} :
                Since(tenants[s], n) \subseteq Since(tenants'[s], n)
           /\ \A s \in TenantIds : settled[s] \in DOMAIN tenants'[s]
           /\ \A s \in TenantIds : s \in Hot' \/ (tenants'[s] = tenants[s] /\ s \notin Hot)
<1>1. /\ tenants' = [tenants EXCEPT ![t] = Append(tenants[t], row)]
      /\ settled' = settled /\ overtaken' = overtaken
      /\ tenants \in [TenantIds -> Seq(Pair)] /\ RowsOK
  BY DEF Write, IdentityInv, RowsOK
<1>2. /\ tenants[t] \in Seq(Pair) /\ settled[t] \in 1..Len(tenants[t])
      /\ Len(tenants[t]) \in Nat
  BY <1>1, RowKnown
<1>3. /\ Append(tenants[t], row) \in Seq(Pair)
      /\ Len(Append(tenants[t], row)) = Len(tenants[t]) + 1
      /\ DOMAIN Append(tenants[t], row) = 1..Len(Append(tenants[t], row))
  BY <1>2
<1>4. tenants' \in [TenantIds -> Seq(Pair)]
  BY <1>1, <1>3
<1>5. /\ tenants'[t] = Append(tenants[t], row)
      /\ \A s \in TenantIds \ {t} : tenants'[s] = tenants[s]
  BY <1>1
<1>6. \A s \in TenantIds : \A n \in Nat \ {0} :
        Since(tenants[s], n) \subseteq Since(tenants'[s], n)
  BY <1>2, <1>5, SinceGrows
<1>7. ASSUME NEW s \in TenantIds PROVE settled[s] \in DOMAIN tenants'[s]
  BY <1>1, <1>2, <1>3, <1>5 DEF RowsOK
<1>8. settled'[t] # Len(tenants'[t])
  BY <1>1, <1>2, <1>3, <1>5
<1>9. ASSUME NEW s \in TenantIds, s # t PROVE s \in Hot' <=> s \in Hot
  BY <1>1, <1>5, <1>9 DEF Hot, Rotating
<1>10. t \in Hot'
  BY <1>8 DEF Hot, Rotating
<1> QED
  BY <1>4, <1>5, <1>6, <1>7, <1>9, <1>10

LEMMA WriteInv ==
    ASSUME IdentityInv, NEW t \in TenantIds, NEW row \in Pair, Write(t, row)
    PROVE  IdentityInv'
<1>1. /\ principals' = principals /\ req' = req /\ cache' = cache
      /\ settled' = settled /\ overtaken' = overtaken
  BY DEF Write
<1>2. /\ RowsOK' /\ principals \in [Principals -> Nat]
  BY <1>1, WriteKnown, IdentityAssumption DEF IdentityInv, RowsOK
<1>3. /\ \A s \in TenantIds : Since(tenants[s], 1) \subseteq Since(tenants'[s], 1)
      /\ \A s \in TenantIds : s \in Hot' \/ (tenants'[s] = tenants[s] /\ s \notin Hot)
  <2>1. 1 \in Nat \ {0}
    OBVIOUS
  <2>2. \A s \in TenantIds : \A n \in Nat \ {0} :
          Since(tenants[s], n) \subseteq Since(tenants'[s], n)
    BY WriteKnown
  <2>3. \A s \in TenantIds : s \in Hot' \/ (tenants'[s] = tenants[s] /\ s \notin Hot)
    BY WriteKnown, Zenon
  <2> QED
    BY <2>1, <2>2, <2>3
<1>4. ASSUME NEW r \in Requests PROVE CallOK(req[r], tenants', principals, Hot')
  <2>1. CallOK(req[r], tenants, principals, Hot)
    BY DEF IdentityInv
  <2>2. req[r].pc = "set" => req[r].token.tenantId \in TenantIds
    BY <2>1 DEF CallOK, KeyOf
  <2>3. \A p \in Principals : principals[p] <= principals[p]
    BY <1>2
  <2> QED
    BY <1>2, <1>3, <2>1, <2>2, <2>3, CallSurvives
<1>5. ASSUME NEW s \in TenantIds PROVE CachedOK(cache[s], s, tenants', Hot')
  <2>1. CachedOK(cache[s], s, tenants, Hot)
    BY DEF IdentityInv
  <2>2. s \in Hot' \/ (tenants'[s] = tenants[s] /\ s \notin Hot)
    BY <1>3
  <2>3. KeyOf(cache[s].entry, s, tenants) => KeyOf(cache[s].entry, s, tenants')
    BY <1>3 DEF KeyOf
  <2> QED
    BY <2>1, <2>2, <2>3 DEF CachedOK, Differs
<1> QED
  BY <1>1, <1>2, <1>4, <1>5 DEF IdentityInv

\* Each of the two writes of a rotation is a write of a key with a version.
LEMMA WritesPairs ==
    ASSUME IdentityInv, NEW t \in TenantIds, IncrementKeyVersion(t) \/ WritePublicKey(t)
    PROVE  \E row \in Pair : Write(t, row)
<1>1. Row(t) \in [publicKey : Keys \cup {None}, keyVersion : Nat] /\ Row(t) # NoEntry
  BY RowKnown DEF IdentityInv, Pair, Entry
<1>2. CASE IncrementKeyVersion(t)
  <2>1. KeyPair(Row(t).publicKey, Row(t).keyVersion + 1) \in Pair
    BY <1>1 DEF KeyPair, Pair, Entry, NoEntry
  <2> QED
    BY <1>2, <2>1 DEF IncrementKeyVersion
<1>3. CASE WritePublicKey(t)
  <2>1. PICK key \in Keys : Write(t, KeyPair(key, Row(t).keyVersion))
    BY <1>3 DEF WritePublicKey
  <2>2. KeyPair(key, Row(t).keyVersion) \in Pair
    BY <1>1, IdentityAssumption DEF KeyPair, Pair, Entry, NoEntry
  <2> QED
    BY <2>1, <2>2
<1> QED
  BY <1>2, <1>3

LEMMA RotationInv ==
    ASSUME IdentityInv, NEW t \in TenantIds, IncrementKeyVersion(t) \/ WritePublicKey(t)
    PROVE  IdentityInv'
BY WritesPairs, WriteInv

LEMMA NothingCachedOK ==
    ASSUME NEW t, NEW tn, NEW hot
    PROVE  CachedOK([entry |-> NoEntry, ttl |-> FALSE], t, tn, hot)
  BY DEF CachedOK, NoEntry, Entry

LEMMA DropEntryInv ==
    ASSUME IdentityInv, NEW t \in TenantIds, DropEntry(t)
    PROVE  IdentityInv'
<1>1. /\ tenants' = tenants /\ principals' = principals /\ req' = req
      /\ cache' = [cache EXCEPT ![t] = [entry |-> NoEntry, ttl |-> FALSE]]
      /\ settled' = [settled EXCEPT ![t] = Len(tenants[t])]
      /\ overtaken' = IF Filling(t) THEN overtaken \cup {t} ELSE overtaken
  BY DEF DropEntry, Rows
<1>2. RowsOK'
  <2>1. /\ tenants[t] \in Seq(Pair) /\ Len(tenants[t]) \in Nat
        /\ Len(tenants[t]) \in DOMAIN tenants[t]
    BY RowKnown DEF IdentityInv
  <2> QED
    BY <1>1, <2>1 DEF IdentityInv, RowsOK
<1>3. \A s \in TenantIds : s # t /\ s \in Hot => s \in Hot'
  BY <1>1 DEF Hot, Rotating, IdentityInv, RowsOK
<1>4. ASSUME NEW r \in Requests PROVE CallOK(req[r], tenants, principals, Hot')
  <2>1. CallOK(req[r], tenants, principals, Hot)
    BY DEF IdentityInv
  <2>2. req[r].pc = "set" => req[r].token.tenantId \in TenantIds
    BY <2>1 DEF CallOK, KeyOf
  <2>3. req[r].pc = "set" /\ req[r].token.tenantId = t => t \in Hot'
    BY <1>1 DEF Filling, Hot
  <2>4. req[r].pc = "set" /\ req[r].token.tenantId \in Hot => req[r].token.tenantId \in Hot'
    BY <1>3, <2>2, <2>3
  <2> QED
    BY <2>1, <2>4 DEF CallOK
<1>5. ASSUME NEW s \in TenantIds PROVE CachedOK(cache'[s], s, tenants, Hot')
  <2>1. CASE s = t
    BY <1>1, <2>1, NothingCachedOK DEF IdentityInv
  <2>2. CASE s # t
    <3>1. cache'[s] = cache[s] /\ CachedOK(cache[s], s, tenants, Hot)
      BY <1>1, <2>2 DEF IdentityInv
    <3>2. s \in Hot => s \in Hot'
      BY <1>3, <2>2
    <3> QED
      BY <3>1, <3>2 DEF CachedOK
  <2> QED
    BY <2>1, <2>2
<1>6. cache' \in [TenantIds -> [entry : Entry, ttl : BOOLEAN]]
  BY <1>1 DEF IdentityInv, NoEntry, Entry
<1> QED
  BY <1>1, <1>2, <1>4, <1>5, <1>6 DEF IdentityInv

LEMMA ExpireInv ==
    ASSUME IdentityInv, NEW t \in TenantIds, Expire(t)
    PROVE  IdentityInv'
<1>1. /\ tenants' = tenants /\ principals' = principals /\ req' = req
      /\ cache' = [cache EXCEPT ![t] = [entry |-> NoEntry, ttl |-> FALSE]]
      /\ settled' = settled /\ overtaken' = overtaken /\ Hot' = Hot
  BY DEF Expire, Rows, Hot, Rotating
<1>2. RowsOK'
  BY <1>1 DEF IdentityInv, RowsOK
<1>3. cache' \in [TenantIds -> [entry : Entry, ttl : BOOLEAN]]
  BY <1>1 DEF IdentityInv, NoEntry, Entry
<1>4. ASSUME NEW s \in TenantIds PROVE CachedOK(cache'[s], s, tenants, Hot)
  <2>1. CASE s = t
    BY <1>1, <2>1, NothingCachedOK DEF IdentityInv
  <2>2. CASE s # t
    BY <1>1, <2>2 DEF IdentityInv
  <2> QED
    BY <2>1, <2>2
<1> QED
  BY <1>1, <1>2, <1>3, <1>4 DEF IdentityInv

LEMMA IncrementVersionInv ==
    ASSUME IdentityInv, NEW p \in Principals, IncrementVersion(p)
    PROVE  IdentityInv'
<1> USE IdentityAssumption
<1>0. principals \in [Principals -> Nat]
  BY DEF IdentityInv, RowsOK
<1>1. /\ principals' = [principals EXCEPT ![p] = @ + 1]
      /\ tenants' = tenants /\ cache' = cache /\ req' = req
      /\ settled' = settled /\ overtaken' = overtaken /\ Hot' = Hot
  BY DEF IncrementVersion, Hot, Rotating
<1>2. RowsOK'
  BY <1>1 DEF IncrementVersion, IdentityInv, RowsOK
<1>3. /\ principals' \in [Principals -> Nat]
      /\ \A q \in Principals : principals[q] <= principals'[q]
  BY <1>0, <1>1
<1>4. ASSUME NEW r \in Requests PROVE CallOK(req[r], tenants, principals', Hot)
  <2>1. CallOK(req[r], tenants, principals, Hot)
    BY DEF IdentityInv
  <2>2. req[r].pc = "set" => req[r].token.tenantId \in Hot
                             \/ req[r].token.tenantId \notin Hot
    OBVIOUS
  <2>3. \A t \in TenantIds : Since(tenants[t], 1) \subseteq Since(tenants[t], 1)
    OBVIOUS
  <2> QED
    BY <1>0, <1>3, <2>1, <2>2, <2>3, CallSurvives
<1> QED
  BY <1>1, <1>2, <1>4 DEF IdentityInv

LEMMA IdentityNextInv == IdentityInv /\ [Next]_vars => IdentityInv'
<1> SUFFICES ASSUME IdentityInv, [Next]_vars PROVE IdentityInv'
  OBVIOUS
<1>1. ASSUME NEW r \in Requests, Resolve(r) \/ Step(r) \/ Throw(r) PROVE IdentityInv'
  BY <1>1, ResolveInv, CacheGetInv, FindTenantInv, CacheSetInv, ValidateInv,
     FindPrincipalInv, ThrowInv DEF Step
<1>2. ASSUME Environment PROVE IdentityInv'
  BY <1>2, RotationInv, DropEntryInv, ExpireInv, IncrementVersionInv DEF Environment
<1>3. CASE UNCHANGED vars
  BY <1>3 DEF vars, IdentityInv, RowsOK, Hot, Rotating
<1> QED
  BY <1>1, <1>2, <1>3 DEF Next

LEMMA IdentityInvariant == Spec => []IdentityInv
  BY IdentityInitInv, IdentityNextInv, PTL DEF Spec

\* resolve() keeps to its types, and caches nothing without a TTL.
THEOREM IdentityTypeCorrect == Spec => []TypeOK
<1>1. IdentityInv => TypeOK
  BY DEF IdentityInv, RowsOK, Pair, TypeOK, CachedOK, CallOK
<1> QED
  BY <1>1, IdentityInvariant, PTL

\* Every context pairs a token with the key that verified it, under the version
\* that the row of the token's tenant held together with that key, whatever a
\* rotation has half written.
THEOREM ContextsSound == Spec => []ContextSound
<1>1. IdentityInv => ContextSound
  <2> SUFFICES ASSUME IdentityInv, NEW r \in Requests, req[r].pc = "resolved"
               PROVE  LET ctx == req[r].context IN
                      /\ ctx.principalId \in Principals
                      /\ Owner[ctx.principalId] = ctx.tenantId
                      /\ \E row \in Since(tenants[ctx.tenantId], 1) :
                           /\ Verifies(req[r].token, row.publicKey)
                           /\ row.keyVersion = ctx.keyVersion
                      /\ ctx.principalVersion \in
                           req[r].principalFloor..principals[ctx.principalId]
    BY DEF ContextSound
  <2>1. CallOK(req[r], tenants, principals, Hot)
    BY DEF IdentityInv
  <2>2. /\ req[r].entry \in Since(tenants[req[r].context.tenantId], 1)
        /\ Verifies(req[r].token, req[r].entry.publicKey)
        /\ req[r].entry.keyVersion = req[r].context.keyVersion
    BY <2>1 DEF CallOK, KeyOf
  <2> QED
    BY <2>1, <2>2 DEF CallOK
<1> QED
  BY <1>1, IdentityInvariant, PTL

\* Only a fill that was overtaken by a rotation leaves a stale entry behind.
THEOREM StaleHasOneCause == Spec => []StaleOnlyByOvertaking
<1>1. IdentityInv => StaleOnlyByOvertaking
  BY DEF IdentityInv, CachedOK, Differs, Row, Stale, StaleOnlyByOvertaking, Hot
<1> QED
  BY <1>1, IdentityInvariant, PTL

----------------------------------------------------------------------------
(* Which key a call uses. *)

\* entry is what the row of t held at its n-th contents or later, unless a fill
\* of t was overtaken.
AtLeast(entry, n, t, tn, ot) == t \in ot \/ entry \in Since(tn[t], n)

\* What a call c knows of its key: st is where the last rotation of each tenant
\* left the row, ot the tenants of which a fill was overtaken.
FloorOK(c, st, tn, ot) ==
    LET t == c.token.tenantId IN
    /\ c.pc \notin {"idle", "denied"} /\ t \in TenantIds => c.keyFloor \in 1..st[t]
    /\ c.pc = "set" => AtLeast(c.entry, st[t], t, tn, ot)
    /\ c.pc \in {"validate", "findPrincipal", "resolved"} =>
         AtLeast(c.entry, c.keyFloor, t, tn, ot)

FloorInv ==
    /\ \A t \in TenantIds : cache[t].entry # NoEntry =>
         AtLeast(cache[t].entry, settled[t], t, tenants, overtaken)
    /\ \A r \in Requests : FloorOK(req[r], settled, tenants, overtaken)

LEMMA FloorInit == Init => FloorInv
  BY DEF Init, FloorInv, FloorOK, Call

\* What is no older than a rotation is no older than one before it.
LEMMA AtLeastEarlier ==
    ASSUME RowsOK, NEW t \in TenantIds, NEW e, NEW n \in 1..settled[t],
           AtLeast(e, settled[t], t, tenants, overtaken)
    PROVE  AtLeast(e, n, t, tenants, overtaken)
<1>1. Since(tenants[t], settled[t]) \subseteq Since(tenants[t], n)
  BY RowKnown, SinceEarlier
<1> QED
  BY <1>1 DEF AtLeast

\* A call that changes its own state, and the cache at most by what it may write.
LEMMA FloorCallStep ==
    ASSUME IdentityInv, FloorInv, UNCHANGED <<Rows, settled, overtaken>>,
           NEW r \in Requests, NEW c, req' = [req EXCEPT ![r] = c],
           FloorOK(c, settled, tenants, overtaken),
           \/ UNCHANGED cache
           \/ \E t \in TenantIds : \E e :
                /\ cache' = [cache EXCEPT ![t] = e]
                /\ AtLeast(e.entry, settled[t], t, tenants, overtaken)
    PROVE  FloorInv'
<1>1. overtaken' = overtaken /\ settled' = settled /\ tenants' = tenants
  BY DEF Rows
<1>2. ASSUME NEW q \in Requests
      PROVE  FloorOK(req'[q], settled, tenants, overtaken)
  <2>1. CASE q = r
    <3>1. req'[q] = c
      BY <2>1 DEF IdentityInv
    <3> QED
      BY <3>1
  <2>2. CASE q # r
    <3>1. req'[q] = req[q]
      BY <2>2 DEF IdentityInv
    <3> QED
      BY <3>1 DEF FloorInv
  <2> QED
    BY <2>1, <2>2
<1>3. ASSUME NEW t \in TenantIds, cache'[t].entry # NoEntry
      PROVE  AtLeast(cache'[t].entry, settled[t], t, tenants, overtaken)
  BY <1>3 DEF FloorInv, IdentityInv
<1> QED
  BY <1>1, <1>2, <1>3 DEF FloorInv

\* What is known of a call that is under way.
LEMMA FloorKnown ==
    ASSUME IdentityInv, FloorInv, NEW r \in Requests, req[r].pc \notin {"idle", "denied"}
    PROVE  /\ req[r] \in Calls /\ FloorOK(req[r], settled, tenants, overtaken)
           /\ req[r].token.tenantId \in TenantIds =>
                req[r].keyFloor \in 1..settled[req[r].token.tenantId]
  BY DEF IdentityInv, FloorInv, FloorOK

LEMMA FloorDeny ==
    ASSUME IdentityInv, FloorInv, UNCHANGED <<Rows, cache, settled, overtaken>>,
           NEW r \in Requests, Deny(r)
    PROVE  FloorInv'
<1>1. req' = [req EXCEPT ![r] = Call("denied", None, 0, 0)]
  BY DEF Deny
<1>2. \A st, tn, ot : FloorOK(Call("denied", None, 0, 0), st, tn, ot)
  BY DEF FloorOK, Call
<1> QED
  BY <1>1, <1>2, FloorCallStep

\* A call begins with what the last rotation of its tenant left.
LEMMA FloorResolve ==
    ASSUME IdentityInv, FloorInv, NEW r \in Requests, Resolve(r)
    PROVE  FloorInv'
<1>0. PICK tok \in Tokens :
        /\ IF tok.tenantId = None THEN Deny(r)
           ELSE req' = [req EXCEPT ![r] = Call("get", tok,
              IF tok.tenantId \in TenantIds THEN settled[tok.tenantId] ELSE 0,
              IF tok.sub \in Principals THEN principals[tok.sub] ELSE 0)]
        /\ UNCHANGED <<Rows, cache, settled, overtaken>>
  BY DEF Resolve
<1>1. CASE tok.tenantId = None
  BY <1>0, <1>1, FloorDeny
<1>2. CASE tok.tenantId # None
  <2> DEFINE kf == IF tok.tenantId \in TenantIds THEN settled[tok.tenantId] ELSE 0
             pf == IF tok.sub \in Principals THEN principals[tok.sub] ELSE 0
  <2>1. tok.tenantId \in TenantIds => kf \in 1..settled[tok.tenantId]
    BY RowKnown DEF IdentityInv
  <2>2. req' = [req EXCEPT ![r] = Call("get", tok, kf, pf)]
    BY <1>0, <1>2
  <2> HIDE DEF kf, pf
  <2>3. Call("get", tok, kf, pf).token = tok
    BY DEF Call
  <2>4. FloorOK(Call("get", tok, kf, pf), settled, tenants, overtaken)
    BY <2>1 DEF FloorOK, Call
  <2> QED
    BY <1>0, <2>2, <2>3, <2>4, FloorCallStep
<1> QED
  BY <1>1, <1>2

LEMMA FloorCacheGet ==
    ASSUME IdentityInv, FloorInv, NEW r \in Requests, CacheGet(r)
    PROVE  FloorInv'
<1> DEFINE t == req[r].token.tenantId
<1>0. req[r].pc = "get" /\ UNCHANGED <<Rows, cache, settled, overtaken>>
  BY DEF CacheGet
<1>1. /\ req[r] \in Calls
      /\ t \in TenantIds => req[r].keyFloor \in 1..settled[t]
  BY <1>0, FloorKnown
<1>2. CASE t \in TenantIds /\ cache[t].entry # NoEntry
  <2> DEFINE c == [req[r] EXCEPT !.pc = "validate", !.entry = cache[t].entry]
  <2>1. req' = [req EXCEPT ![r] = c]
    BY <1>2 DEF CacheGet
  <2>2. /\ c.pc = "validate" /\ c.entry = cache[t].entry /\ c.token = req[r].token
        /\ c.keyFloor = req[r].keyFloor
    BY <1>1 DEF Calls
  <2>3. AtLeast(cache[t].entry, req[r].keyFloor, t, tenants, overtaken)
    BY <1>1, <1>2, AtLeastEarlier DEF FloorInv, IdentityInv
  <2> HIDE DEF c
  <2>4. FloorOK(c, settled, tenants, overtaken)
    BY <1>1, <1>2, <2>2, <2>3 DEF FloorOK
  <2> QED
    BY <1>0, <2>1, <2>2, <2>4, FloorCallStep
<1>3. CASE ~(t \in TenantIds /\ cache[t].entry # NoEntry)
  <2> DEFINE c == [req[r] EXCEPT !.pc = "findTenant"]
  <2>1. req' = [req EXCEPT ![r] = c]
    BY <1>3 DEF CacheGet, Go
  <2>2. c.pc = "findTenant" /\ c.token = req[r].token /\ c.keyFloor = req[r].keyFloor
    BY <1>1 DEF Calls
  <2> HIDE DEF c
  <2>3. FloorOK(c, settled, tenants, overtaken)
    BY <1>1, <2>2 DEF FloorOK
  <2> QED
    BY <1>0, <2>1, <2>2, <2>3, FloorCallStep
<1> QED
  BY <1>2, <1>3

LEMMA FloorFindTenant ==
    ASSUME IdentityInv, FloorInv, NEW r \in Requests, FindTenant(r)
    PROVE  FloorInv'
<1> DEFINE t == req[r].token.tenantId
<1>0. req[r].pc = "findTenant" /\ UNCHANGED <<Rows, cache, settled, overtaken>>
  BY DEF FindTenant
<1>1. /\ req[r] \in Calls
      /\ t \in TenantIds => req[r].keyFloor \in 1..settled[t]
  BY <1>0, FloorKnown
<1>2. CASE t \in TenantIds
  <2> DEFINE c == [req[r] EXCEPT !.pc = "set", !.entry = Row(t)]
  <2>1. req' = [req EXCEPT ![r] = c]
    BY <1>2 DEF FindTenant
  <2>2. /\ c.pc = "set" /\ c.entry = Row(t) /\ c.token = req[r].token
        /\ c.keyFloor = req[r].keyFloor
    BY <1>1 DEF Calls
  <2>3. AtLeast(Row(t), settled[t], t, tenants, overtaken)
    BY <1>2, RowKnown DEF IdentityInv, AtLeast
  <2> HIDE DEF c
  <2>4. FloorOK(c, settled, tenants, overtaken)
    BY <1>1, <1>2, <2>2, <2>3 DEF FloorOK
  <2> QED
    BY <1>0, <2>1, <2>2, <2>4, FloorCallStep
<1>3. CASE t \notin TenantIds
  BY <1>0, <1>3, FloorDeny DEF FindTenant
<1> QED
  BY <1>2, <1>3

\* What is written to the cache is no older than what the last rotation left,
\* even if the row has changed since it was read.
LEMMA FloorFill ==
    ASSUME IdentityInv, FloorInv, NEW r \in Requests, req[r].pc = "set"
    PROVE  LET t == req[r].token.tenantId IN
           t \in TenantIds /\ AtLeast(Fill(r).entry, settled[t], t, tenants, overtaken)
  BY FloorKnown, FillOK DEF FloorOK, Fill

LEMMA FloorCacheSet ==
    ASSUME IdentityInv, FloorInv, NEW r \in Requests, CacheSet(r)
    PROVE  FloorInv'
<1> DEFINE t == req[r].token.tenantId
           c == [req[r] EXCEPT !.pc = "validate"]
<1>0. /\ req[r].pc = "set" /\ UNCHANGED <<Rows, settled, overtaken>>
      /\ cache' = [cache EXCEPT ![t] = Fill(r)]
      /\ req' = [req EXCEPT ![r] = c]
  BY DEF CacheSet, Go
<1>1. /\ req[r] \in Calls
      /\ t \in TenantIds => req[r].keyFloor \in 1..settled[t]
  BY <1>0, FloorKnown
<1>2. /\ c.pc = "validate" /\ c.entry = req[r].entry /\ c.token = req[r].token
      /\ c.keyFloor = req[r].keyFloor
  BY <1>1 DEF Calls
<1> HIDE DEF c
<1>3. t \in TenantIds /\ AtLeast(Fill(r).entry, settled[t], t, tenants, overtaken)
  BY <1>0, FloorFill
<1>4. AtLeast(req[r].entry, req[r].keyFloor, t, tenants, overtaken)
  BY <1>1, <1>3, AtLeastEarlier DEF Fill, IdentityInv
<1>5. FloorOK(c, settled, tenants, overtaken)
  BY <1>1, <1>2, <1>3, <1>4 DEF FloorOK
<1> QED
  BY <1>0, <1>2, <1>3, <1>5, FloorCallStep

\* From the verification on the call keeps the entry it has.
LEMMA FloorValidate ==
    ASSUME IdentityInv, FloorInv, NEW r \in Requests, Validate(r)
    PROVE  FloorInv'
<1> DEFINE c == [req[r] EXCEPT !.pc = "findPrincipal"]
<1>0. req[r].pc = "validate" /\ UNCHANGED <<Rows, cache, settled, overtaken>>
  BY DEF Validate
<1>1. /\ req[r] \in Calls
      /\ FloorOK(req[r], settled, tenants, overtaken)
  BY <1>0, FloorKnown
<1>2. CASE req' = [req EXCEPT ![r] = c]
  <2>1. /\ c.pc = "findPrincipal" /\ c.entry = req[r].entry /\ c.token = req[r].token
        /\ c.keyFloor = req[r].keyFloor
    BY <1>1 DEF Calls
  <2> HIDE DEF c
  <2>2. FloorOK(c, settled, tenants, overtaken)
    BY <1>0, <1>1, <2>1 DEF FloorOK
  <2> QED
    BY <1>0, <1>2, <2>2, FloorCallStep
<1>3. CASE Deny(r)
  BY <1>0, <1>3, FloorDeny
<1> QED
  BY <1>2, <1>3 DEF Validate, Go

LEMMA FloorFindPrincipal ==
    ASSUME IdentityInv, FloorInv, NEW r \in Requests, FindPrincipal(r)
    PROVE  FloorInv'
<1> DEFINE c == [req[r] EXCEPT !.pc = "resolved", !.context = Context(r)]
<1>0. req[r].pc = "findPrincipal" /\ UNCHANGED <<Rows, cache, settled, overtaken>>
  BY DEF FindPrincipal
<1>1. /\ req[r] \in Calls
      /\ FloorOK(req[r], settled, tenants, overtaken)
  BY <1>0, FloorKnown
<1>2. CASE req' = [req EXCEPT ![r] = c]
  <2>1. /\ c.pc = "resolved" /\ c.entry = req[r].entry /\ c.token = req[r].token
        /\ c.keyFloor = req[r].keyFloor
    BY <1>1 DEF Calls
  <2> HIDE DEF c
  <2>2. FloorOK(c, settled, tenants, overtaken)
    BY <1>0, <1>1, <2>1 DEF FloorOK
  <2> QED
    BY <1>0, <1>2, <2>2, FloorCallStep
<1>3. CASE Deny(r)
  BY <1>0, <1>3, FloorDeny
<1> QED
  BY <1>2, <1>3 DEF FindPrincipal

LEMMA FloorThrow ==
    ASSUME IdentityInv, FloorInv, NEW r \in Requests, Throw(r)
    PROVE  FloorInv'
<1>0. /\ UNCHANGED <<Rows, settled, overtaken>> /\ Deny(r)
      /\ req' = [req EXCEPT ![r] = Call("denied", None, 0, 0)]
  BY DEF Throw, Deny
<1>1. CASE UNCHANGED cache
  BY <1>0, <1>1, FloorDeny
<1>2. CASE /\ req[r].pc = "set"
           /\ cache' = [cache EXCEPT ![req[r].token.tenantId] = Fill(r)]
  <2>1. \A st, tn, ot : FloorOK(Call("denied", None, 0, 0), st, tn, ot)
    BY DEF FloorOK, Call
  <2> QED
    BY <1>0, <1>2, <2>1, FloorFill, FloorCallStep
<1> QED
  BY <1>1, <1>2 DEF Throw

\* Between the calls' steps rows only gain contents, and a rotation that is over
\* leaves nothing older behind that is not marked: no entry, and no fill.
LEMMA FloorEnvironment ==
    ASSUME IdentityInv, FloorInv, UNCHANGED req, overtaken \subseteq overtaken',
           \A t \in TenantIds : settled'[t] \in Nat /\ settled[t] <= settled'[t],
           \A t \in TenantIds : \A n \in Nat \ {0} :
             Since(tenants[t], n) \subseteq Since(tenants'[t], n),
           \A t \in TenantIds : cache'[t].entry # NoEntry =>
             cache'[t] = cache[t] /\ settled'[t] = settled[t],
           \A t \in TenantIds : settled'[t] = settled[t] \/ ~Filling(t) \/ t \in overtaken'
    PROVE  FloorInv'
<1>0. ASSUME NEW t \in TenantIds, NEW n \in Nat \ {0}, NEW e,
             AtLeast(e, n, t, tenants, overtaken)
      PROVE  AtLeast(e, n, t, tenants', overtaken')
  BY <1>0 DEF AtLeast
<1>1. ASSUME NEW t \in TenantIds, cache'[t].entry # NoEntry
      PROVE  AtLeast(cache'[t].entry, settled'[t], t, tenants', overtaken')
  <2>1. settled[t] \in Nat \ {0}
    BY RowKnown DEF IdentityInv
  <2>2. AtLeast(cache[t].entry, settled[t], t, tenants, overtaken)
    BY <1>1 DEF FloorInv
  <2> QED
    BY <1>0, <1>1, <2>1, <2>2
<1>2. ASSUME NEW r \in Requests
      PROVE  FloorOK(req[r], settled', tenants', overtaken')
  <2> DEFINE t == req[r].token.tenantId
  <2>1. CASE req[r].pc \in {"idle", "denied"}
    BY <2>1 DEF FloorOK
  <2>2. CASE req[r].pc \notin {"idle", "denied"}
    <3>1. /\ FloorOK(req[r], settled, tenants, overtaken)
          /\ t \in TenantIds => /\ req[r].keyFloor \in 1..settled[t]
                                /\ settled[t] \in Nat \ {0}
      BY <2>2, FloorKnown, RowKnown DEF IdentityInv
    <3>2. t \in TenantIds => req[r].keyFloor \in 1..settled'[t]
      BY <3>1
    <3>3. req[r].pc = "set" => t \in TenantIds /\ Filling(t)
      BY FillOK DEF Filling
    <3>4. req[r].pc = "set" => AtLeast(req[r].entry, settled'[t], t, tenants', overtaken')
      <4> SUFFICES ASSUME req[r].pc = "set"
                   PROVE  AtLeast(req[r].entry, settled'[t], t, tenants', overtaken')
        OBVIOUS
      <4>1. CASE t \in overtaken'
        BY <4>1 DEF AtLeast
      <4>2. CASE settled'[t] = settled[t]
        BY <1>0, <3>1, <3>3, <4>2 DEF FloorOK
      <4> QED
        BY <3>3, <4>1, <4>2
    <3>5. ASSUME req[r].pc \in {"validate", "findPrincipal", "resolved"}
          PROVE  AtLeast(req[r].entry, req[r].keyFloor, t, tenants', overtaken')
      <4>1. t \in TenantIds
        BY <3>5 DEF IdentityInv, CallOK, KeyOf
      <4> QED
        BY <1>0, <3>1, <3>5, <4>1 DEF FloorOK
    <3> QED
      BY <3>2, <3>4, <3>5 DEF FloorOK
  <2> QED
    BY <2>1, <2>2
<1> QED
  BY <1>1, <1>2 DEF FloorInv

\* Neither of its writes ends a rotation.
LEMMA FloorRotation ==
    ASSUME IdentityInv, FloorInv, NEW t \in TenantIds,
           IncrementKeyVersion(t) \/ WritePublicKey(t)
    PROVE  FloorInv'
<1>1. PICK row \in Pair : Write(t, row)
  BY WritesPairs
<1>2. UNCHANGED <<cache, settled, req, overtaken>>
  BY <1>1 DEF Write
<1>3. \A s \in TenantIds : \A n \in Nat \ {0} :
        Since(tenants[s], n) \subseteq Since(tenants'[s], n)
  BY <1>1, WriteKnown
<1>4. \A s \in TenantIds : settled[s] \in Nat
  BY DEF IdentityInv, RowsOK
<1> QED
  BY <1>2, <1>3, <1>4, FloorEnvironment

LEMMA FloorDropEntry ==
    ASSUME IdentityInv, FloorInv, NEW t \in TenantIds, DropEntry(t)
    PROVE  FloorInv'
<1>1. /\ tenants' = tenants /\ UNCHANGED req
      /\ settled' = [settled EXCEPT ![t] = Len(tenants[t])]
      /\ cache' = [cache EXCEPT ![t] = [entry |-> NoEntry, ttl |-> FALSE]]
      /\ overtaken' = IF Filling(t) THEN overtaken \cup {t} ELSE overtaken
  BY DEF DropEntry, Rows
<1>2. ASSUME NEW s \in TenantIds
      PROVE  /\ settled'[s] \in Nat /\ settled[s] <= settled'[s]
             /\ s # t => settled'[s] = settled[s]
  <2>1. /\ settled \in [TenantIds -> Nat] /\ Len(tenants[t]) \in Nat
        /\ settled[t] <= Len(tenants[t])
    BY RowKnown DEF IdentityInv, RowsOK
  <2> QED
    BY <1>1, <2>1
<1>3. ASSUME NEW s \in TenantIds, cache'[s].entry # NoEntry
      PROVE  cache'[s] = cache[s] /\ s # t
  BY <1>1, <1>3 DEF IdentityInv
<1> QED
  BY <1>1, <1>2, <1>3, FloorEnvironment

LEMMA FloorExpire ==
    ASSUME IdentityInv, FloorInv, NEW t \in TenantIds, Expire(t)
    PROVE  FloorInv'
<1>1. /\ tenants' = tenants /\ UNCHANGED <<settled, req, overtaken>>
      /\ cache' = [cache EXCEPT ![t] = [entry |-> NoEntry, ttl |-> FALSE]]
  BY DEF Expire, Rows
<1>2. \A s \in TenantIds : settled[s] \in Nat
  BY DEF IdentityInv, RowsOK
<1>3. ASSUME NEW s \in TenantIds, cache'[s].entry # NoEntry
      PROVE  cache'[s] = cache[s]
  BY <1>1, <1>3 DEF IdentityInv
<1> QED
  BY <1>1, <1>2, <1>3, FloorEnvironment

LEMMA FloorNext == IdentityInv /\ FloorInv /\ [Next]_vars => FloorInv'
<1> SUFFICES ASSUME IdentityInv, FloorInv, [Next]_vars PROVE FloorInv'
  OBVIOUS
<1>1. ASSUME NEW r \in Requests, Resolve(r) \/ Step(r) \/ Throw(r) PROVE FloorInv'
  BY <1>1, FloorResolve, FloorCacheGet, FloorFindTenant, FloorCacheSet, FloorValidate,
     FloorFindPrincipal, FloorThrow DEF Step
<1>2. ASSUME NEW t \in TenantIds,
             IncrementKeyVersion(t) \/ WritePublicKey(t) \/ DropEntry(t) \/ Expire(t)
      PROVE  FloorInv'
  BY <1>2, FloorRotation, FloorDropEntry, FloorExpire
<1>3. ASSUME UNCHANGED <<tenants, cache, settled, req, overtaken>> PROVE FloorInv'
  BY <1>3 DEF FloorInv
<1> QED
  BY <1>1, <1>2, <1>3 DEF Next, Environment, IncrementVersion, vars

LEMMA FloorInvariant == Spec => []FloorInv
  BY FloorInit, FloorNext, IdentityInvariant, PTL DEF Spec

\* After a rotation, the invalidation of the cached entry included, no call that
\* begins uses the key that was rotated out, unless a fill was overtaken: the
\* one way in which the promise of the service's comment fails.
THEOREM RotatedKeyHasOneEscape == Spec => []RotatedKeyOnlyByOvertaking
<1>1. IdentityInv /\ FloorInv => RotatedKeyOnlyByOvertaking
  <2> SUFFICES ASSUME IdentityInv, FloorInv, NEW r \in Requests, req[r].pc = "resolved",
                      req[r].entry \notin Since(tenants[req[r].context.tenantId],
                                                req[r].keyFloor)
               PROVE  req[r].context.tenantId \in overtaken
    BY DEF RotatedKeyOnlyByOvertaking
  <2>1. req[r].context.tenantId = req[r].token.tenantId
    BY DEF IdentityInv, CallOK
  <2>2. AtLeast(req[r].entry, req[r].keyFloor, req[r].token.tenantId, tenants, overtaken)
    BY FloorKnown DEF FloorOK
  <2> QED
    BY <2>1, <2>2 DEF AtLeast
<1> QED
  BY <1>1, IdentityInvariant, FloorInvariant, PTL

----------------------------------------------------------------------------
(* What is left of a call.                                                 *)

\* The awaited calls that still lie before the end of resolve(), at most.
Left(r) ==
    CASE req[r].pc = "get" -> 5
      [] req[r].pc = "findTenant" -> 4
      [] req[r].pc = "set" -> 3
      [] req[r].pc = "validate" -> 2
      [] req[r].pc = "findPrincipal" -> 1
      [] OTHER -> 0

\* A step or an error brings a call nearer to its end and leaves the others
\* where they are; a call that has ended keeps its context or its denial.
StepsRunOut ==
    \A r \in Requests :
      /\ Step(r) \/ Throw(r) =>
           /\ Left(r)' < Left(r)
           /\ \A q \in Requests \ {r} : req'[q] = req[q]
      /\ req[r].pc \in Done => req'[r] = req[r]

LEMMA LeftRange ==
    ASSUME IdentityInv, NEW r \in Requests
    PROVE  Left(r) \in 0..5 /\ (Left(r) = 0 <=> req[r].pc \in Done \cup {"idle"})
<1>1. req[r].pc \in PCs
  BY DEF IdentityInv, Calls
<1> QED
  BY <1>1 DEF PCs, Done, Left

LEMMA MovesOn ==
    ASSUME IdentityInv, NEW r \in Requests, Step(r) \/ Throw(r)
    PROVE  Left(r)' < Left(r)
<1> USE DEF Left
<1>0. req \in [Requests -> Calls]
  BY DEF IdentityInv
<1>1. ASSUME Deny(r), req[r].pc \in {"get", "findTenant", "set", "validate", "findPrincipal"}
      PROVE  Left(r)' < Left(r)
  <2>1. req'[r].pc = "denied"
    BY <1>0, <1>1 DEF Deny, Call
  <2> QED
    BY <1>1, <2>1
<1>2. CASE CacheGet(r)
  <2>1. req[r].pc = "get" /\ req'[r].pc \in {"validate", "findTenant"}
    BY <1>0, <1>2 DEF CacheGet, Go, Calls
  <2> QED
    BY <2>1
<1>3. CASE FindTenant(r)
  <2>1. CASE Deny(r)
    BY <1>1, <1>3, <2>1 DEF FindTenant
  <2>2. CASE ~Deny(r)
    <3>1. req[r].pc = "findTenant" /\ req'[r].pc = "set"
      BY <1>0, <1>3, <2>2 DEF FindTenant, Calls
    <3> QED
      BY <3>1
  <2> QED
    BY <2>1, <2>2
<1>4. CASE CacheSet(r)
  <2>1. req[r].pc = "set" /\ req'[r].pc = "validate"
    BY <1>0, <1>4 DEF CacheSet, Go, Calls
  <2> QED
    BY <2>1
<1>5. CASE Validate(r)
  <2>1. CASE Deny(r)
    BY <1>1, <1>5, <2>1 DEF Validate
  <2>2. CASE ~Deny(r)
    <3>1. req[r].pc = "validate" /\ req'[r].pc = "findPrincipal"
      BY <1>0, <1>5, <2>2 DEF Validate, Go, Calls
    <3> QED
      BY <3>1
  <2> QED
    BY <2>1, <2>2
<1>6. CASE FindPrincipal(r)
  <2>1. CASE Deny(r)
    BY <1>1, <1>6, <2>1 DEF FindPrincipal
  <2>2. CASE ~Deny(r)
    <3>1. req[r].pc = "findPrincipal" /\ req'[r].pc = "resolved"
      BY <1>0, <1>6, <2>2 DEF FindPrincipal, Calls
    <3> QED
      BY <3>1
  <2> QED
    BY <2>1, <2>2
<1>7. CASE Throw(r)
  BY <1>1, <1>7 DEF Throw
<1> QED
  BY <1>2, <1>3, <1>4, <1>5, <1>6, <1>7 DEF Step

LEMMA OthersStay ==
    ASSUME IdentityInv, NEW r \in Requests, Resolve(r) \/ Step(r) \/ Throw(r),
           NEW q \in Requests \ {r}
    PROVE  req'[q] = req[q]
  BY DEF IdentityInv, Resolve, Step, Throw, CacheGet, FindTenant, CacheSet, Validate,
         FindPrincipal, Go, Deny

LEMMA EndedStays ==
    ASSUME IdentityInv, [Next]_vars, NEW r \in Requests, req[r].pc \in Done
    PROVE  req'[r] = req[r]
<1>1. ASSUME NEW q \in Requests, Resolve(q) \/ Step(q) \/ Throw(q) PROVE req'[r] = req[r]
  <2>1. q # r
    BY <1>1 DEF Done, Resolve, Step, Throw, CacheGet, FindTenant, CacheSet, Validate,
                FindPrincipal
  <2> QED
    BY <1>1, <2>1, OthersStay
<1>2. CASE UNCHANGED req
  BY <1>2
<1> QED
  BY <1>1, <1>2 DEF Next, Environment, IncrementKeyVersion, WritePublicKey, Write,
                         DropEntry, Expire, IncrementVersion, vars

\* Every call of resolve() runs out: five awaits at most lead it to its end, an
\* error only shortens the way, and nothing that rotates, expires or advances
\* meanwhile sends it back or changes what it ended with.
THEOREM CallsRunOut ==
    Spec => /\ [](\A r \in Requests :
                    Left(r) \in 0..5 /\ (Left(r) = 0 <=> req[r].pc \in Done \cup {"idle"}))
            /\ [][StepsRunOut]_vars
<1>1. IdentityInv => \A r \in Requests :
        Left(r) \in 0..5 /\ (Left(r) = 0 <=> req[r].pc \in Done \cup {"idle"})
  BY LeftRange
<1>2. IdentityInv /\ [Next]_vars => [StepsRunOut]_vars
  BY MovesOn, OthersStay, EndedStays DEF StepsRunOut
<1> QED
  BY <1>1, <1>2, IdentityInvariant, PTL DEF Spec
====
