---- MODULE Invalidation ----
(***************************************************************************)
(* What the version counter of a tenant promises to whoever caches under   *)
(* it, independently of the tables, handlers and processes that keep it:   *)
(* while no change is waiting for an increment, the authorization model of *)
(* the tenant is the one it had when the counter took its present value,   *)
(* and no client has been told of a change that is still waiting.          *)
(***************************************************************************)
EXTENDS Integers

CONSTANTS
    Tenants,
    Changes   \* changes of an authorization model, each of one tenant

VARIABLES
    model,    \* per tenant, all that its decisions may depend on
    version,  \* per tenant, the counter (0: there is no such tenant)
    base,     \* per tenant, the model when the counter took its value
    stale,    \* the changes no increment has followed yet
    told      \* changes whose clients have been answered with success

vars == <<model, version, base, stale, told>>

Init ==
    /\ version \in [Tenants -> {0, 1}]
    /\ base = model /\ stale = {} /\ told = {}

\* Whatever clients are told or forget, it is nothing that is stale.
Answers == told' \subseteq Changes /\ told' \cap stale' = {}

Answer == Answers /\ UNCHANGED <<model, version, base, stale>>

\* A tenant comes into being.
Register(t) ==
    /\ version[t] = 0
    /\ version' = [version EXCEPT ![t] = 1]
    /\ base' = [base EXCEPT ![t] = model[t]]
    /\ Answers
    /\ UNCHANGED <<model, stale>>

\* A change is stored: it touches the model of one tenant, which has a counter.
Store(u) ==
    /\ stale' = stale \cup {u}
    /\ version[u.tenant] > 0 /\ u \notin told
    /\ \A t \in Tenants \ {u.tenant} : model'[t] = model[t]
    /\ UNCHANGED <<version, base, told>>

\* The counter moves: what was cached under its former value is out of use.
Invalidate(t) ==
    /\ version[t] > 0
    /\ version' = [version EXCEPT ![t] = @ + 1]
    /\ base' = [base EXCEPT ![t] = model[t]]
    /\ stale' = {u \in stale : u.tenant # t}
    /\ Answers
    /\ UNCHANGED model

Next ==
    \/ Answer
    \/ \E t \in Tenants : Register(t) \/ Invalidate(t)
    \/ \E u \in Changes : Store(u)

Spec == Init /\ [][Next]_vars

----------------------------------------------------------------------------
\* Nothing of the tenant waits for an increment.
Settled(t) == \A u \in stale : u.tenant # t

\* The counter identifies the model of a settled tenant.
VersionIdentifies == \A t \in Tenants : Settled(t) => model[t] = base[t]
====
