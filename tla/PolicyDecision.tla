---- MODULE PolicyDecision ----
(***************************************************************************)
(* What evaluating a policy promises, independently of how the answer is   *)
(* found: whether the held permissions satisfy the policy, and which       *)
(* required permission the reason must name.                               *)
(***************************************************************************)
EXTENDS Integers, Sequences

CONSTANTS
    Slugs,     \* permission slugs
    Policies,  \* policies that can be evaluated
    Versions,  \* pairs of policy_version and principal_version
    None       \* no slug, no decision

Strategies == {"ANY", "ALL"}
Policy == [requiredPermissions : Seq(Slugs), matchStrategy : Strategies]

\* The reasons: "allowed: holds s", "allowed: holds all required permissions",
\* "denied: holds none of [...]", "denied: missing s", "denied: policy has no
\* required permissions configured".
Kinds == {"holds", "holds all", "holds none", "missing", "unconfigured"}
Decision == [allowed : BOOLEAN, kind : Kinds, slug : Slugs \cup {None}, versions : Versions]

ASSUME PoliciesAssumption ==
    /\ Policies \subseteq Policy
    /\ None \notin Slugs \cup Decision

\* The policy is satisfied.  One without required permissions never is.
Satisfied(p, held) ==
    LET req == p.requiredPermissions IN
    /\ req # <<>>
    /\ IF p.matchStrategy = "ANY"
       THEN \E k \in 1..Len(req) : req[k] \in held
       ELSE \A k \in 1..Len(req) : req[k] \in held

\* slug is the first element of req that is in S.
FirstIn(req, S, slug) ==
    \E k \in 1..Len(req) :
      /\ req[k] = slug /\ slug \in S
      /\ \A j \in 1..(k - 1) : req[j] \notin S

\* d answers p for a principal that holds held, and says why.
IsDecision(p, held, v, d) ==
    LET req == p.requiredPermissions IN
    /\ d \in Decision
    /\ d.versions = v
    /\ d.allowed <=> Satisfied(p, held)
    /\ d.kind = "unconfigured" <=> req = <<>>
    /\ req # <<>> /\ p.matchStrategy = "ANY" =>
         IF d.allowed THEN d.kind = "holds" /\ FirstIn(req, held, d.slug)
                      ELSE d.kind = "holds none"
    /\ req # <<>> /\ p.matchStrategy = "ALL" =>
         IF d.allowed THEN d.kind = "holds all"
                      ELSE d.kind = "missing" /\ FirstIn(req, Slugs \ held, d.slug)

VARIABLES policy, permissions, versions, decision
inputs == <<policy, permissions, versions>>

Init ==
    /\ policy \in Policies
    /\ permissions \in SUBSET Slugs
    /\ versions \in Versions
    /\ decision = None

\* The decision appears in one step and is final.
Decide ==
    /\ decision = None
    /\ IsDecision(policy, permissions, versions, decision')
    /\ UNCHANGED inputs

Spec == Init /\ [][Decide]_<<inputs, decision>>

\* ... and it does appear.
Decides == <>(decision # None)
====
