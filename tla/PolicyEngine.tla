---- MODULE PolicyEngine ----
(***************************************************************************)
(* evaluate() of the policy engine, loop iteration by loop iteration.      *)
(* Every input is a parameter; the only output is the decision.            *)
(***************************************************************************)
EXTENDS PolicyDecision

VARIABLES
    frame,  \* the function that runs: evaluate, evaluateAny, evaluateAll
    i       \* position of the for loop in requiredPermissions

vars == <<policy, permissions, versions, decision, frame, i>>

required == policy.requiredPermissions

\* permissions.has(required[k])
Has(k) == required[k] \in permissions

\* Faulty variant for EngineTypeOK: base is not spread into the answer.
ReturnWithoutBase(allowed, kind, slug) ==
    /\ decision' = [allowed |-> allowed, kind |-> kind, slug |-> slug, versions |-> None]
    /\ frame' = "returned"
    /\ UNCHANGED <<inputs, i>>

\* return { ...base, allowed, reason }
Return(allowed, kind, slug) ==
    /\ decision' = [allowed |-> allowed, kind |-> kind, slug |-> slug, versions |-> versions]
    /\ frame' = "returned"
    /\ UNCHANGED <<inputs, i>>

EngineInit == Init /\ frame = "evaluate" /\ i = 1

\* Faulty variant for Implements: "no requirement" read as "nothing to deny".
EvaluateFailingOpen ==
    /\ frame = "evaluate"
    /\ frame' = IF policy.matchStrategy = "ANY" THEN "any" ELSE "all"
    /\ UNCHANGED <<inputs, decision, i>>

\* evaluate: deny an empty policy, else dispatch on the strategy.
Evaluate ==
    /\ frame = "evaluate"
    /\ IF required = <<>>
       THEN Return(FALSE, "unconfigured", None)
       ELSE /\ frame' = IF policy.matchStrategy = "ANY" THEN "any" ELSE "all"
            /\ UNCHANGED <<inputs, decision, i>>

\* Faulty variants for Implements and Terminates: the reason names the first
\* required permission, held or not; the loop does not advance.
EvaluateAnyNamingFirst ==
    /\ frame = "any"
    /\ IF i > Len(required) THEN Return(FALSE, "holds none", None)
       ELSE IF Has(i) THEN Return(TRUE, "holds", required[1])
       ELSE i' = i + 1 /\ UNCHANGED <<inputs, decision, frame>>
EvaluateAnyStuck ==
    /\ frame = "any"
    /\ IF i > Len(required) THEN Return(FALSE, "holds none", None)
       ELSE Has(i) /\ Return(TRUE, "holds", required[i])

\* evaluateAny: the first permission held decides; after the loop, deny.
EvaluateAny ==
    /\ frame = "any"
    /\ IF i > Len(required) THEN Return(FALSE, "holds none", None)
       ELSE IF Has(i) THEN Return(TRUE, "holds", required[i])
       ELSE i' = i + 1 /\ UNCHANGED <<inputs, decision, frame>>

\* Faulty variant for NothingDecidedYet: only the last element is looked at for
\* a miss.
EvaluateAllWithoutReturn ==
    /\ frame = "all"
    /\ IF i > Len(required) THEN Return(TRUE, "holds all", None)
       ELSE IF ~Has(i) /\ i = Len(required) THEN Return(FALSE, "missing", required[i])
       ELSE i' = i + 1 /\ UNCHANGED <<inputs, decision, frame>>

\* evaluateAll: the first permission not held decides; after the loop, allow.
EvaluateAll ==
    /\ frame = "all"
    /\ IF i > Len(required) THEN Return(TRUE, "holds all", None)
       ELSE IF ~Has(i) THEN Return(FALSE, "missing", required[i])
       ELSE i' = i + 1 /\ UNCHANGED <<inputs, decision, frame>>

\* evaluate() has returned.
Returned == frame = "returned" /\ UNCHANGED vars

EngineNext == Evaluate \/ EvaluateAny \/ EvaluateAll \/ Returned

EngineSpec == EngineInit /\ [][EngineNext]_vars

\* The caller runs evaluate() to its end: it is synchronous.
FairEngineSpec == EngineSpec /\ WF_vars(Evaluate \/ EvaluateAny \/ EvaluateAll)

----------------------------------------------------------------------------
\* Types: the loop never runs past the element after the last one.
EngineTypeOK ==
    /\ policy \in Policies /\ permissions \subseteq Slugs /\ versions \in Versions
    /\ decision \in Decision \cup {None}
    /\ frame \in {"evaluate", "any", "all", "returned"}
    /\ i \in 1..(Len(required) + 1)

\* While the loop runs, nothing it has passed decides: this is what makes the
\* answer after the loop right, and the named slug the first one.
NothingDecidedYet ==
    /\ frame = "any" => \A k \in 1..(i - 1) : ~Has(k)
    /\ frame = "all" => \A k \in 1..(i - 1) : Has(k)

\* The engine implements the abstract decision: it returns once, never changes
\* its mind, and what it returns is the right answer with the right reason.
Implements == Spec

\* ... and the loop ends.
Terminates == Decides
====
