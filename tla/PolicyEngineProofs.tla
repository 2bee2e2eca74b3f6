---- MODULE PolicyEngineProofs ----
(***************************************************************************)
(* The evaluation loops are right for every policy, of any length, and for *)
(* every set of held permissions.                                          *)
(***************************************************************************)
EXTENDS PolicyEngine, TLAPS

\* The inductive invariant: the loop runs in the frame of the policy's own
\* strategy, over a non-empty list, and an answer that was returned is right.
EngineInv ==
    /\ EngineTypeOK
    /\ NothingDecidedYet
    /\ frame # "returned" <=> decision = None
    /\ frame \in {"any", "all"} => required # <<>>
    /\ frame = "any" => policy.matchStrategy = "ANY"
    /\ frame = "all" => policy.matchStrategy = "ALL"
    /\ frame = "evaluate" => i = 1
    /\ frame = "returned" => IsDecision(policy, permissions, versions, decision)

\* Facts about the policy under evaluation.
LEMMA PolicyTypes ==
    ASSUME policy \in Policies
    PROVE  /\ required \in Seq(Slugs) /\ Len(required) \in Nat
           /\ policy.matchStrategy \in {"ANY", "ALL"}
           /\ \A k \in 1..Len(required) : required[k] \in Slugs
           /\ required # <<>> => Len(required) >= 1
  BY PoliciesAssumption DEF Policy, Strategies, required

LEMMA EngineInitInv == EngineInit => EngineInv
<1> SUFFICES ASSUME EngineInit PROVE EngineInv
  OBVIOUS
<1>1. policy \in Policies
  BY DEF EngineInit, Init
<1>2. EngineTypeOK /\ NothingDecidedYet
  BY <1>1, PolicyTypes DEF EngineInit, Init, EngineTypeOK, NothingDecidedYet
<1> QED
  BY <1>2 DEF EngineInit, Init, EngineInv

\* A returned answer that is the right one re-establishes the invariant.
LEMMA ReturnInv ==
    ASSUME EngineInv, UNCHANGED <<inputs, i>>, frame' = "returned",
           IsDecision(policy, permissions, versions, decision')
    PROVE  EngineInv'
<1>1. required' = required /\ policy' = policy /\ permissions' = permissions
      /\ versions' = versions /\ i' = i
  BY DEF inputs, required
<1>2. decision' \in Decision /\ decision' # None
  BY PoliciesAssumption DEF IsDecision
<1>3. EngineTypeOK'
  BY <1>1, <1>2 DEF EngineInv, EngineTypeOK
<1>4. IsDecision(policy, permissions, versions, decision)'
  BY <1>1 DEF IsDecision, Satisfied, FirstIn
<1> QED
  BY <1>2, <1>3, <1>4 DEF EngineInv, NothingDecidedYet

\* A loop that advances past an element that does not decide.
LEMMA AdvanceInv ==
    ASSUME EngineInv, UNCHANGED <<inputs, decision, frame>>, i' = i + 1,
           i <= Len(required),
           \/ frame = "any" /\ ~Has(i)
           \/ frame = "all" /\ Has(i)
    PROVE  EngineInv'
<1>1. /\ Len(required) \in Nat /\ i \in 1..(Len(required) + 1)
  BY PolicyTypes DEF EngineInv, EngineTypeOK
<1>2. required' = required /\ policy' = policy /\ permissions' = permissions
      /\ versions' = versions
  BY DEF inputs, required
<1>3. EngineTypeOK'
  BY <1>1, <1>2 DEF EngineInv, EngineTypeOK
<1>4. \A k \in 1..((i + 1) - 1) : k \in 1..(i - 1) \/ k = i
  BY <1>1
<1>5. \A k : Has(k)' <=> Has(k)
  BY <1>2 DEF Has
<1>6. NothingDecidedYet'
  BY <1>4, <1>5 DEF EngineInv, NothingDecidedYet
<1> QED
  BY <1>2, <1>3, <1>6 DEF EngineInv

LEMMA EngineNextInv == EngineInv /\ [EngineNext]_vars => EngineInv'
<1> SUFFICES ASSUME EngineInv, [EngineNext]_vars PROVE EngineInv'
  OBVIOUS
<1>0. /\ required \in Seq(Slugs) /\ Len(required) \in Nat
      /\ policy.matchStrategy \in {"ANY", "ALL"}
      /\ \A k \in 1..Len(required) : required[k] \in Slugs
      /\ i \in 1..(Len(required) + 1) /\ versions \in Versions
      /\ required = <<>> => Len(required) = 0
      /\ required # <<>> => Len(required) >= 1
  BY PolicyTypes DEF EngineInv, EngineTypeOK
<1>1. CASE Evaluate
  <2>1. CASE required = <<>>
    <3>1. Return(FALSE, "unconfigured", None)
      BY <1>1, <2>1 DEF Evaluate
    <3>2. decision' = [allowed |-> FALSE, kind |-> "unconfigured", slug |-> None,
                       versions |-> versions]
      BY <3>1 DEF Return
    <3>3. IsDecision(policy, permissions, versions, decision')
      BY <1>0, <2>1, <3>2 DEF IsDecision, Satisfied, Decision, Kinds, required
    <3>9. UNCHANGED <<inputs, i>> /\ frame' = "returned"
      BY <3>1 DEF Return
    <3> QED
      BY <3>3, <3>9, ReturnInv
  <2>2. CASE required # <<>>
    <3>1. /\ UNCHANGED <<inputs, decision, i>> /\ frame = "evaluate"
          /\ frame' = IF policy.matchStrategy = "ANY" THEN "any" ELSE "all"
      BY <1>1, <2>2 DEF Evaluate
    <3>2. required' = required /\ policy' = policy /\ i' = i /\ i = 1
      BY <3>1 DEF inputs, required, EngineInv
    <3>3. EngineTypeOK'
      BY <3>1, <3>2 DEF inputs, EngineInv, EngineTypeOK
    <3>4. NothingDecidedYet'
      BY <3>2 DEF NothingDecidedYet
    <3> QED
      BY <1>0, <2>2, <3>1, <3>2, <3>3, <3>4 DEF EngineInv
  <2> QED
    BY <2>1, <2>2
<1>2. CASE EvaluateAny
  <2>0. frame = "any" /\ policy.matchStrategy = "ANY" /\ required # <<>>
        /\ \A k \in 1..(i - 1) : ~Has(k)
    BY <1>2 DEF EvaluateAny, EngineInv, NothingDecidedYet
  <2>1. CASE i > Len(required)
    <3>1. Return(FALSE, "holds none", None)
      BY <1>2, <2>1 DEF EvaluateAny
    <3>2. decision' = [allowed |-> FALSE, kind |-> "holds none", slug |-> None,
                       versions |-> versions]
      BY <3>1 DEF Return
    <3>3. \A k \in 1..Len(required) : required[k] \notin permissions
      BY <1>0, <2>0, <2>1 DEF Has
    <3>4. ~Satisfied(policy, permissions)
      BY <2>0, <3>3 DEF Satisfied, required
    <3>5. IsDecision(policy, permissions, versions, decision')
      BY <1>0, <2>0, <3>2, <3>4 DEF IsDecision, Decision, Kinds, required
    <3>9. UNCHANGED <<inputs, i>> /\ frame' = "returned"
      BY <3>1 DEF Return
    <3> QED
      BY <3>5, <3>9, ReturnInv
  <2>2. CASE i <= Len(required) /\ Has(i)
    <3>0. ~(i > Len(required))
      BY <1>0, <2>2
    <3>1. Return(TRUE, "holds", required[i])
      BY <1>2, <2>2, <3>0 DEF EvaluateAny
    <3>2. decision' = [allowed |-> TRUE, kind |-> "holds", slug |-> required[i],
                       versions |-> versions]
      BY <3>1 DEF Return
    <3>3. i \in 1..Len(required) /\ required[i] \in permissions
      BY <1>0, <2>2 DEF Has
    <3>4. Satisfied(policy, permissions)
      BY <2>0, <3>3 DEF Satisfied, required
    <3>5. \A j \in 1..(i - 1) : required[j] \notin permissions
      BY <2>0 DEF Has
    <3>6. FirstIn(required, permissions, required[i])
      BY <3>3, <3>5 DEF FirstIn
    <3>7. decision' \in Decision
      BY <1>0, <3>2, <3>3 DEF Decision, Kinds
    <3>8. IsDecision(policy, permissions, versions, decision')
      BY <2>0, <3>2, <3>4, <3>6, <3>7 DEF IsDecision, required
    <3>9. UNCHANGED <<inputs, i>> /\ frame' = "returned"
      BY <3>1 DEF Return
    <3> QED
      BY <3>8, <3>9, ReturnInv
  <2>3. CASE i <= Len(required) /\ ~Has(i)
    <3>0. ~(i > Len(required))
      BY <1>0, <2>3
    <3>1. i' = i + 1 /\ UNCHANGED <<inputs, decision, frame>>
      BY <1>2, <2>3, <3>0 DEF EvaluateAny
    <3> QED
      BY <2>0, <2>3, <3>1, AdvanceInv
  <2> QED
    BY <1>0, <2>1, <2>2, <2>3
<1>3. CASE EvaluateAll
  <2>0. frame = "all" /\ policy.matchStrategy = "ALL" /\ required # <<>>
        /\ \A k \in 1..(i - 1) : Has(k)
    BY <1>3 DEF EvaluateAll, EngineInv, NothingDecidedYet
  <2>1. CASE i > Len(required)
    <3>1. Return(TRUE, "holds all", None)
      BY <1>3, <2>1 DEF EvaluateAll
    <3>2. decision' = [allowed |-> TRUE, kind |-> "holds all", slug |-> None,
                       versions |-> versions]
      BY <3>1 DEF Return
    <3>3. \A k \in 1..Len(required) : required[k] \in permissions
      BY <1>0, <2>0, <2>1 DEF Has
    <3>4. Satisfied(policy, permissions)
      BY <2>0, <3>3 DEF Satisfied, required
    <3>5. IsDecision(policy, permissions, versions, decision')
      BY <1>0, <2>0, <3>2, <3>4 DEF IsDecision, Decision, Kinds, required
    <3>9. UNCHANGED <<inputs, i>> /\ frame' = "returned"
      BY <3>1 DEF Return
    <3> QED
      BY <3>5, <3>9, ReturnInv
  <2>2. CASE i <= Len(required) /\ ~Has(i)
    <3>0. ~(i > Len(required))
      BY <1>0, <2>2
    <3>1. Return(FALSE, "missing", required[i])
      BY <1>3, <2>2, <3>0 DEF EvaluateAll
    <3>2. decision' = [allowed |-> FALSE, kind |-> "missing", slug |-> required[i],
                       versions |-> versions]
      BY <3>1 DEF Return
    <3>3. i \in 1..Len(required) /\ required[i] \in Slugs \ permissions
      BY <1>0, <2>2 DEF Has
    <3>4. ~Satisfied(policy, permissions)
      BY <2>0, <3>3 DEF Satisfied, required
    <3>5. \A j \in 1..(i - 1) : required[j] \notin Slugs \ permissions
      BY <2>0 DEF Has
    <3>6. FirstIn(required, Slugs \ permissions, required[i])
      BY <3>3, <3>5 DEF FirstIn
    <3>7. decision' \in Decision
      BY <1>0, <3>2, <3>3 DEF Decision, Kinds
    <3>8. IsDecision(policy, permissions, versions, decision')
      BY <2>0, <3>2, <3>4, <3>6, <3>7 DEF IsDecision, required
    <3>9. UNCHANGED <<inputs, i>> /\ frame' = "returned"
      BY <3>1 DEF Return
    <3> QED
      BY <3>8, <3>9, ReturnInv
  <2>3. CASE i <= Len(required) /\ Has(i)
    <3>0. ~(i > Len(required))
      BY <1>0, <2>3
    <3>1. i' = i + 1 /\ UNCHANGED <<inputs, decision, frame>>
      BY <1>3, <2>3, <3>0 DEF EvaluateAll
    <3> QED
      BY <2>0, <2>3, <3>1, AdvanceInv
  <2> QED
    BY <1>0, <2>1, <2>2, <2>3
<1>4. CASE UNCHANGED vars
  <2>1. required' = required
    BY <1>4 DEF vars, required
  <2>2. IsDecision(policy, permissions, versions, decision)'
        <=> IsDecision(policy, permissions, versions, decision)
    BY <1>4 DEF vars, IsDecision, Satisfied, FirstIn
  <2>3. EngineTypeOK' /\ NothingDecidedYet'
    BY <1>4, <2>1 DEF vars, EngineInv, EngineTypeOK, NothingDecidedYet, Has
  <2> QED
    BY <1>4, <2>1, <2>2, <2>3 DEF vars, EngineInv
<1> QED
  BY <1>1, <1>2, <1>3, <1>4 DEF EngineNext, Returned

LEMMA EngineInvariant == EngineSpec => []EngineInv
  BY EngineInitInv, EngineNextInv, PTL DEF EngineSpec

\* The loop variable stays inside the list or one past its end.
THEOREM EngineTypeCorrect == EngineSpec => []EngineTypeOK
<1>1. EngineInv => EngineTypeOK
  BY DEF EngineInv
<1> QED
  BY <1>1, EngineInvariant, PTL

\* Nothing the loop has passed decides, however long the policy.
THEOREM LoopPassesNoDecider == EngineSpec => []NothingDecidedYet
<1>1. EngineInv => NothingDecidedYet
  BY DEF EngineInv
<1> QED
  BY <1>1, EngineInvariant, PTL

\* The loops implement the abstract decision: the returned answer is right, its
\* reason is right, and it is final.
THEOREM EngineImplementsDecision == EngineSpec => Implements
<1>1. EngineInit => Init
  BY DEF EngineInit
<1>2. EngineInv /\ EngineInv' /\ [EngineNext]_vars => [Decide]_<<inputs, decision>>
  <2> SUFFICES ASSUME EngineInv, EngineInv', [EngineNext]_vars
               PROVE  Decide \/ UNCHANGED <<inputs, decision>>
    OBVIOUS
  <2>1. UNCHANGED inputs
    BY DEF EngineNext, Evaluate, EvaluateAny, EvaluateAll, Return, Returned, vars, inputs
  <2>2. CASE decision' = decision
    BY <2>1, <2>2
  <2>3. CASE decision' # decision
    <3>1. frame # "returned" /\ frame' = "returned"
      BY <2>3 DEF EngineNext, Evaluate, EvaluateAny, EvaluateAll, Return, Returned, vars
    <3>2. decision = None
      BY <3>1 DEF EngineInv
    <3>3. IsDecision(policy, permissions, versions, decision)'
      BY <3>1 DEF EngineInv
    <3>4. IsDecision(policy, permissions, versions, decision')
      BY <2>1, <3>3 DEF inputs, IsDecision, Satisfied, FirstIn
    <3> QED
      BY <2>1, <3>2, <3>4 DEF Decide
  <2> QED
    BY <2>2, <2>3
<1> QED
  BY <1>1, <1>2, EngineInvariant, PTL DEF EngineSpec, Implements, Spec

----------------------------------------------------------------------------
(* The abstract decision leaves no choice: what the engine is proved to    *)
(* implement determines everything it returns.                             *)

LEMMA FirstIsOne ==
    ASSUME NEW req \in Seq(Slugs), NEW S, NEW a, NEW b, FirstIn(req, S, a), FirstIn(req, S, b)
    PROVE  a = b
<1>1. PICK k \in 1..Len(req) :
        req[k] = a /\ a \in S /\ \A j \in 1..(k - 1) : req[j] \notin S
  BY DEF FirstIn
<1>2. PICK l \in 1..Len(req) :
        req[l] = b /\ b \in S /\ \A j \in 1..(l - 1) : req[j] \notin S
  BY DEF FirstIn
<1>3. ~(k < l) /\ ~(l < k)
  BY <1>1, <1>2
<1> QED
  BY <1>1, <1>2, <1>3

\* Two right answers to the same question agree: whether, why, and by which
\* permission where the reason names one.
LEMMA DecisionsAgree ==
    ASSUME NEW p \in Policies, NEW held, NEW v, NEW d, NEW e,
           IsDecision(p, held, v, d), IsDecision(p, held, v, e)
    PROVE  /\ d.allowed = e.allowed /\ d.kind = e.kind /\ d.versions = e.versions
           /\ d.kind \in {"holds", "missing"} => d.slug = e.slug
<1> DEFINE req == p.requiredPermissions
<1>1. req \in Seq(Slugs) /\ p.matchStrategy \in {"ANY", "ALL"}
  BY PoliciesAssumption DEF Policy, Strategies
<1>2. /\ d.allowed \in BOOLEAN /\ e.allowed \in BOOLEAN
      /\ d.allowed <=> Satisfied(p, held)
      /\ e.allowed <=> Satisfied(p, held)
  BY DEF IsDecision, Decision
<1>3. d.allowed = e.allowed /\ d.versions = e.versions
  BY <1>2 DEF IsDecision
<1>4. CASE req = <<>>
  BY <1>3, <1>4 DEF IsDecision
<1>5. CASE req # <<>> /\ p.matchStrategy = "ANY"
  <2>1. CASE d.allowed
    <3>1. /\ d.kind = "holds" /\ FirstIn(req, held, d.slug)
          /\ e.kind = "holds" /\ FirstIn(req, held, e.slug)
      BY <1>3, <1>5, <2>1 DEF IsDecision
    <3> QED
      BY <1>1, <1>3, <3>1, FirstIsOne
  <2>2. CASE ~d.allowed
    BY <1>3, <1>5, <2>2 DEF IsDecision
  <2> QED
    BY <2>1, <2>2
<1>6. CASE req # <<>> /\ p.matchStrategy = "ALL"
  <2>1. CASE d.allowed
    BY <1>3, <1>6, <2>1 DEF IsDecision
  <2>2. CASE ~d.allowed
    <3>1. /\ d.kind = "missing" /\ FirstIn(req, Slugs \ held, d.slug)
          /\ e.kind = "missing" /\ FirstIn(req, Slugs \ held, e.slug)
      BY <1>3, <1>6, <2>2 DEF IsDecision
    <3> QED
      BY <1>1, <1>3, <3>1, FirstIsOne
  <2> QED
    BY <2>1, <2>2
<1> QED
  BY <1>1, <1>4, <1>5, <1>6

\* The engine is a function of its inputs, as far as its answer tells: whatever
\* else is a right answer for them says the same as the one that was returned.
THEOREM EngineIsDeterministic ==
    EngineSpec =>
      [](decision # None =>
           \A d \in Decision : IsDecision(policy, permissions, versions, d) =>
             /\ d.allowed = decision.allowed /\ d.kind = decision.kind
             /\ d.versions = decision.versions
             /\ d.kind \in {"holds", "missing"} => d.slug = decision.slug)
<1> DEFINE Determined ==
      decision # None =>
        \A d \in Decision : IsDecision(policy, permissions, versions, d) =>
          /\ d.allowed = decision.allowed /\ d.kind = decision.kind
          /\ d.versions = decision.versions
          /\ d.kind \in {"holds", "missing"} => d.slug = decision.slug
<1>1. EngineInv => Determined
  BY DecisionsAgree DEF EngineInv, EngineTypeOK
<1> QED
  BY <1>1, EngineInvariant, PTL

----------------------------------------------------------------------------
(* What is left of the evaluation.                                         *)

Left == IF frame = "returned" THEN 0
        ELSE IF frame = "evaluate" THEN Len(required) + 2
        ELSE Len(required) + 2 - i

\* The loop gets nearer to its end with every step: evaluate() is done after at
\* most two steps more than the policy has slugs.
StepsRunOut ==
    /\ Left \in 0..(Len(required) + 2)
    /\ Evaluate \/ EvaluateAny \/ EvaluateAll => Left' < Left /\ Len(required') = Len(required)

THEOREM EvaluationRunsOut == EngineSpec => [][StepsRunOut]_vars
<1>1. EngineInv => StepsRunOut
  <2> SUFFICES ASSUME EngineInv PROVE StepsRunOut
    OBVIOUS
  <2>1. /\ Len(required) \in Nat /\ i \in 1..(Len(required) + 1)
        /\ frame \in {"evaluate", "any", "all", "returned"} /\ (frame = "evaluate" => i = 1)
    BY PolicyTypes DEF EngineInv, EngineTypeOK
  <2>2. Left \in 0..(Len(required) + 2)
    BY <2>1 DEF Left
  <2>3. ASSUME Evaluate \/ EvaluateAny \/ EvaluateAll
        PROVE  Left' < Left /\ Len(required') = Len(required)
    <3>1. required' = required
      BY <2>3 DEF Evaluate, EvaluateAny, EvaluateAll, Return, inputs, required
    <3>2. Left > 0
      <4>1. frame # "returned"
        BY <2>3 DEF Evaluate, EvaluateAny, EvaluateAll
      <4> QED
        BY <2>1, <4>1 DEF Left
    <3>3. CASE frame' = "returned"
      BY <3>1, <3>2, <3>3 DEF Left
    <3>4. CASE frame' # "returned"
      <4>1. \/ frame = "evaluate" /\ frame' \in {"any", "all"} /\ i' = i
            \/ frame \in {"any", "all"} /\ frame' = frame /\ i' = i + 1
        BY <2>3, <3>4 DEF Evaluate, EvaluateAny, EvaluateAll, Return
      <4> QED
        BY <2>1, <3>1, <4>1 DEF Left
    <3> QED
      BY <3>1, <3>3, <3>4
  <2> QED
    BY <2>2, <2>3 DEF StepsRunOut
<1>2. EngineInv => [StepsRunOut]_vars
  BY <1>1
<1> QED
  BY <1>2, EngineInvariant, PTL DEF EngineSpec
====
