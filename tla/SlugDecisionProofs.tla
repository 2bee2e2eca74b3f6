---- MODULE SlugDecisionProofs ----
(***************************************************************************)
(* Slugs identify permissions, for every alphabet of segments, and what    *)
(* the engine decides on slugs is right on the permissions behind them.    *)
(***************************************************************************)
EXTENDS SlugDecision, PolicyEngineProofs

----------------------------------------------------------------------------
(* Texts of a few segments. *)

LEMMA MatchingText ==
    ASSUME NEW text \in Texts, Matches(text)
    PROVE  \E x \in Names : text = <<x>>
<1>1. text \in Seq(Segments) /\ Len(text) = 1 /\ text[1] \in Names
  BY DEF Texts, Matches
<1>2. text = <<text[1]>>
  BY <1>1
<1> QED
  BY <1>1, <1>2

LEMMA NameMatches == ASSUME NEW x PROVE Matches(<<x>>) <=> x \in Names
  BY DEF Matches

LEMMA TwoSegments ==
    ASSUME NEW s, NEW S, s \in Seq(S), Len(s) = 2 PROVE s = <<s[1], s[2]>>
  OBVIOUS

LEMMA ThreeSegments ==
    ASSUME NEW s, NEW S, s \in Seq(S), Len(s) = 3 PROVE s = <<s[1], s[2], s[3]>>
  OBVIOUS

LEMMA OneMore ==
    ASSUME NEW S, NEW s \in Seq(S), NEW z \in S, NEW m \in Nat, Len(s) = m
    PROVE  /\ s \o <<z>> \in Seq(S) /\ Len(s \o <<z>>) = m + 1
           /\ \A k \in 1..m : (s \o <<z>>)[k] = s[k]
           /\ (s \o <<z>>)[m + 1] = z
<1>1. <<z>> \in Seq(S) /\ Len(<<z>>) = 1 /\ <<z>>[1] = z
  OBVIOUS
<1>2. s \o <<z>> \in Seq(S) /\ Len(s \o <<z>>) = m + 1
  BY <1>1
<1>3. \A k \in 1..m : (s \o <<z>>)[k] = s[k]
  BY <1>1
<1>4. (s \o <<z>>)[m + 1] = <<z>>[1]
  BY <1>1
<1> QED
  BY <1>1, <1>2, <1>3, <1>4

LEMMA Concatenated ==
    ASSUME NEW x, NEW a, NEW z
    PROVE  <<x>> \o <<a>> \o <<>> = <<x, a>> /\ <<x>> \o <<a>> \o <<z>> = <<x, a, z>>
<1> DEFINE S == {x, a, z}
<1>1. <<x>> \in Seq(S) /\ Len(<<x>>) = 1 /\ <<x>>[1] = x
  OBVIOUS
<1>2. x \in S /\ a \in S /\ z \in S
  OBVIOUS
<1> HIDE DEF S
<1>3. PICK s : s = <<x>> \o <<a>>
  OBVIOUS
<1>4. s \in Seq(S) /\ Len(s) = 2 /\ s[1] = x /\ s[2] = a
  <2>1. /\ s \in Seq(S) /\ Len(s) = 1 + 1 /\ s[1 + 1] = a
        /\ \A k \in 1..1 : s[k] = <<x>>[k]
    BY <1>1, <1>2, <1>3, OneMore
  <2> QED
    BY <1>1, <2>1
<1>5. PICK t : t = s \o <<z>>
  OBVIOUS
<1>6. t \in Seq(S) /\ Len(t) = 3 /\ t[1] = x /\ t[2] = a /\ t[3] = z
  <2>1. Len(s) = 2
    BY <1>4
  <2>2. /\ t \in Seq(S) /\ Len(t) = 2 + 1 /\ t[2 + 1] = z
        /\ \A k \in 1..2 : t[k] = s[k]
    BY <1>2, <1>4, <1>5, <2>1, OneMore
  <2> QED
    BY <1>4, <2>2
<1>7. s \o <<>> = s
  BY <1>4
<1>8. s = <<x, a>> /\ t = <<x, a, z>>
  BY <1>4, <1>6, TwoSegments, ThreeSegments
<1> QED
  BY <1>3, <1>5, <1>7, <1>8

\* A row of the table, column by column.
LEMMA RowCases ==
    ASSUME NEW row \in Permission
    PROVE  \E x \in Names, a \in Actions :
             /\ row.resource = <<x>> /\ row.action = a
             /\ \/ row.specificity = Null /\ GeneratedSlug(row) = <<x, a>>
                \/ \E z \in Names : /\ row.specificity = <<z>>
                                    /\ GeneratedSlug(row) = <<x, a, z>>
<1>1. /\ row.resource \in Texts /\ row.action \in Actions
      /\ row.specificity \in Texts \cup {Null} /\ ChecksPass(row)
  BY DEF Permission
<1>2. PICK x \in Names : row.resource = <<x>>
  BY <1>1, MatchingText DEF ChecksPass
<1>3. CASE row.specificity = Null
  <2>1. GeneratedSlug(row) = <<x>> \o <<row.action>> \o <<>>
    BY <1>2, <1>3 DEF GeneratedSlug
  <2>2. GeneratedSlug(row) = <<x, row.action>>
    BY <2>1, Concatenated
  <2> QED
    BY <1>1, <1>2, <1>3, <2>2
<1>4. CASE row.specificity # Null
  <2>1. PICK z \in Names : row.specificity = <<z>>
    BY <1>1, <1>4, MatchingText DEF ChecksPass
  <2>2. GeneratedSlug(row) = <<x>> \o <<row.action>> \o <<z>>
    BY <1>2, <1>4, <2>1 DEF GeneratedSlug
  <2>3. GeneratedSlug(row) = <<x, row.action, z>>
    BY <2>2, Concatenated
  <2> QED
    BY <1>1, <1>2, <2>1, <2>3
<1> QED
  BY <1>3, <1>4

LEMMA RowEquality ==
    ASSUME NEW p \in Permission, NEW q \in Permission,
           p.resource = q.resource, p.action = q.action, p.specificity = q.specificity
    PROVE  p = q
  BY DEF Permission

\* What the database generates for a row is what the domain builds, is a slug a
\* policy may require, and spells the row and no other.
THEOREM GeneratedSlugsValid ==
    \A row \in Permission :
      /\ GeneratedSlug(row) = buildPermissionSlug(row)
      /\ isValidPermissionSlug(GeneratedSlug(row))
<1> SUFFICES ASSUME NEW row \in Permission
             PROVE  /\ GeneratedSlug(row) = buildPermissionSlug(row)
                    /\ isValidPermissionSlug(GeneratedSlug(row))
  OBVIOUS
<1> USE SegmentsAssumption
<1>1. row.specificity \in {Null, Undefined, <<Empty>>} <=> row.specificity = Null
  <2>1. ASSUME row.specificity # Null PROVE row.specificity \notin {Undefined, <<Empty>>}
    <3>1. /\ row.specificity \in Texts /\ Matches(row.specificity)
      BY <2>1 DEF Permission, ChecksPass
    <3> QED
      BY <3>1, NameMatches DEF Texts
  <2> QED
    BY <2>1
<1>2. GeneratedSlug(row) = buildPermissionSlug(row)
  BY <1>1 DEF GeneratedSlug, buildPermissionSlug
<1>3. PICK x \in Names, a \in Actions :
        GeneratedSlug(row) = <<x, a>> \/ \E z \in Names : GeneratedSlug(row) = <<x, a, z>>
  BY RowCases
<1>4. ASSUME NEW slug, slug = <<x, a>> PROVE isValidPermissionSlug(slug)
  BY <1>4, NameMatches DEF isValidPermissionSlug
<1>5. ASSUME NEW slug, NEW z \in Names, slug = <<x, a, z>> PROVE isValidPermissionSlug(slug)
  BY <1>5, NameMatches DEF isValidPermissionSlug
<1> QED
  BY <1>2, <1>3, <1>4, <1>5

\* A slug spells exactly the row it was generated from.
LEMMA SpellsItsRow ==
    ASSUME NEW row \in Permission, NEW other \in Permission
    PROVE  Spells(GeneratedSlug(row), other) <=> other = row
<1>1. PICK x \in Names, a \in Actions :
        /\ row.resource = <<x>> /\ row.action = a
        /\ \/ row.specificity = Null /\ GeneratedSlug(row) = <<x, a>>
           \/ \E z \in Names : row.specificity = <<z>> /\ GeneratedSlug(row) = <<x, a, z>>
  BY RowCases
<1>2. CASE row.specificity = Null /\ GeneratedSlug(row) = <<x, a>>
  <2>1. Spells(GeneratedSlug(row), other) <=>
          /\ other.resource = <<x>> /\ other.action = a /\ other.specificity = Null
    BY <1>2 DEF Spells
  <2> QED
    BY <1>1, <1>2, <2>1, RowEquality
<1>3. ASSUME NEW z \in Names, row.specificity = <<z>>, GeneratedSlug(row) = <<x, a, z>>
      PROVE  Spells(GeneratedSlug(row), other) <=> other = row
  <2>1. Spells(GeneratedSlug(row), other) <=>
          /\ other.resource = <<x>> /\ other.action = a /\ other.specificity = <<z>>
    BY <1>3 DEF Spells
  <2> QED
    BY <1>1, <1>3, <2>1, RowEquality
<1> QED
  BY <1>1, <1>2, <1>3

\* UNIQUE (tenant_id, slug) is the uniqueness of resource, action, specificity.
THEOREM SlugsIdentifyRows ==
    \A p, q \in Permission : GeneratedSlug(p) = GeneratedSlug(q) => p = q
  BY SpellsItsRow

\* Whatever a policy may require is the slug of a row the table can hold.
THEOREM ValidSlugsGenerated ==
    \A slug \in Texts : isValidPermissionSlug(slug) =>
      \E row \in Permission : slug = GeneratedSlug(row) /\ Spells(slug, row)
<1> SUFFICES ASSUME NEW slug \in Texts, isValidPermissionSlug(slug)
             PROVE  \E row \in Permission : slug = GeneratedSlug(row) /\ Spells(slug, row)
  OBVIOUS
<1> USE SegmentsAssumption
<1>1. /\ slug \in Seq(Segments) /\ Len(slug) \in {2, 3} /\ slug[2] \in Actions
      /\ \A k \in 1..Len(slug) : slug[k] \in Names
  BY NameMatches DEF isValidPermissionSlug, Texts
<1>2. slug[1] \in Names /\ <<slug[1]>> \in Texts /\ Matches(<<slug[1]>>)
  BY <1>1, NameMatches DEF Texts
<1>3. CASE Len(slug) = 2
  <2> DEFINE row == [resource |-> <<slug[1]>>, action |-> slug[2], specificity |-> Null]
  <2>1. row \in Permission
    BY <1>1, <1>2 DEF Permission, ChecksPass
  <2>2. slug = <<slug[1], slug[2]>>
    BY <1>1, <1>3
  <2>3. Spells(slug, row)
    BY <1>3 DEF Spells
  <2>4. GeneratedSlug(row) = <<slug[1], slug[2]>>
    <3>1. \A z \in Names : <<z>> \in Texts
      BY DEF Texts
    <3>2. row.resource = <<slug[1]>> /\ row.action = slug[2] /\ row.specificity = Null
      OBVIOUS
    <3> HIDE DEF row
    <3>3. PICK x \in Names, a \in Actions :
            /\ row.resource = <<x>> /\ row.action = a
            /\ \/ row.specificity = Null /\ GeneratedSlug(row) = <<x, a>>
               \/ \E z \in Names : row.specificity = <<z>>
      BY <2>1, RowCases
    <3>4. x = slug[1] /\ a = slug[2]
      BY <3>2, <3>3
    <3> QED
      BY <3>1, <3>2, <3>3, <3>4
  <2> QED
    BY <2>1, <2>2, <2>3, <2>4
<1>4. CASE Len(slug) = 3
  <2> DEFINE row == [resource |-> <<slug[1]>>, action |-> slug[2], specificity |-> <<slug[3]>>]
  <2>1. slug[3] \in Names /\ <<slug[3]>> \in Texts /\ Matches(<<slug[3]>>)
    BY <1>1, <1>4, NameMatches DEF Texts
  <2>2. row \in Permission
    BY <1>1, <1>2, <2>1 DEF Permission, ChecksPass
  <2>3. slug = <<slug[1], slug[2], slug[3]>>
    BY <1>1, <1>4
  <2>4. Spells(slug, row)
    BY <1>4 DEF Spells
  <2>5. GeneratedSlug(row) = <<slug[1], slug[2], slug[3]>>
    <3>1. /\ row.resource = <<slug[1]>> /\ row.action = slug[2]
          /\ row.specificity = <<slug[3]>> /\ row.specificity # Null
      BY <2>1
    <3> HIDE DEF row
    <3>2. PICK x \in Names, a \in Actions, z \in Names :
            /\ row.resource = <<x>> /\ row.action = a /\ row.specificity = <<z>>
            /\ GeneratedSlug(row) = <<x, a, z>>
      BY <2>2, <3>1, RowCases
    <3>3. x = slug[1] /\ a = slug[2] /\ z = slug[3]
      BY <3>1, <3>2
    <3> QED
      BY <3>2, <3>3
  <2> QED
    BY <2>2, <2>3, <2>4, <2>5
<1> QED
  BY <1>1, <1>3, <1>4

----------------------------------------------------------------------------
(* The engine on those slugs. *)

LEMMA CreatedRows == Created \subseteq Permission
  BY PostedAssumption DEF Created, Columns, ChecksPass, Permission

SlugInv ==
    /\ granted \subseteq Created /\ permissions = FlatSlugs(granted)
    /\ policy \in Policies /\ AcceptsPolicy(policy)

LEMMA SlugSteps ==
    /\ SlugInit => EngineInit /\ SlugInv
    /\ [SlugNext]_slugVars => [EngineNext]_vars
    /\ SlugInv /\ [SlugNext]_slugVars => SlugInv'
<1>1. SlugInit => EngineInit /\ SlugInv
  BY DEF SlugInit, SlugInv, EngineInit, Init
<1>2. [SlugNext]_slugVars => [EngineNext]_vars
  BY DEF SlugNext, slugVars
<1>3. ASSUME [EngineNext]_vars PROVE UNCHANGED inputs
  BY <1>3 DEF EngineNext, Evaluate, EvaluateAny, EvaluateAll, Return, Returned, vars, inputs
<1>4. [SlugNext]_slugVars => UNCHANGED granted
  BY DEF SlugNext, slugVars
<1> QED
  BY <1>1, <1>2, <1>3, <1>4 DEF SlugInv, inputs

\* The composition adds no behaviour to the engine: its theorems hold here.
THEOREM SlugEngine == SlugSpec => EngineSpec
  BY SlugSteps, PTL DEF SlugSpec, EngineSpec

LEMMA SlugInvariant == SlugSpec => []SlugInv /\ []EngineInv
  BY SlugSteps, SlugEngine, EngineInvariant, PTL DEF SlugSpec

\* The database, the domain and the policy routes agree on what a slug is.
THEOREM SlugsAlwaysAgree == SlugSpec => []SlugsAgree
<1>1. ASSUME SlugInv PROVE SlugsAgree
  <2>1. granted \subseteq Permission
    BY <1>1, CreatedRows DEF SlugInv
  <2> QED
    BY <2>1, GeneratedSlugsValid, SlugsIdentifyRows DEF SlugsAgree
<1> QED
  BY <1>1, SlugInvariant, PTL

\* A required slug is held exactly when a granted row is what it says.
LEMMA HeldIsGranted ==
    ASSUME SlugInv, NEW slug \in Slugs, isValidPermissionSlug(slug)
    PROVE  slug \in permissions <=> Granted(slug)
<1>1. granted \subseteq Permission
  BY CreatedRows DEF SlugInv
<1>2. slug \in permissions <=> \E row \in granted : slug = GeneratedSlug(row)
  BY DEF SlugInv, FlatSlugs
<1>3. slug \in permissions => Granted(slug)
  BY <1>1, <1>2, SpellsItsRow DEF Granted
<1>4. ASSUME NEW row \in granted, Spells(slug, row) PROVE slug = GeneratedSlug(row)
  <2>1. PICK p \in Permission : slug = GeneratedSlug(p)
    BY PostedAssumption, ValidSlugsGenerated
  <2>2. row = p
    BY <1>1, <1>4, <2>1, SpellsItsRow
  <2> QED
    BY <2>1, <2>2
<1> QED
  BY <1>2, <1>3, <1>4 DEF Granted

\* What the engine decides by comparing slugs is what the granted resources,
\* actions and specificities say.
THEOREM DecisionsOnRows == SlugSpec => []DecidesOnRows
<1>1. ASSUME SlugInv, EngineInv, decision # None PROVE DecidesOnRows
  <2>1. decision.allowed <=> Satisfied(policy, permissions)
    BY <1>1 DEF EngineInv, IsDecision
  <2>2. \A k \in 1..Len(required) : required[k] \in Slugs
    BY <1>1, PolicyTypes DEF SlugInv
  <2>3. \A k \in 1..Len(required) : required[k] \in permissions <=> Granted(required[k])
    BY <1>1, <2>2, HeldIsGranted DEF SlugInv, AcceptsPolicy, required
  <2> QED
    BY <2>1, <2>3 DEF DecidesOnRows, Satisfied, required
<1>2. SlugInv /\ EngineInv => DecidesOnRows
  BY <1>1 DEF DecidesOnRows
<1> QED
  BY <1>2, SlugInvariant, PTL
====
