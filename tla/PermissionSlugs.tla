---- MODULE PermissionSlugs ----
(***************************************************************************)
(* Permission slugs, resource:action[:specificity]: the columns of a       *)
(* permission that a request may fill, the slug the database generates     *)
(* from them, the one the domain builds, and the slugs a policy may name.  *)
(*                                                                         *)
(* A text is the sequence of its segments between colons, so that writing  *)
(* a colon between two texts concatenates them.                            *)
(***************************************************************************)
EXTENDS Integers, Sequences

CONSTANTS
    Segments,  \* texts without a colon
    Names,     \* those that match ^[a-z0-9-]+$
    Short,     \* those of at most 100 characters
    Actions,   \* the closed vocabulary, VALID_ACTIONS
    Empty,     \* the text without characters
    Null,      \* null, in JavaScript and in SQL
    Undefined  \* a field that a request leaves out

Texts == Seq(Segments)

ASSUME SegmentsAssumption ==
    /\ Names \subseteq Segments /\ Short \subseteq Segments
    /\ Actions \subseteq Names \cap Short
    /\ Empty \in Segments \ Names
    /\ {Null, Undefined} \cap Texts = {} /\ Null # Undefined

\* Faulty variant for DecidesOnRows: the expression is not anchored.
MatchesSomewhere(text) == \E k \in 1..Len(text) : text[k] \in Names

\* /^[a-z0-9-]+$/: there is no colon in it.
Matches(text) == Len(text) = 1 /\ text[1] \in Names

\* CreatePermissionBody: what POST /admin/tenants/:id/permissions accepts.
AcceptsPermission(body) ==
    /\ Matches(body.resource) /\ body.resource[1] \in Short
    /\ body.action \in Actions
    /\ body.specificity \notin {Null, Undefined} =>
         Matches(body.specificity) /\ body.specificity[1] \in Short

\* The columns it fills: a missing specificity is null.
Columns(body) ==
    [body EXCEPT !.specificity = IF @ = Undefined THEN Null ELSE @]

\* The CHECKs of table permissions.
ChecksPass(row) ==
    /\ Matches(row.resource)
    /\ row.action \in Actions
    /\ row.specificity = Null \/ Matches(row.specificity)

Permission == {row \in [resource : Texts, action : Actions, specificity : Texts \cup {Null}] :
                 ChecksPass(row)}

\* Faulty variant for DecidesOnRows: only the first half of the expression.
SlugOfResource(row) == row.resource \o <<row.action>>

\* GENERATED ALWAYS AS (resource || ':' || action || COALESCE(':' || specificity, ''))
GeneratedSlug(row) ==
    row.resource \o <<row.action>> \o
      (IF row.specificity = Null THEN <<>> ELSE row.specificity)

\* Faulty variant for SlugsAgree: null is written out.
BuildWithNull(row) ==
    row.resource \o <<row.action>> \o
      (IF row.specificity = Null THEN <<Empty>> ELSE row.specificity)

\* buildPermissionSlug(): an empty specificity is left out like a missing one.
buildPermissionSlug(row) ==
    row.resource \o <<row.action>> \o
      (IF row.specificity \in {Null, Undefined, <<Empty>>} THEN <<>> ELSE row.specificity)

\* isValidPermissionSlug(): the slugs a policy may require.
isValidPermissionSlug(slug) ==
    /\ Len(slug) \in {2, 3}
    /\ slug[1] # Empty
    /\ slug[2] \in Actions
    /\ Len(slug) = 3 => slug[3] # Empty
    /\ \A k \in 1..Len(slug) : Matches(<<slug[k]>>)

\* What a slug says, read field by field.
Spells(slug, row) ==
    /\ row.resource = <<slug[1]>> /\ row.action = slug[2]
    /\ \/ Len(slug) = 2 /\ row.specificity = Null
       \/ Len(slug) = 3 /\ row.specificity = <<slug[3]>>
====
