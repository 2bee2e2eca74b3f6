---- MODULE SlugDecision ----
(***************************************************************************)
(* The policy engine on the slugs the rest of the system gives it: those   *)
(* of permission rows that were created by a request and are granted to    *)
(* the principal, and those of a policy that was created by a request.     *)
(* The engine compares slugs as opaque texts; what the tenant's            *)
(* administrators grant and require are resources, actions, specificities. *)
(***************************************************************************)
EXTENDS PolicyEngine, PermissionSlugs

CONSTANT Bodies   \* the permissions that requests ask for

ASSUME PostedAssumption ==
    /\ Slugs \subseteq Texts
    /\ Bodies \subseteq [resource : Texts, action : Segments,
                        specificity : Texts \cup {Null, Undefined}]

VARIABLE granted  \* the permission rows the principal's roles grant

slugVars == <<vars, granted>>

\* Every request either leaves a row or is refused.
Created == {row \in {Columns(body) : body \in {b \in Bodies : AcceptsPermission(b)}} :
              ChecksPass(row)}

\* CreatePolicyBody refines every element.  A policy without any, which it
\* refuses, is one the engine must deny nevertheless.
AcceptsPolicy(p) ==
    \A k \in 1..Len(p.requiredPermissions) : isValidPermissionSlug(p.requiredPermissions[k])

\* SELECT DISTINCT p.slug: what getFlatPermissionSlugs hands to the engine.
FlatSlugs(rows) == {GeneratedSlug(row) : row \in rows}

SlugInit ==
    /\ granted \in SUBSET Created
    /\ permissions = FlatSlugs(granted)
    /\ EngineInit
    /\ AcceptsPolicy(policy)

SlugNext == EngineNext /\ UNCHANGED granted

SlugSpec == SlugInit /\ [][SlugNext]_slugVars

FairSlugSpec == SlugSpec /\ WF_slugVars((Evaluate \/ EvaluateAny \/ EvaluateAll) /\ UNCHANGED granted)

----------------------------------------------------------------------------
\* Some row the principal is granted is what the slug says.
Granted(slug) == \E row \in granted : Spells(slug, row)

\* Nobody is allowed by a slug that happens to read like another permission's,
\* and nobody is denied what was granted: the decision on slugs is the one on
\* resources, actions and specificities.
DecidesOnRows ==
    decision # None =>
      (decision.allowed <=>
         /\ required # <<>>
         /\ IF policy.matchStrategy = "ANY"
            THEN \E k \in 1..Len(required) : Granted(required[k])
            ELSE \A k \in 1..Len(required) : Granted(required[k]))

\* The three definitions of a slug agree on whatever is granted: the database
\* generates what the domain builds, no two rows share it, and a policy may
\* require it.
SlugsAgree ==
    \A row \in granted :
      /\ GeneratedSlug(row) = buildPermissionSlug(row)
      /\ isValidPermissionSlug(GeneratedSlug(row))
      /\ \A other \in granted : GeneratedSlug(other) = GeneratedSlug(row) => other = row
====
