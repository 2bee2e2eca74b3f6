---- MODULE MCIdentityService ----
(***************************************************************************)
(* IdentityService with two tenants, a principal of the first, and a token *)
(* for every way a token can be right or wrong.                            *)
(***************************************************************************)
EXTENDS IdentityService

CONSTANTS r1, r2, ten1, ten2, ten9, pri1, pri9, key1, key2, key3

MCOwner == [p \in {pri1} |-> ten1]
MCFirstKey == [t \in TenantIds |-> IF t = ten1 THEN key1 ELSE key3]
MCMaxRotations == [t \in TenantIds |-> IF t = ten1 THEN 1 ELSE 0]

Token(tenantId, sub, signer, sound) ==
    [tenantId |-> tenantId, sub |-> sub, signer |-> signer, sound |-> sound]
MCTokens ==
    { Token(ten1, pri1, key1, TRUE), Token(ten1, pri1, key2, TRUE),
      Token(ten1, pri1, key3, TRUE),   \* signed by the other tenant
      Token(ten1, pri1, key1, FALSE),  \* expired
      Token(ten1, pri9, key1, TRUE),   \* no such principal
      Token(ten2, pri1, key3, TRUE),   \* a principal of the other tenant
      Token(ten9, pri1, key1, TRUE),   \* no such tenant
      Token(None, pri1, key1, TRUE) }  \* no tenantId claim
====
