SPECIFICATION Spec
CONSTANTS
    ten1 = ten1
    ten2 = ten2
    ten9 = ten9
    pri1 = pri1
    pri9 = pri9
    key1 = key1
    key2 = key2
    key3 = key3
    r1 = r1
    r2 = r2
    None = None
    Requests = {r1, r2}
    TenantIds = {ten1, ten2}
    Principals = {pri1}
    Keys = {key1, key2, key3}
    MaxPrincipalVersion = 2
    Owner <- MCOwner
    FirstKey <- MCFirstKey
    MaxRotations <- MCMaxRotations
    Tokens <- MCTokens
INVARIANTS
    NextRequestUsesRotatedKey
CHECK_DEADLOCK FALSE
