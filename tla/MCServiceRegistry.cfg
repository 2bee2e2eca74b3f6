SPECIFICATION Spec
CONSTANTS
    t1 = t1
    t2 = t2
    s1 = s1
    s2 = s2
    n1 = n1
    k1 = k1
    k2 = k2
    getA = getA
    getB = getB
    q1 = q1
    q2 = q2
    q9 = q9
    None = None
    Slots = {a, b}
    TenantIds = {t1, t2}
    ServiceIds = {s1, s2, n1}
    RouteIds = {1, 2, 3}
    Names = {k1, k2}
    Endpoints = {getA, getB}
    PolicyIds = {q1, q2, q9}
    PolicyTenant <- MCPolicyTenant
    Seed <- MCSeed
    Calls <- MCCalls
    MaxRequests = 3
    MaxFailures = 1
INVARIANTS
    TypeOK
    RoutesBelong
    ListsConfined
    ListsKnowAcknowledged
    ListsFeedTheTrie
    ConflictMeansThere
PROPERTIES
    ActsAtomically
