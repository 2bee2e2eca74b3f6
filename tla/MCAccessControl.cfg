SPECIFICATION FairSpec
CONSTANTS
    t1 = t1
    t2 = t2
    t3 = t3
    p1 = p1
    p2 = p2
    r1 = r1
    r2 = r2
    m1 = m1
    m2 = m2
    n1 = n1
    n2 = n2
    n3 = n3
    k1 = k1
    k2 = k2
    k3 = k3
    None = None
    Slots = {s1, s2}
    TenantIds = {t1, t2, t3}
    Ids = {p1, p2, r1, r2, m1, m2, n1, n2}
    Keys = {k1, k2, k3}
    Seed <- MCSeed
    Calls <- AllKindsOfCalls
    IntMax = 2
    LosesAnswers = TRUE
    MaxRequests = 3
    MaxFailures = 1
INVARIANTS
    TypeOK
    TenantIsolation
    FlatConfined
    AckCovered
    ChangesOwed
    AnswersHold
PROPERTIES
    Answered
