SPECIFICATION FairProcessSpec
CONSTANTS
    t1 = t1
    t2 = t2
    p1 = p1
    r1 = r1
    m1 = m1
    n1 = n1
    k1 = k1
    k2 = k2
    None = None
    Slots = {s1, s2}
    TenantIds = {t1, t2}
    Ids = {p1, r1, m1, n1}
    Keys = {k1, k2}
    Seed <- MCSeed
    Calls <- MCCalls
    IntMax = 9
    LosesAnswers = TRUE
    MaxRequests = 2
    MaxFailures = 1
    MaxKills = 1
INVARIANTS
    ProcessTypeOK
    NothingLeftBehind
    VersionIdentifies
PROPERTIES
    ExitBreaksNothing
    KeepsThePromise
    ShutdownEnds
    Answered
