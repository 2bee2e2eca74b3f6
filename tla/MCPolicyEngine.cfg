SPECIFICATION FairSlugSpec
CONSTANTS
    n = n
    long = long
    bad = bad
    Empty = Empty
    Null = Null
    Undefined = Undefined
    None = None
    MaxLen = 3
    Segments <- MCSegments
    Names = {n, long, "read"}
    Short = {n, bad, "read", Empty}
    Actions = {"read"}
    Bodies <- MCBodies
    Slugs <- MCSlugs
    Policies <- MCPolicies
    Versions <- MCVersions
INVARIANTS
    EngineTypeOK
    NothingDecidedYet
    DecidesOnRows
    SlugsAgree
PROPERTIES
    Implements
    Terminates
