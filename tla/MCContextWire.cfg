SPECIFICATION Spec
CONSTANTS
    invoicesRead = invoicesRead
    invoicesWrite = invoicesWrite
    Empty = Empty
    None = None
    ZodError = ZodError
    Ids = {invoicesRead, invoicesWrite}
    Versions = {0, 1, 2}
    Times = {1, 2}
INVARIANTS
    PermissionContextsReadBack
    AcceptedRequestsAudited
CHECK_DEADLOCK FALSE
