SPECIFICATION Spec
CONSTANTS
    users = users
    orders = orders
    me = me
    id = id
    userId = userId
    s1 = s1
    s2 = s2
    GET = GET
    POST = POST
    Empty = Empty
    Param = Param
    None = None
    MaxRoutes = 3
    Services = {s1, s2}
    Methods = {GET, POST}
    Segments = {users, orders, me, id, userId, Empty}
    Params = {id, userId}
    RouteIds <- MCRouteIds
    Lists <- MCLists
INVARIANTS
    DuplicatesCaught
