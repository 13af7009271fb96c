SPECIFICATION Spec
CONSTANTS
    Clients = {c1, c2}
    SendBuffer = 1
    MaxBroadcasts = 2
    Conns = {c1, c2}
    Tasks = {c1}
    Rooms = {r1}
    MaxCalls = 3
    None = None
INVARIANT TypeOK
INVARIANT ClientsReceiveInOrder
INVARIANT RoomsAreConsistent
PROPERTY HubLetsGo
PROPERTY PublishReturns
CHECK_DEADLOCK FALSE
