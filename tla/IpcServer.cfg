SPECIFICATION ServerSpec
CONSTANTS
    c1 = c1
    c2 = c2
    c3 = c3
    c4 = c4
    a1 = a1
    s1 = s1
    Clients = {c1, c2, c3, c4}
    Agents = {a1}
    Strangers = {s1}
    MaxConnections = 3
    MaxPending = 2
INVARIANTS
    RoomForDecisions
    PendingBounded
PROPERTY EveryConnectionEnds
