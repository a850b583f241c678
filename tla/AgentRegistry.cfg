CONSTANTS
    l1 = l1  l2 = l2  l3 = l3
    n1 = n1  n2 = n2
    NoLaunch = NoLaunch
    Launches = {l1, l2, l3}
    Names = {n1, n2}
    NameOf <- TwoNames
    Enforce = TRUE
    FailClosed = {n1}
    Capacity = 2
    MaxProcs = 2
    Ops = {"stop", "delete", "restart"}
SPECIFICATION Spec
INVARIANT WatchedUntilEnded
PROPERTY EndedIsForgotten
