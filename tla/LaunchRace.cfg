CONSTANTS
    l1 = l1  l2 = l2  l3 = l3
    n1 = n1  n2 = n2
    NoLaunch = NoLaunch
    Launches = {l1}
    Names = {n1}
    NameOf <- OneName
    Enforce = TRUE
    FailClosed = {n1}
    Capacity = 2
    MaxProcs = 2
    Ops = {}
SPECIFICATION Spec
INVARIANT RunningIsWatched
