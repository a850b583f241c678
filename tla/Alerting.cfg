SPECIFICATION Spec
CONSTANTS
    k1 = k1
    k2 = k2
    k3 = k3
    Keys = {k1, k2, k3}
    Idle = Idle
    Severities = {1, 2}
    MinSeverity = 2
    DedupWindow = 3
    RateWindow = 2
    RateLimit = 1
    ChannelSize = 2
INVARIANTS
    TypeOK
    RateBounded
PROPERTIES
    NoDuplicateAlert
    NoKeyFallsSilent
