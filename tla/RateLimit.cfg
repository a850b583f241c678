SPECIFICATION Spec
CONSTANTS
    r1 = r1
    r2 = r2
    Resources = {r1, r2}
    PerMinute = 1
    PerHour = 2
    DenyCooldown = 1
    Minute = 2
    Hour = 5
    ResourceCooldown = 3
    MaxCooldown = 4
    MaxCount = 3
    MaxHourly = 6
    MaxDenials = 4
INVARIANTS
    BurstBounded
    LockoutEnds
PROPERTY RiskIsMonotone
