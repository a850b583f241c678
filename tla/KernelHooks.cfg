CONSTANTS
    t1 = t1
    t2 = t2
    c1 = c1
    c2 = c2
    Threads = {t1, t2}
    Enforced = {t1, t2}
    Cpus = {c1, c2}
    Home <- Together
    Movable = {t1, t2}
    Targets <- MCTargets
    Length <- MCLength
    MaxLength = 5
    LinkerLength = 5
    Lists <- MCLists
    DefaultAllow <- MCDefaultAllow
    Calls <- MCCalls
    Capacity = 1
SPECIFICATION Spec
SYMMETRY Symmetry
INVARIANTS
    OnlyLostVerdictsPass
    OneBlockPerDenial
    OnlyLostPrefixesPass
