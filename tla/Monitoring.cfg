SPECIFICATION Spec
CONSTANTS
    p1 = p1
    p2 = p2
    p3 = p3
    NoTask = NoTask
    Ids = {p1, p2, p3}
    MaxEntries = 2
    Mode = "enforce"
    PidNames = {"7"}
    MemfdNames = {"memfd:x"}
    Agents <- MCAgents
    CommKey <- MCCommKey
    Names <- MCNames
    OnDisk <- MCOnDisk
    Linkers <- MCLinkers
    Shorter <- MCShorter
    Programs <- MCPrograms
    Grants <- MCGrants
    Targets <- MCTargets
    Spellings <- MCSpellings
INVARIANTS
    TreeStaysWatched
    EnforcedIsWatched
    VerdictsAgree
    SpellingHidesNothing
PROPERTY NamedIsEnforced
