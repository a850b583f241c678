SPECIFICATION EventSpec
CONSTANTS
    Levels = {1, 2}
    Threshold = 2
    BusSize = 2
    BatchSize = 2
    MaxEvents = 4
    Faults = {"undone", "leftOpen"}
INVARIANTS
    RowsInOrder
    NothingVanishes
    ClientAccounts
PROPERTIES
    ImplementsEventLedger
    EventuallySettled
