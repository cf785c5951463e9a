SPECIFICATION Spec
CONSTANTS
    r1 = r1
    r2 = r2
    Replica = {r1, r2}
    Modes = {"interval", "fixed"}
    Interval = 5
    LockTTL = 3
    FixedSlotTTL = 4
    Slot = {0, 1}
    OffDays = {0}
    MaxSkew = 1
    MaxDelay = 1
    MaxTime = 8
    MaxCrashes = 1
SYMMETRY Symmetry
CHECK_DEADLOCK FALSE
INVARIANTS
    FixedSlotRunsOnce
PROPERTIES
    ImplementsLocker
