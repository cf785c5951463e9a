SPECIFICATION Spec
CONSTANTS
    r1 = r1
    r2 = r2
    Replica = {r1, r2}
    Modes = {"interval"}
    Interval = 4
    LockTTL = 6
    FixedSlotTTL = 4
    Slot = {0, 1, 2}
    OffDays = {}
    MaxSkew = 0
    MaxDelay = 1
    MaxTime = 10
    MaxCrashes = 0
INVARIANT NoOverlap
SYMMETRY Symmetry
CHECK_DEADLOCK FALSE
