SPECIFICATION FairSpec
CONSTANTS
    r1 = r1
    Replica = {r1}
    Modes = {"interval"}
    Interval = 6
    LockTTL = 6
    FixedSlotTTL = 6
    Slot = {0, 1, 2}
    OffDays = {}
    MaxSkew = 0
    MaxDelay = 1
    MaxTime = 13
    MaxCrashes = 0
CHECK_DEADLOCK FALSE
INVARIANTS
    OverrunBounded
PROPERTIES
    StopEnds
