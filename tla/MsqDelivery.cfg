SPECIFICATION Spec
CONSTANTS
    Consumer = {c1, c2}
    Message = {m1}
    NoMsg = NoMsg
    JobId = {1, 2}
    MaxRetries = 1
    Limit = 2
    DeadLetter = {TRUE, FALSE}
    MaxCount = 3
    Kinds = {"stream"}
    Concurrency = 1
    MaxReceive = 2
    MaxLapses = 2
    MaxCrashes = 1
    MaxPauses = 0
    MaxPanics = 1
SYMMETRY Symmetry
CHECK_DEADLOCK FALSE
INVARIANTS
    NothingLost
    HandledOnce
