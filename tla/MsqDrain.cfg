SPECIFICATION FairSpec
CONSTANTS
    Consumer = {c1}
    Message = {m1, m2}
    NoMsg = NoMsg
    JobId = {1, 2, 3}
    MaxRetries = 0
    Limit = 0
    DeadLetter = {FALSE}
    MaxCount = 1
    Kinds = {"visibility"}
    Concurrency = 2
    MaxReceive = 2
    MaxLapses = 0
    MaxCrashes = 1
    MaxPauses = 2
    MaxPanics = 0
CHECK_DEADLOCK FALSE
INVARIANTS
    Backpressure
PROPERTIES
    Settles
