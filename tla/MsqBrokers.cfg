\* The push brokers, the producers and the service, one part at a time.
SPECIFICATION Spec
CONSTANTS
    MaxDrops = 1
    AmqpMessage = {m1}
    Prefetch = 1
    MaxTracked = 1
    MaxSeen = 2
    MaxPauses = 1
    s1 = s1
    s2 = s2
    Sender = {s1, s2}
    Batches <- MCBatches
    BoundTopic = {"bound"}
    Pod = {a, b}
    MaxOffset = 2
    MaxGeneration = 2
    SendBatches <- MCSendBatches
    MaxBatchSize = 2
    MaxSends = 2
    ServiceCloser = {c1, c2}
    MaxManagers = 2
    MaxConsumers = 1
INVARIANTS
    CountNotAbove
    PartitionInOrder
    SendsKept
    CloseDrains
PROPERTIES
    ConsumeEnds
CHECK_DEADLOCK FALSE
