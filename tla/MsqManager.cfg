\* Three entries, one without a topic; two goroutines that call Start; two that
\* call CloseContext, one of them with a context that may end.
SPECIFICATION FairSpec
CONSTANTS
    Starter = {s1, s2}
    Closer = {c1, c2}
    Impatient = {c2}
    MaxEntries = 3
    Topicless = {2}
    Grace = 1
    MaxFailures = 2
    MaxTime = 2
CHECK_DEADLOCK FALSE
INVARIANTS
    DoneMeansDrained
    HealthTruthful
PROPERTIES
    CloseEnds
