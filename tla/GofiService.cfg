SPECIFICATION FairSpec
CONSTANTS
    Server <- MCServer
    k1 = k1
    k2 = k2
    Stopper <- MCStopper
    Programs <- MCPrograms
CHECK_DEADLOCK FALSE
INVARIANTS
    OrderlyLifecycle
PROPERTIES
    ServiceEnds
