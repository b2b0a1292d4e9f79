CONSTANTS
    Threads = {t1, t2, t3}
    QueueLimits = {0, 1, 2}
    MayRaise = TRUE
SPECIFICATION
    FairSpec
INVARIANTS
    TypeOK
    OneGuardedGeneration
    FreeGuardWakes
PROPERTIES
    ImplementsSingleFlight
    EveryRequestEnds
