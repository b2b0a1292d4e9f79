\* Every value the uninitialised flag may hold.
CONSTANTS
    Conns = {c1, c2, c3, c4}
    MaxQueueSize = 2
    Results = {200, 502}
    Garbage = {TRUE, FALSE}
    None = None
SPECIFICATION FairSpec
INVARIANTS
    TypeOK
    JobConservation
    NoLostWakeup
PROPERTIES
    ImplementsService
    EveryForwardAnswered
    AnsweredOrStranded
    StopCompletes
