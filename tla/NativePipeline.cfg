\* Two generations of either topology; a stage has room for one session.
CONSTANTS
    Requests = {1, 2}
    MaxSessions = 1
    NumStages = 2
    Topologies = {TRUE, FALSE}
    QueueSize = 1
    PromptLen = 2
    MaxNew = 2
    MinNews = {0, 2}
    StopTokens = {0}
    MaxFaults = 2
SPECIFICATION FairSpec
INVARIANTS
    TypeOK
    KvLockstep
    UndisturbedIsReference
    RetryAmplification
PROPERTIES
    GenerationEndsAtLast
CHECK_DEADLOCK FALSE
