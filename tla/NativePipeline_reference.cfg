\* Tokens of a generation that is reported ok.
CONSTANTS
    Requests = {1}
    MaxSessions = 1
    NumStages = 2
    Topologies = {FALSE}
    QueueSize = 1
    PromptLen = 2
    MaxNew = 3
    MinNews = {0}
    StopTokens = {}
    MaxFaults = 1
SPECIFICATION Spec
INVARIANTS
    OkIsReference
CHECK_DEADLOCK FALSE
