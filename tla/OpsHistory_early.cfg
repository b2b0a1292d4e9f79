CONSTANTS
    Requests = {p1, p2}
    OldRecords = 2
    MaxEntries = 4
    EarlyRequests = TRUE
    MaxFaults = 0
    MaxRestarts = 0
SPECIFICATION
    HistorySpec
INVARIANTS
    OnlyChosenRecordsGo
CHECK_DEADLOCK FALSE
