CONSTANTS
    Requests = {p1, p2, p3, p4}
    OldRecords = 2
    MaxEntries = 2
    EarlyRequests = FALSE
    MaxFaults = 2
    MaxRestarts = 2
SPECIFICATION
    HistorySpec
INVARIANTS
    IdsAreUnique
    FileIsHistory
    OnlyChosenRecordsGo
SYMMETRY
    AnyOrder
CHECK_DEADLOCK FALSE
