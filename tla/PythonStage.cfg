CONSTANTS
    r1 = r1
    r2 = r2
    t1 = t1
    t2 = t2
    RequestIds = {r1, r2}
    Workers = {t1, t2}
    Dedupe = TRUE
    Settings <- MCSettings
SPECIFICATION
    StageSpec
INVARIANTS
    OkAnswersAreReference
    LiveCacheAppendsOnce
CHECK_DEADLOCK FALSE
