CONSTANTS
    Calls = {c1, c2}
    Nobody = Nobody
    Timeout = TRUE
    Signals = TRUE
SPECIFICATION
    FairSpec
INVARIANTS
    KeyFollowsCall
    NoOrphanedChild
PROPERTIES
    CallsAreAnswered
    GatewayGetsIdle
CHECK_DEADLOCK FALSE
