\* Three generations over a map of two sessions.
CONSTANTS
    Requests = {1, 2, 3}
    MaxSessions = 2
    PromptLens = {1, 2}
    MaxLen = 3
    MaxFaults = 2
    MinCapacity = 1
SPECIFICATION MemorySpec
INVARIANTS
    TypeOK
    NoHoles
    CacheFollowsClient
    TransposeAgrees
    SeedReproduces
PROPERTIES
    EvictsOnlyForRoom
CHECK_DEADLOCK FALSE
