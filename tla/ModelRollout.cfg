CONSTANTS
    Activations = {a1, a2}
    NumStages = 2
    Catalog <- MCCatalog
    Initial = "deployed"
    AtRoot = {"deployed", "resplit", "short"}
    MaxCrashes = 1
    MaxTruncated = 1
SPECIFICATION RolloutSpec
INVARIANTS
    PodsFollowConfig
    ReadyPipelineIsWhole
CHECK_DEADLOCK FALSE
