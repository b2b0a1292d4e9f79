CONSTANTS
    Preparations = {1, 2}
    Options <- MCOptions
    Published <- MCPublished
    MaxBuilds = 2
    MaxBadWrites = 1
SPECIFICATION Spec
INVARIANTS
    PublishedIsWhole
    PublishedIsOneBuild
    PayloadsWerePublished
    PushKeepsOtherSlugs
    PayloadsRouteEveryLayer
CHECK_DEADLOCK FALSE
