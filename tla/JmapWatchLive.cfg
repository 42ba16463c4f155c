\* A server that pushes its state on every new subscription; liveness, no symmetry.
SPECIFICATION FairSpec
CONSTANTS
    Id = {m1, m2}
    Keyword = {seen}
    Out = Out
    Unborn = Unborn
    Elsewhere = Elsewhere
    Gone = Gone
    Start = 1
    MaxState = 3
    Truncates = TRUE
    PushesOnConnect = TRUE
    FlipsMidResume = FALSE
PROPERTIES
    Converges
    ShutdownStops
CHECK_DEADLOCK FALSE
