\* The shutdown flag may flip while resume() runs.
SPECIFICATION FairSpec
CONSTANTS
    Id = {m1}
    Keyword = {seen}
    Out = Out
    Unborn = Unborn
    Elsewhere = Elsewhere
    Gone = Gone
    Start = 1
    MaxState = 2
    Truncates = FALSE
    PushesOnConnect = TRUE
    FlipsMidResume = TRUE
PROPERTY ShutdownStops
CHECK_DEADLOCK FALSE
