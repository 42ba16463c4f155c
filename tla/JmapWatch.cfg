\* Two messages, two keywords, two changes during the watch.
SPECIFICATION Spec
CONSTANTS
    Id = {m1, m2}
    Keyword = {seen, flagged}
    Out = Out
    Unborn = Unborn
    Elsewhere = Elsewhere
    Gone = Gone
    Start = 1
    MaxState = 3
    Truncates = TRUE
    PushesOnConnect = FALSE
    FlipsMidResume = TRUE
SYMMETRY Symmetry
INVARIANTS
    TypeOK
    StaleIsCovered
    PendingExplains
PROPERTY ImplementsFeed
CHECK_DEADLOCK FALSE
