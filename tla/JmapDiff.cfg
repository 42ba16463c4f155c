\* Two emails, four changes while the caller syncs; of one of them the server may
\* keep silent when it was short-lived.
SPECIFICATION Spec
CONSTANTS
    Id = {m1, m2}
    Keyword = {seen, flagged}
    Out = Out
    Unborn = Unborn
    Gone = Gone
    Start = 1
    MaxState = 5
    Omitted = {m2}
SYMMETRY Symmetry
INVARIANTS
    TypeOK
    StaleIsReported
    QuietSyncIsExact
CHECK_DEADLOCK FALSE
