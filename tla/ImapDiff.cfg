\* Three UIDs, two changes, one recreated mailbox.
SPECIFICATION Spec
CONSTANTS
    MaxUid = 3
    Keyword = {seen}
    Out = Out
    Unborn = Unborn
    Gone = Gone
    Start = 1
    MaxModSeq = 3
    MaxValidity = 2
    OmitsModSeq = TRUE
INVARIANTS
    TypeOK
    StaleIsReported
    QuietSyncIsExact
CHECK_DEADLOCK FALSE
