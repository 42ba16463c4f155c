\* Two messages, a flag label of each polarity, three changes, two sleeps.
SPECIFICATION FairSpec
CONSTANTS
    Id = {1, 2}
    Label = {"UNREAD", "STARRED"}
    Out = Out
    Chunks = 2
    MaxChanges = 3
INVARIANTS
    TypeOK
    WrongOnlyIfMuddled
    OneLatePoll
PROPERTIES
    WatchEnds
CHECK_DEADLOCK FALSE
