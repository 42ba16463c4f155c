\* Two mailboxes of at most two messages, one of three other flags.
SPECIFICATION Spec
CONSTANTS
    Mailbox = {inbox, archive}
    NoMailbox = NoMailbox
    MessageId = {i1, i2}
    Flag = {deleted}
    Deleted = deleted
    NoMessage = NoMessage
    MaxUid = 2
    AutoSelect = TRUE
SYMMETRY Symmetry
INVARIANTS
    TypeOK
PROPERTIES
    TouchesOnlyNamed
    AnswersAboutNamed
    DeletedIsGone
CHECK_DEADLOCK FALSE
