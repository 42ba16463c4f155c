\* A caller that selects once per batch.
SPECIFICATION Spec
CONSTANTS
    Mailbox = {inbox, archive}
    NoMailbox = NoMailbox
    MessageId = {i1, i2}
    Flag = {deleted}
    Deleted = deleted
    NoMessage = NoMessage
    MaxUid = 2
    AutoSelect = FALSE
SYMMETRY Symmetry
PROPERTIES
    TouchesOnlyNamed
CHECK_DEADLOCK FALSE
