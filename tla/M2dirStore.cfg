\* Two processes, two mailboxes, two messages and two more ids, one interruption.
SPECIFICATION Spec
CONSTANTS
    Client = {c1, c2}
    Box = {inbox, archive}
    Message <- MCMessage
    Flag = {seen}
    Home = inbox
    First <- MCFirst
    MaxId = 4
    MaxBatch = 2
    MaxFaults = 1
    MaxCalls = 2
SYMMETRY Symmetry
INVARIANTS
    TypeOK
    NoLoss
    TransferIsPrefix
PROPERTIES
    TouchesOnlyNamed
    ImplementsStore
CHECK_DEADLOCK FALSE
