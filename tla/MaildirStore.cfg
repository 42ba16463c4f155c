\* Two processes, two mailboxes, two messages and one more id, one interruption.
SPECIFICATION Spec
CONSTANTS
    Client = {c1, c2}
    Box = {inbox, archive}
    Letter = {seen, trashed}
    Trashed = trashed
    Home = inbox
    First = {i1, i2}
    Fresh = {i2}
    Id = {i1, i2, i3}
    NoFile = NoFile
    MaxBatch = 2
    MaxFaults = 1
    MaxCalls = 2
SYMMETRY Symmetry
INVARIANTS
    TypeOK
    NoLoss
    ListShowsSteady
PROPERTIES
    NothingUndone
    ImplementsStore
CHECK_DEADLOCK FALSE
