\* Up to three messages of three kinds, pages of one or two, two meddlings.
SPECIFICATION Spec
CONSTANTS
    Kinds <- MCKinds
    Queries <- MCQueries
    Sizes = {1, 2}
    NoSize = none
    MaxPage = 5
    MaxBox = 3
    MaxMeddles = 2
    ServerPage = 4
    MaxU32 = 7
INVARIANTS TypeOK PageIsSlice SearchAgrees PagesCover
CHECK_DEADLOCK FALSE
