SPECIFICATION SliceSpec
CONSTANTS
    Families <- MachineFamilies
    MaxU64 <- MCMaxU64
    MaxCS = 5
    MaxKS = 6
    Spare = {0, 1, 2, 3}
CHECK_DEADLOCK FALSE
INVARIANTS
    TypeOK
    DataPointersInBounds
    CapturesInBounds
    NoCapturesUnlessLive
    SavedCapturesArePrefixes
    CapturesNeverAhead
    SlicesShowTheCaptures
PROPERTIES
    ImplementsBacktracking
    NoAlternativeSkipped
