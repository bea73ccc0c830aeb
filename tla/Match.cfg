SPECIFICATION MatchSpec
CONSTANTS
    Families <- MatchFamilies
    MaxU64 = 1000
    MaxCS = 8
    MaxKS = 10
INVARIANTS
    PanicsOnlyOnError
    CapturesAreThePairs
    CapturesCanBeSliced
    SamplesMeanTheirRegex
PROPERTIES
    ForwardTerminates
    MatchReturns
CHECK_DEADLOCK FALSE
