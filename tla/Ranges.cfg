SPECIFICATION Spec
CONSTANTS
    MaxByte <- MCMaxByte
    Lists <- MCLists
INVARIANTS
    Coalesced
    SameBytes
    MatchIsMembership
PROPERTIES
    ImplementsForEach
CHECK_DEADLOCK FALSE
