SPECIFICATION Spec
CONSTANTS
    MaxByte <- MCMaxByte
    Lists <- TwoAdjacent
INVARIANT AdjacentCoalesced
CHECK_DEADLOCK FALSE
