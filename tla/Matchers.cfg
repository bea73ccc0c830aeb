SPECIFICATION Spec
CONSTANTS
    Words = 2
    Bits = 2
    Given <- MCGiven
    GivenRanges <- MCGivenRanges
    MaxObjects = 5
    MaxHeap = 6
    MaxList = 2
INVARIANTS
    TypeOK
    MethodsAgree
    OptimizeKeepsTheSet
    OptimizeSettles
PROPERTIES
    MatchersNeverChange
