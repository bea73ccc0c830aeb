SPECIFICATION UnionFairSpec
CONSTANT Families <- MCFamilies
INVARIANTS
    NoGoroutineLeak
PROPERTIES
    ImplementsForEach
    Terminates
CHECK_DEADLOCK FALSE
