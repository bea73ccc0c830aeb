SPECIFICATION FairSpec
CONSTANT Programs <- AllPrograms
INVARIANTS TypeOK SweepInStep AllOrNothingListing LabelsResolve
PROPERTIES Returns
CHECK_DEADLOCK FALSE
