SPECIFICATION FairSpec
CONSTANTS
  Name = {A, B}
  None = None
  Call <- NarrowCalls
  Accepts <- NarrowAccepts
  Encoding <- NarrowEncode
  MaxOffset = 150
  MaxItems = 5
  MaxCalls = 2
INVARIANTS FixNeverGoofs PanicsOnlyWithoutLabel AddressesAreFinal MissesOnlyBySaving LabelsAscend
PROPERTIES DecisionsAreFinal FixEnds
CHECK_DEADLOCK FALSE
