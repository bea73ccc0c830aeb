SPECIFICATION ScriptSpec
CONSTANTS
  A = A
  C = C
  Name = {A, C}
  None = None
  Scripts <- OpsAndLoops
  Call <- MCCall
  Accepts <- AcceptsArgs
  Encoding <- EncodeArgs
  MaxOffset = 2147483647
  MaxItems = 15
  MaxCalls = 1
INVARIANTS CodeDecodes
CHECK_DEADLOCK FALSE
