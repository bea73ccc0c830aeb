SPECIFICATION Spec
CONSTANT Programs <- CountTwo
INVARIANT DecodeInvertsEncode
CHECK_DEADLOCK FALSE
