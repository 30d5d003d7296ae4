SPECIFICATION Spec
CONSTANTS
  MaxLen = 16
  Lengths <- UpToMaxLen
INVARIANTS
  FindsFirst
  BracketInv
PROPERTIES
  Terminates
CHECK_DEADLOCK FALSE
