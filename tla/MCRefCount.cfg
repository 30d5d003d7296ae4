SPECIFICATION Spec
CONSTANTS
  Objects = {o1, o2, o3}
  Fields = {1, 2}
  Handles = {h1, h2, h3}
  NULL = NULL
  MaxRef = 3
INVARIANTS
  ExactCount
  NoDangling
  NoDoubleRelease
  GCInfoExact
  IInv
  NoLeak
PROPERTIES
  ImplementsStore
  ReleaseReturns
CHECK_DEADLOCK FALSE
