SPECIFICATION Spec
CONSTANTS
  Half = 4
  Width = 3
  Excess = 3
  Small = 2
  Shift = 2
  SmallShift = 1
  Odd1 = 5
  Odd2 = 3
  SeedGamma = 6
  Threads = {t1, t2, t3}
  Words <- Int64
  Zero = 0
  Update <- StepOf
  Mix <- SeedOf
  MaxSpurious = 1
PROPERTIES
  ImplementsSeedSource
  LockFree
