SPECIFICATION Spec
CONSTANTS
  Half = 16
  Width = 5
  Excess = 5
  Small = 3
  Percy = 7
  GammaGamma = 3
  Shift = 3
  SmallShift = 2
  Odd1 = 13
  Odd2 = 19
  Mix64 <- mix64
  Mix56 <- mix56
  NGens = 2
  Bounds <- Extremes
INVARIANTS
  Orbit
  GammasByDepth
  RangesHold
