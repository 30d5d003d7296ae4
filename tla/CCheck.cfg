CONSTANTS
  Gens = {"int", "sized int", "series", "array of series", "array of int", "clamped"}
  Draws <- DrawsOf
  Generated <- SampleOf
  Behind <- BlocksOf
  Frees <- DisposedOf
  Kind <- GenKind
  Child <- GenChild
  AtLeast = 1
  Sizes = {0, 1, 2}
  ArgLists <- Lists
  Iterations = {0, 2}
  MaxSamples = 2
  MaxTests = 2
  Period = 8

SPECIFICATION Spec

INVARIANTS
  Owned
  ReportReplays

PROPERTY
  TestsEnd

CHECK_DEADLOCK FALSE
