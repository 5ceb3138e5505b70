SPECIFICATION Spec

CONSTANTS
  t1 = t1
  t2 = t2
  t3 = t3
  Process = {"daemon", "once"}
  Contents = {"empty", "v1"}
  Empty = "empty"
  Down = "down"
  Temp <- TempNames
  UmaskHides = TRUE

SYMMETRY TempSymmetry

INVARIANT AlwaysLoadable
PROPERTY ImplementsStore
