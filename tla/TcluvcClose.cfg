SPECIFICATION Spec
CONSTANTS
  Frames = {f1, f2, f3}
  NULL = NULL
  LIB = LIB
  GONE = GONE
  Encoded = TRUE
  ConvModes = {TRUE}
  IdleModes = {}
  MayRecord = FALSE
  MaxEvents = 1
  MaxDepth = 1
INVARIANT ClosedUnused
CHECK_DEADLOCK FALSE
