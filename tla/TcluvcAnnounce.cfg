SPECIFICATION FairSpec
CONSTANTS
  Frames = {f1, f2, f3}
  NULL = NULL
  LIB = LIB
  GONE = GONE
  Encoded = TRUE
  ConvModes = {TRUE}
  IdleModes = {TRUE, FALSE}
  MayRecord = FALSE
  MaxEvents = 2
  MaxDepth = 1
PROPERTY FramesAnnounced
CHECK_DEADLOCK FALSE
