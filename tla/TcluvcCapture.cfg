SPECIFICATION FairSpec
CONSTANTS
  Frames = {f1, f2, f3}
  NULL = NULL
  LIB = LIB
  GONE = GONE
  Encoded = TRUE
  ConvModes = {TRUE, FALSE}
  IdleModes = {TRUE, FALSE}
  MayRecord = FALSE
  MaxEvents = 3
  MaxDepth = 2
INVARIANTS FramesHeld MostRecent CountHasEvent ClosedQuiet
PROPERTY CountReturnsToZero
CHECK_DEADLOCK FALSE
