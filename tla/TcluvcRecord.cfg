SPECIFICATION FairSpec
CONSTANTS
  Frames = {f1, f2, f3}
  NULL = NULL
  LIB = LIB
  GONE = GONE
  Encoded = TRUE
  ConvModes = {TRUE, FALSE}
  IdleModes = {}
  MayRecord = TRUE
  MaxEvents = 1
  MaxDepth = 1
INVARIANTS RecorderMatchesCapture OneWriter ErrorMeansFailure
PROPERTIES ChannelStaysValid CommandReturns
CHECK_DEADLOCK FALSE
