SPECIFICATION FairSpec
CONSTANTS
  NumTransferBufs = 2
  MaxSeq = 3
  MayUnplug = TRUE
  SlowCancel = FALSE
  MaxStarts = 2
  PollModes = {"now", "timed", "forever"}
INVARIANTS TypeOK NoDanglingUse NoFreeInFlight StopNeedsNoTimeout
PROPERTIES CapturesInOrder FrameReachesCaller StopReturns ImplementsContract
