SPECIFICATION FairSpec
CONSTANTS
  NumTransferBufs = 1
  MaxSeq = 2
  MayUnplug = FALSE
  SlowCancel = FALSE
  MaxStarts = 1
  PollModes = {}
PROPERTY FirstFrameReaches
