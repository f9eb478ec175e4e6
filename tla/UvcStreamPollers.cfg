SPECIFICATION FairSpec
CONSTANTS
  NumTransferBufs = 1
  MaxSeq = 1
  MayUnplug = FALSE
  SlowCancel = FALSE
  MaxStarts = 1
  PollModes = {"forever"}
PROPERTY PollersCancelled
