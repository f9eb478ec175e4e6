SPECIFICATION Spec
CONSTANTS
  NumTransferBufs = 2
  MaxSeq = 1
  MayUnplug = TRUE
  SlowCancel = FALSE
  MaxStarts = 1
  PollModes = {}
INVARIANT CloseEndsCaller
