SPECIFICATION Spec
CONSTANTS
  MaxPackets = 2
  MaxFrames = 4
  MaxStarts = 2
INVARIANTS OneFrame LosslessFrames StaleDataOnce FrameFits
CHECK_DEADLOCK FALSE
