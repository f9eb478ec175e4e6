SPECIFICATION Spec
CONSTANTS
  Cameras <- MCCameras
  Builds = {TRUE, FALSE}
  Rates <- MCRates
INVARIANTS
  FramesAsChosen
  TransfersCarryData
  TableNamesFrames
  ReachedFormatStarts
CHECK_DEADLOCK FALSE
