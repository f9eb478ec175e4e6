SPECIFICATION Spec
CONSTANTS
  Cameras <- MCCameras
  Builds = {TRUE, FALSE}
  Rates <- MCRates
INVARIANT ListedFormatStarts
CHECK_DEADLOCK FALSE
