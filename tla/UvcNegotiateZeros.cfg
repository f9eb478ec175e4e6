SPECIFICATION Spec
CONSTANTS
  Cameras <- MCCameras
  Builds = {TRUE, FALSE}
  Rates <- MCRates
INVARIANT ZerosFixedUp
CHECK_DEADLOCK FALSE
