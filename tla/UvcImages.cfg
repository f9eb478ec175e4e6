\* Every rotation and mirroring; three commands that write, so that an array
\* is shown, photos and arrays are combined, and a photo is written twice.
SPECIFICATION ImagesSpec
CONSTANTS
  Cameras <- MCCameras
  Scenes <- MCScenes
  Shifts <- MCShifts
  Degrees <- MCDegrees
  Turns <- MCTurns
  Masks <- MCMasks
  MaxCommands = 3
INVARIANT AnaglyphsAgree
PROPERTY PictureShown
