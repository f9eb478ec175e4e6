SPECIFICATION Spec
CONSTANTS
  Values = {2, 300}
  Companion = "BRIGHTNESS"
INVARIANT AccessorsAgree
PROPERTIES SetsWhatIsNamed WriteBackKeeps
CHECK_DEADLOCK FALSE
