\* Frames with and without padding; the third chunk closes a segment, so six
\* frames make up to three segments, and the index grows twice in the first.
SPECIFICATION Spec
CONSTANTS
  Sizes = {3, 8}
  SegLimit = 30
  HdrSize = 40
  IdxGrow = 1
  MaxFrames = 6
INVARIANTS
  SegmentsTile
  IndexPointsAtFrames
