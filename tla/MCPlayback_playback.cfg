CONSTANTS
  MaxRef = 2
  None = None
  KeyInterval = 3
  Frames = 4
  AltRefs = {1}
  MaxPackets = 5
  Timescale <- TwoClocks
  Target = {0, 1}
  MaxStash = 1
  MaxLost = 1
  MaxSeeks = 1
SPECIFICATION PlaybackSpec
INVARIANTS
  FramesAreExact
  CountsReturnedFrames
PROPERTIES
  IntactIsDecoded
  DecodedInOrder
CHECK_DEADLOCK FALSE
