CONSTANTS
  MaxRef = 1
  None = None
  KeyInterval = 2
  Frames = 4
  AltRefs = {}
  MaxPackets = 5
  Timescale <- TwoClocks
  Target = {0, 1}
  MaxStash = 1
  MaxLost = 0
  MaxSeeks = 1
SPECIFICATION PlaybackSpec
PROPERTIES
  SeekFindsKeyframe
