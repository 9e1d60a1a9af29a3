CONSTANTS
  MaxRef = 2
  None = None
  KeyInterval = 4
  Frames = 5
  AltRefs = {}
  MaxPackets = 5
SPECIFICATION EncoderSpec
INVARIANTS
  GopIsEncoded
CHECK_DEADLOCK FALSE
