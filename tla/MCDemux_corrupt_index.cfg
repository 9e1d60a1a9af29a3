CONSTANTS
  Track = {"video", "audio"}
  Frames <- FewFrames
  MaxPackets = 2
  CueInterval = 1
  MaxPayload = 4
  MaxBody = 10
  MaxEntries = 10
  Probe = 100
  Targets = {0, 1, 2}
  MaxDamage = 1
  MaxDamagedPackets = 2
SPECIFICATION DemuxSpec
PROPERTIES
  CorruptIndexFallsBack
