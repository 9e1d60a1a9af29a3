CONSTANTS
  Track = {"video", "audio"}
  Frames <- SomeFrames
  MaxPackets = 3
  CueInterval = 2
  MaxPayload = 4
  MaxBody = 10
  MaxEntries = 10
  Probe = 7
  Targets = {0, 1, 2}
  MaxDamage = 1
  MaxDamagedPackets = 2
SPECIFICATION DemuxSpec
INVARIANTS
  DemuxTypeOK
  EntriesPointAtPackets
  ReadsIntactPackets
  IndexIsComplete
  CuesRepeatEntries
PROPERTIES
  ImplementsStream
  SeekLands
