CONSTANTS
    Streams <- MCStreams
    Stored <- MCStored
    Given <- MCGiven
    MaxStash = 1
    Limits = {2}
    MaxSources = 2
    MaxActs = 3
    Notices = {1, 2}
    MaxSeen = 1
    MaxPresses = 3
    MaxStale = 3
    ByteBits = 4
    WordBits = 10
    WordBytes = 4
    NarrowBits = 8
    NarrowBytes = 5
    ScaleBits = 6
    LowBits = 10
    StateBytes = 4
    BlockSize = 3
    MaxOrder = 3
    Shift = 5
    Taps <- MCTaps
    MaxTracks = 2
    MaxConfig = 14
    MaxSequenceRefs = 2
    VideoMagic = 71
    AudioMagic = 72
    VideoSync <- MCVideoSync
    AudioSync <- MCAudioSync
    MaxFramePayload = 40
    Width = 5
    Height = 4
    Rate = 48
    Pictures <- MCPictures
    Sounds <- MCSounds
    Revisions <- MCRevisions
SPECIFICATION Spec
INVARIANT TracksArePrefixes
INVARIANT PlayerTypeOK
INVARIANT NoticesShownOnce
PROPERTY DoneIsWhole
PROPERTY PlayedIsWhole
PROPERTY FilesReadBack
PROPERTY PlaybackEnds
CHECK_DEADLOCK FALSE
