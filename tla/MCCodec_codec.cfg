CONSTANTS
    ByteBits = 4
    WordBits = 10
    WordBytes = 4
    NarrowBits = 8
    NarrowBytes = 5
    ScaleBits = 6
    LowBits = 10
    StateBytes = 4
    ByteFloor = 1
    Positions = 15
    MaxRun = 14
    MaxCoeff = 2
    MaxSymbols = 40
    EobWeight = 24
    RunWeight = 2
    Bands <- MCBands
    RunEnds <- MCRunEnds
    FlatCount = 1
    FlatSum = 3
    EdgeCount = 3
    SmallMax = 1
    ShortRun = 2
    TokenBands <- MCBands
    LegacyBands <- MCLegacyBands
    Side = 4
    ZigZag <- MCZigZag
    ZigZagQuarter <- MCZigZagQuarter
    TrailingZeros = 6
    FewCoeffs = 3
    EnergyDetail = 8
    VarianceDetail = 400
    SparseMax = 3
    SparseVariance = 120
    SideBytes = 1
    WireDelta = 3
    TopQp = 15
    None = None
    Empty = Empty
    Columns = 4
    MaxPels = 3
    DetailMax = 22
    RawSmallMax = 3
    SkipMax = 6
    DecodeSteps = 8
    Settings <- MCSettings
    PictureOf <- MCPictureOf
    Pictures = {1, 2}
    Cuts = {1, 2, 9}
    MaxFrames = 4
    RateSettings <- MCRateSettings
    FrameRates <- MCFrameRates
    Scenes <- MCScenes
    FrameBytes <- MCFrameBytes
    BlockEdge = 2
    Width = 3
    Height = 3
    TopSample = 7
    Grey = 4
    Limit = 16
    Basis <- MCBasis
    Divisor = 4
    QuarterBasis <- MCQuarter
    QuarterDivisor = 2
    Sources <- MCSources
    Codings <- MCCodings
SPECIFICATION EncoderSpec
INVARIANTS InStep QuantisersInRange TextureOrdersQuantisers FrameStaysNearBase DecoderHasEncodersSamples
PROPERTIES ReadsBack RefusesDamage HuntsAroundBudget
CHECK_DEADLOCK FALSE
