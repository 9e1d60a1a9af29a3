------------------------------- MODULE MCCodec -------------------------------
(***************************************************************************)
(* The encoder's three loops: a session of frames and its decoder          *)
(* (CodecContract), the controller of its quantisers (RateControl), and    *)
(* the samples of a plane (Pixels).  They share no state, for a session's  *)
(* pictures come with the quantiser and the coefficients they are coded    *)
(* with; so one of them runs while the others rest.                        *)
(*                                                                         *)
(* Frames have two or four macroblocks whose blocks have 4 x 4             *)
(* coefficients; a controller's scenes have up to three macroblocks, and   *)
(* their frames shrink as the quantiser grows; a plane has three by three  *)
(* samples.                                                                *)
(***************************************************************************)
EXTENDS CodecContract, EncodeSettings, RateControl, Pixels

MCZigZag == <<0, 1, 4, 8, 5, 2, 3, 6, 9, 12, 13, 10, 7, 11, 14, 15>>
MCZigZagQuarter == <<0, 1, 2, 3>>
MCBands == <<0, 3, 8, 15>>
MCRunEnds == <<1, 3>>
MCLegacyBands == <<3, 8>>

Freq(values) == [i \in Natural |-> IF i \in DOMAIN values THEN values[i] ELSE 0]

\* what the vectors around `best`, in quarters, leave: with a `dip` a search
\* that follows the slope does not find
Vectors == -16 .. 16
Leaves(best, least, dip) ==
    [v \in Vectors \X Vectors |->
        IF v = dip THEN 1 ELSE least + 3 * (Abs(v[1] - best[1]) + Abs(v[2] - best[2]))]

Block(pick, eight, four, variance, max, best, least) ==
    [pick |-> pick, freq |-> [Tx8x8 |-> Freq(eight), Tx4x4 |-> Freq(four)],
     variance |-> variance, energy |-> 5, sse |-> [Tx8x8 |-> 40, Tx4x4 |-> 30],
     max |-> max, sad |-> Leaves(best, least, IF pick = 4 THEN <<4, 4>> ELSE best)]

Zero == Block(0, 0 :> 0, 0 :> 0, 300, 0, <<0, 0>>, 0)
Even == Block(1, 0 :> 3, 0 :> 3 @@ 4 :> 1, 0, 2, <<0, 0>>, 2)
Edge == Block(2, 0 :> -2 @@ 1 :> 2 @@ 4 :> -1, 0 :> 1 @@ 1 :> -2 @@ 5 :> 1, 500, 30, <<14, -12>>, 30)
Rough == [Block(4, 0 :> 1 @@ 3 :> 1 @@ 7 :> -1 @@ 9 :> 2 @@ 15 :> 1, 0 :> 2 @@ 3 :> 1 @@ 8 :> -1 @@ 15 :> 2,
                900, 60, <<-2, 4>>, 50) EXCEPT !.sse = [Tx8x8 |-> 20, Tx4x4 |-> 200]]
Faint == Block(2, 0 :> -2 @@ 1 :> 2 @@ 4 :> -1, 0 :> 1 @@ 1 :> -2 @@ 5 :> 1, 200, 6, <<-4, 0>>, 8)
Huge == Block(3, 0 :> 5 @@ 2 :> 3 @@ 5 :> 1, 0 :> 5 @@ 2 :> 3, 500, 90, <<2, 2>>, 70)

Mb(blocks) == [blocks |-> blocks]
BMb(blocks, before, after, average, weighted) ==
    [blocks |-> blocks, before |-> Leaves(before, 10, <<16, 16>>), after |-> Leaves(after, 10, <<16, 16>>),
     average |-> average, weighted |-> weighted]

MCTwo == <<
    [planes |-> (0 :> <<Edge, Zero, Even, Rough, Zero, Rough, Edge, Even>>) @@ (1 :> <<Even, Zero>>)
                @@ (2 :> <<Zero, Edge>>),
     mbs |-> <<Mb(<<Edge, Zero, Even, Rough>>), Mb(<<Faint, Rough, Edge, Zero>>)>>,
     bmbs |-> <<BMb(<<Edge, Zero, Even, Rough>>, <<6, -2>>, <<-14, 0>>, 5, <<7, 4, 6, 8, 9>>),
                BMb(<<Faint, Huge, Zero, Zero>>, <<0, 0>>, <<2, 2>>, 30, <<30, 30, 30, 30, 11>>)>>,
     qp |-> 8],
    [planes |-> (0 :> <<Zero, Zero, Huge, Even, Edge, Edge, Zero, Zero>>) @@ (1 :> <<Rough, Even>>)
                @@ (2 :> <<Even, Even>>),
     mbs |-> <<Mb(<<Rough, Edge, Faint, Edge>>), Mb(<<Huge, Even, Zero, Zero>>)>>,
     bmbs |-> <<BMb(<<Rough, Edge, Faint, Edge>>, <<-2, 4>>, <<4, 4>>, 60, <<40, 40, 40, 40, 40>>),
                BMb(<<Huge, Even, Zero, Rough>>, <<40, 0>>, <<0, -2>>, 90, <<90, 90, 90, 90, 90>>)>>,
     qp |-> 14]>>

\* four macroblocks, two of them in each row
MCFour == <<
    [planes |-> (0 :> [i \in 1 .. 16 |-> IF i = 6 THEN Edge ELSE Zero]) @@ (1 :> <<Even, Zero, Zero, Zero>>)
                @@ (2 :> <<Zero, Zero, Edge, Zero>>),
     mbs |-> <<Mb(<<Edge, Faint, Huge, Rough>>), Mb(<<Edge, Edge, Edge, Edge>>), Mb(<<Zero, Zero, Zero, Zero>>),
               Mb(<<Zero, Even, Faint, Edge>>)>>,
     bmbs |-> <<>>, qp |-> 8],
    [planes |-> (0 :> [i \in 1 .. 16 |-> IF i = 9 THEN Rough ELSE Even]) @@ (1 :> <<Zero, Zero, Zero, Even>>)
                @@ (2 :> <<Zero, Zero, Zero, Zero>>),
     mbs |-> <<Mb(<<Rough, Rough, Edge, Edge>>), Mb(<<Rough, Rough, Rough, Rough>>), Mb(<<Even, Even, Even, Even>>),
               Mb(<<Even, Even, Even, Even>>)>>,
     bmbs |-> <<>>, qp |-> 14]>>
MCPictureOf(name, t) ==
    LET pictures == IF \/ t.partition = "Fixed16x16"
                       \/ (t.partitionSyntax = "V2RleMvShare" /\ t.syntax = "CompactV1")
                    THEN MCTwo ELSE MCFour
    IN  pictures[name]

Base == [policy |-> "Auto", context |-> FALSE, tokens |-> FALSE, layout |-> "Legacy",
         grouping |-> "Legacy8x8", decision |-> "Legacy", scan |-> "Auto", rdo |-> FALSE,
         blockAq |-> "Off", minQp |-> 2, maxQp |-> 12, minDelta |-> -2, maxDelta |-> 2, aq |-> "Off",
         syntax |-> "RawLegacy", model |-> "StaticV1", subpel |-> FALSE, skip |-> TRUE,
         partition |-> "Fixed16x16", search |-> "ExhaustiveSmall", radius |-> 1, early |-> 0, subpelRadius |-> 1,
         lambdaScale |-> 256, strength |-> 10, partitionSyntax |-> "V1Legacy", interval |-> 3,
         refs |-> 1, bFrames |-> "None", bSearch |-> "Off", weighted |-> FALSE, blend |-> Average, alt |-> FALSE,
         txSize |-> "Auto", cost |-> "SadOnly", partScale |-> 256, partitionBias |-> 256, headerPenalty |-> 512,
         splitPenalty |-> 3072, mapEncoding |-> "LegacyPerMb"]

Searching(t, search, radius, early) == [t EXCEPT !.search = search, !.radius = radius, !.early = early]
Entropy(model) == [Base EXCEPT !.syntax = "EntropyV1", !.model = model]
Compact == [Base EXCEPT !.syntax = "CompactV1"]
Grouped(g, d) == [Compact EXCEPT !.layout = "CompactV1", !.grouping = g, !.decision = d, !.rdo = (d = "RdoFast")]
Partitioned(t, partition) == [t EXCEPT !.partition = partition, !.interval = 2]
Auto(t, cost, map) == [Partitioned(t, "AutoFast") EXCEPT !.cost = cost, !.mapEncoding = map]
Second(t) == [t EXCEPT !.partitionSyntax = "V2RleMvShare"]
Between2(t, search) == [t EXCEPT !.refs = 2, !.bFrames = "Blended", !.bSearch = search, !.interval = 4]

FixedSettings == {
    Base, [Base EXCEPT !.policy = "Explicit", !.skip = FALSE, !.refs = 0],
    Searching([Base EXCEPT !.policy = "Explicit", !.subpel = TRUE, !.rdo = TRUE], "Diamond", 4, 0),
    [Base EXCEPT !.policy = "Rans", !.subpel = TRUE], [Base EXCEPT !.blockAq = "BlockDelta"],
    Searching([Base EXCEPT !.blockAq = "BlockDelta", !.subpel = TRUE, !.rdo = TRUE], "Hex", 4, 9),
    [Base EXCEPT !.tokens = TRUE],
    Searching(Compact, "None", 1, 0), [Compact EXCEPT !.subpel = TRUE, !.blockAq = "BlockDelta"],
    [Compact EXCEPT !.tokens = TRUE],
    Searching(Entropy("StaticV1"), "Hierarchical", 4, 0), [Entropy("ContextV1") EXCEPT !.subpel = TRUE],
    [Entropy("ContextV1") EXCEPT !.context = TRUE],
    Searching([Entropy("ContextV1") EXCEPT !.context = TRUE, !.rdo = TRUE], "Hierarchical", 2, 120),
    [Entropy("ContextV1") EXCEPT !.tokens = TRUE],
    [Entropy("StaticV1") EXCEPT !.tokens = TRUE, !.blockAq = "BlockDelta"],
    [Compact EXCEPT !.layout = "CompactV1", !.scan = "RunOptimized"],
    [Entropy("StaticV1") EXCEPT !.layout = "CompactV1", !.scan = "ZigZag"],
    Grouped("Four4x4", "ResidualAware"), Grouped("AutoByResidual", "RdoFast"),
    [Grouped("AutoByResidual", "ResidualAware") EXCEPT !.syntax = "EntropyV1"],
    [Base EXCEPT !.context = TRUE], [Base EXCEPT !.policy = "Explicit", !.blockAq = "BlockDelta"]}

CutSettings == {
    Partitioned([Compact EXCEPT !.mapEncoding = "RleRuns"], "Split8x8"), Partitioned([Compact EXCEPT !.blockAq = "BlockDelta"], "Rect8x16"),
    Searching(Auto(Entropy("StaticV1"), "SadOnly", "RleRuns"), "Diamond", 4, 0),
    Auto([Entropy("ContextV1") EXCEPT !.txSize = "Force4x4"], "HeaderAware", "RleRuns"),
    Auto([Compact EXCEPT !.txSize = "Force8x8"], "RdoFast", "LegacyPerMb"),
    Second(Partitioned(Compact, "Rect16x8")), Second(Auto(Compact, "SadOnly", "LegacyPerMb")),
    Searching(Second(Auto(Entropy("StaticV1"), "SadOnly", "LegacyPerMb")), "ExhaustiveSmall", 3, 0),
    Second(Auto([Entropy("ContextV1") EXCEPT !.blockAq = "BlockDelta"], "SadOnly", "LegacyPerMb")),
    Partitioned([Base EXCEPT !.policy = "Explicit"], "Split8x8")}

BetweenSettings == {
    [Between2(Base, "Off") EXCEPT !.bFrames = "Plain"],
    [Between2(Base, "HalfPel") EXCEPT !.bFrames = "Plain", !.blend = Forward, !.alt = TRUE],
    Searching(Between2(Base, "Independent"), "ExhaustiveSmall", 2, 0),
    [Between2(Base, "HalfPel") EXCEPT !.weighted = TRUE, !.radius = 4],
    [Between2(Compact, "HalfPel") EXCEPT !.weighted = TRUE, !.rdo = TRUE],
    Searching(Between2(Compact, "Independent"), "Diamond", 4, 0),
    [Between2(Entropy("StaticV1"), "Independent") EXCEPT !.weighted = TRUE],
    [Between2(Entropy("ContextV1"), "HalfPel") EXCEPT !.radius = 4],
    [Between2(Base, "ReuseP") EXCEPT !.context = TRUE]}

MCSettings == FixedSettings \cup CutSettings \cup BetweenSettings

-------------------------------------------------------------------------------
(* The controller.                                                         *)

\* kbps * 1000 / (8 * fps): at 25 frames a second 1 kbps is 5 bytes a frame
MCFrameRates == {<<25, 1>>, <<25, 0>>}

Activity(variance, edges, gradient) == [variance |-> variance, edges |-> edges, gradient |-> gradient]
MCScenes == {
    [activities |-> <<Activity(0, 0, 0), Activity(0, 0, 0)>>, variances |-> <<0, 0>>, weight |-> 40],
    [activities |-> <<Activity(4096, 160, 80), Activity(0, 0, 0), Activity(512, 32, 8)>>,
     variances |-> <<900, 0, 20, 30>>, weight |-> 90],
    [activities |-> <<Activity(0, 0, 0), Activity(2048, 640, 900), Activity(0, 0, 0)>>,
     variances |-> <<100, 400, 100>>, weight |-> 200],
    [activities |-> <<>>, variances |-> <<5>>, weight |-> 60]}
MCFrameBytes(what, qp, key) == (what.weight * IF key THEN 4 ELSE 1) \div (qp + 1)

RateBase == [rate |-> "FixedQp", quantizer |-> 4, quality |-> None, kbps |-> None,
         minQp |-> 1, maxQp |-> 15, stepLimit |-> 2,
         aq |-> "Off", strength |-> 4, minDelta |-> -3, maxDelta |-> 3, blockAq |-> "Off"]
ByRate == {[RateBase EXCEPT !.rate = r, !.quality = q, !.kbps = k] :
             r \in {"FixedQp", "ConstantQuality"}, q \in {None, 30}, k \in {None}}
         \cup {[RateBase EXCEPT !.rate = "TargetBitrate", !.kbps = k] : k \in {None, 0, 3}}
ByRange == {[r EXCEPT !.minQp = range[1], !.maxQp = range[2]] : r \in ByRate, range \in {<<1, 15>>, <<12, 4>>}}
ByTexture == {[r EXCEPT !.aq = a, !.blockAq = b] :
             r \in ByRange, a \in {"Off", "Activity", "ScreenAware"}, b \in {"Off", "BlockDelta"}}
MCRateSettings ==
    ByTexture
    \cup {[RateBase EXCEPT !.aq = "EdgeAware", !.blockAq = b, !.minDelta = d[1], !.maxDelta = d[2], !.minQp = 8,
                       !.maxQp = 12, !.strength = 12] :
             b \in {"Off", "BlockDelta"}, d \in {<<-3, 3>>, <<1, 2>>, <<3, -3>>, <<-9, 3>>}}
    \cup {[RateBase EXCEPT !.rate = "TargetBitrate", !.kbps = k, !.stepLimit = step, !.minQp = 4, !.aq = a] :
             k \in {1, 2}, step \in {0, 1, 5}, a \in {"Off", "EdgeAware"}}

-------------------------------------------------------------------------------
(* The plane.                                                              *)

\* A plane of three by three samples of three bits, in blocks of two by two.
\* dct_1d_n takes alpha(k) times the sum over the cosines by the root of n: for
\* n = 2 a half of x0 + x1 and of x0 - x1, for n = 1 the sample by the root of 2;
\* a block goes through it twice.  The inverse divides the same way, so that a
\* quarter of the difference comes back.
MCBasis == [k \in 0 .. 1 |-> [c \in 0 .. 1 |-> IF k + c = 2 THEN -1 ELSE 1]]
MCQuarter == [k \in {0} |-> [c \in {0} |-> 1]]
MCSources ==
    LET at == (0 .. 2) \X (0 .. 2)
    IN  {[p \in at |-> 0], [p \in at |-> 3 * p[1]], [p \in at |-> (p[1] * p[2] * 5) % 8],
         [p \in at |-> IF p[1] = p[2] THEN 7 ELSE 0],
         [p \in at |-> IF p \in {<<1, 0>>, <<1, 2>>, <<2, 0>>} THEN 3 ELSE 0]}
MCCodings == {[kind |-> "Tx8x8", qp |-> 1], [kind |-> "Tx8x8", qp |-> 3], [kind |-> "Tx4x4", qp |-> 2]}

-------------------------------------------------------------------------------
\* what the encoder is given here is what it may be given, and the default is coherent
ASSUME SettingsKnown ==
    /\ \A t \in MCSettings \cup MCRateSettings : InDomains(t)
    /\ InDomains(DefaultSettings) /\ RateControlOk(DefaultSettings)
    /\ IntraOk(DefaultSettings) /\ POk(DefaultSettings) /\ BOk(DefaultSettings)
ASSUME SettingsTold == SettingsAreTold
ASSUME RatesOk
ASSUME PixelsOk

\* what rests: a session refused at its first frame, a controller refused before,
\* and a plane no block of which is encoded
SessionRests ==
    /\ session = "refused" /\ s = Base /\ frames = 0 /\ index = 0
    /\ made = <<Empty>> /\ slots = made /\ sent = NoPicture /\ shown = NoPicture
    /\ wire = <<>> /\ intact = TRUE /\ lost = FALSE /\ answer = "none"
ControllerRests ==
    /\ controller = "refused" /\ settings = RateBase /\ fps = <<25, 1>>
    /\ scene = CHOOSE one \in MCScenes : TRUE
    /\ current = 0 /\ frame = NoFrame
PlaneRests == PixelsInit /\ source = CHOOSE one \in MCSources : TRUE

EncoderInit ==
    \/ Init /\ ControllerRests /\ PlaneRests
    \/ RatesInit /\ SessionRests /\ PlaneRests
    \/ PixelsInit /\ SessionRests /\ ControllerRests
EncoderNext ==
    \/ Next /\ UNCHANGED <<rateVars, pixelVars>>
    \/ RatesNext /\ UNCHANGED <<vars, pixelVars>>
    \/ SessionRests /\ ControllerRests /\ PixelsNext /\ UNCHANGED <<vars, rateVars>>
EncoderSpec == EncoderInit /\ [][EncoderNext]_<<vars, rateVars, pixelVars>> /\ Fairness
===============================================================================
