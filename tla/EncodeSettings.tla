---------------------------- MODULE EncodeSettings ----------------------------
(***************************************************************************)
(* SrsV2EncodeSettings (rate_control.rs): what each field may be, what it  *)
(* is by default, and what a stream says of the settings it was made with. *)
(* A field that only steers a report, and the loop filter's two, are left  *)
(* out: tune_quality_vs_speed, max_bitrate_kbps, max_partition_depth.      *)
(*                                                                         *)
(* The decoder is not told the settings: from the revision and the flags   *)
(* it has to know how vectors and residuals are coded.                     *)
(***************************************************************************)
EXTENDS BFrames

Unsigned8 == 0 .. 255
Signed8 == -128 .. 127
Unsigned16 == 0 .. 65535
Signed16 == -32768 .. 32767

\* ResidualEntropy, SrsV2ResidualContextMode, SrsV2ResidualTokenMode
ResidualModes == [policy : {"Auto", "Explicit", "Rans"}, context : BOOLEAN, tokens : BOOLEAN]
\* SrsV2RateControlMode, SrsV2AdaptiveQuantizationMode, SrsV2BlockAqMode
RateControlModes == {"FixedQp", "ConstantQuality", "TargetBitrate"}
AqModes == {"Off", "Activity", "EdgeAware", "ScreenAware"}
BlockAqModes == {"Off", "FrameOnly", "BlockDelta"}
\* SrsV2SubpelMode, SrsV2MotionSearchMode
SearchModes == {"ExhaustiveSmall", "None", "Diamond", "Hex", "Hierarchical"}
\* SrsV2InterSyntaxMode, SrsV2EntropyModelMode, SrsV2RdoMode
SyntaxModes == [syntax : {"RawLegacy", "CompactV1", "EntropyV1"}, model : {"StaticV1", "ContextV1"}]
\* SrsV2InterPartitionMode, SrsV2TransformSizeMode
PartitionModes == {"Fixed16x16", "Split8x8", "Rect16x8", "Rect8x16", "AutoFast"}
TransformModes == {"Auto", "Force4x4", "Force8x8"}
\* SrsV2CoeffLayoutMode, SrsV2TransformGroupingMode, SrsV2TransformDecisionMode
LayoutModes ==
    [layout : {"Legacy", "CompactV1"}, grouping : {"Legacy8x8", "Four4x4", "AutoByResidual"},
     decision : {"Legacy", "ResidualAware", "RdoFast"}, rdo : BOOLEAN]
ScanModes == {"ZigZag", "GroupedLowFirst", "RunOptimized", "Auto"}
\* SrsV2PartitionCostModel, SrsV2PartitionMapEncoding, SrsV2PartitionSyntaxMode
CostModels == {"SadOnly", "HeaderAware", "RdoFast"}
MapModes == [mapEncoding : {"LegacyPerMb", "RleRuns"}, partitionSyntax : {"V1Legacy", "V2RleMvShare"}]
\* SrsV2BMotionSearchMode
BSearchModes == {"Off", "ReuseP", "Independent", "HalfPel"}

FieldSets(mode) == [field \in DOMAIN (CHOOSE one \in mode : TRUE) |-> {one[field] : one \in mode}]

\* SrsV2EncodeSettings
Domains ==
    FieldSets(ResidualModes) @@ FieldSets(SyntaxModes) @@ FieldSets(LayoutModes) @@ FieldSets(MapModes)
    @@ [rate |-> RateControlModes, aq |-> AqModes, blockAq |-> BlockAqModes, search |-> SearchModes, subpel |-> BOOLEAN,
        partition |-> PartitionModes, txSize |-> TransformModes, scan |-> ScanModes, cost |-> CostModels,
        bSearch |-> BSearchModes, weighted |-> BOOLEAN, skip |-> BOOLEAN,
        quantizer |-> Unsigned8, quality |-> Unsigned8 \cup {None}, kbps |-> Nat \cup {None},
        minQp |-> Unsigned8, maxQp |-> Unsigned8, stepLimit |-> Unsigned8, interval |-> Nat,
        strength |-> Unsigned8, minDelta |-> Signed8, maxDelta |-> Signed8, radius |-> Signed16, early |-> Nat,
        subpelRadius |-> Unsigned8, lambdaScale |-> Unsigned16, partScale |-> Unsigned16,
        splitPenalty |-> Unsigned16, headerPenalty |-> Unsigned16, partitionBias |-> Unsigned16]
\* a record of some of the fields
InDomains(t) == \A field \in DOMAIN t \cap DOMAIN Domains : t[field] \in Domains[field]

\* Default
DefaultSettings ==
    [quantizer |-> 24, rate |-> "FixedQp", quality |-> None, kbps |-> None, minQp |-> 4, maxQp |-> 51,
     stepLimit |-> 2, interval |-> 60, radius |-> 16, policy |-> "Auto", context |-> FALSE, tokens |-> FALSE,
     aq |-> "Off", strength |-> 4, minDelta |-> -6, maxDelta |-> 6, search |-> "ExhaustiveSmall", bSearch |-> "Off",
     weighted |-> FALSE, early |-> 0, skip |-> TRUE, subpel |-> FALSE, subpelRadius |-> 1, blockAq |-> "Off",
     syntax |-> "RawLegacy", rdo |-> FALSE, lambdaScale |-> 256, partition |-> "Fixed16x16", partScale |-> 256,
     txSize |-> "Auto", cost |-> "SadOnly", splitPenalty |-> 3072, headerPenalty |-> 512, partitionBias |-> 256,
     mapEncoding |-> "LegacyPerMb", partitionSyntax |-> "V1Legacy", model |-> "StaticV1", layout |-> "Legacy",
     scan |-> "ZigZag", grouping |-> "Legacy8x8", decision |-> "Legacy"]

-------------------------------------------------------------------------------
(* What a payload says of the settings.                                    *)

WithEntropy(t) == t.syntax = "EntropyV1"
WithContexts(t) == WithEntropy(t) /\ t.model = "ContextV1"

\* a P frame's revision and flags, as the decoder reads them
PTells(t) ==
    \E rev \in {PRevision(t)}, flags \in {IF t.syntax = "RawLegacy" THEN 0 ELSE FlagsOf(t)} :
        \E head \in {PHead(rev, flags)} :
            /\ rev \in PRevisions /\ (head.inter => FlagsOk(rev, flags))
            /\ head.inter = (t.syntax # "RawLegacy") /\ head.qpel = t.subpel /\ head.aq = BlockAq(t)
            /\ head.entropy = Adaptive(t)
            /\ head.mvEntropy = WithEntropy(t) /\ head.mvContext = WithContexts(t)

\* the head of a P frame of these types
VarTells(t, types) ==
    \E head \in {VarHead(<<VarRevision(t), 0, 9, VarFlags(t, types)>> \o (IF BlockAq(t) THEN <<1, TopQp>> ELSE <<>>)
                         \o (IF t.partitionSyntax = "V2RleMvShare" /\ WithEntropy(t)
                             THEN <<IF WithContexts(t) THEN 1 ELSE 0>> ELSE <<>>))} :
        /\ VarRevision(t) \in VarRevisions /\ head.ok
        /\ head.val.qpel = t.subpel /\ head.val.aq = BlockAq(t)
        /\ head.val.v2 = (t.partitionSyntax = "V2RleMvShare")
        /\ head.val.entropy = WithEntropy(t) /\ head.val.contexts = WithContexts(t)
        /\ head.val.packed => ~head.val.v2 /\ Packs(t, types)

\* the head of a B frame
BTells(t) ==
    \E head \in {BHead(<<BRevision(t), 0, 9, 0, 1>> \o (IF t.syntax = "RawLegacy" THEN <<>> ELSE <<BFlags(t)>>))} :
        /\ BRevision(t) \in BRevisions /\ head.ok
        /\ head.val.compact = (t.syntax # "RawLegacy") /\ head.val.qpel = FineVectors(t) /\ head.val.perMb
        /\ head.val.mvEntropy = WithEntropy(t) /\ head.val.mvContext = WithContexts(t)
        /\ t.weighted => head.val.weighted

\* the choices an intra frame depends on; the others are the default's
ResidualSettings ==
    {residual @@ layout @@ [blockAq |-> mode, minDelta |-> -WireDelta, maxDelta |-> WireDelta, maxQp |-> TopQp]
     @@ DefaultSettings :
        residual \in ResidualModes, layout \in LayoutModes, mode \in BlockAqModes}
Coherent == {t \in ResidualSettings : ResidualContextOk(t) /\ LayoutOk(t)}

\* Whatever a frame may be encoded with, its first bytes tell the decoder how,
\* once the context mode was checked, as it is for every intra frame.
SettingsAreTold ==
    /\ \A t \in Coherent : IntraOk(t) => IntraRevision(t) \in IntraRevisions /\ (IntraRevision(t) = 7) = BlockAq(t)
    /\ \A t \in Coherent, syntax \in SyntaxModes, subpel \in BOOLEAN, partition \in PartitionModes, map \in MapModes :
          \E u \in {syntax @@ map @@ [subpel |-> subpel, partition |-> partition] @@ t} :
              POk(u) => IF partition = "Fixed16x16" THEN PTells(u)
                        ELSE VarTells(u, <<0>>) /\ VarTells(u, <<3, 3, 3, 3>>)
    /\ \A t \in Coherent, syntax \in SyntaxModes, search \in BSearchModes, weighted \in BOOLEAN :
          \E u \in {syntax @@ [bSearch |-> search, weighted |-> weighted] @@ t} : BOk(u) => BTells(u)
===============================================================================
