------------------------------ MODULE Quantizers ------------------------------
(***************************************************************************)
(* The quantisers of SRSV2: what rate control asks of a frame, what the     *)
(* frame's texture makes of it, and what each block's texture adds          *)
(* (rate_control.rs, adaptive_quant.rs, block_aq.rs).                      *)
(*                                                                         *)
(* `s` is the encoder's settings, a record with the fields of              *)
(* SrsV2EncodeSettings that are read here.                                 *)
(***************************************************************************)
EXTENDS Integers, Sequences, FiniteSets, SequencesExt

CONSTANTS
    WireDelta,      \* 24: QP_DELTA_WIRE_MIN is -24, QP_DELTA_WIRE_MAX 24
    TopQp,          \* 51, the highest quantiser a clip range may name
    None            \* an absent quality or bitrate

ASSUME QuantizersAssumption == WireDelta \in Nat /\ TopQp \in Nat \ {0}

Clamp(v, low, high) == IF v < low THEN low ELSE IF v > high THEN high ELSE v
\* division that drops the fraction, whatever the sign
Truncated(n, d) == IF n >= 0 THEN n \div d ELSE -((-n) \div d)
AtLeastOne(n) == IF n < 1 THEN 1 ELSE n

\* clamp_qp
ClampQp(s, qp) == Clamp(qp, s.minQp, s.maxQp)

\* validate_rate_control
RateControlOk(s) ==
    /\ s.minQp <= s.maxQp
    /\ s.rate = "TargetBitrate" => s.kbps # None /\ s.kbps # 0
    /\ s.rate = "ConstantQuality" => s.quality # None

\* validate_adaptive_quant_settings
AdaptiveQuantOk(s) ==
    /\ s.minDelta <= s.maxDelta
    /\ s.blockAq = "BlockDelta" => s.minDelta >= -WireDelta /\ s.maxDelta <= WireDelta

\* SrsV2RateController::new and qp_for_frame in the modes that do not adapt
StartQp(s) ==
    ClampQp(s, IF s.rate = "ConstantQuality" /\ s.quality # None THEN s.quality ELSE s.quantizer)

\* target_payload_bytes
TargetBytes(kbps, num, den, key) ==
    LET base == AtLeastOne((kbps * 1000 * den) \div (8 * AtLeastOne(num)))
    IN  IF key THEN 3 * base ELSE base

\* fault: the comparison the wrong way round
AdjustedQpBackwards(s, qp, bytes, target) ==
    LET step == AtLeastOne(s.stepLimit)
    IN  ClampQp(s, qp + CASE bytes > target -> -step [] bytes < target -> step [] OTHER -> 0)
\* fault: the step taken without the clamp
AdjustedQpUnclamped(s, qp, bytes, target) ==
    LET step == AtLeastOne(s.stepLimit)
    IN  qp + CASE bytes > target -> step [] bytes < target -> -step [] OTHER -> 0

\* adjust_qp_target_bitrate
AdjustedQp(s, qp, bytes, target) ==
    LET step == AtLeastOne(s.stepLimit)
    IN  ClampQp(s, qp + CASE bytes > target -> step [] bytes < target -> -step [] OTHER -> 0)


-------------------------------------------------------------------------------
(* Texture.                                                                *)

\* what is at the k-th place when the values are sorted: the least of them that
\* k of them do not exceed
Sorted(values, k) ==
    Min({v \in ToSet(values) : Cardinality({i \in DOMAIN values : values[i] <= v}) >= k})

\* median_u64_slice and median_u32
MedianOf(values) ==
    LET mid == Len(values) \div 2
    IN  CASE values = <<>> -> 0
          [] values # <<>> /\ Len(values) % 2 = 1 -> Sorted(values, mid + 1)
          [] values # <<>> /\ Len(values) % 2 = 0 ->
                (Sorted(values, mid) + Sorted(values, mid + 1)) \div 2

\* score_for_mode, screen_activity_score: what a macroblock's activity counts for
ScoreOf(aq, activity) ==
    CASE aq = "Off" -> 0
      [] aq = "Activity" -> (activity.variance \div 256) + (activity.edges \div 16)
      [] aq = "EdgeAware" -> 2 * activity.edges + (activity.variance \div 512)
      [] aq = "ScreenAware" -> 2 * activity.edges + (activity.gradient \div 4)

\* fault: a frame's delta without its bounds
FrameDeltaUnclamped(s, score, median) ==
    Truncated((score - median) * AtLeastOne(s.strength), AtLeastOne(median) * 4 + 1)

\* qp_delta_from_score: a busier macroblock is quantised more
FrameDelta(s, score, median) ==
    Clamp(Truncated((score - median) * AtLeastOne(s.strength), AtLeastOne(median) * 4 + 1),
          s.minDelta, s.maxDelta)

\* fault: the block's delta with the sign of the frame's
BlockDeltaLikeFrames(s, variance, median) == FrameDelta(s, variance, median)

\* choose_block_qp_delta: a more varied block is quantised less
BlockDelta(s, variance, median) ==
    LET middle == AtLeastOne(median)
    IN  Clamp(Truncated(-((variance - middle) * AtLeastOne(s.strength)), middle * 4 + 1),
              s.minDelta, s.maxDelta)

\* resolve_frame_adaptive_qp: the quantiser of each macroblock and the frame's,
\* their average rounded
MacroblockQps(s, qp, activities) ==
    LET scores == [i \in DOMAIN activities |-> ScoreOf(s.aq, activities[i])]
        median == MedianOf(scores)
        base == ClampQp(s, qp)
    IN  [i \in DOMAIN activities |->
            LET raised == base + FrameDelta(s, scores[i], median)
            IN  ClampQp(s, IF raised < 0 THEN 0 ELSE raised)]
FrameQp(s, qp, qps) ==
    LET n == Len(qps)
        sum[i \in 0 .. n] == IF i = 0 THEN 0 ELSE sum[i - 1] + qps[i]
    IN  IF s.aq = "Off" \/ qps = <<>> THEN ClampQp(s, qp)
        ELSE ClampQp(s, (2 * sum[n] + n) \div (2 * n))

\* collect_plane_block_variances and collect_p_subblock_variances: a delta a block
BlockDeltas(s, variances) ==
    LET median == MedianOf(variances)
    IN  [i \in DOMAIN variances |-> BlockDelta(s, variances[i], median)]

\* validate_wire_qp_delta, validate_qp_clip_range
WireDeltaOk(delta) == delta \in -WireDelta .. WireDelta
ClipOk(low, high) == low <= high /\ low # 0 /\ high <= TopQp

\* fault: the settings' range not applied to a block
BlockQpUnclipped(qp, delta, low, high) == Clamp(qp + delta, 1, TopQp)

\* apply_qp_delta_clamped
BlockQp(qp, delta, low, high) == Clamp(Clamp(qp + delta, low, high), 1, TopQp)
===============================================================================
