----------------------------- MODULE RateControl -----------------------------
(***************************************************************************)
(* SrsV2RateController with the encoder that asks it for quantisers: a     *)
(* frame takes the controller's, its texture adapts it (Quantizers), and   *)
(* the bytes that come out move the controller's for the next frame.       *)
(*                                                                         *)
(* The scene, what is filmed, stays the same for a session; only whether a *)
(* frame is a key frame changes.  FrameBytes gives the bytes the encoder   *)
(* makes of it at a quantiser.                                             *)
(***************************************************************************)
EXTENDS Quantizers

CONSTANTS
    RateSettings,         \* settings a caller may pass, valid or not
    FrameRates,           \* frames a second, as <<fps_num, fps_den>>
    Scenes,               \* [activities, variances, weight]: of macroblocks, of blocks
    FrameBytes(_, _, _)   \* bytes of a frame: of the scene, its quantiser, whether it is a key frame

\* the types of SrsV2EncodeSettings and of what is measured of a frame: u8 and i8
\* where a quantiser is reckoned with
Octet == 0 .. 255
RatesOk ==
    /\ \A t \in RateSettings :
          /\ {t.minQp, t.maxQp, t.quantizer, t.stepLimit, t.strength} \subseteq Octet
          /\ t.quality \in Octet \cup {None} /\ t.kbps \in Nat \cup {None}
          /\ {t.minDelta, t.maxDelta} \subseteq -128 .. 127
          /\ t.aq \in {"Off", "Activity", "EdgeAware", "ScreenAware"}
          /\ t.blockAq \in {"Off", "BlockDelta"}
    /\ FrameRates \subseteq Nat \X Nat
    /\ \A what \in Scenes :
          /\ what.activities \in Seq([variance : Nat, edges : Nat, gradient : Nat])
          /\ what.variances \in Seq(Nat)
          /\ \A qp \in Octet, key \in BOOLEAN : FrameBytes(what, qp, key) \in Nat

VARIABLES
    controller,     \* "none", "open", "refused" by new, "failed" in an encode
    settings, fps, scene,
    current,        \* current_qp
    frame           \* the last frame encoded

rateVars == <<controller, settings, fps, scene, current, frame>>

NoFrame == [key |-> FALSE, base |-> 0, qps |-> <<>>, qp |-> 0, deltas |-> <<>>, blocks |-> <<>>, bytes |-> 0]

RatesInit ==
    /\ controller = "none"
    /\ settings \in RateSettings /\ fps \in FrameRates /\ scene \in Scenes
    /\ current = 0 /\ frame = NoFrame

\* new
New ==
    /\ controller = "none"
    /\ IF RateControlOk(settings) /\ fps[1] # 0 /\ fps[2] # 0
       THEN controller' = "open" /\ current' = StartQp(settings)
       ELSE controller' = "refused" /\ UNCHANGED current
    /\ UNCHANGED <<settings, fps, scene, frame>>

\* qp_for_frame
QpForFrame == IF settings.rate = "TargetBitrate" THEN ClampQp(settings, current) ELSE StartQp(settings)

\* whether the frame's quantisers can be written
Encodable ==
    /\ AdaptiveQuantOk(settings)
    /\ settings.blockAq = "BlockDelta" => ClipOk(settings.minQp, settings.maxQp)

\* one turn of the encode loop: qp_for_frame, the encode, observe_frame
EncodeRated(key) ==
    /\ controller = "open" /\ Encodable
    /\ \E qps \in {MacroblockQps(settings, QpForFrame, scene.activities)} :
       \E qp \in {FrameQp(settings, QpForFrame, qps)} :
       \E deltas \in {IF settings.blockAq = "BlockDelta" THEN BlockDeltas(settings, scene.variances) ELSE <<>>} :
       \E bytes \in {FrameBytes(scene, qp, key)} :
        /\ frame' = [key |-> key, base |-> QpForFrame, qps |-> qps, qp |-> qp, deltas |-> deltas,
                     blocks |-> [i \in DOMAIN deltas |-> BlockQp(qp, deltas[i], settings.minQp, settings.maxQp)],
                     bytes |-> bytes]
        /\ current' = IF settings.rate = "TargetBitrate"
                      THEN AdjustedQp(settings, current, bytes, TargetBytes(settings.kbps, fps[1], fps[2], key))
                      ELSE current
    /\ UNCHANGED <<controller, settings, fps, scene>>

FailFrame ==
    /\ controller = "open" /\ ~Encodable
    /\ controller' = "failed" /\ UNCHANGED <<settings, fps, scene, current, frame>>

RatesNext == New \/ FailFrame \/ \E key \in BOOLEAN : EncodeRated(key)

\* the loop encodes frame after frame; whether a key frame comes is the caller's affair
Fairness == WF_rateVars(New) /\ WF_rateVars(EncodeRated(FALSE))
RatesSpec == RatesInit /\ [][RatesNext]_rateVars /\ Fairness

-------------------------------------------------------------------------------
RatesTypeOK ==
    /\ controller \in {"none", "open", "refused", "failed"}
    /\ settings \in RateSettings /\ fps \in FrameRates /\ scene \in Scenes
    /\ current \in Nat
    /\ frame.qps \in Seq(Int) /\ frame.deltas \in Seq(Int) /\ frame.blocks \in Seq(Int)

\* Every quantiser that leaves the encoder, the frame's and a block's, lies
\* within the settings' range, however the controller and the texture add up
\* (clamp_qp, apply_qp_delta_clamped).
QuantisersInRange ==
    /\ controller = "open" => current \in settings.minQp .. settings.maxQp
    /\ frame # NoFrame =>
        /\ frame.qp \in settings.minQp .. settings.maxQp
        /\ \A i \in DOMAIN frame.qps : frame.qps[i] \in settings.minQp .. settings.maxQp
        /\ \A i \in DOMAIN frame.blocks : frame.blocks[i] \in settings.minQp .. settings.maxQp

\* Frame-level adaptation tilts to compression and block-level adaptation to
\* detail (block_aq.rs, "Semantics vs frame-level AQ"): a busier macroblock
\* never has the lower quantiser, a more varied block never the higher one.
TextureOrdersQuantisers ==
    /\ \A i, j \in DOMAIN frame.qps :
          ScoreOf(settings.aq, scene.activities[i]) <= ScoreOf(settings.aq, scene.activities[j])
              => frame.qps[i] <= frame.qps[j]
    /\ \A i, j \in DOMAIN frame.blocks :
          scene.variances[i] <= scene.variances[j] => frame.blocks[i] >= frame.blocks[j]

\* What the frame's texture does to its quantiser is bounded by the settings'
\* deltas: the average of macroblocks moves no further than one of them may.
FrameStaysNearBase ==
    LET least == IF settings.minDelta < 0 THEN settings.minDelta ELSE 0
        most == IF settings.maxDelta > 0 THEN settings.maxDelta ELSE 0
    IN  frame # NoFrame => frame.qp - frame.base \in least .. most

\* a quantiser where the bytes of an inter frame cross the budget, if any does
BytesAt(qp) == FrameBytes(scene, FrameQp(settings, qp, MacroblockQps(settings, qp, scene.activities)), FALSE)
Crosses(qp) ==
    LET target == TargetBytes(settings.kbps, fps[1], fps[2], FALSE)
    IN  (qp = settings.maxQp \/ BytesAt(qp) <= target) /\ (qp = settings.minQp \/ BytesAt(qp - 1) >= target)

NearBudget ==
    LET step == AtLeastOne(settings.stepLimit)
    IN  \E qp \in settings.minQp .. settings.maxQp : qp - current \in -step .. step /\ Crosses(qp)

\* Towards a bitrate: over a steady scene without further key frames the
\* controller comes, and stays, within one step of a quantiser that meets it
\* (adjust_qp_target_bitrate).
HuntsAroundBudget ==
    <>[](controller = "open" /\ settings.rate = "TargetBitrate" /\ frame # NoFrame /\ ~frame.key)
        => <>[](controller = "open" /\ settings.rate = "TargetBitrate" /\ NearBudget)
===============================================================================
