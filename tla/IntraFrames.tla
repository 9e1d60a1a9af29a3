----------------------------- MODULE IntraFrames -----------------------------
(***************************************************************************)
(* The intra frames of SRSV2 (encode_ and decode_yuv420_intra_payload in   *)
(* frame_codec.rs, with the planes of intra_codec.rs and                   *)
(* residual_entropy.rs).                                                   *)
(*                                                                         *)
(* A picture is, for each plane, the blocks its transform leaves: `pick`   *)
(* the prediction mode, `freq` the quantised coefficients for each         *)
(* transform, and what the encoder's choices look at.  What the decoder    *)
(* reconstructs is a function of the mode, the transform, the coefficients *)
(* and the quantiser of every block before it, so those stand for pixels.  *)
(***************************************************************************)
EXTENDS BlockCoding

CONSTANT Columns        \* blocks across the Y plane; the others have half

Planes == 0 .. 2        \* Y, U, V
Across(plane) == IF plane = 0 THEN Columns ELSE Columns \div 2

-------------------------------------------------------------------------------
(* SrsV2EncodeSettings: what may be asked for together.                    *)

Adaptive(s) == s.policy \in {"Auto", "Rans"}

\* validate_residual_context_mode
ResidualContextOk(s) == s.context => Adaptive(s)

\* validate_residual_token_settings
TokensOk(s) == s.tokens => Adaptive(s) /\ s.layout = "Legacy" /\ ~s.context

\* transform_grouping_matches_decision_mode
GroupingOk(s) == (s.decision = "Legacy") = (s.grouping = "Legacy8x8")

\* validate_coeff_layout_settings
LayoutOk(s) == (s.decision = "RdoFast" => s.rdo) /\ GroupingOk(s) /\ TokensOk(s)

\* intra_use_block_aq_wire
BlockAq(s) == s.blockAq = "BlockDelta" /\ Adaptive(s)

IntraOk(s) ==
    /\ ResidualContextOk(s) /\ LayoutOk(s)
    /\ s.layout = "CompactV1" => Adaptive(s) /\ ~BlockAq(s) /\ ~s.context
    /\ s.blockAq = "BlockDelta" => s.policy # "Explicit"
    /\ AdaptiveQuantOk(s)
    /\ BlockAq(s) => ClipOk(s.minQp, s.maxQp)

IntraRevision(s) ==
    IF s.layout = "CompactV1" THEN IF s.grouping # "Legacy8x8" THEN 34 ELSE 32
    ELSE IF BlockAq(s) THEN 7
    ELSE IF s.context /\ Adaptive(s) THEN 29
    ELSE IF s.policy = "Explicit" THEN 1
    ELSE IF s.tokens THEN 36 ELSE 3

-------------------------------------------------------------------------------
(* A block of a plane.                                                     *)

\* how the block of a plane is coded in an entropy revision
Coding(s, rev, plane, near) ==
    [policy |-> s.policy, context |-> s.context, tokens |-> s.tokens, plane |-> plane,
     left |-> near.left, above |-> near.above, strict |-> rev = 29, aq |-> rev = 7, only |-> AnyTag]

Kind(s, rev, c, qp) == IF rev = 34 \/ (rev = 32 /\ MixedTransforms(s)) THEN PickKind(s, c, qp) ELSE "Tx8x8"

\* what one block adds to its plane
PutBlock(s, head, plane, c, delta, near) ==
    LET rev == head.rev
        kind == Kind(s, rev, c, head.qp)
        freq == c.freq[kind]
        scan == ResolveScan(s.scan, freq, kind)
    IN  CASE rev = 1 -> Ok(<<c.pick, freq[0]>> \o WriteExplicit(freq, ZigZag))
          [] rev \in {3, 7, 29, 36} -> EncodeBlock(c.pick, freq, delta, Coding(s, rev, plane, near))
          [] rev = 32 -> Ok((IF MixedTransforms(s) THEN <<KindWire(kind)>> ELSE <<>>)
                            \o <<c.pick, ScanWire(scan)>> \o CompactBody(freq, kind, scan))
          [] rev = 34 -> Ok(<<KindWire(kind), ScanWire(scan), c.pick>> \o CompactBody(freq, kind, scan))

PlaneHead(s, rev) ==
    CASE rev = 32 -> <<IF MixedTransforms(s) THEN 2 ELSE 1>> [] rev = 34 -> <<1>> [] OTHER -> <<>>

\* what a block is to the reconstruction
Rec(mode, kind, freq, qp) == [mode |-> mode, kind |-> kind, freq |-> freq, qp |-> AtLeastOne(qp)]

\* read_block
TakeExplicit(data, at) ==
    LET explicit == ReadExplicit(data, at + 2, Positions)
    IN  IF at + 2 > Len(data) \/ ~explicit.ok THEN Fail
        ELSE IF data[at + 1] \notin Modes THEN Fail
        ELSE Ok([mode |-> data[at + 1], delta |-> 0, next |-> explicit.val.next,
                 freq |-> [i \in Natural |-> IF i = 0 THEN data[at + 2] ELSE explicit.val.ac[i]]])

\* a block with its scan and perhaps its transform: in a rev34 plane the mode
\* comes last, in a rev32 plane the scan
TakeCompact(data, at, rev, mixed) ==
    LET head == IF rev = 34 \/ mixed THEN 3 ELSE 2
        kind == IF head = 3 THEN data[at + 1] ELSE KindWire("Tx8x8")
        mode == IF rev = 34 THEN data[at + 3] ELSE data[at + head - 1]
        scan == IF rev = 34 THEN data[at + 2] ELSE data[at + head]
        body == ReadCompact(data, at + head, KindOf(kind), ScanOf(scan))
    IN  IF at + head > Len(data) THEN Fail
        ELSE IF kind \notin 0 .. 1 \/ mode \notin Modes \/ scan \notin 0 .. 2 THEN Fail
        ELSE IF ~body.ok THEN Fail
        ELSE Ok([mode |-> mode, kind |-> KindOf(kind), delta |-> 0, freq |-> body.val.freq,
                 next |-> body.val.next])

\* which tags a revision's decoder accepts
Accepted(rev) == CASE rev = 29 -> {TagContext} [] rev = 36 -> {TagTokens} [] OTHER -> AnyTag

TakeBlock(rev, plane, data, at, near) ==
    LET block == IF rev = 1 THEN TakeExplicit(data, at)
                 ELSE DecodeBlock(data, at, [plane |-> plane, left |-> near.left, above |-> near.above,
                                             aq |-> rev = 7, only |-> Accepted(rev)])
    IN  IF rev \in {32, 34} THEN TakeCompact(data, at, rev, rev = 32 /\ data[1] = 2)
        ELSE IF block.ok THEN Ok([kind |-> "Tx8x8"] @@ block.val) ELSE Fail

-------------------------------------------------------------------------------
(* A plane: its blocks row after row.  What a block knows of its           *)
(* neighbours is whether the one before it and the one above it hold AC    *)
(* coefficients; nothing does outside the plane.                           *)

Near(occupied, plane) ==
    LET n == Len(occupied)
        w == Across(plane)
    IN  [left |-> n % w # 0 /\ occupied[n], above |-> n >= w /\ occupied[n + 1 - w]]

\* the delta of each block of a plane, from their variances
DeltasOf(s, blocks) == BlockDeltas(s, [k \in DOMAIN blocks |-> blocks[k].variance])

EncodePlaneBlocks(s, head, plane, blocks) ==
    LET deltas == DeltasOf(s, blocks)
        upTo[k \in 0 .. Len(blocks)] ==
            IF k = 0 THEN [ok |-> TRUE, cells |-> PlaneHead(s, head.rev), occupied |-> <<>>]
            ELSE LET prior == upTo[k - 1]
                     c == blocks[k]
                     kind == Kind(s, head.rev, c, head.qp)
                     put == PutBlock(s, head, plane, c, deltas[k], Near(prior.occupied, plane))
                 IN  IF ~prior.ok THEN prior
                     ELSE IF ~put.ok THEN [prior EXCEPT !.ok = FALSE]
                     ELSE [ok |-> TRUE, cells |-> prior.cells \o put.val,
                           occupied |-> Append(prior.occupied, HasAc(c.freq[kind], kind))]
        all == upTo[Len(blocks)]
    IN  IF all.ok THEN Ok(all.cells) ELSE Fail

\* the quantiser of a block: the frame's, moved by the block's delta
QpOf(head, delta) == IF head.rev = 7 THEN BlockQp(head.qp, delta, head.clip[1], head.clip[2]) ELSE head.qp

\* the plane's n blocks, which must be all its data
DecodePlaneBlocks(head, plane, n, data) ==
    LET tagged == head.rev \in {32, 34}
        upTo[k \in 0 .. n] ==
            IF k = 0 THEN [ok |-> TRUE, at |-> IF tagged THEN 1 ELSE 0, occupied |-> <<>>, recs |-> <<>>]
            ELSE LET prior == upTo[k - 1]
                     took == TakeBlock(head.rev, plane, data, prior.at, Near(prior.occupied, plane))
                     b == took.val
                 IN  IF ~prior.ok THEN prior
                     ELSE IF ~took.ok THEN [prior EXCEPT !.ok = FALSE]
                     ELSE [ok |-> TRUE, at |-> b.next,
                           occupied |-> Append(prior.occupied, HasAc(b.freq, b.kind)),
                           recs |-> Append(prior.recs, Rec(b.mode, b.kind, b.freq, QpOf(head, b.delta)))]
        all == upTo[n]
    IN  IF tagged /\ data = <<>> THEN Fail
        ELSE IF tagged /\ data[1] \notin (IF head.rev = 32 THEN 1 .. 2 ELSE {1}) THEN Fail
        ELSE IF all.ok /\ all.at = Len(data) THEN Ok(all.recs) ELSE Fail

-------------------------------------------------------------------------------
(* The frame.                                                              *)

\* the planes one behind the other, each behind its length (push_chunk)
PutPlanes(s, head, picture) ==
    LET planes == [p \in Planes |-> EncodePlaneBlocks(s, head, p, picture[p])]
        Behind(cells) == <<Len(cells)>> \o cells
    IN  IF \A p \in Planes : planes[p].ok
        THEN Ok(Behind(planes[0].val) \o Behind(planes[1].val) \o Behind(planes[2].val))
        ELSE Fail

\* encode_yuv420_intra_payload
EncodeIntra(s, picture, index, qp) ==
    LET rev == IntraRevision(s)
        eff == FrameQp(s, qp, <<>>)
        planes == PutPlanes(s, [rev |-> rev, qp |-> eff], picture)
        head == <<rev, index, eff>> \o IF BlockAq(s) THEN <<s.minQp, s.maxQp>> ELSE <<>>
    IN  IF IntraOk(s) /\ planes.ok THEN Ok(head \o planes.val) ELSE Fail

\* what the encoder reconstructs for the frames that will refer to this one
IntraRecs(s, picture, qp) ==
    LET rev == IntraRevision(s)
        head == [rev |-> rev, qp |-> FrameQp(s, qp, <<>>), clip |-> <<s.minQp, s.maxQp>>]
        RecOf(c, delta) ==
            LET kind == Kind(s, rev, c, head.qp) IN Rec(c.pick, kind, c.freq[kind], QpOf(head, delta))
        RecsOf(blocks) ==
            LET deltas == DeltasOf(s, blocks) IN [k \in DOMAIN blocks |-> RecOf(blocks[k], deltas[k])]
    IN  [p \in Planes |-> RecsOf(picture[p])]

\* "trailing frame bytes": a frame ends where its payload does
\* mutant: bytes may follow
EndsWithin(next, payload) == next <= Len(payload)
EndsWith(next, payload) == next = Len(payload)

IntraRevisions == {1, 3, 7, 29, 32, 34, 36}

\* the planes behind `start`, to the end of the payload
TakePlanes(head, shape, payload, start) ==
    LET y == ReadBlob(payload, start)
        u == ReadBlob(payload, y.val.next)
        v == ReadBlob(payload, u.val.next)
        recs == [p \in Planes |-> DecodePlaneBlocks(head, p, shape[p],
                                      CASE p = 0 -> y.val.blob [] p = 1 -> u.val.blob [] p = 2 -> v.val.blob)]
    IN  IF ~y.ok THEN Fail ELSE IF ~u.ok THEN Fail ELSE IF ~v.ok THEN Fail
        ELSE IF ~EndsWith(v.val.next, payload) THEN Fail
        ELSE IF \A p \in Planes : recs[p].ok THEN Ok([p \in Planes |-> recs[p].val]) ELSE Fail

\* decode_yuv420_intra_payload; shape gives the number of blocks of each plane
DecodeIntra(shape, payload) ==
    LET rev == payload[1]
        start == IF rev = 7 THEN 5 ELSE 3
        head == [rev |-> rev, qp |-> payload[3], clip |-> IF rev = 7 THEN <<payload[4], payload[5]>> ELSE <<1, TopQp>>]
        planes == TakePlanes(head, shape, payload, start)
    IN  IF payload = <<>> THEN Fail
        ELSE IF Len(payload) < start + 3 \/ rev \notin IntraRevisions THEN Fail
        ELSE IF ~ClipOk(head.clip[1], head.clip[2]) THEN Fail
        ELSE IF planes.ok THEN Ok([index |-> payload[2], recs |-> planes.val]) ELSE Fail

-------------------------------------------------------------------------------
(* An alt-ref: an intra picture for one slot of the decoder, not shown.    *)

AltRevision == 12
AltHead(qp) == [rev |-> 3, qp |-> qp, clip |-> <<1, TopQp>>]
\* SrsV2EncodeSettings::default() as far as a plane asks
AltSettings(s) ==
    [s EXCEPT !.policy = "Auto", !.context = FALSE, !.tokens = FALSE, !.layout = "Legacy",
              !.grouping = "Legacy8x8", !.decision = "Legacy", !.blockAq = "Off"]

\* encode_yuv420_alt_ref_payload, and what it stands for
EncodeAlt(s, picture, index, qp, slot) ==
    LET planes == PutPlanes(AltSettings(s), AltHead(qp), picture)
    IN  IF planes.ok THEN Ok(<<AltRevision, index, qp, slot, 0>> \o planes.val) ELSE Fail
AltRecs(picture, qp) ==
    [p \in Planes |-> [k \in DOMAIN picture[p] |->
        Rec(picture[p][k].pick, "Tx8x8", picture[p][k].freq.Tx8x8, qp)]]

\* decode_yuv420_alt_ref_payload, for a decoder with so many slots
DecodeAlt(shape, slots, payload) ==
    LET planes == TakePlanes(AltHead(payload[3]), shape, payload, 5)
    IN  IF Len(payload) < 8 THEN Fail
        ELSE IF payload[5] # 0 \/ payload[4] \notin 0 .. slots - 1 THEN Fail
        ELSE IF planes.ok THEN Ok([index |-> payload[2], slot |-> payload[4], recs |-> planes.val]) ELSE Fail
===============================================================================
