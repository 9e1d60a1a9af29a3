------------------------------- MODULE BFrames -------------------------------
(***************************************************************************)
(* The B frames of SRSV2 (b_frame_codec.rs): each macroblock is predicted  *)
(* from a picture before it, one after it, or a blend of both.             *)
(*                                                                         *)
(* A macroblock of a B frame is the blocks its prediction leaves, what each *)
(* vector would leave of it in either reference (`before`, `after`), and   *)
(* what the blends leave: `average`, and one number for each pair of       *)
(* weights.                                                                *)
(***************************************************************************)
EXTENDS VarPartition

\* BBlendModeWire
Forward == 0
Backward == 1
Average == 2
Weighted == 3

\* B_WEIGHTED_PRED_CANDIDATES, validate_b_prediction_weights
Weights == << <<64, 192>>, <<95, 161>>, <<128, 128>>, <<161, 95>>, <<192, 64>> >>
WeightsOk(weights) == weights[1] + weights[2] = 256
NoWeights == <<0, 0>>

\* uses_fr2_rev14_wire
FineVectors(s) == s.bSearch = "HalfPel" \/ s.weighted

-------------------------------------------------------------------------------
(* Choosing the prediction of a macroblock.                                *)

\* the vectors of a macroblock, choose_b_macroblock up to the refinement
BMvs(s, mb) ==
    LET Found(sad) ==
            LET pel == PickMv(s.search, sad, s.radius, s.early)
            IN  CASE s.bSearch \in {"Off", "ReuseP"} -> NoMotion
                  [] s.bSearch = "Independent" -> Quarters(pel)
                  [] s.bSearch = "HalfPel" -> RefineHalfPel(sad, pel, s.subpelRadius)
    IN  <<Found(mb.before), Found(mb.after)>>

\* what is weighed: blend, weights, and what they leave, in the code's order
Blends(s, mb, mvs) ==
    LET Of(blend, weights, sad) == [blend |-> blend, weights |-> weights, sad |-> sad]
    IN  <<Of(Forward, NoWeights, mb.before[mvs[1]]), Of(Backward, NoWeights, mb.after[mvs[2]]),
          Of(Average, NoWeights, mb.average)>>
        \o IF s.weighted THEN [i \in DOMAIN Weights |-> Of(Weighted, Weights[i], mb.weighted[i])] ELSE <<>>

\* rdo_mode Fast: the lowest score, of equals the lowest tag, of these the first
CheapestBlend(s, mb, mvs, qp) ==
    LET rows == Blends(s, mb, mvs)
        halfPel == IF \E side \in 1 .. 2 : \E i \in 1 .. 2 : mvs[side][i] % 4 # 0 THEN 40 ELSE 0
        Score(row) == BlendScore(row.sad, LambdaOf(s, qp), 8, IF row.blend = Weighted THEN 72 ELSE 0, halfPel)
        Before(i, j) == \/ Score(rows[i]) < Score(rows[j])
                        \/ Score(rows[i]) = Score(rows[j]) /\ i <= j
    IN  rows[CHOOSE i \in DOMAIN rows : \A j \in DOMAIN rows : Before(i, j)]

\* otherwise the least difference, of equals the average, then forward, backward
\* and the first of the weights
ClosestBlend(s, mb, mvs) ==
    LET rows == Blends(s, mb, mvs)
        rank(i) == IF i = 3 THEN 0 ELSE i
        Before(i, j) == rows[i].sad < rows[j].sad \/ (rows[i].sad = rows[j].sad /\ rank(i) <= rank(j))
    IN  rows[CHOOSE i \in DOMAIN rows : \A j \in DOMAIN rows : Before(i, j)]

BlendOf(s, mb, mvs, qp) == IF s.rdo THEN CheapestBlend(s, mb, mvs, qp) ELSE ClosestBlend(s, mb, mvs)

-------------------------------------------------------------------------------
(* Encoding.                                                               *)

\* build_b_macroblock_encoded: a block that hardly differs is left out whatever
\* the settings say
PlainCoding ==
    [policy |-> "Auto", context |-> FALSE, tokens |-> FALSE, plane |-> 0, left |-> FALSE, above |-> FALSE,
     strict |-> FALSE, aq |-> FALSE, only |-> AnyTag]
BSkips(c) == c.max <= SkipMax
BChunk(c) ==
    LET chunk == EncodeChunk(c.freq.Tx8x8, PlainCoding).val IN IF BSkips(c) THEN <<>> ELSE <<Len(chunk)>> \o chunk
BBody(mb) == MbBody([i \in 1 .. 4 |-> BChunk(mb.blocks[i])], 0)

\* what a macroblock of a B frame is to the reconstruction
BRec(mvs, blend, weights, blocks) == [mvs |-> mvs, blend |-> blend, weights |-> weights, blocks |-> blocks]
BBlocks(mb) == [i \in 1 .. 4 |-> IF BSkips(mb.blocks[i]) THEN <<>> ELSE <<mb.blocks[i].freq.Tx8x8>>]

\* encode_yuv420_b_payload: one blend for the frame, no motion
EncodePlainB(s, mbs, index, qp, slots) ==
    [cells |-> <<IF s.bSearch = "HalfPel" THEN 11 ELSE 10, index, qp, slots[1], slots[2], s.blend>>
               \o FlattenSeq([b \in DOMAIN mbs |-> <<0, 0, 0, 0>> \o BBody(mbs[b])]),
     recs |-> [b \in DOMAIN mbs |-> BRec(<<NoMotion, NoMotion>>, s.blend, NoWeights, BBlocks(mbs[b]))]]

\* validate_entropy_model_inter, validate_residual_context_b_frame,
\* validate_coeff_layout_settings
BOk(s) ==
    /\ s.partition = "Fixed16x16" /\ EntropyModelOk(s) /\ LayoutOk(s)
    /\ ~(s.context /\ Adaptive(s))

\* append_b_mb_legacy_wire
RawB(s, mb, mvs, row) ==
    LET unit == IF FineVectors(s) THEN 1 ELSE 4
    IN  <<row.blend>> \o (IF row.blend = Weighted THEN row.weights ELSE <<>>)
        \o <<mvs[1][1] \div unit, mvs[1][2] \div unit, mvs[2][1] \div unit, mvs[2][2] \div unit>> \o BBody(mb)
\* append_b_mb_compact_residual_wire
CompactB(mb, row) == <<row.blend>> \o (IF row.blend = Weighted THEN row.weights ELSE <<>>) \o BBody(mb)

BRevision(s) ==
    CASE s.syntax = "RawLegacy" -> IF FineVectors(s) THEN 14 ELSE 13
      [] s.syntax = "CompactV1" -> 16
      [] s.syntax = "EntropyV1" -> IF s.model = "StaticV1" THEN 18 ELSE 24
BFlags(s) == (IF FineVectors(s) THEN 1 ELSE 0) + IF s.weighted THEN 2 ELSE 0

\* encode_yuv420_b_payload_mb_blend
EncodeBlendB(s, mbs, index, qp, slots) ==
    LET n == Len(mbs)
        mvs == [b \in DOMAIN mbs |-> BMvs(s, mbs[b])]
        rows == [b \in DOMAIN mbs |-> BlendOf(s, mbs[b], mvs[b], qp)]
        Section(side) == MvSection(s, EncodeGrid(MbColumns, [b \in DOMAIN mbs |-> mvs[b][side]]), Whole(n), n)
        raw == s.syntax = "RawLegacy"
        body == FlattenSeq([b \in DOMAIN mbs |-> IF raw THEN RawB(s, mbs[b], mvs[b], rows[b])
                                                 ELSE CompactB(mbs[b], rows[b])])
        head == <<BRevision(s), index, qp, slots[1], slots[2]>>
    IN  IF ~BOk(s) THEN Fail
        ELSE IF ~raw /\ (~Section(1).ok \/ ~Section(2).ok) THEN Fail
        ELSE Ok([cells |-> head \o (IF raw THEN <<>> ELSE <<BFlags(s)>> \o Section(1).val \o Section(2).val) \o body,
                 recs |-> [b \in DOMAIN mbs |-> BRec(mvs[b], rows[b].blend, rows[b].weights, BBlocks(mbs[b]))]])

-------------------------------------------------------------------------------
(* Decoding.                                                               *)

BRevisions == {10, 11, 13, 14, 16, 18, 24}

\* decode_yuv420_b_payload up to the references: the blend of the frame for 10
\* and 11, flags for the compact syntaxes
BHead(payload) ==
    LET rev == payload[1]
        compact == rev \in {16, 18, 24}
        extra == payload[6]
    IN  IF Len(payload) < 5 THEN Fail
        ELSE IF rev \in {13, 14}
        THEN Ok([rev |-> rev, slots |-> <<payload[4], payload[5]>>, perMb |-> TRUE, weighted |-> rev = 14,
                 qpel |-> rev = 14, compact |-> FALSE, blend |-> Forward, mvEntropy |-> FALSE, mvContext |-> FALSE,
                 at |-> 5])
        ELSE IF Len(payload) < 6 THEN Fail
        ELSE IF extra \notin (IF compact THEN 0 .. 3 ELSE Forward .. Average) THEN Fail
        ELSE Ok([rev |-> rev, slots |-> <<payload[4], payload[5]>>, perMb |-> compact,
                 weighted |-> compact /\ extra >= 2, qpel |-> IF compact THEN HasFlag(extra, 1) ELSE rev = 11,
                 compact |-> compact, blend |-> IF compact THEN Forward ELSE extra,
                 mvEntropy |-> rev \in {18, 24}, mvContext |-> rev = 24, at |-> 6])

\* the blend of a macroblock and its weights
TakeBlend(head, data, at) ==
    LET tag == data[at + 1]
        weights == <<data[at + 2], data[at + 3]>>
        Of(blend, w, next) == Ok([blend |-> blend, weights |-> w, next |-> next])
    IN  IF ~head.perMb THEN Of(head.blend, NoWeights, at)
        ELSE IF at >= Len(data) THEN Fail
        ELSE IF tag \in Forward .. Average THEN Of(tag, NoWeights, at + 1)
        ELSE IF tag # Weighted \/ ~head.weighted \/ at + 3 > Len(data) THEN Fail
        ELSE IF WeightsOk(weights) THEN Of(Weighted, weights, at + 3) ELSE Fail

\* the two vectors of a macroblock before its blocks
TakePair(head, data, at) ==
    LET unit == IF head.qpel THEN 1 ELSE 4
        mvs == <<<<unit * data[at + 1], unit * data[at + 2]>>, <<unit * data[at + 3], unit * data[at + 4]>>>>
    IN  IF at + 4 > Len(data) THEN Fail
        ELSE IF MvAllowed(mvs[1], head.qpel) /\ MvAllowed(mvs[2], head.qpel) THEN Ok([mvs |-> mvs, next |-> at + 4])
        ELSE Fail

\* what opens a macroblock: blend, vectors unless the grids have them, pattern
OpenB(head, pair, data, at) ==
    LET blend == TakeBlend(head, data, at)
        mvs == IF head.compact THEN Ok([mvs |-> pair, next |-> blend.val.next]) ELSE TakePair(head, data, blend.val.next)
    IN  IF ~blend.ok THEN Fail
        ELSE IF ~mvs.ok THEN Fail
        ELSE IF mvs.val.next >= Len(data) THEN Fail
        ELSE Ok([rec |-> BRec(mvs.val.mvs, blend.val.blend, blend.val.weights, <<>>),
                 pattern |-> data[mvs.val.next + 1], next |-> mvs.val.next + 1])

\* a block of a macroblock: left out, or a chunk
TakeBBlock(data, at, skip) ==
    LET blob == ReadBlob(data, at)
        chunk == DecodeChunk(blob.val.blob, [plane |-> 0, left |-> FALSE, above |-> FALSE, aq |-> FALSE, only |-> AnyTag])
    IN  IF skip THEN Ok([block |-> <<>>, next |-> at])
        ELSE IF ~blob.ok THEN Fail
        ELSE IF ~chunk.ok THEN Fail
        ELSE Ok([block |-> <<chunk.val.freq>>, next |-> blob.val.next])

\* the macroblocks, a block a step
TakeBMbs(head, n, pairs, data, start) ==
    LET upTo[k \in 0 .. 4 * n] ==
            IF k = 0 THEN Ok([next |-> start, pattern |-> 0, recs |-> <<>>])
            ELSE LET prior == upTo[k - 1]
                     si == (k - 1) % 4
                     opened == OpenB(head, pairs[((k - 1) \div 4) + 1], data, prior.val.next)
                     b == IF si # 0 THEN prior
                          ELSE IF opened.ok
                          THEN Ok([next |-> opened.val.next, pattern |-> opened.val.pattern,
                                   recs |-> Append(prior.val.recs, opened.val.rec)])
                          ELSE Fail
                     took == TakeBBlock(data, b.val.next, (b.val.pattern \div 2 ^ si) % 2 = 1)
                 IN  IF ~prior.ok THEN Fail
                     ELSE IF ~b.ok THEN Fail
                     ELSE IF ~took.ok THEN Fail
                     ELSE Ok([b.val EXCEPT !.next = took.val.next,
                                           !.recs[((k - 1) \div 4) + 1].blocks = Append(@, took.val.block)])
    IN  upTo[4 * n]

\* decode_yuv420_b_payload behind the references
DecodeB(n, payload) ==
    LET opened == BHead(payload)
        head == opened.val
        a == TakeMvs(head, n, payload, head.at)
        b == TakeMvs(head, n, payload, a.val.next)
        pairs == [i \in 1 .. n |-> IF head.compact THEN <<a.val.mvs[i], b.val.mvs[i]>> ELSE <<>>]
        mbs == TakeBMbs(head, n, pairs, payload, IF head.compact THEN b.val.next ELSE head.at)
    IN  IF ~opened.ok THEN Fail
        ELSE IF head.compact /\ ~a.ok THEN Fail
        ELSE IF head.compact /\ ~b.ok THEN Fail
        ELSE IF ~mbs.ok THEN Fail
        ELSE IF EndsWith(mbs.val.next, payload) THEN Ok([index |-> payload[2], recs |-> mbs.val.recs]) ELSE Fail
===============================================================================
