------------------------------- MODULE PFrames -------------------------------
(***************************************************************************)
(* The P frames of SRSV2 with fixed macroblocks (p_frame_codec.rs): their  *)
(* motion vectors in one of three syntaxes, and for each of a macroblock's *)
(* four blocks a residual chunk or nothing.                                *)
(*                                                                         *)
(* A macroblock is its four blocks: the transform of each, as in an intra  *)
(* frame, `max` the largest difference the prediction leaves and `sad` what *)
(* each motion vector would leave of the block.                            *)
(***************************************************************************)
EXTENDS IntraFrames

CONSTANTS
    SkipMax,        \* 6, SKIP_ABS_THRESH
    DecodeSteps     \* 64, the decoder's rANS steps a byte of motion blob

MbColumns == Columns \div 2

-------------------------------------------------------------------------------
(* The settings.                                                           *)

\* validate_entropy_model_inter, validate_partition_syntax_inter
EntropyModelOk(s) == s.model = "ContextV1" => s.syntax = "EntropyV1"
PartitionSyntaxOk(s) == s.partitionSyntax = "V2RleMvShare" => s.partition # "Fixed16x16"

\* validate_residual_context_inter_residual
InterContextOk(s) ==
    s.context /\ Adaptive(s) =>
        s.partition = "Fixed16x16" /\ s.syntax = "EntropyV1" /\ s.model = "ContextV1"

\* the checks of encode_yuv420_p_payload before the motion search
POk(s) ==
    /\ EntropyModelOk(s) /\ PartitionSyntaxOk(s) /\ InterContextOk(s) /\ LayoutOk(s)
    /\ s.layout = "CompactV1" =>
          /\ Adaptive(s) /\ ~s.context /\ s.syntax # "RawLegacy"
          /\ ~(s.syntax = "EntropyV1" /\ s.model = "ContextV1")
    /\ s.blockAq = "BlockDelta" => Adaptive(s)
    /\ s.partition # "Fixed16x16" => s.layout # "CompactV1" /\ s.syntax # "RawLegacy"

\* p_rev37_token_v2
PTokens(s) == s.tokens /\ s.layout # "CompactV1" /\ ~s.context /\ Adaptive(s)

PRevision(s) ==
    LET compact == IF s.layout # "CompactV1" THEN 0 ELSE IF s.grouping # "Legacy8x8" THEN 35 ELSE 33
    IN  CASE s.syntax = "RawLegacy" ->
               (CASE s.subpel /\ BlockAq(s) -> 9
                  [] ~s.subpel /\ BlockAq(s) -> 8
                  [] s.subpel /\ ~BlockAq(s) -> IF Adaptive(s) THEN 6 ELSE 5
                  [] ~s.subpel /\ ~BlockAq(s) -> IF Adaptive(s) THEN 4 ELSE 2)
          [] s.syntax = "CompactV1" ->
               IF compact # 0 THEN compact ELSE IF PTokens(s) THEN 37 ELSE 15
          [] s.syntax = "EntropyV1" ->
               IF compact # 0 THEN compact
               ELSE IF s.context THEN 30
               ELSE IF PTokens(s) THEN 37
               ELSE IF s.model = "StaticV1" THEN 17 ELSE 23

CompactRevisions == {15, 17, 23, 30, 33, 35, 37}

\* P_INTER_FLAG_*: subpel 1, block AQ 2, entropy residual 4, entropy motion 8,
\* motion contexts 16
FlagsOf(s) ==
    LET Bit(on, bit) == IF on THEN bit ELSE 0
        entropy == s.syntax = "EntropyV1"
    IN  Bit(s.subpel, 1) + Bit(BlockAq(s), 2) + Bit(Adaptive(s), 4)
        + Bit(entropy /\ (s.layout = "CompactV1" \/ PTokens(s)), 8)
        + Bit(entropy /\ PTokens(s) /\ s.model = "ContextV1", 16)
HasFlag(flags, bit) == (flags \div bit) % 2 = 1

-------------------------------------------------------------------------------
(* Encoding.                                                               *)

\* what a vector leaves of some blocks together
SadOf(blocks) == [v \in DOMAIN blocks[1].sad |-> FoldSeq(LAMBDA b, sum : sum + b.sad[v], 0, blocks)]

\* the vector the motion search finds
Searched(s, sad) ==
    LET pel == PickMv(s.search, sad, s.radius, s.early)
    IN  IF s.subpel THEN RefineHalfPel(sad, pel, s.subpelRadius) ELSE Quarters(pel)

\* the vectors a frame is coded with: with rate and distortion weighed, no
\* motion where that costs less behind the vectors before
MvsOf(s, mbs, qp) ==
    LET upTo[n \in 0 .. Len(mbs)] ==
            IF n = 0 THEN <<>>
            ELSE LET chosen == upTo[n - 1]
                     sad == SadOf(mbs[n].blocks)
                     found == Searched(s, sad)
                     Row(mv) == [distortion |-> sad[mv],
                                 bytes |-> MvBytes(s, n - 1, MbColumns, [k \in 0 .. n - 2 |-> chosen[k + 1]], mv)]
                 IN  Append(chosen, IF s.rdo /\ BestRow(LambdaOf(s, qp), <<Row(NoMotion), Row(found)>>) = 1
                                    THEN NoMotion ELSE found)
    IN  upTo[Len(mbs)]

\* a macroblock's blocks in the frame's grid: unit k is block k % 4 of macroblock k \div 4
UnitPlace(k) ==
    LET mb == k \div 4
        si == k % 4
    IN  [bx |-> 2 * (mb % MbColumns) + (si % 2), by |-> 2 * (mb \div MbColumns) + (si \div 2)]
UnitAt(bx, by) == 4 * ((by \div 2) * MbColumns + (bx \div 2)) + 2 * (by % 2) + (bx % 2)

\* the flags of the blocks left of and above unit k, from those of the units before it
UnitNear(occupied, k) ==
    LET at == UnitPlace(k)
    IN  [left |-> at.bx > 0 /\ occupied[UnitAt(at.bx - 1, at.by) + 1],
         above |-> at.by > 0 /\ occupied[UnitAt(at.bx, at.by - 1) + 1]]

PKind(s, c, qp) ==
    IF s.layout = "CompactV1" /\ s.grouping # "Legacy8x8" THEN PickKind(s, c, qp) ELSE "Tx8x8"

\* encode_p_subblock_residual_chunk; an explicit chunk has no layout byte
\* (encode_residual_block_8x8)
PutChunk(s, c, qp, near) ==
    LET kind == PKind(s, c, qp)
        freq == c.freq[kind]
        o == [policy |-> s.policy, context |-> s.context, tokens |-> s.tokens, plane |-> 0,
              left |-> near.left, above |-> near.above, strict |-> s.context, aq |-> FALSE, only |-> AnyTag]
    IN  IF s.policy = "Explicit" THEN Ok(<<DcMode, freq[0]>> \o WriteExplicit(freq, ZigZag))
        ELSE IF s.layout # "CompactV1" THEN EncodeChunk(freq, o)
        ELSE IF s.grouping = "Legacy8x8" THEN Ok(EncodeChunk33(freq, s))
        ELSE Ok(EncodeChunk35(freq, kind, s))

\* what a unit of a frame is to the reconstruction
Unit(mv, skip, kind, freq, qp) ==
    IF skip THEN [mv |-> mv, skip |-> TRUE]
    ELSE [mv |-> mv, skip |-> FALSE, kind |-> kind, freq |-> freq, qp |-> AtLeastOne(qp)]

\* encode_p_macroblock for one block: the chunk may be coded to see what it costs
SkipsBlind(s, c) == s.skip /\ c.max <= SkipMax /\ ~s.rdo
Skips(s, c, chunk, qp) ==
    /\ s.skip /\ c.max <= SkipMax
    /\ s.rdo => SkipCheaper(c.max, LambdaOf(s, qp), 4 + Len(chunk) + IF BlockAq(s) THEN 1 ELSE 0)

PutUnit(s, c, delta, mv, qp, near) ==
    LET eff == IF BlockAq(s) THEN BlockQp(qp, delta, s.minQp, s.maxQp) ELSE qp
        put == PutChunk(s, c, eff, near)
        kind == PKind(s, c, eff)
        freq == c.freq[kind]
    IN  IF BlockAq(s) /\ ~WireDeltaOk(delta) THEN Fail
        ELSE IF ~put.ok /\ ~SkipsBlind(s, c) THEN Fail
        ELSE IF SkipsBlind(s, c) \/ Skips(s, c, put.val, qp)
        THEN Ok([occupied |-> FALSE, chunk |-> <<>>, rec |-> Unit(mv, TRUE, kind, freq, eff)])
        ELSE Ok([occupied |-> HasAc(freq, kind), rec |-> Unit(mv, FALSE, kind, freq, eff),
                 chunk |-> (IF BlockAq(s) THEN <<delta>> ELSE <<>>) \o <<Len(put.val)>> \o put.val])

\* the units of a frame coded in turn
BlocksOf(mbs) == [k \in 1 .. 4 * Len(mbs) |-> mbs[((k - 1) \div 4) + 1].blocks[((k - 1) % 4) + 1]]
CodeUnits(s, mbs, mvs, qp) ==
    LET blocks == BlocksOf(mbs)
        deltas == DeltasOf(s, blocks)
        upTo[n \in 0 .. Len(blocks)] ==
            IF n = 0 THEN Ok([occupied |-> <<>>, chunks |-> <<>>, recs |-> <<>>])
            ELSE LET prior == upTo[n - 1]
                     before == prior.val
                     put == PutUnit(s, blocks[n], deltas[n], mvs[((n - 1) \div 4) + 1], qp,
                                    UnitNear(before.occupied, n - 1))
                 IN  IF ~prior.ok THEN Fail
                     ELSE IF ~put.ok THEN Fail
                     ELSE Ok([occupied |-> Append(before.occupied, put.val.occupied),
                              chunks |-> Append(before.chunks, put.val.chunk),
                              recs |-> Append(before.recs, put.val.rec)])
    IN  upTo[Len(blocks)]

\* append_p_mb_residual_body: which blocks are skipped, then the others
MbBody(chunks, mb) ==
    LET Of(si) == chunks[4 * mb + si + 1]
        Left(si) == IF Of(si) = <<>> THEN 2 ^ si ELSE 0
    IN  <<Left(0) + Left(1) + Left(2) + Left(3)>> \o Of(0) \o Of(1) \o Of(2) \o Of(3)

\* the motion section of the compact and entropy syntaxes
MvSection(s, compact, types, n) ==
    LET blob == IF s.model = "StaticV1" THEN EncodeBytes(compact)
                ELSE EncodeWithContexts(compact, types, n)
    IN  IF s.syntax = "CompactV1" THEN Ok(compact)
        ELSE IF blob.ok THEN Ok(<<Len(compact), Len(blob.val)>> \o blob.val) ELSE Fail

\* encode_yuv420_p_payload
EncodeP(s, mbs, index, qp) ==
    LET mvs == MvsOf(s, mbs, qp)
        units == CodeUnits(s, mbs, mvs, qp)
        clip == IF BlockAq(s) THEN <<s.minQp, s.maxQp>> ELSE <<>>
        raw == s.syntax = "RawLegacy"
        RawMv(i) == IF s.subpel THEN mvs[i] ELSE <<mvs[i][1] \div 4, mvs[i][2] \div 4>>
        body[n \in 0 .. Len(mbs)] ==
            IF n = 0 THEN <<>>
            ELSE body[n - 1] \o (IF raw THEN RawMv(n) ELSE <<>>) \o MbBody(units.val.chunks, n - 1)
        section == IF raw THEN Ok(<<>>) ELSE MvSection(s, EncodeGrid(MbColumns, mvs), Whole(Len(mvs)), Len(mvs))
    IN  IF ~POk(s) \/ ~units.ok \/ ~section.ok THEN Fail
        ELSE IF BlockAq(s) /\ ~ClipOk(s.minQp, s.maxQp) THEN Fail
        ELSE Ok(<<PRevision(s), index, qp>> \o (IF raw THEN <<>> ELSE <<FlagsOf(s)>>)
                \o clip \o section.val \o body[Len(mbs)])

\* what the encoder itself reconstructs of each unit
PRecs(s, mbs, qp) == CodeUnits(s, mbs, MvsOf(s, mbs, qp), qp).val.recs

-------------------------------------------------------------------------------
(* Decoding.                                                               *)

PRevisions == {2, 4, 5, 6, 8, 9} \cup CompactRevisions

\* what the revision and, in a compact syntax, the flags say of the frame
PHead(rev, flags) ==
    LET inter == rev \in CompactRevisions
    IN  [rev |-> rev, inter |-> inter,
         qpel |-> IF inter THEN HasFlag(flags, 1) ELSE rev \in {5, 6, 9},
         aq |-> IF inter THEN HasFlag(flags, 2) ELSE rev \in {8, 9},
         entropy |-> IF inter THEN HasFlag(flags, 4) ELSE rev \in {4, 6, 8, 9},
         mvEntropy |-> IF rev \in {33, 35, 37} THEN HasFlag(flags, 8) ELSE rev \in {17, 23, 30},
         mvContext |-> rev \in {23, 30} \/ (rev = 37 /\ HasFlag(flags, 16))]

\* the flags a revision knows and requires
FlagsOk(rev, flags) ==
    /\ flags \in 0 .. (CASE rev = 37 -> 31 [] rev \in {33, 35} -> 15 [] OTHER -> 7)
    /\ rev \in {33, 35, 37} => HasFlag(flags, 4)
    /\ rev = 37 /\ HasFlag(flags, 16) => HasFlag(flags, 8)

\* validate_mv_qpel_halfgrid, validate_mv
MvAllowed(mv, qpel) ==
    \A i \in 1 .. 2 : mv[i] % (IF qpel THEN 2 ELSE 4) = 0 /\ mv[i] \in -4 * MaxPels .. 4 * MaxPels

\* the motion section after `at`: the vectors and where it ends
TakeMvs(head, n, data, at) ==
    LET blob == ReadBlob(data, at + 1)
        count == data[at + 1]
        budget == DecodeSteps * Len(blob.val.blob)
        bytes == IF head.mvContext THEN DecodeWithContexts(blob.val.blob, count, Whole(n), n, budget)
                 ELSE DecodeBytes(blob.val.blob, count, budget)
        Grid(stream, whole) ==
            LET grid == DecodeGrid(MbColumns, n, stream, 4 * MaxPels)
            IN  IF ~grid.ok THEN Fail
                ELSE IF whole /\ grid.val.next # Len(stream) THEN Fail
                ELSE IF \E i \in 1 .. n : ~MvAllowed(grid.val.units[i], head.qpel) THEN Fail
                ELSE grid
        inline == Grid(SubSeq(data, at + 1, Len(data)), FALSE)
    IN  IF ~head.mvEntropy
        THEN IF inline.ok THEN Ok([mvs |-> inline.val.units, next |-> at + inline.val.next]) ELSE Fail
        ELSE IF at + 2 > Len(data) THEN Fail
        ELSE IF count > 16 * n \/ ~blob.ok THEN Fail
        ELSE IF ~bytes.ok THEN Fail
        ELSE LET grid == Grid(bytes.val, TRUE)
             IN  IF grid.ok THEN Ok([mvs |-> grid.val.units, next |-> blob.val.next]) ELSE Fail

\* the residual chunk of a unit
TakeChunk(head, chunk, near) ==
    LET Reader(near1, only) == [plane |-> 0, left |-> near1.left, above |-> near1.above, aq |-> FALSE, only |-> only]
        explicit == TakeExplicit(chunk, 0)
    IN  CASE ~head.entropy ->
               IF ~explicit.ok THEN Fail
               ELSE IF explicit.val.next # Len(chunk) THEN Fail
               ELSE Ok([kind |-> "Tx8x8", freq |-> explicit.val.freq])
          [] head.entropy /\ head.rev = 30 -> DecodeStrict(chunk, Reader(near, {TagContext}))
          [] head.entropy /\ head.rev = 33 -> DecodeChunk33(chunk)
          [] head.entropy /\ head.rev = 35 -> DecodeChunk35(chunk)
          [] head.entropy /\ head.rev = 37 -> DecodeStrict(chunk, Reader(near, {TagTokens}))
          [] OTHER -> DecodeChunk(chunk, Reader([left |-> FALSE, above |-> FALSE], AnyTag))

\* a unit that is not skipped: delta, length, chunk
TakeUnit(head, data, at, mv, near) ==
    LET start == IF head.aq THEN at + 1 ELSE at
        delta == IF head.aq THEN data[at + 1] ELSE 0
        blob == ReadBlob(data, start)
        took == TakeChunk(head, blob.val.blob, near)
        qp == IF head.aq THEN BlockQp(head.qp, delta, head.clip[1], head.clip[2]) ELSE head.qp
    IN  IF start > Len(data) THEN Fail
        ELSE IF ~WireDeltaOk(delta) \/ ~blob.ok THEN Fail
        ELSE IF ~took.ok THEN Fail
        ELSE Ok([rec |-> Unit(mv, FALSE, took.val.kind, took.val.freq, qp), next |-> blob.val.next,
                 occupied |-> HasAc(took.val.freq, took.val.kind)])

\* what opens a macroblock in the raw syntax: its vector
RawMvAt(head, data, at) ==
    IF at + 2 > Len(data) THEN Fail
    ELSE LET mv == [i \in 1 .. 2 |-> (IF head.qpel THEN 1 ELSE 4) * data[at + i]]
         IN  IF MvAllowed(mv, head.qpel) THEN Ok(mv) ELSE Fail

\* the macroblocks after `at`, a unit a step; a macroblock's first unit reads
\* its vector and its pattern
TakeUnits(head, n, mvs, data, start) ==
    LET upTo[k \in 0 .. 4 * n] ==
            IF k = 0 THEN Ok([at |-> start, mv |-> NoMotion, pattern |-> 0, occupied |-> <<>>, recs |-> <<>>])
            ELSE LET prior == upTo[k - 1]
                     b == prior.val
                     opens == (k - 1) % 4 = 0
                     mv == IF ~opens THEN Ok(b.mv)
                           ELSE IF head.inter THEN Ok(mvs[((k - 1) \div 4) + 1])
                           ELSE RawMvAt(head, data, b.at)
                     at == IF ~opens THEN b.at ELSE IF head.inter THEN b.at + 1 ELSE b.at + 3
                     pattern == IF opens THEN data[at] ELSE b.pattern
                     took == TakeUnit(head, data, at, mv.val, UnitNear(b.occupied, k - 1))
                     Step(next, occupied, rec) ==
                        Ok([at |-> next, mv |-> mv.val, pattern |-> pattern,
                            occupied |-> Append(b.occupied, occupied), recs |-> Append(b.recs, rec)])
                 IN  IF ~prior.ok THEN Fail
                     ELSE IF ~mv.ok \/ at > Len(data) THEN Fail
                     ELSE IF (pattern \div 2 ^ ((k - 1) % 4)) % 2 = 1
                     THEN Step(at, FALSE, [mv |-> mv.val, skip |-> TRUE])
                     ELSE IF took.ok THEN Step(took.val.next, took.val.occupied, took.val.rec)
                     ELSE Fail
    IN  upTo[4 * n]

\* decode_yuv420_p_payload, for a frame of n macroblocks
DecodeP(n, payload) ==
    LET rev == payload[1]
        inter == rev \in CompactRevisions
        flags == IF inter THEN payload[4] ELSE 0
        base == PHead(rev, flags)
        clipAt == IF inter THEN 4 ELSE 3
        clip == IF base.aq THEN <<payload[clipAt + 1], payload[clipAt + 2]>> ELSE <<1, TopQp>>
        head == [qp |-> payload[3], clip |-> clip] @@ base
        mvAt == IF base.aq THEN clipAt + 2 ELSE clipAt
        section == IF inter THEN TakeMvs(head, n, payload, mvAt) ELSE Ok([mvs |-> <<>>, next |-> mvAt])
        units == TakeUnits(head, n, section.val.mvs, payload, section.val.next)
    IN  IF Len(payload) < 3 THEN Fail
        ELSE IF rev \notin PRevisions \/ (inter /\ Len(payload) < 4) THEN Fail
        ELSE IF (inter /\ ~FlagsOk(rev, flags)) \/ mvAt > Len(payload) THEN Fail
        ELSE IF ~ClipOk(clip[1], clip[2]) THEN Fail
        ELSE IF ~section.ok THEN Fail
        ELSE IF ~units.ok THEN Fail
        ELSE IF ~EndsWith(units.val.at, payload) THEN Fail
        ELSE Ok([index |-> payload[2], recs |-> units.val.recs])
===============================================================================
