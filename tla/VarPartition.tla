---------------------------- MODULE VarPartition ----------------------------
(***************************************************************************)
(* P frames whose macroblocks are cut into prediction units                *)
(* (p_var_partition.rs, partition_syntax_v2.rs): one vector for all of a   *)
(* macroblock, one for each half or one for each quarter, and blocks that  *)
(* are transformed whole or in four.                                       *)
(*                                                                         *)
(* A macroblock's type is its number on the wire: 0 whole, 1 halves one    *)
(* above the other, 2 halves side by side, 3 quarters.                     *)
(***************************************************************************)
EXTENDS PFrames

CONSTANTS
    DetailMax,      \* 22: a block with a larger difference is transformed in four
    RawSmallMax     \* 5: so few macroblocks may have their types listed

Types == 0 .. 3

\* subblocks_for_pu: the blocks of each prediction unit
Parts(type) ==
    CASE type = 0 -> << <<0, 1, 2, 3>> >>
      [] type = 1 -> << <<0, 1>>, <<2, 3>> >>
      [] type = 2 -> << <<0, 2>>, <<1, 3>> >>
      [] type = 3 -> << <<0>>, <<1>>, <<2>>, <<3>> >>

\* a frame's blocks in the order they are coded: the unit of each, from 1, and
\* its place among the frame's blocks
CodedOrder(types) ==
    LET OfUnit(b, p) == [i \in DOMAIN Parts(types[b])[p] |->
                           [unit |-> UnitsBefore(types, b - 1) + p, place |-> 4 * (b - 1) + Parts(types[b])[p][i] + 1]]
        OfBlock(b) == FlattenSeq([p \in DOMAIN Parts(types[b]) |-> OfUnit(b, p)])
    IN  FlattenSeq([b \in DOMAIN types |-> OfBlock(b)])

-------------------------------------------------------------------------------
(* The cut of a macroblock and the vectors of its units.                   *)

\* candidate_sad_and_mvs: whole pixels only
Candidate(s, blocks, type) ==
    LET sadOf == [p \in DOMAIN Parts(type) |-> SadOf([i \in DOMAIN Parts(type)[p] |-> blocks[Parts(type)[p][i] + 1]])]
        mvs == [p \in DOMAIN Parts(type) |-> Quarters(PickMvRect(s.search, sadOf[p], s.radius, s.early))]
    IN  [mvs |-> mvs, sad |-> FoldSeq(+, 0, [p \in DOMAIN mvs |-> sadOf[p][mvs[p]]])]

\* autofast_compute_sad_only_choice: the halves side by side are not tried
SadChoice(s, blocks, lambda) ==
    LET whole == Candidate(s, blocks, 0).sad
        quarters == Candidate(s, blocks, 3).sad + (12 * lambda) \div 256
        halves == Candidate(s, blocks, 1).sad + (8 * lambda) \div 256
    IN  IF quarters + 4 < whole /\ quarters <= halves THEN 3
        ELSE IF halves + 4 < whole THEN 1 ELSE 0

\* encode_residual_subblocks_for_pu for one block: skipped, one chunk, or four
Quarters4(freq) == [q \in 1 .. 4 |-> [i \in 0 .. Quarter - 1 |-> freq[(q - 1) * Quarter + i]]]
InFour(s, c) ==
    CASE s.txSize = "Auto" -> c.max > DetailMax [] s.txSize = "Force4x4" -> TRUE [] s.txSize = "Force8x8" -> FALSE
VarCoding(s) ==
    [policy |-> s.policy, context |-> FALSE, tokens |-> s.tokens, plane |-> 0, left |-> FALSE, above |-> FALSE,
     strict |-> FALSE, aq |-> FALSE, only |-> AnyTag]

PutSub(s, c, delta, qp) ==
    LET eff == AtLeastOne(IF BlockAq(s) THEN BlockQp(qp, delta, s.minQp, s.maxQp) ELSE qp)
        chunk == EncodeChunk(c.freq.Tx8x8, VarCoding(s))
        Behind(body) == LET wire == (IF BlockAq(s) THEN <<delta>> ELSE <<>>) \o body IN <<Len(wire)>> \o wire
        quarters == Quarters4(c.freq.Tx4x4)
    IN  IF BlockAq(s) /\ ~WireDeltaOk(delta) THEN Fail
        ELSE IF s.skip /\ c.max <= SkipMax THEN Ok([cells |-> <<1>>, parts |-> <<>>])
        ELSE IF InFour(s, c)
        THEN Ok([cells |-> <<2>> \o FlattenSeq([q \in 1 .. 4 |-> Behind(EncodeChunk4(quarters[q]))]),
                 parts |-> [q \in 1 .. 4 |-> [freq |-> quarters[q], qp |-> eff]]])
        ELSE IF chunk.ok
        THEN Ok([cells |-> <<0>> \o Behind(chunk.val), parts |-> <<[freq |-> c.freq.Tx8x8, qp |-> eff]>>])
        ELSE Fail

\* encode_one_mb_residual_body_len; a block that fails here fails the frame later
ResidualBytes(s, blocks, deltas, qp) ==
    LET puts == [i \in 1 .. 4 |-> PutSub(s, blocks[i], deltas[i], qp)]
    IN  FoldSeq(+, 0, [i \in 1 .. 4 |-> IF puts[i].ok THEN Len(puts[i].val.cells) ELSE 0])

\* partition_choice_for_mb
TypeScore(s, blocks, deltas, lambda, qp, type) ==
    LET found == Candidate(s, blocks, type)
        units == Len(found.mvs)
        bytes == PartitionBytes(units, Len(EncodeUnits(<<type>>, 1, 1, found.mvs).val),
                                ResidualBytes(s, blocks, deltas, qp), BlockAq(s))
    IN  CASE s.cost = "HeaderAware" ->
               HeaderAwareScore(s, found.sad, lambda, bytes, IF type = 3 THEN s.splitPenalty ELSE 0, units - 1)
          [] s.cost = "RdoFast" -> PartitionScore(s, found.sad, lambda, bytes)

TypeOf(s, blocks, deltas, lambda, qp) ==
    CASE s.partition = "Fixed16x16" -> 0
      [] s.partition = "Split8x8" -> 3
      [] s.partition = "Rect16x8" -> 1
      [] s.partition = "Rect8x16" -> 2
      [] s.partition = "AutoFast" ->
            IF s.cost = "SadOnly" THEN SadChoice(s, blocks, lambda)
            ELSE BestTag([t \in Types |-> TypeScore(s, blocks, deltas, lambda, qp, t)])

TypesOf(s, mbs, deltas, qp) ==
    LET lambda == (LambdaOf(s, qp) * s.partScale) \div 256
    IN  [b \in DOMAIN mbs |->
            TypeOf(s, mbs[b].blocks, [i \in 1 .. 4 |-> deltas[4 * (b - 1) + i]], lambda, qp)]

-------------------------------------------------------------------------------
(* The map of the types.                                                   *)

\* rle_partition_payload, modes_to_rle_runs
Runs(types) ==
    LET Join(runs, t) == IF runs # <<>> /\ Last(runs)[1] = t
                         THEN [runs EXCEPT ![Len(runs)][2] = @ + 1] ELSE Append(runs, <<t, 1>>)
    IN  FoldLeft(Join, <<>>, types)
RunCells(types) == <<Len(Runs(types))>> \o FlattenSeq(Runs(types))
Packs(s, types) == s.mapEncoding = "RleRuns" /\ Len(RunCells(types)) < Len(types)

\* decode_rle_partition_map: all the macroblocks and no more
TakeRuns(data, at, n) ==
    LET runs == data[at + 1]
        type(i) == data[at + 2 * i]
        count(i) == data[at + 1 + 2 * i]
        types == FlattenSeq([i \in 1 .. runs |-> [k \in 1 .. count(i) |-> type(i)]])
    IN  IF at >= Len(data) THEN Fail
        ELSE IF runs \notin 1 .. n \/ at + 1 + 2 * runs > Len(data) THEN Fail
        ELSE IF \E i \in 1 .. runs : type(i) \notin Types \/ count(i) \notin 1 .. n THEN Fail
        ELSE IF Len(types) = n THEN Ok([types |-> types, next |-> at + 1 + 2 * runs]) ELSE Fail

\* encode_map_inner
MapMagic == 82
MapV2(types) ==
    IF \A b \in DOMAIN types : types[b] = types[1] THEN <<MapMagic, 0, types[1]>>
    ELSE IF Len(types) <= RawSmallMax THEN <<MapMagic, 2>> \o types
    ELSE <<MapMagic, 1>> \o RunCells(types)

\* decode_partition_map_v2
TakeMapV2(blob, n) ==
    LET runs == TakeRuns(blob, 2, n)
        listed == SubSeq(blob, 3, Len(blob))
        Legal(types) == IF \A b \in DOMAIN types : types[b] \in Types THEN Ok(types) ELSE Fail
    IN  IF Len(blob) < 2 THEN Fail
        ELSE IF blob[1] # MapMagic THEN Fail
        ELSE CASE blob[2] = 0 -> IF Len(listed) = 1 THEN Legal([b \in 1 .. n |-> listed[1]]) ELSE Fail
               [] blob[2] = 1 -> IF ~runs.ok THEN Fail
                                 ELSE IF runs.val.next = Len(blob) THEN Ok(runs.val.types) ELSE Fail
               [] blob[2] = 2 -> IF n <= RawSmallMax /\ Len(listed) = n THEN Legal(listed) ELSE Fail
               [] OTHER -> Fail

\* decode_mv_share_groups_v2: groups of units that no encoder forms; they are
\* checked and otherwise ignored
ShareMagic == 71
SharesOk(blob, units) ==
    LET groups == blob[2]
        upTo[g \in 0 .. groups] ==
            IF g = 0 THEN Ok([next |-> 2, members |-> <<>>])
            ELSE LET prior == upTo[g - 1]
                     group == ReadBlob(blob, prior.val.next)
                 IN  IF ~prior.ok THEN Fail
                     ELSE IF ~group.ok THEN Fail
                     ELSE IF Len(group.val.blob) < 2 THEN Fail
                     ELSE Ok([next |-> group.val.next, members |-> prior.val.members \o group.val.blob])
        all == upTo[groups]
    IN  IF Len(blob) < 2 THEN FALSE
        ELSE IF blob[1] # ShareMagic \/ ~all.ok THEN FALSE
        ELSE /\ all.val.next = Len(blob)
             /\ IsInjective(all.val.members)
             /\ \A i \in DOMAIN all.val.members : all.val.members[i] \in 0 .. units - 1

-------------------------------------------------------------------------------
(* Encoding.                                                               *)

VarRevision(s) ==
    LET entropy == s.syntax = "EntropyV1"
    IN  IF s.partitionSyntax = "V2RleMvShare" THEN IF entropy THEN 28 ELSE 27
        ELSE IF entropy THEN IF s.model = "ContextV1" THEN 25 ELSE 20
        ELSE 19

\* what the frame says of its types
MapSection(s, types) ==
    IF s.partitionSyntax = "V2RleMvShare" THEN <<Len(MapV2(types))>> \o MapV2(types) \o <<0>>
    ELSE IF Packs(s, types) THEN RunCells(types) ELSE types

VarFlags(s, types) ==
    LET Bit(on, bit) == IF on THEN bit ELSE 0
    IN  Bit(s.subpel, 1) + Bit(BlockAq(s), 2) + Bit(Adaptive(s), 4)
        + Bit(s.partitionSyntax # "V2RleMvShare" /\ Packs(s, types), 8)

\* encode_yuv420_p_payload_var_partition: the wire and what it stands for
VarFrame(s, mbs, index, qp) ==
    LET n == Len(mbs)
        blocks == BlocksOf(mbs)
        deltas == DeltasOf(s, blocks)
        types == TypesOf(s, mbs, deltas, qp)
        mvs == FlattenSeq([b \in DOMAIN mbs |-> Candidate(s, mbs[b].blocks, types[b]).mvs])
        section == MvSection(s, EncodeUnits(types, MbColumns, n, mvs).val, types, n)
        slots == CodedOrder(types)
        puts == [k \in DOMAIN slots |-> PutSub(s, blocks[slots[k].place], deltas[slots[k].place], qp)]
        v2 == s.partitionSyntax = "V2RleMvShare"
        head == <<VarRevision(s), index, qp, VarFlags(s, types)>> \o IF BlockAq(s) THEN <<s.minQp, s.maxQp>> ELSE <<>>
        model == IF v2 /\ s.syntax = "EntropyV1" THEN <<IF s.model = "ContextV1" THEN 1 ELSE 0>> ELSE <<>>
    IN  IF ~POk(s) \/ \E k \in DOMAIN puts : ~puts[k].ok THEN Fail
        ELSE IF ~section.ok \/ (BlockAq(s) /\ ~ClipOk(s.minQp, s.maxQp)) THEN Fail
        ELSE Ok([cells |-> head \o model \o MapSection(s, types) \o section.val
                             \o FlattenSeq([k \in DOMAIN puts |-> puts[k].val.cells]),
                 recs |-> [k \in DOMAIN slots |->
                             [at |-> slots[k].place, mv |-> mvs[slots[k].unit], parts |-> puts[k].val.parts]]])

-------------------------------------------------------------------------------
(* Decoding.                                                               *)

VarRevisions == {19, 20, 25, 27, 28}

\* a chunk behind its length, its delta inside
TakePiece(head, data, at, four) ==
    LET blob == ReadBlob(data, at)
        delta == IF head.aq THEN blob.val.blob[1] ELSE 0
        chunk == IF head.aq THEN Tail(blob.val.blob) ELSE blob.val.blob
        whole == DecodeChunk(chunk, [plane |-> 0, left |-> FALSE, above |-> FALSE, aq |-> FALSE, only |-> AnyTag])
        quarter == DecodeChunk4(chunk)
        qp == AtLeastOne(IF head.aq THEN BlockQp(head.qp, delta, head.clip[1], head.clip[2]) ELSE head.qp)
        Piece(freq) == Ok([part |-> [freq |-> freq, qp |-> qp], next |-> blob.val.next])
    IN  IF ~blob.ok THEN Fail
        ELSE IF head.aq /\ blob.val.blob = <<>> THEN Fail
        ELSE IF ~WireDeltaOk(delta) THEN Fail
        ELSE IF four THEN IF quarter.ok THEN Piece(quarter.val) ELSE Fail
        ELSE IF whole.ok THEN Piece(whole.val.freq) ELSE Fail

\* what one block reads: its control byte and its chunks
TakeSub(head, data, at) ==
    LET ctrl == data[at + 1]
        skip == ctrl % 2 = 1
        tx == ctrl \div 2
        upTo[k \in 0 .. IF skip THEN 0 ELSE IF tx = 1 THEN 4 ELSE 1] ==
            IF k = 0 THEN Ok([next |-> at + 1, parts |-> <<>>])
            ELSE LET prior == upTo[k - 1]
                     piece == TakePiece(head, data, prior.val.next, tx = 1)
                 IN  IF ~prior.ok THEN Fail
                     ELSE IF piece.ok
                     THEN Ok([next |-> piece.val.next, parts |-> Append(prior.val.parts, piece.val.part)])
                     ELSE Fail
    IN  IF at >= Len(data) THEN Fail
        ELSE IF ctrl \notin 0 .. 7 \/ (~skip /\ tx \notin 0 .. 1) THEN Fail
        ELSE upTo[IF skip THEN 0 ELSE IF tx = 1 THEN 4 ELSE 1]

TakeSubs(head, types, mvs, data, start) ==
    LET slots == CodedOrder(types)
        upTo[k \in 0 .. Len(slots)] ==
            IF k = 0 THEN Ok([next |-> start, recs |-> <<>>])
            ELSE LET prior == upTo[k - 1]
                     took == TakeSub(head, data, prior.val.next)
                 IN  IF ~prior.ok THEN Fail
                     ELSE IF ~took.ok THEN Fail
                     ELSE Ok([next |-> took.val.next,
                              recs |-> Append(prior.val.recs, [at |-> slots[k].place, mv |-> mvs[slots[k].unit],
                                                               parts |-> took.val.parts])])
    IN  upTo[Len(slots)]

\* the types, and where their section ends
TakeTypes(head, n, data, at) ==
    LET map == ReadBlob(data, at)
        types == TakeMapV2(map.val.blob, n)
        shares == ReadBlob(data, map.val.next)
        listed == SubSeq(data, at + 1, at + n)
    IN  IF ~head.v2
        THEN IF head.packed THEN TakeRuns(data, at, n)
             ELSE IF at + n > Len(data) THEN Fail
             ELSE IF \A b \in 1 .. n : listed[b] \in Types THEN Ok([types |-> listed, next |-> at + n]) ELSE Fail
        ELSE IF head.packed \/ ~map.ok THEN Fail
        ELSE IF ~types.ok \/ ~shares.ok THEN Fail
        ELSE IF shares.val.blob = <<>> \/ SharesOk(shares.val.blob, TotalUnits(types.val))
        THEN Ok([types |-> types.val, next |-> shares.val.next]) ELSE Fail

\* the vectors of the units, and where their section ends; of an entropy coded
\* stream nothing asks whether all of it was needed
TakeUnitMvs(head, types, data, at) ==
    LET n == Len(types)
        blob == ReadBlob(data, at + 1)
        count == data[at + 1]
        budget == DecodeSteps * Len(blob.val.blob)
        bytes == IF head.contexts THEN DecodeWithContexts(blob.val.blob, count, types, n, budget)
                 ELSE DecodeBytes(blob.val.blob, count, budget)
        Allowed(got) ==
            IF ~got.ok THEN FALSE ELSE \A u \in DOMAIN got.val.units : MvAllowed(got.val.units[u], head.qpel)
        stream == IF head.entropy THEN bytes.val ELSE SubSeq(data, at + 1, Len(data))
        got == DecodeUnits(types, MbColumns, n, stream, 4 * MaxPels)
    IN  IF head.entropy /\ at + 2 > Len(data) THEN Fail
        ELSE IF head.entropy /\ (count > 64 * n \/ ~blob.ok) THEN Fail
        ELSE IF head.entropy /\ ~bytes.ok THEN Fail
        ELSE IF ~Allowed(got) THEN Fail
        ELSE Ok([mvs |-> got.val.units, next |-> IF head.entropy THEN blob.val.next ELSE at + got.val.next])

\* decode_yuv420_p_payload_var_partition
VarHead(payload) ==
    LET rev == payload[1]
        flags == payload[4]
        aq == HasFlag(flags, 2)
        at == IF aq THEN 6 ELSE 4
        coder == IF rev = 28 THEN payload[at + 1] ELSE IF rev = 25 THEN 1 ELSE 0
    IN  IF Len(payload) < 4 THEN Fail
        ELSE IF flags \notin 0 .. 15 \/ Len(payload) < at THEN Fail
        ELSE IF aq /\ ~ClipOk(payload[5], payload[6]) THEN Fail
        ELSE IF rev = 28 /\ Len(payload) = at THEN Fail
        ELSE IF coder \notin 0 .. 1 THEN Fail
        ELSE Ok([rev |-> rev, qp |-> payload[3], qpel |-> HasFlag(flags, 1), aq |-> aq,
                 clip |-> IF aq THEN <<payload[5], payload[6]>> ELSE <<1, TopQp>>,
                 v2 |-> rev \in {27, 28}, packed |-> HasFlag(flags, 8),
                 entropy |-> rev \in {20, 25, 28}, contexts |-> coder = 1, at |-> IF rev = 28 THEN at + 1 ELSE at])

DecodeVar(n, payload) ==
    LET opened == VarHead(payload)
        head == opened.val
        map == TakeTypes(head, n, payload, head.at)
        section == TakeUnitMvs(head, map.val.types, payload, map.val.next)
        subs == TakeSubs(head, map.val.types, section.val.mvs, payload, section.val.next)
    IN  IF ~opened.ok THEN Fail
        ELSE IF ~map.ok THEN Fail
        ELSE IF ~section.ok THEN Fail
        ELSE IF ~subs.ok THEN Fail
        ELSE IF ~EndsWith(subs.val.next, payload) THEN Fail
        ELSE Ok([index |-> payload[2], recs |-> subs.val.recs])
===============================================================================
