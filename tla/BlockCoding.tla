----------------------------- MODULE BlockCoding -----------------------------
(***************************************************************************)
(* residual_entropy.rs: one transform block on the wire.  A block in a     *)
(* plane is its prediction mode, its DC, the delta of its QP when the      *)
(* frame has one, and a tagged tail with the AC coefficients; a block of a *)
(* P or B frame is a chunk of its own, in one of four layouts.             *)
(*                                                                         *)
(* The wire is a sequence of integer cells.  `o` says how a block is to be *)
(* written: policy, context and tokens are the settings' residual_entropy, *)
(* residual_context_mode = ContextV1 and residual_token_mode = TokenV2.    *)
(***************************************************************************)
EXTENDS Residuals, Decisions

-------------------------------------------------------------------------------
(* transform_layout.rs: the order in which the coefficients of a block are  *)
(* written, and the compact body: the places of the coefficients that are   *)
(* not zero, then their values.                                             *)
(*                                                                         *)
(* A block in natural order is a function of 0 .. Cells - 1.  With          *)
(* "Single8x8" that is one raster of Side rows; with "Four4x4" it is four   *)
(* quadrants, a raster each, one after another.                             *)

CONSTANTS
    Side,           \* 8
    ZigZag,         \* ZIGZAG: the natural indices of one raster of Side rows
    ZigZagQuarter,  \* ZIGZAG_4X4: those of a quadrant
    TrailingZeros,  \* 48: so many zeros at the end make a run-optimized scan
    FewCoeffs,      \* 8: so few coefficients make a grouped scan
    EnergyDetail,   \* 5000: hf_energy_select_tx4x4
    VarianceDetail, \* 400: variance_select_tx4x4
    SparseMax,      \* 10, SPATIAL_SPARSE_NZ_MAX
    SparseVariance, \* 120, SPATIAL_SPARSE_VAR_MAX
    SideBytes       \* 1, FOUR4X4_PER_SUBBLOCK_SIDE_BYTES

Cells == Side * Side
Quarter == Cells \div 4
Natural == 0 .. Cells - 1

ASSUME TransformLayoutAssumption ==
    /\ Side \in Nat \ {0} /\ Side % 2 = 0
    /\ IsInjective(ZigZag) /\ {ZigZag[i] : i \in DOMAIN ZigZag} = Natural
    /\ IsInjective(ZigZagQuarter) /\ {ZigZagQuarter[i] : i \in DOMAIN ZigZagQuarter} = 0 .. Quarter - 1

Kinds == {"Tx8x8", "Tx4x4"}
Scans == {"ZigZag", "GroupedLowFirst", "RunOptimized"}

NonZero(freq) == {i \in Natural : freq[i] # 0}

\* zigzag_perm: from 1, the natural index the scan visits at each place
ZigZagOf(kind) ==
    IF kind = "Tx8x8" THEN ZigZag
    ELSE [s \in 1 .. Cells |-> ((s - 1) \div Quarter) * Quarter + ZigZagQuarter[((s - 1) % Quarter) + 1]]

\* grouped_low_first_perm: by the distance from the corner of the raster or quadrant
DistanceOf(kind, i) ==
    IF kind = "Tx8x8" THEN (i \div Side) + (i % Side)
    ELSE LET within == i % Quarter IN (within \div (Side \div 2)) + (within % (Side \div 2))
GroupedOf(kind) ==
    LET quadrant(i) == IF kind = "Tx8x8" THEN 0 ELSE i \div Quarter
        Before(i, j) == \/ quadrant(i) < quadrant(j)
                        \/ /\ quadrant(i) = quadrant(j)
                           /\ \/ DistanceOf(kind, i) < DistanceOf(kind, j)
                              \/ DistanceOf(kind, i) = DistanceOf(kind, j) /\ i < j
    IN  [s \in 1 .. Cells |-> CHOOSE i \in Natural : Cardinality({j \in Natural : Before(j, i)}) = s - 1]

\* run_optimized_perm: what is not zero first; it needs the places, not the values
RunOptimizedOf(kind, occupied) ==
    SelectSeq(ZigZagOf(kind), LAMBDA i : i \in occupied)
        \o SelectSeq(ZigZagOf(kind), LAMBDA i : i \notin occupied)

\* scan_permutation
Permutation(kind, scan, occupied) ==
    CASE scan = "ZigZag" -> ZigZagOf(kind)
      [] scan = "GroupedLowFirst" -> GroupedOf(kind)
      [] scan = "RunOptimized" -> RunOptimizedOf(kind, occupied)

\* reorder_coefficients_for_scan and restore_coefficients_from_scan
Reorder(freq, kind, scan) == [s \in 1 .. Cells |-> freq[Permutation(kind, scan, NonZero(freq))[s]]]
Restore(scanned, freq, kind, scan) ==
    LET perm == Permutation(kind, scan, NonZero(freq))
    IN  [i \in Natural |-> scanned[CHOOSE s \in 1 .. Cells : perm[s] = i]]

\* choose_coeff_scan
ChooseScan(freq, kind) ==
    LET zz == ZigZagOf(kind)
        trailing == CHOOSE t \in 0 .. Cells :
            /\ \A s \in Cells - t + 1 .. Cells : freq[zz[s]] = 0
            /\ t = Cells \/ freq[zz[Cells - t]] # 0
    IN  IF trailing >= TrailingZeros THEN "RunOptimized"
        ELSE IF Cardinality(NonZero(freq)) <= FewCoeffs THEN "GroupedLowFirst"
        ELSE "ZigZag"

\* choose_transform_kind, from the texture of the block before the transform
ChooseKind(variance, energy) ==
    IF variance >= VarianceDetail \/ energy >= EnergyDetail THEN "Tx4x4" ELSE "Tx8x8"

\* choose_transform_grouping
ChooseGrouping(grouping, variance, energy) ==
    CASE grouping = "Single8x8" -> "Tx8x8"
      [] grouping = "Four4x4" -> "Tx4x4"
      [] grouping = "AutoByResidual" -> ChooseKind(variance, energy)

\* classify_residual_block
Classify(spatial, variance) ==
    CASE NonZero(spatial) = {} -> "Zero"
      [] NonZero(spatial) # {} /\ \A i \in Natural : spatial[i] = spatial[0] -> "DcOnly"
      [] \E i \in Natural : spatial[i] # spatial[0] ->
            IF Cardinality(NonZero(spatial)) <= SparseMax /\ variance < SparseVariance
            THEN "Sparse" ELSE "Dense"

-------------------------------------------------------------------------------
(* The compact body: one field for the places, one for each value.         *)

Bitmap(freq) ==
    LET sum[n \in 0 .. Cells] == IF n = 0 THEN 0 ELSE sum[n - 1] + IF freq[n - 1] # 0 THEN 2 ^ (n - 1) ELSE 0
    IN  sum[Cells]
Places(bitmap) == {i \in Natural : (bitmap \div 2 ^ i) % 2 = 1}

\* encode_coeff_compact_rev32_intra_block
EncodeCompact(freq, kind, scan) ==
    LET order == SelectSeq(Permutation(kind, scan, NonZero(freq)), LAMBDA i : freq[i] # 0)
    IN  <<Bitmap(freq)>> \o [s \in DOMAIN order |-> freq[order[s]]]

\* decode_coeff_compact_rev32_intra_block: the order is rebuilt from the places
DecodeCompact(body, kind, scan) ==
    LET places == Places(body[1])
        order == SelectSeq(Permutation(kind, scan, places), LAMBDA i : i \in places)
    IN  IF body = <<>> THEN [ok |-> FALSE]
        ELSE IF Len(body) # 1 + Cardinality(places) THEN [ok |-> FALSE]
        ELSE [ok |-> TRUE,
              val |-> [i \in Natural |->
                        IF i \in places THEN body[1 + CHOOSE s \in DOMAIN order : order[s] = i] ELSE 0]]

\* encode_coeff_layout_compact_v1 and decode_coeff_layout_compact_v1: the tags
\* and the count, then the body in natural order; more may follow it
NaturalOrder(places) == SelectSeq([s \in 1 .. Cells |-> s - 1], LAMBDA i : i \in places)
EncodeNatural(freq) ==
    <<Bitmap(freq)>> \o [s \in 1 .. Cardinality(NonZero(freq)) |-> freq[NaturalOrder(NonZero(freq))[s]]]
DecodeNatural(body, exact) ==
    LET places == Places(body[1])
        value(i) == body[2 + Cardinality({j \in places : j < i})]
    IN  IF body = <<>> THEN [ok |-> FALSE]
        ELSE IF Len(body) < 1 + Cardinality(places) \/ (exact /\ Len(body) > 1 + Cardinality(places))
        THEN [ok |-> FALSE]
        ELSE [ok |-> TRUE, val |-> [i \in Natural |-> IF i \in places THEN value(i) ELSE 0]]

EncodeLayout(freq, kind, scan) == <<"S2TL", 1, kind, scan, 1, Cells>> \o EncodeNatural(freq)
DecodeLayout(blob) ==
    LET body == DecodeNatural(SubSeq(blob, 7, Len(blob)), FALSE)
    IN  IF Len(blob) < 7 THEN [ok |-> FALSE]
        ELSE IF \/ blob[1] # "S2TL" \/ blob[2] # 1 \/ blob[3] \notin Kinds \/ blob[4] \notin Scans
                \/ blob[5] # 1 \/ blob[6] # Cells \/ ~body.ok
        THEN [ok |-> FALSE]
        ELSE [ok |-> TRUE, val |-> [kind |-> blob[3], scan |-> blob[4], freq |-> body.val]]

-------------------------------------------------------------------------------
(* Bytes, as the choice between one transform and four counts them.        *)

BitsOf(v) == LET a == IF v < 0 THEN -v ELSE v IN CHOOSE b \in 1 .. 16 : a < 2 ^ b /\ a >= 2 ^ (b - 1)

\* legacy_byte_estimate and compact_v1_byte_estimate_natural
LegacyBytes(freq) ==
    LET bits[n \in 0 .. Cells] ==
            IF n = 0 THEN 0 ELSE bits[n - 1] + IF freq[n - 1] = 0 THEN 2 ELSE 4 + BitsOf(freq[n - 1])
    IN  (bits[Cells] + 7) \div 8 + 10
CompactBytes(freq) == 10 + 8 + 2 * Cardinality(NonZero(freq))

\* total_rdo_rate_bytes of estimate_single8x8_cost and estimate_four4x4_cost
RateOf(freq, kind) ==
    1 + 1 + 1 + 2 + (8 + 2 * Cardinality(NonZero(freq))) + LegacyBytes(freq)
        + IF kind = "Tx4x4" THEN 4 * SideBytes ELSE 0

\* compare_single8x8_vs_four4x4: four transforms must be cheaper
PrefersFour(single, four) == RateOf(four, "Tx4x4") < RateOf(single, "Tx8x8")

-------------------------------------------------------------------------------
(* residual_entropy.rs: the layouts of a block.                             *)

ASSUME BlockCodingAssumption == Positions = Cells - 1

Modes == 0 .. 4
DcMode == 0
TagExplicit == 0
TagRans == 1
TagContext == 2
TagTokens == 5

Scanned(freq) == [dc |-> freq[0], ac |-> [p \in 1 .. Positions |-> freq[ZigZag[p + 1]]]]
Unscanned(block) ==
    [i \in Natural |-> IF i = 0 THEN block.dc
                       ELSE block.ac[(CHOOSE p \in 1 .. Positions : ZigZag[p + 1] = i)]]

\* whether a block counts as occupied for its neighbours
HasAc(freq, kind) ==
    \E i \in NonZero(freq) : IF kind = "Tx8x8" THEN i # 0 ELSE i % Quarter # 0

-------------------------------------------------------------------------------
(* The explicit coefficients: their number, then place and value.          *)

\* write_explicit_ac_only; with a quadrant's scan write_explicit_ac_only_4x4
WriteExplicit(freq, zigzag) ==
    LET order == SelectSeq(Tail(zigzag), LAMBDA i : freq[i] # 0)
    IN  <<Len(order)>> \o [c \in 1 .. 2 * Len(order) |->
                             IF c % 2 = 1 THEN order[(c + 1) \div 2] ELSE freq[order[c \div 2]]]

\* read_explicit_ac_only: of two values at one place the last stands
ReadExplicit(data, at, last) ==
    LET pairs == data[at + 1]
        place(i) == data[at + 2 * i]
        here(k) == {i \in 1 .. pairs : place(i) = k}
    IN  IF at >= Len(data) THEN Fail
        ELSE IF pairs \notin 0 .. last \/ at + 1 + 2 * pairs > Len(data) THEN Fail
        ELSE IF \E i \in 1 .. pairs : place(i) \notin 1 .. last THEN Fail
        ELSE Ok([ac |-> [k \in 1 .. last |->
                           IF here(k) = {} THEN 0
                           ELSE data[at + 1 + 2 * CHOOSE i \in here(k) : \A j \in here(k) : j <= i]],
                 next |-> at + 1 + 2 * pairs])

\* a block behind its length: what it holds and where it ends
ReadBlob(data, at) ==
    IF at >= Len(data) THEN Fail
    ELSE IF at + 1 + data[at + 1] > Len(data) THEN Fail
    ELSE Ok([blob |-> SubSeq(data, at + 2, at + 1 + data[at + 1]), next |-> at + 1 + data[at + 1]])

-------------------------------------------------------------------------------
(* The tail: which of the codings, and the coding.                         *)

ContextBlob(freq, o) == EncodeContext(Scanned(freq), o.plane, o.left, o.above)

\* the bytes of the tail in each coding
ExplicitBytes(freq) == 1 + 2 + 3 * Cardinality(NonZero(freq) \ {0})
RansBytes(choice) == 1 + 2 + 2 + Len(choice.val.bytes)
ContextBytes(blob) == 1 + 2 + (2 + blob.val[1] + (Len(blob.val) - 1))

\* pick_auto_three_way_fixed and .._rev7: the shortest, of equals the lowest tag
Shortest(freq, rans, context) ==
    LET explicit == ExplicitBytes(freq)
        byRans == rans.ok /\ RansBytes(rans) < explicit
        best == IF byRans THEN RansBytes(rans) ELSE explicit
    IN  IF ContextBytes(context) < best THEN TagContext
        ELSE IF byRans THEN TagRans ELSE TagExplicit

\* the checks of encode_intra_block_residual up to the coding, in their order
CodingOf(freq, o) ==
    LET rans == EncodeTokens(Scanned(freq))
        blob == ContextBlob(freq, o)
    IN  IF o.context
        THEN IF ~blob.ok \/ o.tokens \/ o.policy = "Explicit" THEN Fail
             ELSE IF o.policy = "Rans" \/ o.strict THEN Ok(TagContext)
             ELSE Ok(Shortest(freq, rans, blob))
        ELSE IF o.tokens THEN Ok(TagTokens)
        ELSE IF o.policy = "Explicit" THEN Ok(TagExplicit)
        ELSE IF o.policy = "Rans" THEN IF rans.ok THEN Ok(TagRans) ELSE Fail
        ELSE IF rans.ok /\ RansBytes(rans) < ExplicitBytes(freq) THEN Ok(TagRans)
        ELSE Ok(TagExplicit)

\* encode_intra_block_residual: what it writes after the tag
EncodeTail(freq, o, tag) ==
    LET Behind(blob) == <<Len(blob)>> \o blob
        rans == EncodeTokens(Scanned(freq)).val
        tokens == EncodeStructured(Scanned(freq), o.plane, o.left, o.above)
    IN  CASE tag = TagExplicit -> Ok(WriteExplicit(freq, ZigZag))
          [] tag = TagRans -> Ok(<<rans.count>> \o Behind(rans.bytes))
          [] tag = TagContext -> Ok(Behind(ContextBlob(freq, o).val))
          [] tag = TagTokens -> IF tokens.ok THEN Ok(Behind(tokens.val)) ELSE Fail

\* mode, DC, the delta when there is one, tag, tail: encode_intra_block_residual
\* and encode_intra_block_residual_rev7
EncodeBlock(mode, freq, delta, o) ==
    LET coding == CodingOf(freq, o)
        tail == EncodeTail(freq, o, coding.val)
        head == <<mode, freq[0]>> \o IF o.aq THEN <<delta>> ELSE <<>>
    IN  IF o.aq /\ delta \notin -WireDelta .. WireDelta THEN Fail
        ELSE IF ~coding.ok THEN Fail
        ELSE IF tail.ok THEN Ok(head \o <<coding.val>> \o tail.val) ELSE Fail

\* decode_intra_block_residual: the coefficients of a tail that starts after `at`
DecodeTail(data, at, tag, dc, o) ==
    LET Whole8(ac, next) == IF ac.ok THEN Ok([freq |-> Unscanned([dc |-> dc, ac |-> ac.val]), next |-> next])
                            ELSE Fail
        explicit == ReadExplicit(data, at, Positions)
        coded == ReadBlob(data, at + 1)
        blob == ReadBlob(data, at)
        structured == DecodeStructured(blob.val.blob, o.plane)
    IN  CASE tag = TagExplicit ->
               IF explicit.ok
               THEN Ok([freq |-> [i \in Natural |-> IF i = 0 THEN dc ELSE explicit.val.ac[i]],
                        next |-> explicit.val.next])
               ELSE Fail
          [] tag = TagRans ->
               IF at >= Len(data) \/ ~coded.ok THEN Fail
               ELSE Whole8(DecodeTokens(coded.val.blob, data[at + 1]), coded.val.next)
          [] tag = TagContext ->
               IF ~blob.ok THEN Fail
               ELSE Whole8(DecodeContext(blob.val.blob, o.plane, o.left, o.above, dc), blob.val.next)
          [] tag = TagTokens ->
               IF ~blob.ok THEN Fail
               ELSE IF structured.ok THEN Ok([freq |-> Unscanned(structured.val), next |-> blob.val.next])
               ELSE Fail
          [] OTHER -> Fail

\* decode_intra_block_residual, .._rev7 and the two strict forms, which accept
\* one tag alone (o.only)
DecodeBlock(data, at, o) ==
    LET head == IF o.aq THEN 4 ELSE 3
        tag == data[at + head]
        delta == IF o.aq THEN data[at + 3] ELSE 0
        tail == DecodeTail(data, at + head, tag, data[at + 2], o)
    IN  IF at + head > Len(data) THEN Fail
        ELSE IF data[at + 1] \notin Modes \/ delta \notin -WireDelta .. WireDelta THEN Fail
        ELSE IF tag \notin o.only THEN Fail
        ELSE IF ~tail.ok THEN Fail
        ELSE Ok([mode |-> data[at + 1], delta |-> delta, freq |-> tail.val.freq, next |-> tail.val.next])
AnyTag == {TagExplicit, TagRans, TagContext, TagTokens}

-------------------------------------------------------------------------------
(* Compact bodies with an explicit scan and transform.                     *)

ScanWire(scan) == CASE scan = "ZigZag" -> 0 [] scan = "GroupedLowFirst" -> 1 [] scan = "RunOptimized" -> 2
\* mutant: two scans confused
ScanOfSwapped(wire) == CASE wire = 1 -> "RunOptimized" [] wire = 2 -> "GroupedLowFirst" [] OTHER -> "ZigZag"
ScanOf(wire) == CHOOSE scan \in Scans : ScanWire(scan) = wire
KindWire(kind) == IF kind = "Tx4x4" THEN 0 ELSE 1
KindOf(wire) == CHOOSE kind \in Kinds : KindWire(kind) = wire

\* resolve_intra_compact_scan
ResolveScan(scanMode, freq, kind) == IF scanMode = "Auto" THEN ChooseScan(freq, kind) ELSE scanMode

\* rev32_intra_use_mixed_mb_transform
MixedTransforms(s) ==
    \/ s.grouping = "Four4x4"
    \/ s.grouping = "AutoByResidual" /\ s.decision \in {"ResidualAware", "RdoFast"}

\* choose_grouping_rdo_fast; c.sse is what each transform loses of the block
PickByRate(s, c, qp) ==
    LET Score(kind) == RdoScore(c.sse[kind], LambdaOf(s, AtLeastOne(qp)), RateOf(c.freq[kind], kind))
    IN  IF Score("Tx4x4") < Score("Tx8x8") THEN "Tx4x4" ELSE "Tx8x8"

\* intra_compact_pick_transform_kind
PickKind(s, c, qp) ==
    CASE s.grouping = "Legacy8x8" -> "Tx8x8"
      [] s.grouping = "Four4x4" -> "Tx4x4"
      [] s.grouping = "AutoByResidual" ->
            CASE s.decision = "Legacy" -> "Tx8x8"
              [] s.decision = "ResidualAware" -> ChooseKind(c.variance, c.energy)
              [] s.decision = "RdoFast" -> PickByRate(s, c, qp)

CompactBody(freq, kind, scan) ==
    LET body == EncodeCompact(freq, kind, scan) IN <<Len(body)>> \o body

\* a compact body after `at`
ReadCompact(data, at, kind, scan) ==
    LET blob == ReadBlob(data, at)
        body == DecodeCompact(blob.val.blob, kind, scan)
    IN  IF ~blob.ok THEN Fail
        ELSE IF body.ok THEN Ok([freq |-> body.val, next |-> blob.val.next]) ELSE Fail

-------------------------------------------------------------------------------
(* Chunks of P and B frames: layout, then a body that fills the chunk.     *)

\* encode_p_residual_chunk_with_opts
EncodeChunk(freq, o) ==
    LET explicit == <<DcMode, freq[0]>> \o WriteExplicit(freq, ZigZag)
        adaptive == EncodeBlock(DcMode, freq, 0, o)
        Size(tag) == IF tag = TagExplicit THEN ExplicitBytes(freq)
                      ELSE IF tag = TagRans THEN RansBytes(EncodeTokens(Scanned(freq)))
                      ELSE ContextBytes(ContextBlob(freq, o))
    IN  IF o.context /\ o.policy = "Explicit" THEN Fail
        ELSE IF o.policy = "Explicit" THEN Ok(<<0>> \o explicit)
        ELSE IF ~adaptive.ok THEN Fail
        ELSE IF \/ o.policy = "Rans" \/ o.tokens
                \/ o.context /\ o.strict
                \/ Size(CodingOf(freq, o).val) < ExplicitBytes(freq) - 1
        THEN Ok(<<1>> \o adaptive.val)
        ELSE Ok(<<0>> \o explicit)

\* encode_p_residual_chunk_compact_v33_wire and .._v35_wire
EncodeChunk33(freq, s) ==
    LET scan == ResolveScan(s.scan, freq, "Tx8x8")
    IN  <<2, DcMode, ScanWire(scan)>> \o CompactBody(freq, "Tx8x8", scan)
EncodeChunk35(freq, kind, s) ==
    LET scan == ResolveScan(s.scan, freq, kind)
    IN  <<4, KindWire(kind), ScanWire(scan), DcMode>> \o CompactBody(freq, kind, scan)

\* decode_p_residual_chunk_compact_v33
DecodeChunk33(chunk) ==
    LET body == ReadCompact(chunk, 3, "Tx8x8", ScanOf(chunk[3]))
    IN  IF Len(chunk) < 3 THEN Fail
        ELSE IF chunk[1] # 2 \/ chunk[2] \notin Modes \/ chunk[3] \notin 0 .. 2 THEN Fail
        ELSE IF ~body.ok THEN Fail
        ELSE IF body.val.next # Len(chunk) THEN Fail
        ELSE Ok([kind |-> "Tx8x8", freq |-> body.val.freq])

\* decode_p_residual_chunk_compact_v35
DecodeChunk35(chunk) ==
    LET kind == KindOf(chunk[2])
        body == ReadCompact(chunk, 4, kind, ScanOf(chunk[3]))
    IN  IF Len(chunk) < 4 THEN Fail
        ELSE IF chunk[1] # 4 \/ chunk[2] \notin 0 .. 1 \/ chunk[3] \notin 0 .. 2 \/ chunk[4] \notin Modes THEN Fail
        ELSE IF ~body.ok THEN Fail
        ELSE IF body.val.next # Len(chunk) THEN Fail
        ELSE Ok([kind |-> kind, freq |-> body.val.freq])

\* the adaptive body of a chunk, from its second cell: the strict forms
\* (rev30, rev37) require the layout that the others merely accept
DecodeAdaptive(chunk, o) ==
    LET block == DecodeBlock(chunk, 1, o)
    IN  IF ~block.ok THEN Fail
        ELSE IF block.val.next # Len(chunk) THEN Fail
        ELSE Ok([kind |-> "Tx8x8", freq |-> block.val.freq])
DecodeStrict(chunk, o) ==
    IF chunk = <<>> THEN Fail ELSE IF chunk[1] # 1 THEN Fail ELSE DecodeAdaptive(chunk, o)

\* decode_p_residual_chunk_with_neighbors
DecodeChunk(chunk, o) ==
    LET explicit == ReadExplicit(chunk, 3, Positions)
    IN  IF chunk = <<>> THEN Fail
        ELSE CASE chunk[1] = 2 -> DecodeChunk33(chunk)
               [] chunk[1] = 4 -> DecodeChunk35(chunk)
               [] chunk[1] = 1 -> DecodeAdaptive(chunk, o)
               [] chunk[1] = 0 ->
                    IF Len(chunk) < 3 \/ ~explicit.ok THEN Fail
                    ELSE IF chunk[2] \notin Modes \/ explicit.val.next # Len(chunk) THEN Fail
                    ELSE Ok([kind |-> "Tx8x8",
                             freq |-> [i \in Natural |-> IF i = 0 THEN chunk[3] ELSE explicit.val.ac[i]]])
               [] OTHER -> Fail

\* encode_p_residual_chunk_4x4 and decode_p_residual_chunk_4x4
EncodeChunk4(quarter) == <<0, DcMode, quarter[0]>> \o WriteExplicit(quarter, ZigZagQuarter)
DecodeChunk4(chunk) ==
    LET explicit == ReadExplicit(chunk, 3, Quarter - 1)
    IN  IF Len(chunk) < 3 THEN Fail
        ELSE IF chunk[1] # 0 \/ chunk[2] \notin Modes \/ ~explicit.ok THEN Fail
        ELSE IF explicit.val.next # Len(chunk) THEN Fail
        ELSE Ok([i \in 0 .. Quarter - 1 |-> IF i = 0 THEN chunk[3] ELSE explicit.val.ac[i]])
===============================================================================
