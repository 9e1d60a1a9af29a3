------------------------------ MODULE Decisions ------------------------------
(***************************************************************************)
(* The choices of the encoder.  The ones that weigh distortion against     *)
(* bytes (rdo.rs and the lambda of rate_control.rs): scores are in units of *)
(* distortion; a lambda of 256 makes a byte worth one of them.             *)
(*                                                                         *)
(* The searches for a motion vector (motion_search.rs) and its refinement  *)
(* to half pixels (subpel.rs): what is searched is given by `sad`, a       *)
(* function from vectors in quarter pixels to the sum of absolute           *)
(* differences they leave.  A search in whole pixels looks at multiples of  *)
(* four.                                                                   *)
(***************************************************************************)
EXTENDS Quantizers, MvCoding

CONSTANT MaxPels        \* 127: MAX_MOTION_VECTOR_PELS

ASSUME DecisionsAssumption == MaxPels \in Nat

-------------------------------------------------------------------------------
(* Distortion against bytes.                                               *)

\* rdo_lambda_fp_from_qp: 217 / 256 doubled with every third quantiser above 12
LambdaFromQp(qp) ==
    LET exp == Clamp(Truncated(qp - 12, 3), -8, 16)
        pow == IF exp >= 0 THEN 256 * 2 ^ exp ELSE 256 \div 2 ^ (-exp)
    IN  (217 * pow) \div 256

\* rdo_lambda_effective
LambdaOf(s, qp) == (LambdaFromQp(qp) * s.lambdaScale) \div 256

AtLeastZero(n) == IF n < 0 THEN 0 ELSE n

\* rdo_score
RdoScore(distortion, lambda, bytes) == distortion + (lambda * AtLeastZero(bytes)) \div 256

\* choose_best_inter_mode_candidate: the row of [distortion, bytes] with the lowest
\* score, of equals the lower distortion, the fewer bytes, the first
BestRow(lambda, rows) ==
    LET Score(i) == RdoScore(rows[i].distortion, lambda, rows[i].bytes)
        Key(i) == <<Score(i), rows[i].distortion, rows[i].bytes, i>>
        Before(a, b) == \E k \in 1 .. 4 : a[k] < b[k] /\ \A j \in 1 .. k - 1 : a[j] = b[j]
    IN  CHOOSE i \in DOMAIN rows : \A j \in DOMAIN rows \ {i} : Before(Key(i), Key(j))

\* choose_min_partition_by_precomputed_scores: of equal scores the lower tag
BestTag(scores) ==
    CHOOSE t \in DOMAIN scores :
        \A u \in DOMAIN scores \ {t} : scores[t] < scores[u] \/ (scores[t] = scores[u] /\ t < u)

\* estimate_mv_delta_wire_bytes; in the raw syntax a vector is two integers of two
\* or four bytes
MvBytes(s, at, cols, chosen, mv) ==
    LET d == Minus(mv, Predict(at, cols, chosen))
    IN  IF s.syntax = "RawLegacy" THEN IF s.subpel THEN 8 ELSE 4
        ELSE Len(WriteSigned(d[1])) + Len(WriteSigned(d[2]))

\* p_subblock_skip_residual_is_rdo_cheaper
SkipCheaper(max, lambda, bytes) == max * 256 <= lambda * AtLeastOne(bytes)

\* autofast_partition_mb_wire_cost: the bytes of a macroblock in so many units
PartitionBytes(units, mvBytes, residualBytes, aq) ==
    (CASE units = 1 -> 0 [] units = 2 -> 1 + 2 [] units = 4 -> 4 + 4)
        + mvBytes + residualBytes + IF aq THEN units - 1 ELSE 0

\* autofast_partition_mb_rdo_score
PartitionScore(s, distortion, lambda, bytes) ==
    RdoScore(distortion, (lambda * AtLeastOne(s.partitionBias)) \div 256, bytes)

\* partition_header_aware_rdo_score
HeaderAwareScore(s, distortion, lambda, bytes, splitPenalty, extra) ==
    PartitionScore(s, distortion, lambda, bytes)
        + (lambda * splitPenalty) \div 65536 + (lambda * s.headerPenalty * extra) \div 65536

\* b_blend_rdo_score
BlendScore(distortion, lambda, base, extra, halfPel) == RdoScore(distortion, lambda, base + extra + halfPel)

-------------------------------------------------------------------------------
(* The searches.                                                           *)

Quarters(pel) == <<4 * pel[1], 4 * pel[2]>>
Shifted(v, by) == <<v[1] + by[1], v[2] + by[2]>>
Within(v, r) == \A i \in 1 .. 2 : v[i] \in -r .. r

\* the first of `vectors` that leaves little enough or, if none does, the least:
\* what a scan with an early exit returns (exhaustive, hierarchical_search)
Scan(sad, vectors, early) ==
    LET least == Min({sad[Quarters(vectors[i])] : i \in DOMAIN vectors})
        enough == IF early > least THEN early ELSE least
    IN  vectors[SelectInSeq(vectors, LAMBDA v : sad[Quarters(v)] <= enough)]

\* the square of vectors around `centre`, column after column, those out of reach left out
Square(centre, half, step, r) ==
    LET side == 2 * half + 1
        all == [n \in 1 .. side * side |->
                  Shifted(centre, <<step * (((n - 1) \div side) - half), step * (((n - 1) % side) - half)>>)]
    IN  SelectSeq(all, LAMBDA v : Within(v, r))

DiamondSteps == << <<1, 0>>, <<-1, 0>>, <<0, 1>>, <<0, -1>> >>
HexSteps == << <<1, 0>>, <<1, -1>>, <<0, -1>>, <<-1, -1>>, <<-1, 0>>, <<-1, 1>>, <<0, 1>>, <<1, 1>> >>

\* one round of a walk: a step that improves is taken at once, and the next one
\* is tried from there
Round(sad, from, steps, r, early) ==
    LET upTo[n \in 0 .. Len(steps)] ==
            IF n = 0 THEN from
            ELSE LET at == upTo[n - 1]
                     to == Shifted(at, steps[n])
                 IN  IF /\ ~(early > 0 /\ sad[Quarters(at)] <= early)
                        /\ Within(to, r)
                        /\ sad[Quarters(to)] < sad[Quarters(at)]
                     THEN to ELSE at
    IN  upTo[Len(steps)]

\* rounds until one improves nothing (diamond_search, hex_search)
Walk(sad, steps, r, early) ==
    LET from[v \in (-r .. r) \X (-r .. r)] ==
            LET to == Round(sad, v, steps, r, early) IN IF to = v THEN v ELSE from[to]
    IN  from[<<0, 0>>]

\* pick_mv
PickMv(search, sad, radius, early) ==
    LET r == IF radius < 0 THEN 0 ELSE IF radius > MaxPels THEN MaxPels ELSE radius
        whole == Square(<<0, 0>>, r, 1, r)
        coarse == Scan(sad, Square(<<0, 0>>, r \div 2, 2, r), early)
    IN  CASE search = "None" -> <<0, 0>>
          [] search = "ExhaustiveSmall" -> Scan(sad, whole, early)
          [] search = "Diamond" -> Walk(sad, DiamondSteps, r, early)
          [] search = "Hex" -> Walk(sad, HexSteps, r, early)
          [] search = "Hierarchical" ->
                IF r <= 2 THEN Scan(sad, whole, early)
                ELSE IF early > 0 /\ sad[Quarters(coarse)] <= early THEN coarse
                ELSE Scan(sad, Square(coarse, 2, 1, r), early)

\* pick_mv_rect: the walk over eight directions and the coarse grid are not
\* offered for a part of a macroblock
PickMvRect(search, sad, radius, early) ==
    PickMv(IF search \in {"Hex", "Hierarchical"} THEN "ExhaustiveSmall" ELSE search, sad, radius, early)

\* refine_half_pel_center: the best of the vector and the eight half pixels around it
HalfPels == << <<-2, -2>>, <<0, -2>>, <<2, -2>>, <<-2, 0>>, <<2, 0>>, <<-2, 2>>, <<0, 2>>, <<2, 2>> >>
RefineHalfPel(sad, pel, radius) ==
    LET upTo[n \in 0 .. 8] ==
            IF n = 0 THEN Quarters(pel)
            ELSE LET best == upTo[n - 1]
                     to == Shifted(Quarters(pel), HalfPels[n])
                 IN  IF Within(to, 4 * MaxPels) /\ sad[to] < sad[best] THEN to ELSE best
    IN  IF radius = 0 THEN Quarters(pel) ELSE upTo[8]
==============================================================================
