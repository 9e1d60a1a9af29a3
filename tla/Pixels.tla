-------------------------------- MODULE Pixels --------------------------------
(***************************************************************************)
(* The samples behind an intra plane of SRSV2: prediction from what was     *)
(* reconstructed before, the transform of what prediction leaves, its       *)
(* quantisation, the reconstruction (intra_codec.rs, dct.rs), and the loop  *)
(* filter over the finished plane (deblock.rs).                             *)
(*                                                                         *)
(* The encoder works through the blocks of `source` row after row; the      *)
(* decoder follows it at any distance.  `sentBlocks` holds the blocks       *)
(* between them: how they are written and read back is the matter of        *)
(* BlockCoding.                                                             *)
(* A position is <<x, y>>, a cell of a block <<row, column>>.               *)
(***************************************************************************)
EXTENDS Integers, Sequences, FiniteSetsExt

CONSTANTS
    BlockEdge,      \* 8, the edge of a block
    Width, Height,  \* of the plane
    TopSample,      \* 255
    Grey,           \* 128: outside the plane, and what pads it
    Limit,          \* 32768: coefficients are 16 bits wide
    Basis, Divisor, \* the cosines: row k of the transform of a block, and the divisor of its sums
    QuarterBasis, QuarterDivisor,   \* the same for a quarter of a block
    Sources,        \* planes that may be encoded
    Codings         \* what the encoder may decide for a block: [kind, qp]

BlocksAcross == (Width + (BlockEdge - 1)) \div BlockEdge
BlocksDown == (Height + (BlockEdge - 1)) \div BlockEdge
Blocks == BlocksAcross * BlocksDown

\* the padded plane
PaddedPlane == (0 .. BlocksAcross * BlockEdge - 1) \X (0 .. BlocksDown * BlockEdge - 1)
Picture == (0 .. Width - 1) \X (0 .. Height - 1)

BlockCells == (0 .. BlockEdge - 1) \X (0 .. BlockEdge - 1)
HalfEdge == BlockEdge \div 2
QuarterCells == (0 .. HalfEdge - 1) \X (0 .. HalfEdge - 1)

\* what the code gives them, as far as it matters here
PixelsOk ==
    /\ BlockEdge \in Nat \ {0} /\ Width \in Nat \ {0} /\ Height \in Nat \ {0}
    /\ TopSample \in Nat /\ Grey \in 0 .. TopSample
    /\ Sources \subseteq [Picture -> 0 .. TopSample]

VARIABLES
    source,         \* the plane that is encoded
    sentBlocks,     \* the blocks of the payload so far: [mode, kind, qp, freq]
    recon,          \* rec of the encoder
    decoded,        \* how many blocks the decoder has read
    output,         \* rec of the decoder
    shownPlane      \* <<>>, or <<the decoder's plane, filtered or not>>

pixelVars == <<source, sentBlocks, recon, decoded, output, shownPlane>>

Kept(v, low, high) == IF v < low THEN low ELSE IF v > high THEN high ELSE v
Sign(v) == IF v > 0 THEN 1 ELSE IF v < 0 THEN -1 ELSE 0
Absolute(v) == v * Sign(v)
Word(v) == Kept(v, -Limit, Limit - 1)
Gap(a, b) == Absolute(a - b)

-------------------------------------------------------------------------------
(* Prediction.                                                             *)

BlockAt(p) == (p[2] \div BlockEdge) * BlocksAcross + p[1] \div BlockEdge
CellAt(p) == <<p[2] % BlockEdge, p[1] % BlockEdge>>
Column(n) == BlockEdge * (n % BlocksAcross)
Row(n) == BlockEdge * (n \div BlocksAcross)

\* sample
Sample(rec, x, y) == IF <<x, y>> \in PaddedPlane THEN rec[<<x, y>>] ELSE Grey

\* what a block's prediction looks at
Around(rec, n) ==
    [top |-> [c \in 0 .. BlockEdge - 1 |-> Sample(rec, Column(n) + c, Row(n) - 1)],
     left |-> [r \in 0 .. BlockEdge - 1 |-> Sample(rec, Column(n) - 1, Row(n) + r)],
     corner |-> Sample(rec, Column(n) - 1, Row(n) - 1)]

\* PredMode, in the order pick_mode tries them
PredModes == <<"Dc", "Horizontal", "Vertical", "Planar", "Diagonal">>

\* predict_block
Predicted(mode, near) ==
    LET top(cell) == near.top[cell[2]]
        left(cell) == near.left[cell[1]]
        average == MapThenSumSet(LAMBDA i : near.top[i] + near.left[i], 0 .. BlockEdge - 1) \div (2 * BlockEdge)
    IN  [cell \in BlockCells |->
            CASE mode = "Dc" -> average
              [] mode = "Horizontal" -> left(cell)
              [] mode = "Vertical" -> top(cell)
              [] mode = "Planar" -> (top(cell) + left(cell)) \div 2
              [] mode = "Diagonal" -> Kept(top(cell) + left(cell) - near.corner, 0, TopSample)]

\* the block of the source, padded
Original(n) ==
    [cell \in BlockCells |->
        LET p == <<Column(n) + cell[2], Row(n) + cell[1]>>
        IN  IF p \in Picture THEN source[p] ELSE Grey]

\* satd_mode and pick_mode: the first mode that leaves least
PickMode(near, original) ==
    LET left == [i \in DOMAIN PredModes |->
                    LET predicted == Predicted(PredModes[i], near)
                    IN  MapThenSumSet(LAMBDA cell : Gap(original[cell], predicted[cell]), BlockCells)]
    IN  PredModes[CHOOSE i \in DOMAIN PredModes :
                 \A j \in DOMAIN PredModes : left[i] < left[j] \/ (left[i] = left[j] /\ i <= j)]

-------------------------------------------------------------------------------
(* The transform: rows, then columns, rounded once at the end.             *)

\* f64::round of a sum of products of two cosines and a sample
Rounded(sum, scale) == Sign(sum) * ((2 * Absolute(sum) + scale) \div (2 * scale))

\* fdct_8x8, fdct_4x4
ForwardTransform(block, cells, basis, scale) ==
    [k \in cells |->
        Word(Rounded(MapThenSumSet(LAMBDA c : basis[k[1]][c[1]] * basis[k[2]][c[2]] * block[c], cells), scale))]

\* idct_8x8, idct_4x4
InverseTransform(freq, cells, basis, scale) ==
    [c \in cells |->
        Word(Rounded(MapThenSumSet(LAMBDA k : basis[k[1]][c[1]] * basis[k[2]][c[2]] * freq[k], cells), scale))]

\* the quarter of a block a cell lies in, and its place there
InQuarter(cell) == <<cell[1] % HalfEdge, cell[2] % HalfEdge>>
QuarterOf(block, cell) ==
    [c \in QuarterCells |-> block[<<cell[1] - (cell[1] % HalfEdge) + c[1], cell[2] - (cell[2] % HalfEdge) + c[2]>>]]

\* quantize, dequantize
Quantised(v, qp) ==
    LET q == IF qp < 1 THEN 1 ELSE qp
        raised == Absolute(v) + q \div 2
    IN  Word(Sign(v) * (raised \div q))
Dequantised(v, qp) == Word(v * IF qp < 1 THEN 1 ELSE qp)

\* quantize_residual_tx4x4_natural, or the block's transform as a whole
Spectrum(coding, difference) ==
    LET whole == ForwardTransform(difference, BlockCells, Basis, Divisor)
        quarter(cell) == ForwardTransform(QuarterOf(difference, cell), QuarterCells, QuarterBasis, QuarterDivisor)
    IN  [cell \in BlockCells |->
            Quantised(IF coding.kind = "Tx8x8" THEN whole[cell] ELSE quarter(cell)[InQuarter(cell)], coding.qp)]

\* idct_residual_tx4x4_from_qfreq and its counterpart
Residual(block) ==
    LET freq == [cell \in BlockCells |-> Dequantised(block.freq[cell], block.qp)]
        whole == InverseTransform(freq, BlockCells, Basis, Divisor)
        quarter(cell) == InverseTransform(QuarterOf(freq, cell), QuarterCells, QuarterBasis, QuarterDivisor)
    IN  [cell \in BlockCells |->
            IF block.kind = "Tx8x8" THEN whole[cell] ELSE quarter(cell)[InQuarter(cell)]]

\* a block of the reconstruction, and the plane with it
Rebuilt(rec, n, block) ==
    LET predicted == Predicted(block.mode, Around(rec, n))
        residual == Residual(block)
    IN  [cell \in BlockCells |-> Kept(predicted[cell] + residual[cell], 0, TopSample)]
Placed(rec, n, block) ==
    LET rebuilt == Rebuilt(rec, n, block)
    IN  [p \in PaddedPlane |-> IF BlockAt(p) = n THEN rebuilt[CellAt(p)] ELSE rec[p]]

-------------------------------------------------------------------------------
(* The loop filter.                                                        *)

\* strength_effective, edge_threshold
Effective(strength) == IF strength = 0 THEN 32 ELSE strength
Threshold(strength) == Kept(96 - (Effective(strength) * 3) \div 2, 4, 120)

\* blend_boundary_pair: what becomes of `a`, with `b` on the other side
Blended(a, b, strength) ==
    LET k == Kept(Effective(strength), 1, 128)
        middle == (a + b + 1) \div 2
    IN  IF Gap(a, b) > Threshold(strength) THEN a
        ELSE (a * (256 - k) + middle * k) \div 256

\* the position across the boundary of blocks, if p lies at one
AcrossColumn(p) == IF p[1] % BlockEdge = 0 THEN <<p[1] - 1, p[2]>> ELSE <<p[1] + 1, p[2]>>
AcrossRow(p) == IF p[2] % BlockEdge = 0 THEN <<p[1], p[2] - 1>> ELSE <<p[1], p[2] + 1>>

\* apply_loop_filter_y: the boundaries of columns, then those of rows
FilteredColumns(plane, strength) ==
    [p \in Picture |->
        IF p[1] % BlockEdge \in {0, BlockEdge - 1} /\ AcrossColumn(p) \in Picture
        THEN Blended(plane[p], plane[AcrossColumn(p)], strength) ELSE plane[p]]
FilteredRows(plane, strength) ==
    [p \in Picture |->
        IF p[2] % BlockEdge \in {0, BlockEdge - 1} /\ AcrossRow(p) \in Picture
        THEN Blended(plane[p], plane[AcrossRow(p)], strength) ELSE plane[p]]
Filtered(plane, strength) ==
    IF Width < 2 \/ Height < 2 THEN plane
    ELSE FilteredRows(FilteredColumns(plane, strength), strength)

Cropped(rec) == [p \in Picture |-> rec[p]]

-------------------------------------------------------------------------------
PixelsInit ==
    /\ source \in Sources
    /\ sentBlocks = <<>> /\ recon = [p \in PaddedPlane |-> Grey]
    /\ decoded = 0 /\ output = [p \in PaddedPlane |-> Grey]
    /\ shownPlane = <<>>

\* fault: the encoder goes on from the source instead of what the decoder will have
EncodeSamplesOpenLoop(coding) ==
    /\ Len(sentBlocks) < Blocks
    /\ \E near \in {Around(recon, Len(sentBlocks))}, original \in {Original(Len(sentBlocks))} :
       \E mode \in {PickMode(near, original)} :
       \E predicted \in {Predicted(mode, near)} :
       \E freq \in {Spectrum(coding, [cell \in BlockCells |-> original[cell] - predicted[cell]])} :
        /\ sentBlocks' = Append(sentBlocks, [mode |-> mode, kind |-> coding.kind, qp |-> coding.qp, freq |-> freq])
        /\ recon' = [p \in PaddedPlane |-> IF BlockAt(p) = Len(sentBlocks) THEN original[CellAt(p)] ELSE recon[p]]
    /\ UNCHANGED <<source, decoded, output, shownPlane>>

\* a turn of encode_plane_intra
EncodeSamples(coding) ==
    /\ Len(sentBlocks) < Blocks
    /\ \E near \in {Around(recon, Len(sentBlocks))}, original \in {Original(Len(sentBlocks))} :
       \E mode \in {PickMode(near, original)} :
       \E predicted \in {Predicted(mode, near)} :
       \E freq \in {Spectrum(coding, [cell \in BlockCells |-> original[cell] - predicted[cell]])} :
       \E block \in {[mode |-> mode, kind |-> coding.kind, qp |-> coding.qp, freq |-> freq]} :
        /\ sentBlocks' = Append(sentBlocks, block)
        /\ recon' = Placed(recon, Len(sentBlocks), block)
    /\ UNCHANGED <<source, decoded, output, shownPlane>>

\* a turn of decode_plane_intra
DecodeSamples ==
    /\ decoded < Len(sentBlocks)
    /\ output' = Placed(output, decoded, sentBlocks[decoded + 1])
    /\ decoded' = decoded + 1
    /\ UNCHANGED <<source, sentBlocks, recon, shownPlane>>

\* the plane is copied out, and filtered when the sequence asks for it
Show(strengths) ==
    /\ decoded = Blocks /\ shownPlane = <<>>
    /\ shownPlane' = <<IF strengths = <<>> THEN Cropped(output) ELSE Filtered(Cropped(output), strengths[1])>>
    /\ UNCHANGED <<source, sentBlocks, recon, decoded, output>>

PixelsNext ==
    \/ \E coding \in Codings : EncodeSamples(coding)
    \/ DecodeSamples
    \/ \E strengths \in {<<>>, <<0>>, <<64>>} : Show(strengths)

PixelsSpec == PixelsInit /\ [][PixelsNext]_pixelVars

-------------------------------------------------------------------------------
PixelsTypeOK ==
    /\ source \in Sources
    /\ decoded \in Nat /\ decoded <= Len(sentBlocks)
    /\ DOMAIN recon = PaddedPlane /\ DOMAIN output = PaddedPlane

\* However far the encoder is ahead, the samples the decoder has put together
\* are the ones the encoder predicted the later blocks from: prediction looks
\* at nothing that is not there yet on the other side (predict_block, and the
\* reconstruction in encode_plane_intra and decode_plane_intra).
DecoderHasEncodersSamples ==
    \A p \in PaddedPlane : BlockAt(p) < decoded => output[p] = recon[p]
===============================================================================
