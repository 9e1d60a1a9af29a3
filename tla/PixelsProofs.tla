---------------------------- MODULE PixelsProofs ----------------------------
(***************************************************************************)
(* The decoder's samples are the encoder's, for every plane, every edge of  *)
(* the blocks and every transform.  The argument: prediction looks only at  *)
(* blocks before the one it predicts (EarlierBlocks, SameRebuilt), so a     *)
(* block of the encoder's plane is what its symbols make of the plane as it *)
(* is NOW (Settled), and the decoder, whose plane agrees on the blocks      *)
(* before, makes the same of them.                                          *)
(***************************************************************************)
EXTENDS Pixels, SequenceTheorems, TLAPS

\* two planes agree on the blocks before n
SameBefore(a, b, n) == \A p \in PaddedPlane : BlockAt(p) < n => a[p] = b[p]

\* each block of the encoder's plane is what its symbols make of that plane
Settled ==
    \A n \in 0 .. Len(sentBlocks) - 1 : \A p \in PaddedPlane :
        BlockAt(p) = n => recon[p] = Rebuilt(recon, n, sentBlocks[n + 1])[CellAt(p)]

Counted ==
    /\ sentBlocks \in Seq({sentBlocks[i] : i \in DOMAIN sentBlocks}) /\ Len(sentBlocks) <= Blocks
    /\ decoded \in Nat /\ decoded <= Len(sentBlocks)

IInv == Counted /\ Settled /\ DecoderHasEncodersSamples

-------------------------------------------------------------------------------
(* Where a block's neighbours lie.                                         *)

\* A quotient and a remainder give the number back, and are given back by it.
LEMMA Split ==
    ASSUME NEW d \in Nat \ {0}, NEW m \in Nat
    PROVE  m \div d \in Nat /\ m % d \in 0 .. d - 1 /\ (m \div d) * d + (m % d) = m
BY SMT

LEMMA Join ==
    ASSUME NEW d \in Nat \ {0}, NEW q \in Nat, NEW r \in 0 .. d - 1
    PROVE  (d * q + r) \div d = q
BY SMT

\* The position before the first of a row of cells lies in the row before.
LEMMA Before ==
    ASSUME NEW d \in Nat \ {0}, NEW q \in Nat, d * q - 1 >= 0
    PROVE  q - 1 \in Nat /\ (d * q - 1) \div d = q - 1
<1>1. q >= 1
    BY SMT
<1>2. d * q - 1 = d * (q - 1) + (d - 1)
    BY SMT
<1>3. q - 1 \in Nat /\ d - 1 \in 0 .. d - 1
    BY <1>1, SMT
<1>4. (d * (q - 1) + (d - 1)) \div d = q - 1
    BY <1>3, Join
<1> QED
    BY <1>2, <1>3, <1>4

LEMMA SomeBlocks ==
    ASSUME PixelsOk
    PROVE  BlocksAcross \in Nat \ {0} /\ BlocksDown \in Nat \ {0} /\ BlockEdge \in Nat \ {0}
<1>1. BlockEdge \in Nat \ {0} /\ Width \in Nat \ {0} /\ Height \in Nat \ {0}
    BY DEF PixelsOk
<1>2. ASSUME NEW length \in Nat \ {0} PROVE (length + (BlockEdge - 1)) \div BlockEdge \in Nat \ {0}
    <2> DEFINE m == length + (BlockEdge - 1)
    <2>1. m \in Nat /\ m >= BlockEdge
        BY <1>1, SMT
    <2>2. /\ m \div BlockEdge \in Nat /\ m % BlockEdge \in 0 .. BlockEdge - 1
          /\ (m \div BlockEdge) * BlockEdge + (m % BlockEdge) = m
        <3> HIDE DEF m
        <3> QED  BY <1>1, <2>1, Split
    <2>3. m \div BlockEdge # 0
        <3> HIDE DEF m
        <3> QED  BY <1>1, <2>1, <2>2, SMT
    <2> QED
        BY <2>2, <2>3
<1> QED
    BY <1>1, <1>2 DEF BlocksAcross, BlocksDown

LEMMA BlockAtNat ==
    ASSUME PixelsOk, NEW p \in PaddedPlane
    PROVE  BlockAt(p) \in Nat
<1>1. p[1] \in Nat /\ p[2] \in Nat
    BY DEF PaddedPlane
<1>2. p[1] \div BlockEdge \in Nat /\ p[2] \div BlockEdge \in Nat
    BY <1>1, SomeBlocks, Split
<1> QED
    BY <1>2, SomeBlocks, SMT DEF BlockAt

\* The row above a block, the column left of it and the corner between them
\* lie in blocks before it, where they lie in the plane.
LEMMA EarlierBlocks ==
    ASSUME PixelsOk, NEW n \in Nat, NEW i \in 0 .. BlockEdge - 1
    PROVE  /\ <<Column(n) + i, Row(n) - 1>> \in PaddedPlane => BlockAt(<<Column(n) + i, Row(n) - 1>>) < n
           /\ <<Column(n) - 1, Row(n) + i>> \in PaddedPlane => BlockAt(<<Column(n) - 1, Row(n) + i>>) < n
           /\ <<Column(n) - 1, Row(n) - 1>> \in PaddedPlane => BlockAt(<<Column(n) - 1, Row(n) - 1>>) < n
<1> DEFINE x == n % BlocksAcross
           y == n \div BlocksAcross
<1>1. x \in Nat /\ y \in Nat /\ y * BlocksAcross + x = n
    <2>1. x \in 0 .. BlocksAcross - 1 /\ y \in Nat /\ y * BlocksAcross + x = n
        BY SomeBlocks, Split
    <2> QED
        BY <2>1
<1>2. Column(n) = BlockEdge * x /\ Row(n) = BlockEdge * y
    BY DEF Column, Row
<1> HIDE DEF x, y
<1>3. BlockEdge \in Nat \ {0} /\ BlocksAcross \in Nat \ {0} /\ i \in 0 .. BlockEdge - 1
    BY SomeBlocks
<1>4. (BlockEdge * x + i) \div BlockEdge = x /\ (BlockEdge * y + i) \div BlockEdge = y
    BY <1>1, <1>3, Join
<1>5. ASSUME BlockEdge * x - 1 >= 0 PROVE x - 1 \in Nat /\ (BlockEdge * x - 1) \div BlockEdge = x - 1
    BY <1>1, <1>3, <1>5, Before
<1>6. ASSUME BlockEdge * y - 1 >= 0 PROVE y - 1 \in Nat /\ (BlockEdge * y - 1) \div BlockEdge = y - 1
    BY <1>1, <1>3, <1>6, Before
<1>7. (y - 1) * BlocksAcross + x < n /\ y * BlocksAcross + (x - 1) < n /\ (y - 1) * BlocksAcross + (x - 1) < n
    <2>1. (y - 1) * BlocksAcross = y * BlocksAcross - BlocksAcross /\ y * BlocksAcross \in Nat
        BY <1>1, <1>3, SMT
    <2> QED
        BY <1>1, <1>3, <2>1, SMT
<1>8. ASSUME <<Column(n) + i, Row(n) - 1>> \in PaddedPlane
      PROVE  BlockAt(<<Column(n) + i, Row(n) - 1>>) < n
    <2>1. BlockEdge * y - 1 >= 0
        BY <1>2, <1>8 DEF PaddedPlane
    <2> QED
        BY <1>2, <1>4, <1>6, <1>7, <2>1 DEF BlockAt
<1>9. ASSUME <<Column(n) - 1, Row(n) + i>> \in PaddedPlane
      PROVE  BlockAt(<<Column(n) - 1, Row(n) + i>>) < n
    <2>1. BlockEdge * x - 1 >= 0
        BY <1>2, <1>9 DEF PaddedPlane
    <2> QED
        BY <1>2, <1>4, <1>5, <1>7, <2>1 DEF BlockAt
<1>10. ASSUME <<Column(n) - 1, Row(n) - 1>> \in PaddedPlane
       PROVE  BlockAt(<<Column(n) - 1, Row(n) - 1>>) < n
    <2>1. BlockEdge * x - 1 >= 0 /\ BlockEdge * y - 1 >= 0
        BY <1>2, <1>10 DEF PaddedPlane
    <2> QED
        BY <1>2, <1>5, <1>6, <1>7, <2>1 DEF BlockAt
<1> QED
    BY <1>8, <1>9, <1>10

\* What a block's symbols make of a plane depends on the blocks before it only.
LEMMA SameRebuilt ==
    ASSUME PixelsOk, NEW a, NEW b, NEW n \in Nat, SameBefore(a, b, n), NEW block
    PROVE  Rebuilt(a, n, block) = Rebuilt(b, n, block)
<1>1. \A i \in 0 .. BlockEdge - 1 : Sample(a, Column(n) + i, Row(n) - 1) = Sample(b, Column(n) + i, Row(n) - 1)
    BY EarlierBlocks DEF Sample, SameBefore
<1>2. \A i \in 0 .. BlockEdge - 1 : Sample(a, Column(n) - 1, Row(n) + i) = Sample(b, Column(n) - 1, Row(n) + i)
    BY EarlierBlocks DEF Sample, SameBefore
<1>3. Sample(a, Column(n) - 1, Row(n) - 1) = Sample(b, Column(n) - 1, Row(n) - 1)
    <2>1. 0 \in 0 .. BlockEdge - 1
        BY SomeBlocks, SMT
    <2> QED
        BY <2>1, EarlierBlocks DEF Sample, SameBefore
<1>4. Around(a, n) = Around(b, n)
    BY <1>1, <1>2, <1>3 DEF Around
<1> QED
    BY <1>4 DEF Rebuilt

\* Placing block n leaves the blocks before it as they are.
LEMMA PlacedKeeps ==
    ASSUME NEW rec, NEW n, NEW block
    PROVE  \A p \in PaddedPlane :
             Placed(rec, n, block)[p] = IF BlockAt(p) = n THEN Rebuilt(rec, n, block)[CellAt(p)] ELSE rec[p]
BY DEF Placed

-------------------------------------------------------------------------------
LEMMA InitInvariant ==
    ASSUME PixelsOk, PixelsInit
    PROVE  IInv
<1>1. Counted
    <2>1. Blocks \in Nat
        BY SomeBlocks, SMT DEF Blocks
    <2> QED
        BY <2>1 DEF PixelsInit, Counted
<1>2. Settled
    BY DEF PixelsInit, Settled
<1>3. DecoderHasEncodersSamples
    BY BlockAtNat, SMT DEF PixelsInit, DecoderHasEncodersSamples
<1> QED
    BY <1>1, <1>2, <1>3 DEF IInv

\* A block the encoder adds changes nothing before it, so that the blocks before
\* stay settled; the one it adds is settled because it looks only at those.
LEMMA EncodeInvariant ==
    ASSUME PixelsOk, IInv, NEW coding \in Codings, EncodeSamples(coding)
    PROVE  IInv'
<1> DEFINE n == Len(sentBlocks)
<1>1. PICK block : sentBlocks' = Append(sentBlocks, block) /\ recon' = Placed(recon, n, block)
    BY DEF EncodeSamples
<1>2. n < Blocks /\ decoded' = decoded /\ output' = output
    BY DEF EncodeSamples
<1>3. sentBlocks \in Seq({sentBlocks[i] : i \in DOMAIN sentBlocks}) /\ decoded \in Nat /\ decoded <= n /\ n \in Nat
    BY DEF IInv, Counted
<1>4. Len(sentBlocks') = n + 1 /\ sentBlocks'[n + 1] = block /\ \A i \in 1 .. n : sentBlocks'[i] = sentBlocks[i]
    BY <1>1, <1>3
<1>5. \A p \in PaddedPlane : BlockAt(p) # n => recon'[p] = recon[p]
    BY <1>1, PlacedKeeps
<1> HIDE DEF n
<1>6. Counted'
    <2>1. sentBlocks' \in Seq({sentBlocks'[i] : i \in DOMAIN sentBlocks'})
        <3>1. sentBlocks' \in Seq({sentBlocks[i] : i \in DOMAIN sentBlocks} \cup {block})
            BY <1>1, <1>3
        <3>2. DOMAIN sentBlocks' = 1 .. Len(sentBlocks')
            BY <3>1
        <3> QED
            BY <3>1, <3>2
    <2>2. Blocks \in Nat
        BY SomeBlocks, SMT DEF Blocks
    <2> QED
        BY <1>2, <1>3, <1>4, <2>1, <2>2 DEF Counted
<1>7. \A m \in 0 .. n : SameBefore(recon', recon, m)
    BY <1>3, <1>5, BlockAtNat DEF SameBefore
<1>8. Settled'
    <2> SUFFICES ASSUME NEW m \in 0 .. n, NEW p \in PaddedPlane, BlockAt(p) = m
                 PROVE  recon'[p] = Rebuilt(recon', m, sentBlocks'[m + 1])[CellAt(p)]
        BY <1>3, <1>4 DEF Settled
    <2>1. Rebuilt(recon', m, sentBlocks'[m + 1]) = Rebuilt(recon, m, sentBlocks'[m + 1])
        BY <1>3, <1>7, SameRebuilt
    <2>2. CASE m = n
        <3>1. recon'[p] = Rebuilt(recon, n, block)[CellAt(p)]
            BY <1>1, <2>2, PlacedKeeps DEF n
        <3> QED
            BY <1>4, <2>1, <2>2, <3>1
    <2>3. CASE m # n
        <3>1. m \in 0 .. n - 1 /\ m + 1 \in 1 .. n
            BY <1>3, <2>3
        <3>2. recon[p] = Rebuilt(recon, m, sentBlocks[m + 1])[CellAt(p)]
            BY <3>1 DEF IInv, Settled, n
        <3>3. recon'[p] = recon[p] /\ sentBlocks'[m + 1] = sentBlocks[m + 1]
            BY <1>4, <1>5, <2>3, <3>1
        <3> QED
            BY <2>1, <3>2, <3>3
    <2> QED
        BY <2>2, <2>3
<1>9. DecoderHasEncodersSamples'
    <2> SUFFICES ASSUME NEW p \in PaddedPlane, BlockAt(p) < decoded
                 PROVE  output[p] = recon'[p]
        BY <1>2 DEF DecoderHasEncodersSamples
    <2>1. BlockAt(p) # n
        BY <1>3, BlockAtNat
    <2> QED
        BY <1>5, <2>1 DEF IInv, DecoderHasEncodersSamples
<1> QED
    BY <1>6, <1>8, <1>9 DEF IInv

\* The block the decoder reads is what its symbols make of the decoder's plane;
\* that plane is the encoder's before the block, where the encoder's is settled.
LEMMA DecodeInvariant ==
    ASSUME PixelsOk, IInv, DecodeSamples
    PROVE  IInv'
<1>1. /\ decoded < Len(sentBlocks) /\ decoded' = decoded + 1
      /\ output' = Placed(output, decoded, sentBlocks[decoded + 1])
      /\ sentBlocks' = sentBlocks /\ recon' = recon
    BY DEF DecodeSamples
<1>2. decoded \in Nat /\ Len(sentBlocks) \in Nat
    BY DEF IInv, Counted
<1>3. Counted'
    BY <1>1, <1>2 DEF IInv, Counted
<1>4. Settled'
    BY <1>1 DEF IInv, Settled
<1>5. SameBefore(output, recon, decoded)
    BY DEF IInv, DecoderHasEncodersSamples, SameBefore
<1>6. Rebuilt(output, decoded, sentBlocks[decoded + 1]) = Rebuilt(recon, decoded, sentBlocks[decoded + 1])
    BY <1>2, <1>5, SameRebuilt
<1>7. DecoderHasEncodersSamples'
    <2> SUFFICES ASSUME NEW p \in PaddedPlane, BlockAt(p) < decoded + 1
                 PROVE  output'[p] = recon[p]
        BY <1>1 DEF DecoderHasEncodersSamples
    <2>1. CASE BlockAt(p) = decoded
        <3>1. output'[p] = Rebuilt(recon, decoded, sentBlocks[decoded + 1])[CellAt(p)]
            BY <1>1, <1>6, <2>1, PlacedKeeps
        <3>2. decoded \in 0 .. Len(sentBlocks) - 1
            BY <1>1, <1>2
        <3> QED
            BY <2>1, <3>1, <3>2 DEF IInv, Settled
    <2>2. CASE BlockAt(p) # decoded
        <3>1. output'[p] = output[p]
            BY <1>1, <2>2, PlacedKeeps
        <3>2. BlockAt(p) < decoded
            BY <1>2, <2>2, BlockAtNat
        <3> QED
            BY <3>1, <3>2, <1>5 DEF SameBefore
    <2> QED
        BY <2>1, <2>2
<1> QED
    BY <1>3, <1>4, <1>7 DEF IInv

LEMMA StepInvariant ==
    ASSUME PixelsOk, IInv, [PixelsNext]_pixelVars
    PROVE  IInv'
<1>1. ASSUME NEW coding \in Codings, EncodeSamples(coding)
      PROVE  IInv'
    BY <1>1, EncodeInvariant
<1>2. CASE DecodeSamples
    BY <1>2, DecodeInvariant
<1>3. ASSUME NEW strengths, Show(strengths)
      PROVE  IInv'
    BY <1>3 DEF Show, IInv, Counted, Settled, DecoderHasEncodersSamples
<1>4. CASE UNCHANGED pixelVars
    BY <1>4 DEF pixelVars, IInv, Counted, Settled, DecoderHasEncodersSamples
<1> QED
    BY <1>1, <1>2, <1>3, <1>4 DEF PixelsNext

\* The decoder has the encoder's samples in every block it has read, whatever
\* the plane, the block's edge, the transform and the quantisers
\* (encode_plane_intra and decode_plane_intra stay in step).
THEOREM SamplesStayInStep ==
    ASSUME PixelsOk
    PROVE  PixelsSpec => []DecoderHasEncodersSamples
<1>1. PixelsInit => IInv
    BY InitInvariant
<1>2. IInv /\ [PixelsNext]_pixelVars => IInv'
    BY StepInvariant
<1>3. IInv => DecoderHasEncodersSamples
    BY DEF IInv
<1> QED
    BY <1>1, <1>2, <1>3, PTL DEF PixelsSpec
===============================================================================
