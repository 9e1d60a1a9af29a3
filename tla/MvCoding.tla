------------------------------- MODULE MvCoding -------------------------------
(***************************************************************************)
(* The motion vectors of a P or B frame on the wire: predicted from their  *)
(* neighbours, written as signed varints, coded with one rANS table or with *)
(* the table that the size of the previous difference selects              *)
(* (inter_mv.rs, context_inter_entropy.rs).                                *)
(*                                                                         *)
(* A vector is <<x, y>>.  A frame has Cols macroblocks a row, numbered from *)
(* 0 in raster order; macroblock b has as many prediction units as its     *)
(* partition says, one in a frame of fixed macroblocks.                    *)
(***************************************************************************)
EXTENDS Coders

CONSTANT ByteFloor      \* 14, the frequency of every byte but 0

NoMotion == <<0, 0>>

Median(a, b, c) ==
    CHOOSE m \in {a, b, c} :
        \E low, high \in {a, b, c} : low <= m /\ m <= high /\ {a, b, c} = {low, m, high}

\* predict_mv_qpel: first[b] is the vector of block b, known below the block
Predict(b, cols, first) ==
    LET left == IF b % cols > 0 THEN first[b - 1] ELSE NoMotion
        top == IF b >= cols THEN first[b - cols] ELSE NoMotion
        topRight == IF b >= cols /\ (b % cols) + 1 < cols THEN first[b - cols + 1] ELSE NoMotion
    IN  [i \in 1 .. 2 |-> Median(left[i], top[i], topRight[i])]

\* validate_partition_reserved_bits and pu_count_partition_wire
PartitionUnits(type) ==
    CASE type = 0 -> Ok(1)
      [] type \in {1, 2} -> Ok(2)
      [] type = 3 -> Ok(4)
      [] OTHER -> Fail

\* total_partition_units_bounded; no sum of four a block passes the cap
PartitionsOK(types, n) == Len(types) = n /\ \A i \in 1 .. n : PartitionUnits(types[i]).ok
UnitsOf(types, b) == PartitionUnits(types[b + 1]).val
UnitsBefore(types, b) ==
    LET sum[k \in 0 .. b] == IF k = 0 THEN 0 ELSE sum[k - 1] + UnitsOf(types, k - 1)
    IN  sum[b]
TotalUnits(types) == UnitsBefore(types, Len(types))

\* the block of a prediction unit and the unit's place in it, both from 0
BlockOfUnit(types, u) ==
    CHOOSE b \in 0 .. Len(types) - 1 : UnitsBefore(types, b) <= u /\ u < UnitsBefore(types, b + 1)

\* what unit u is predicted from: the blocks around for the first of a block,
\* the unit before it for the others
PredictUnit(types, cols, units, u) ==
    LET b == BlockOfUnit(types, u)
        first == [k \in 0 .. b - 1 |-> units[UnitsBefore(types, k) + 1]]
    IN  IF u = UnitsBefore(types, b) THEN Predict(b, cols, first) ELSE units[u]

Minus(v, w) == <<v[1] - w[1], v[2] - w[2]>>
Plus(v, w) == <<v[1] + w[1], v[2] + w[2]>>

\* encode_mv_stream_partitioned
EncodeUnits(types, cols, n, units) ==
    LET bytes[u \in 0 .. Len(units)] ==
            IF u = 0 THEN <<>>
            ELSE LET d == Minus(units[u], PredictUnit(types, cols, units, u - 1))
                 IN  bytes[u - 1] \o WriteSigned(d[1]) \o WriteSigned(d[2])
    IN  IF ~PartitionsOK(types, n) \/ Len(units) # TotalUnits(types) THEN Fail
        ELSE Ok(bytes[Len(units)])

\* decode_mv_stream_partitioned; what it returns and the byte after it
DecodeUnits(types, cols, n, data, Limit) ==
    LET got[u \in 0 .. TotalUnits(types)] ==
            IF u = 0 THEN Ok([units |-> <<>>, next |-> 0])
            ELSE LET prior == got[u - 1]
                     before == prior.val
                     dx == ReadSigned(data, before.next)
                     dy == ReadSigned(data, dx.val.next)
                     mv == Plus(PredictUnit(types, cols, before.units, u - 1),
                                <<dx.val.value, dy.val.value>>)
                 IN  IF ~prior.ok THEN Fail
                     ELSE IF ~dx.ok \/ ~dy.ok THEN Fail
                     ELSE IF \E i \in 1 .. 2 : mv[i] \notin -Limit .. Limit THEN Fail
                     ELSE Ok([units |-> Append(before.units, mv), next |-> dy.val.next])
    IN  IF PartitionsOK(types, n) THEN got[TotalUnits(types)] ELSE Fail

\* encode_mv_grid_compact and decode_mv_grid_compact: one unit a block
Whole(n) == [i \in 1 .. n |-> 0]
EncodeGrid(cols, grid) == EncodeUnits(Whole(Len(grid)), cols, Len(grid), grid).val
DecodeGrid(cols, n, data, Limit) == DecodeUnits(Whole(n), cols, n, data, Limit)

-------------------------------------------------------------------------------
(* The tables.                                                             *)

ByteModel == [i \in 1 .. Byte |-> IF i = 1 THEN Scale - (Byte - 1) * ByteFloor ELSE ByteFloor]

\* model_for_ctx: a context moves some of the weight of byte 0 to byte 1
ModelForContext(context) ==
    LET t == IF (context * 11) % 64 < ByteModel[1] \div 4 THEN (context * 11) % 64 ELSE ByteModel[1] \div 4
    IN  [ByteModel EXCEPT ![1] = @ - t, ![2] = @ + t]
ContextModels == [i \in 1 .. 16 |-> ModelForContext(i - 1)]

\* rans_encode_mv_bytes, rans_decode_mv_bytes
EncodeBytes(bytes) == RansEncode(<<ByteModel>>, bytes, Same(Len(bytes)))
DecodeBytes(blob, count, budget) == RansDecode(<<ByteModel>>, blob, Same(count), budget)

-------------------------------------------------------------------------------
(* ContextV1: the difference before selects the table of both varints of   *)
(* the next.  The encoder has the whole stream to label; the decoder learns *)
(* a byte at a time.                                                       *)

Abs(n) == IF n < 0 THEN -n ELSE n
Bucket(d) ==
    CASE Abs(d) = 0 -> 0
      [] Abs(d) \in 1 .. 8 -> 1
      [] Abs(d) \in 9 .. 32 -> 2
      [] OTHER -> 3
ContextOf(d) == Bucket(d[1]) * 4 + Bucket(d[2])
\* fixed_grid_context_labels, partitioned_context_labels: a label a byte, for
\* exactly `units` differences
Labels(bytes, units) ==
    LET seen[u \in 0 .. units] ==
            IF u = 0 THEN Ok([labels |-> <<>>, next |-> 0, prev |-> NoMotion])
            ELSE LET prior == seen[u - 1]
                     before == prior.val
                     dx == ReadSigned(bytes, before.next)
                     dy == ReadSigned(bytes, dx.val.next)
                     run == [i \in 1 .. dy.val.next - before.next |-> ContextOf(before.prev)]
                 IN  IF ~prior.ok THEN Fail
                     ELSE IF ~dx.ok \/ ~dy.ok THEN Fail
                     ELSE Ok([labels |-> before.labels \o run, next |-> dy.val.next,
                              prev |-> <<dx.val.value, dy.val.value>>])
        all == seen[units]
    IN  IF ~all.ok THEN Fail
        ELSE IF all.val.next # Len(bytes) THEN Fail
        ELSE Ok(all.val.labels)

\* encode_mv_context_v1_fixed (types is Whole) and .._partitioned
EncodeWithContexts(bytes, types, n) ==
    LET labels == Labels(bytes, TotalUnits(types))
    IN  IF ~PartitionsOK(types, n) \/ ~labels.ok THEN Fail
        ELSE RansEncode(ContextModels, bytes, labels.val)

\* MvFixedCtxParse and MvPartitionCtxParse: what the decoder knows of the
\* stream, `unit` the differences complete so far
NewParse == [prev |-> NoMotion, hold |-> 0, x |-> TRUE, buf |-> <<>>, unit |-> 0]
PushByte(parse, byte) ==
    LET buf == Append(parse.buf, byte)
        read == ReadSigned(buf, 0)
    IN  IF ~read.ok THEN Ok([parse EXCEPT !.buf = buf])
        ELSE IF read.val.next # Len(buf) THEN Fail
        ELSE IF parse.x
        THEN Ok([parse EXCEPT !.buf = <<>>, !.hold = read.val.value, !.x = FALSE])
        ELSE Ok([prev |-> <<parse.hold, read.val.value>>, hold |-> parse.hold, x |-> TRUE,
                 buf |-> <<>>, unit |-> parse.unit + 1])

\* decode_mv_compact_streaming_fixed, .._partitioned
DecodeWithContexts(blob, count, types, n, budget) ==
    LET opened == RansReader(blob)
        after[k \in 0 .. count] ==
            IF k = 0 THEN Ok([bytes |-> <<>>, parse |-> NewParse, reader |-> opened.val])
            ELSE LET prior == after[k - 1]
                     before == prior.val
                     step == RansStep(ContextModels[ContextOf(before.parse.prev) + 1],
                                      before.reader, blob, budget)
                     parse == PushByte(before.parse, step.val.symbol)
                 IN  IF ~prior.ok THEN Fail
                     ELSE IF ~step.ok THEN Fail
                     ELSE IF ~parse.ok THEN Fail
                     ELSE Ok([bytes |-> Append(before.bytes, step.val.symbol),
                              parse |-> parse.val, reader |-> step.val.reader])
        all == after[count]
    IN  IF ~PartitionsOK(types, n) \/ ~opened.ok THEN Fail
        ELSE IF ~all.ok THEN Fail
        ELSE IF all.val.reader.next # Len(blob) THEN Fail
        ELSE Ok(all.val.bytes)
===============================================================================
