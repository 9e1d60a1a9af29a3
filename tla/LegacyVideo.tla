----------------------------- MODULE LegacyVideo -----------------------------
(***************************************************************************)
(* The codec of .srsv streams: gray frames, each by itself, in blocks of   *)
(* BlockSize by BlockSize samples (crates/libsrs_video/src/codec.rs).      *)
(***************************************************************************)
EXTENDS Coders, FiniteSetsExt

LOCAL INSTANCE SequencesExt

CONSTANT BlockSize      \* 8

ASSUME LegacyVideoAssumption == BlockSize \in 1 .. Byte - 1

CountBytes == 4
SampleBytes == 2        \* of a difference that no tag holds
LegacyFrame(width, height, type, pixels) ==
    [width |-> width, height |-> height, type |-> type, pixels |-> pixels]

\* the positions of a block's samples, row by row, cut at the picture's edges
BlockPositions(width, height, bx, by) ==
    LET across == Min({BlockSize, width - bx})
        down == Min({BlockSize, height - by})
    IN  [i \in 1 .. across * down |-> (by + (i - 1) \div across) * width + bx + ((i - 1) % across)]

\* the blocks, row by row
Blocks(width, height) ==
    LET columns == (width + BlockSize - 1) \div BlockSize
        rows == (height + BlockSize - 1) \div BlockSize
    IN  [i \in 1 .. columns * rows |->
            BlockPositions(width, height, ((i - 1) % columns) * BlockSize, ((i - 1) \div columns) * BlockSize)]

\* encode_frame and encode_residual_blocks
EncodeLegacyFrame(frame) ==
    LET blocks == Blocks(frame.width, frame.height)
        cells(block) == EncodeRuns([i \in DOMAIN block |-> frame.pixels[block[i] + 1]], Half, SampleBytes)
    IN  IF Len(frame.pixels) # frame.width * frame.height \/ frame.type # "I" THEN Fail
        ELSE Ok(<<BlockSize>> \o Number(Len(frame.pixels), CountBytes)
                \o FlattenSeq([i \in DOMAIN blocks |-> cells(blocks[i])]))

\* decode_frame and decode_residual_blocks: every block starts from Half again
DecodeLegacyFrame(width, height, type, data) ==
    LET blocks == Blocks(width, height)
        head == 1 + CountBytes
        after[k \in 0 .. Len(blocks)] ==
            IF k = 0 THEN Ok([pixels |-> <<>>, next |-> head])
            ELSE LET got == after[k - 1]
                     block == DecodeRuns(data, [samples |-> <<>>, last |-> Half, next |-> got.val.next],
                                         Len(blocks[k]), SampleBytes, Bytes)
                 IN  IF ~got.ok THEN Fail
                     ELSE IF ~block.ok THEN Fail
                     ELSE Ok([pixels |-> got.val.pixels \o block.val.samples, next |-> block.val.next])
        all == after[Len(blocks)]
        order == FlattenSeq(blocks)
        placed == [p \in 1 .. width * height |-> all.val.pixels[CHOOSE i \in DOMAIN order : order[i] = p - 1]]
    IN  IF type # "I" \/ Len(data) < head THEN Fail
        ELSE IF data[1] # BlockSize \/ ReadNumber(data, 1, CountBytes) # width * height THEN Fail
        ELSE IF ~all.ok THEN Fail
        ELSE IF all.val.next # Len(data) THEN Fail
        ELSE Ok(LegacyFrame(width, height, type, placed))
=============================================================================
