-------------------------------- MODULE Coders --------------------------------
(***************************************************************************)
(* libsrs_bitio: bits, variable-length integers and the rANS coder, and    *)
(* the 32-bit varints of the motion vectors.  Widths are constants: what   *)
(* matters is where the last digit of a varint meets the width of its      *)
(* integer, and where the state of rANS meets its bounds.                  *)
(*                                                                         *)
(* A byte is a number below Byte.  What a function returns is Ok of a      *)
(* value or Fail.                                                          *)
(***************************************************************************)
EXTENDS Integers, Sequences

CONSTANTS
    ByteBits,    \* 8
    WordBits,    \* 64, the width of BitReader::read and of a long varint
    WordBytes,   \* 10, MAX_U64_VARINT_BYTES
    NarrowBits,  \* 32, the width of a motion vector's varint
    NarrowBytes, \* 8, MAX_INTER_MV_VARINT_BYTES
    ScaleBits,   \* 12, RANS_SCALE_BITS
    LowBits,     \* 23, RANS_L is 2^23
    StateBytes   \* 4, the bytes of the flushed rANS state

ASSUME CodersAssumption ==
    /\ {ByteBits, WordBits, WordBytes, NarrowBits, NarrowBytes} \subseteq Nat \ {0}
    /\ {ScaleBits, LowBits, StateBytes} \subseteq Nat \ {0}
    /\ ByteBits > 1 /\ ScaleBits <= LowBits

Byte == 2 ^ ByteBits
DigitBits == ByteBits - 1
Digit == 2 ^ DigitBits
Bytes == 0 .. Byte - 1
Ok(value) == [ok |-> TRUE, val |-> value]
Fail == [ok |-> FALSE]

-------------------------------------------------------------------------------
(* Bits, the most significant first.                                       *)

NewWriter == [out |-> <<>>, acc |-> 0, nbits |-> 0]

\* one turn of the loop of write: as many bits as the open byte has room for
WriteChunk(w, take, chunk) ==
    LET acc == w.acc * 2 ^ take + chunk
        nbits == w.nbits + take
    IN  IF nbits < ByteBits
        THEN [w EXCEPT !.acc = acc, !.nbits = nbits]
        ELSE [out |-> Append(w.out, (acc \div 2 ^ (nbits - ByteBits)) % Byte),
              acc |-> acc % 2 ^ (nbits - ByteBits), nbits |-> nbits - ByteBits]

Write(w, n, value) ==
    LET Take(writer, left) == IF ByteBits - writer.nbits < left THEN ByteBits - writer.nbits ELSE left
        \* the writer when `left` bits are left, a prefix of the turns of the loop
        turn[k \in 0 .. n] ==
            IF k = 0 THEN [writer |-> w, left |-> n]
            ELSE LET before == turn[k - 1]
                     take == Take(before.writer, before.left)
                     left == before.left - take
                 IN  IF before.left = 0 THEN before
                     ELSE [writer |-> WriteChunk(before.writer, take, (value \div 2 ^ left) % 2 ^ take),
                           left |-> left]
    IN  IF n \notin 1 .. WordBits \/ value >= 2 ^ n THEN Fail ELSE Ok(turn[n].writer)

\* zeros to the end of the byte
Finish(w) == IF w.nbits > 0 THEN WriteChunk(w, ByteBits - w.nbits, 0).out ELSE w.out

BitAt(data, pos) == (data[pos \div ByteBits + 1] \div 2 ^ ((ByteBits - 1) - (pos % ByteBits))) % 2

Read(data, pos, n) ==
    LET value[k \in 0 .. n] == IF k = 0 THEN 0 ELSE 2 * value[k - 1] + BitAt(data, pos + k - 1)
    IN  IF n \notin 1 .. WordBits \/ pos + n > Len(data) * ByteBits THEN Fail
        ELSE Ok([value |-> value[n], pos |-> pos + n])

Skip(data, pos, n) == IF pos + n > Len(data) * ByteBits THEN Fail ELSE Ok(pos + n)
AlignByte(data, pos) ==
    IF pos % ByteBits = 0 THEN Ok(pos) ELSE Skip(data, pos, ByteBits - (pos % ByteBits))

-------------------------------------------------------------------------------
(* Varints: DigitBits of the value a byte, the low ones first.             *)

Zigzag(n) == IF n >= 0 THEN 2 * n ELSE -2 * n - 1
Unzigzag(u) == IF u % 2 = 0 THEN u \div 2 ELSE -(u \div 2) - 1

DigitsOf(value) == CHOOSE d \in 1 .. WordBits : value < Digit ^ d /\ (d = 1 \/ value >= Digit ^ (d - 1))

\* encode_u64_varint_into and write_uvarint32
Varint(value) ==
    LET d == DigitsOf(value)
    IN  [i \in 1 .. d |-> ((value \div Digit ^ (i - 1)) % Digit) + IF i < d THEN Digit ELSE 0]

\* encode_u64_varint_into gives up past ten bytes, which no u64 needs
EncodeVarint(value) == IF Len(Varint(value)) > WordBytes THEN Fail ELSE Ok(Varint(value))

\* the first byte without a continuation bit, 0 when there is none
LastByte(data, from) ==
    LET ends == {i \in from + 1 .. Len(data) : data[i] < Digit}
    IN  IF ends = {} THEN 0 ELSE CHOOSE i \in ends : \A j \in ends : i <= j

ValueOf(data, from, count) ==
    LET value[k \in 0 .. count] ==
            IF k = 0 THEN 0 ELSE value[k - 1] + (data[from + k] % Digit) * Digit ^ (k - 1)
    IN  value[count]

\* decode_u64_varint: at the digit that meets the top bit nothing above it may be set
DecodeVarint(data, from) ==
    LET last == LastByte(data, from)
        count == last - from
        top == (WordBits - 1) \div DigitBits + 1
    IN  IF \/ last = 0 \/ count > WordBytes
           \/ count > top
           \/ count = top /\ data[last] % Digit >= 2 ^ (WordBits - (top - 1) * DigitBits)
        THEN Fail
        ELSE Ok([value |-> ValueOf(data, from, count), next |-> last])

\* mutant: the bits of the last digit are not looked at
DecodeVarintUnchecked(data, from) ==
    LET last == LastByte(data, from)
    IN  IF last = 0 \/ last - from > WordBytes THEN Fail
        ELSE Ok([value |-> ValueOf(data, from, last - from) % 2 ^ WordBits, next |-> last])

\* read_uvarint32: a sixth byte is refused, what is above 32 bits of the fifth is lost
ReadNarrow(data, from) ==
    LET last == LastByte(data, from)
        count == last - from
        digits == (NarrowBits - 1) \div DigitBits + 1
    IN  IF last = 0 \/ count > NarrowBytes \/ count > digits THEN Fail
        ELSE Ok([value |-> ValueOf(data, from, count) % 2 ^ NarrowBits, next |-> last])

WriteSigned(n) == Varint(Zigzag(n))
ReadSigned(data, from) ==
    LET read == ReadNarrow(data, from)
    IN  IF read.ok THEN Ok([value |-> Unzigzag(read.val.value), next |-> read.val.next]) ELSE Fail

\* read_u64_varint_from_bits and read_i64_varint_from_bits: at a byte's first bit only
ReadVarintFromBits(data, pos) ==
    LET read == DecodeVarint(data, pos \div ByteBits)
    IN  IF pos % ByteBits # 0 \/ pos \div ByteBits > Len(data) \/ ~read.ok THEN Fail
        ELSE Ok([value |-> read.val.value, pos |-> read.val.next * ByteBits])
ReadSignedFromBits(data, pos) ==
    LET read == ReadVarintFromBits(data, pos)
    IN  IF read.ok THEN Ok([value |-> Unzigzag(read.val.value), pos |-> read.val.pos]) ELSE Fail

-------------------------------------------------------------------------------
(* rANS: a state in Low .. Low * Byte - 1 between two symbols.  A model is  *)
(* the sequence of the frequencies of the symbols 0, 1, ...                *)

Scale == 2 ^ ScaleBits
Low == 2 ^ LowBits

Cumulative(model, symbol) ==
    LET sum[s \in 0 .. symbol] == IF s = 0 THEN 0 ELSE sum[s - 1] + model[s]
    IN  sum[symbol]

\* try_from_freqs
ModelOf(freqs) ==
    IF \/ Len(freqs) \notin 1 .. Scale
       \/ \E i \in DOMAIN freqs : freqs[i] = 0
       \/ Cumulative(freqs, Len(freqs)) # Scale
    THEN Fail ELSE Ok(freqs)
Uniform(n) ==
    IF n \notin 1 .. Scale \/ Scale % n # 0 THEN Fail ELSE ModelOf([i \in 1 .. n |-> Scale \div n])

SymbolForSlot(model, slot) ==
    CHOOSE s \in 0 .. Len(model) - 1 : Cumulative(model, s) <= slot /\ slot < Cumulative(model, s + 1)

\* the encoder's renormalisation bound for a frequency
Bound(freq) == (Low \div Scale) * Byte * freq
PutSymbol(freq, start, state) == ((state \div freq) * Scale) + (state % freq) + start
TakeSymbol(freq, start, state) == freq * (state \div Scale) + ((state % Scale) - start)

\* the bytes that leave the state before a symbol is put into it
Shed(state, freq) ==
    LET k == CHOOSE k \in 0 .. StateBytes :
                /\ state \div Byte ^ k < Bound(freq)
                /\ \A j \in 0 .. k - 1 : state \div Byte ^ j >= Bound(freq)
    IN  [state |-> state \div Byte ^ k, bytes |-> [i \in 1 .. k |-> (state \div Byte ^ (i - 1)) % Byte]]

LittleEndian(state) == [i \in 1 .. StateBytes |-> (state \div Byte ^ (i - 1)) % Byte]
Reversed(s) == [i \in DOMAIN s |-> s[Len(s) + 1 - i]]

\* rans_encode_symbols_multi_context; models and contexts from 0
RansEncode(models, symbols, contexts) ==
    LET n == Len(symbols)
        model(i) == models[contexts[i] + 1]
        legal == /\ n = Len(contexts)
                 /\ \A i \in 1 .. n : contexts[i] < Len(models) /\ symbols[i] < Len(model(i))
        \* the coder after the last k symbols
        coder[k \in 0 .. n] ==
            IF k = 0 THEN [state |-> Low, renorm |-> <<>>]
            ELSE LET i == n + 1 - k
                     before == coder[k - 1]
                     freq == model(i)[symbols[i] + 1]
                     shed == Shed(before.state, freq)
                 IN  [state |-> PutSymbol(freq, Cumulative(model(i), symbols[i]), shed.state),
                      renorm |-> before.renorm \o shed.bytes]
        last == coder[n]
    IN  IF legal THEN Ok(LittleEndian(last.state) \o Reversed(last.renorm)) ELSE Fail

\* rans_decode_step_symbol; a reader is [state, next, steps]
RansStep(model, reader, data, budget) ==
    LET symbol == SymbolForSlot(model, reader.state % Scale)
        taken == TakeSymbol(model[symbol + 1], Cumulative(model, symbol), reader.state)
        left == Len(data) - reader.next
        filled[k \in 0 .. left] ==
            IF k = 0 THEN taken
            ELSE LET before == filled[k - 1]
                 IN  IF before >= Low THEN before ELSE before * Byte + data[reader.next + k]
        enough == {k \in 0 .. left : filled[k] >= Low}
        refill == CHOOSE k \in enough : \A j \in enough : k <= j
    IN  IF enough = {} \/ reader.steps + refill > budget THEN Fail
        ELSE Ok([symbol |-> symbol,
                 reader |-> [state |-> filled[refill], next |-> reader.next + refill,
                             steps |-> reader.steps + refill]])

RansReader(data) ==
    IF Len(data) < StateBytes THEN Fail
    ELSE Ok([next |-> StateBytes, steps |-> 0,
             state |-> LET value[i \in 0 .. StateBytes] ==
                               IF i = 0 THEN 0 ELSE value[i - 1] + data[i] * Byte ^ (i - 1)
                       IN  value[StateBytes]])

\* rans_decode_symbols_multi_context
RansDecode(models, data, contexts, budget) ==
    LET n == Len(contexts)
        opened == RansReader(data)
        after[k \in 0 .. n] ==
            IF k = 0 THEN Ok([symbols |-> <<>>, reader |-> opened.val])
            ELSE LET got == after[k - 1]
                     step == RansStep(models[contexts[k] + 1], got.val.reader, data, budget)
                 IN  IF ~got.ok \/ contexts[k] >= Len(models) THEN Fail
                     ELSE IF ~step.ok THEN Fail
                     ELSE Ok([symbols |-> Append(got.val.symbols, step.val.symbol),
                              reader |-> step.val.reader])
        all == after[n]
    IN  IF ~opened.ok THEN Fail
        ELSE IF ~all.ok THEN Fail
        ELSE IF all.val.reader.next # Len(data) THEN Fail
        ELSE Ok(all.val.symbols)

\* one model: rans_encode and rans_decode
Same(n) == [i \in 1 .. n |-> 0]

-------------------------------------------------------------------------------
(* The syntax legacy video and legacy audio share: a sample is one tag     *)
(* below, a run of equal samples another, and a jump too large for a tag a *)
(* number of its own behind the tag Half.  Numbers are little endian, in   *)
(* two's complement where they may be negative.                            *)

Half == Byte \div 2             \* 128, the first tag that is not a run
Bias == 3 * (Byte \div 4)       \* 192, the tag of a difference of 0
Reach == Byte \div 4 - 1         \* 63, the largest difference with a tag

Number(n, width) == [i \in 1 .. width |-> (n \div Byte ^ (i - 1)) % Byte]
ReadNumber(data, from, width) ==
    LET value[i \in 0 .. width] == IF i = 0 THEN 0 ELSE value[i - 1] + data[from + i] * Byte ^ (i - 1)
    IN  value[width]
ReadSignedNumber(data, from, width) ==
    LET value == ReadNumber(data, from, width)
    IN  IF value >= Byte ^ width \div 2 THEN value - Byte ^ width ELSE value

\* flush_zero_run
FlushZeroRun(run) ==
    [i \in 1 .. run \div Half |-> Half - 1] \o (IF run % Half = 0 THEN <<>> ELSE <<(run % Half) - 1>>)

\* write_delta_token
DeltaToken(delta, width) ==
    IF delta \in -Reach .. Reach \ {0} THEN <<delta + Bias>> ELSE <<Half>> \o Number(delta, width)

\* the samples of a block or a channel from a predictor on
EncodeRuns(samples, first, width) ==
    LET coder[k \in 0 .. Len(samples)] ==
            IF k = 0 THEN [cells |-> <<>>, run |-> 0, last |-> first]
            ELSE LET before == coder[k - 1]
                     delta == samples[k] - before.last
                 IN  IF delta # 0
                     THEN [cells |-> before.cells \o FlushZeroRun(before.run) \o DeltaToken(delta, width),
                           run |-> 0, last |-> samples[k]]
                     ELSE IF before.run = Byte - 1
                     THEN [before EXCEPT !.cells = @ \o FlushZeroRun(before.run), !.run = 1]
                     ELSE [before EXCEPT !.run = @ + 1]
        last == coder[Len(samples)]
    IN  last.cells \o FlushZeroRun(last.run)

\* one turn of the loop: a reader is [samples, last, next]
Token(data, reader, count, width, range) ==
    LET tag == data[reader.next + 1]
        literal == tag = Half
        value == reader.last + (IF literal THEN ReadSignedNumber(data, reader.next + 1, width) ELSE tag - Bias)
    IN  IF tag < Half
        THEN IF Len(reader.samples) + tag + 1 > count THEN Fail
             ELSE Ok([reader EXCEPT !.samples = @ \o [i \in 1 .. tag + 1 |-> reader.last], !.next = @ + 1])
        ELSE IF literal /\ Len(data) < reader.next + 1 + width THEN Fail
        ELSE IF value \notin range THEN Fail
        ELSE Ok([samples |-> Append(reader.samples, value), last |-> value,
                 next |-> reader.next + 1 + IF literal THEN width ELSE 0])

\* tokens until there are `count` samples
DecodeRuns(data, reader, count, width, range) ==
    LET after[k \in 0 .. count] ==
            IF k = 0 THEN Ok(reader)
            ELSE LET got == after[k - 1]
                 IN  IF ~got.ok \/ Len(got.val.samples) >= count THEN got
                     ELSE IF got.val.next >= Len(data) THEN Fail
                     ELSE Token(data, got.val, count, width, range)
    IN  after[count]
===============================================================================
