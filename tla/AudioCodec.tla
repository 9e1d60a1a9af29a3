----------------------------- MODULE AudioCodec -----------------------------
(***************************************************************************)
(* The audio codec (crates/libsrs_audio/src/codec.rs): version 1, runs and *)
(* differences, is only read; version 2 writes what a linear predictor     *)
(* leaves, entropy coded, or the samples as they are.  The predictor's     *)
(* coefficients come out of floating point: any would do, as they travel   *)
(* with the channel.                                                       *)
(***************************************************************************)
EXTENDS Coders, FiniteSetsExt

LOCAL INSTANCE SequencesExt

CONSTANTS
    MaxOrder,           \* 8, MAX_LPC_ORDER
    Shift,              \* 12, LPC_SHIFT
    Taps(_, _)          \* coefficients found for samples and an order, or NoTaps

Wide == 2                       \* bytes of a sample
LongBytes == 4
Samples == -(Byte ^ Wide \div 2) .. Byte ^ Wide \div 2 - 1
NoTaps == <<>>
Magic == <<Byte \div 4, Byte \div 4 + 2>>      \* "R2"
AudioFrame(rate, channels, samples) == [rate |-> rate, channels |-> channels, samples |-> samples]

ChannelsOk(channels) == channels \in 1 .. 2

\* sample_count_per_channel
SampleCount(frame) ==
    IF ~ChannelsOk(frame.channels) \/ Len(frame.samples) % frame.channels # 0 THEN Fail
    ELSE Ok(Len(frame.samples) \div frame.channels)

Deinterleave(samples, channels, channel) ==
    [i \in 1 .. Len(samples) \div channels |-> samples[(i - 1) * channels + channel]]
InterleaveChannels(channels) ==
    IF \E c \in DOMAIN channels : Len(channels[c]) # Len(channels[1]) THEN Fail
    ELSE Ok([i \in 1 .. Len(channels) * Len(channels[1]) |->
                channels[((i - 1) % Len(channels)) + 1][(i - 1) \div Len(channels) + 1]])

Saturated(n) == Max({-(Byte ^ LongBytes \div 2), Min({Byte ^ LongBytes \div 2 - 1, n})})

\* predict_i16, of the sample behind the first n
PredictSample(samples, n, taps) ==
    LET sum[k \in 0 .. Len(taps)] ==
            IF k = 0 THEN 0 ELSE Saturated(sum[k - 1] + taps[k] * samples[n + 1 - k])
    IN  sum[Len(taps)] \div 2 ^ Shift

Numbers(values) == FlattenSeq([i \in DOMAIN values |-> Number(values[i], Wide)])
ReadNumbers(data, from, count) == [i \in 1 .. count |-> ReadSignedNumber(data, from + (i - 1) * Wide, Wide)]

\* what a predictor leaves of the samples behind the first `order`
Leftovers(samples, taps) ==
    LET order == Len(taps)
    IN  [i \in 1 .. Len(samples) - order |->
            samples[order + i] - PredictSample(samples, order + i - 1, taps)]

\* the orders whose coefficients were found and leave nothing wider than a sample
Orders(samples) ==
    {order \in 1 .. MaxOrder :
        /\ Len(samples) > MaxOrder /\ Taps(samples, order) # NoTaps
        /\ \A i \in 1 .. Len(samples) - order : Leftovers(samples, Taps(samples, order))[i] \in Samples}

\* a channel of v1, as the stream of a test would hold it
EncodeChannelV1(samples) ==
    IF samples = <<>> THEN <<>> ELSE Number(samples[1], Wide) \o EncodeRuns(Tail(samples), samples[1], LongBytes)

\* encode_channel_v2: the highest of the orders
EncodeChannel(samples) ==
    IF Orders(samples) = {}
    THEN <<0>> \o Number(Len(samples) * Wide, LongBytes) \o Numbers(samples)
    ELSE LET taps == Taps(samples, Max(Orders(samples)))
             left == Numbers(Leftovers(samples, taps))
             blob == RansEncode(<<Uniform(Byte).val>>, left, Same(Len(left))).val
         IN  <<1, Len(taps)>> \o Numbers(taps) \o Numbers(SubSeq(samples, 1, Len(taps)))
             \o Number(Len(blob), LongBytes) \o blob

DecodeStored(data, count) ==
    IF Len(data) < 1 + LongBytes THEN Fail
    ELSE IF ReadNumber(data, 1, LongBytes) # count * Wide \/ Len(data) # 1 + LongBytes + count * Wide THEN Fail
    ELSE Ok(ReadNumbers(data, 1 + LongBytes, count))

\* mutant: the samples that start a channel are not taken into the prediction
RebuiltCold(warm, taps, left, count) ==
    LET upTo[n \in 0 .. count] ==
            IF n <= Len(warm) THEN SubSeq(warm, 1, n)
            ELSE LET before == upTo[n - 1]
                     known == [i \in DOMAIN before |-> IF i <= Len(warm) THEN 0 ELSE before[i]]
                 IN  IF Len(before) < n - 1 THEN before
                     ELSE Append(before, PredictSample(known, n - 1, taps) + left[n - Len(warm)])
    IN  upTo[count]

\* the samples, one prediction after the other; shorter when one is out of range
Rebuilt(warm, taps, left, count) ==
    LET upTo[n \in 0 .. count] ==
            IF n <= Len(warm) THEN SubSeq(warm, 1, n)
            ELSE LET before == upTo[n - 1]
                     value == PredictSample(before, n - 1, taps) + left[n - Len(warm)]
                 IN  IF Len(before) < n - 1 THEN before
                     ELSE IF value \in Samples THEN Append(before, value) ELSE before
    IN  upTo[count]

\* bytes behind the blob are left unread
DecodePredicted(data, count) ==
    LET order == data[2]
        head == 2 + 2 * order * Wide + LongBytes
        size == ReadNumber(data, head - LongBytes, LongBytes)
        blob == SubSeq(data, head + 1, head + size)
        symbols == (count - order) * Wide
        coded == RansDecode(<<Uniform(Byte).val>>, blob, Same(symbols), Max({Len(blob) * 32, symbols * 4}))
        samples == Rebuilt(ReadNumbers(data, 2 + order * Wide, order), ReadNumbers(data, 2, order),
                           ReadNumbers(coded.val, 0, count - order), count)
    IN  IF Len(data) < 2 THEN Fail
        ELSE IF order \notin 1 .. MaxOrder THEN Fail
        ELSE IF Len(data) < head \/ count < order THEN Fail
        ELSE IF Len(data) < head + size THEN Fail
        ELSE IF ~coded.ok THEN Fail
        ELSE IF Len(samples) < count THEN Fail ELSE Ok(samples)

\* decode_channel_v2
DecodeChannel(data, count) ==
    IF data = <<>> THEN IF count = 0 THEN Ok(<<>>) ELSE Fail
    ELSE CASE data[1] = 0 -> DecodeStored(data, count)
           [] data[1] = 1 -> IF count = 0 THEN Ok(<<>>) ELSE DecodePredicted(data, count)
           [] OTHER -> Fail

\* decode_channel_legacy_inner
DecodeChannelV1(data, count) ==
    IF count = 0 THEN IF data = <<>> THEN Ok(<<>>) ELSE Fail
    ELSE IF Len(data) < Wide THEN Fail
    ELSE LET first == ReadSignedNumber(data, 0, Wide)
             read == DecodeRuns(data, [samples |-> <<first>>, last |-> first, next |-> Wide], count,
                                LongBytes, Samples)
         IN  IF ~read.ok THEN Fail
             ELSE IF read.val.next # Len(data) THEN Fail ELSE Ok(read.val.samples)

Sized(cells) == Number(Len(cells), LongBytes) \o cells

\* encode_frame
EncodeAudioFrame(frame) ==
    IF ~SampleCount(frame).ok THEN Fail
    ELSE Ok(Number(SampleCount(frame).val, LongBytes) \o <<frame.channels>> \o Magic
            \o FlattenSeq([c \in 1 .. frame.channels |->
                              Sized(EncodeChannel(Deinterleave(frame.samples, frame.channels, c)))]))
\* a frame of a v1 stream
EncodeAudioFrameV1(frame) ==
    Number(SampleCount(frame).val, LongBytes) \o <<frame.channels>>
    \o FlattenSeq([c \in 1 .. frame.channels |->
                      Sized(EncodeChannelV1(Deinterleave(frame.samples, frame.channels, c)))])

HasMagic(data) == Len(data) >= 7 /\ SubSeq(data, 6, 7) = Magic

\* decode_payload_v2 and decode_payload_v1_legacy: the channels from `from` to the end
DecodeChannels(rate, channels, count, data, from, legacy) ==
    LET after[c \in 0 .. channels] ==
            IF c = 0 THEN Ok([samples |-> <<>>, next |-> from])
            ELSE LET got == after[c - 1]
                     size == ReadNumber(data, got.val.next, LongBytes)
                     start == got.val.next + LongBytes
                     cells == SubSeq(data, start + 1, start + size)
                     channel == IF legacy THEN DecodeChannelV1(cells, count) ELSE DecodeChannel(cells, count)
                 IN  IF ~got.ok THEN Fail
                     ELSE IF Len(data) < start THEN Fail
                     ELSE IF Len(data) < start + size THEN Fail
                     ELSE IF ~channel.ok THEN Fail
                     ELSE Ok([samples |-> Append(got.val.samples, channel.val), next |-> start + size])
        all == after[channels]
    IN  IF ~all.ok THEN Fail
        ELSE IF all.val.next # Len(data) \/ ~InterleaveChannels(all.val.samples).ok THEN Fail
        ELSE Ok(AudioFrame(rate, channels, InterleaveChannels(all.val.samples).val))

\* decode_frame_inner: version 0 when no stream says which, and it is detected
DecodeAudioFrame(rate, data, version) ==
    IF Len(data) < 5 THEN Fail
    ELSE IF ~ChannelsOk(data[5]) \/ (version = 2 /\ ~HasMagic(data)) THEN Fail
    ELSE LET legacy == version = 1 \/ (version # 2 /\ ~HasMagic(data))
         IN  DecodeChannels(rate, data[5], ReadNumber(data, 0, LongBytes), data, IF legacy THEN 5 ELSE 7, legacy)
=============================================================================
