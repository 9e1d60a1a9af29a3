----------------------------- MODULE Elementary -----------------------------
(***************************************************************************)
(* The elementary streams: a header, then packets with a checksum.  .srsv  *)
(* and .srsa (bitstream.rs of libsrs_video and libsrs_audio) hold frames   *)
(* their codecs know, .srsv2 (srsv2/elementary.rs) payloads as they come.  *)
(* A field is one cell, a payload a cell a byte.  The checksum stands for  *)
(* one that no damage of a single cell passes.                             *)
(***************************************************************************)
EXTENDS LegacyVideo, AudioCodec, Headers

LOCAL INSTANCE SequencesExt

CONSTANTS
    VideoMagic, AudioMagic,     \* "SRSV", "SRSA"
    VideoSync, AudioSync,       \* "VP", "AP": two cells each
    MaxFramePayload             \* MAX_FRAME_PAYLOAD_BYTES

Checksum(cells) == FoldLeft(LAMBDA sum, cell : (sum * 31 + cell + 7) % 8191, 1, cells)

\* the packets of all three: sync, two bytes, an index, further fields, a payload
Packet(sync, head, payload) ==
    LET covered == head \o <<Len(payload)>>
    IN  sync \o covered \o <<Checksum(covered \o payload)>> \o payload

EndOfStream == [end |-> TRUE]

\* mutant: a payload is taken without a look at the checksum
PacketUnchecked(data, from, sync, fields) ==
    LET head == SubSeq(data, from + 3, from + 2 + fields)
        start == from + 4 + fields
        size == data[from + 3 + fields]
    IN  IF Len(data) < from + 2 THEN Ok(EndOfStream)
        ELSE IF SubSeq(data, from + 1, from + 2) # sync \/ Len(data) < start THEN Fail
        ELSE IF Len(data) < start + size THEN Fail
        ELSE Ok([end |-> FALSE, head |-> head, payload |-> SubSeq(data, start + 1, start + size),
                   next |-> start + size])

\* The packet at `from` with so many fields before the length.  A stream that ends
\* before or within a sync has ended; within anything else it is broken.
PacketAt(data, from, sync, fields) ==
    LET head == SubSeq(data, from + 3, from + 2 + fields)
        start == from + 4 + fields
        size == data[from + 3 + fields]
        payload == SubSeq(data, start + 1, start + size)
    IN  IF Len(data) < from + 2 THEN Ok(EndOfStream)
        ELSE IF SubSeq(data, from + 1, from + 2) # sync \/ Len(data) < start THEN Fail
        ELSE IF Len(data) < start + size THEN Fail
        ELSE IF data[start] # Checksum(head \o <<size>> \o payload) THEN Fail
        ELSE Ok([end |-> FALSE, head |-> head, payload |-> payload, next |-> start + size])

\* parse_video_frame_packet_header and parse_audio_frame_packet_header, of a packet
\* in memory: nothing of the payload is looked at
ParsePacket(packet, sync, fields, versions, kinds) ==
    IF Len(packet) < fields + 4 \/ SubSeq(packet, 1, 2) # sync THEN Fail
    ELSE IF packet[3] \notin versions \/ packet[4] \notin kinds THEN Fail
    ELSE Ok([fields |-> SubSeq(packet, 5, fields + 2), size |-> packet[fields + 3], crc |-> packet[fields + 4]])

-------------------------------------------------------------------------------
(* .srsv                                                                   *)

FrameTypes == <<"I", "PReserved">>
VideoHeader(width, height) == <<VideoMagic, 1, width, height>>
DecodeVideoHeader(cells) ==
    IF Len(cells) < 4 THEN Fail
    ELSE IF cells[1] # VideoMagic \/ cells[2] # 1 \/ cells[3] = 0 \/ cells[4] = 0 THEN Fail
    ELSE Ok([width |-> cells[3], height |-> cells[4]])

\* write_frame
WriteVideoFrame(header, index, frame) ==
    LET payload == EncodeLegacyFrame(frame)
    IN  IF frame.width # header.width \/ frame.height # header.height THEN Fail
        ELSE IF ~payload.ok THEN Fail
        ELSE Ok(Packet(VideoSync, <<1, 0, index>>, payload.val))

\* read_next_frame
ReadVideoFrame(header, data, from) ==
    LET packet == PacketAt(data, from, VideoSync, 3)
        frame == DecodeLegacyFrame(header.width, header.height, FrameTypes[packet.val.head[2] + 1], packet.val.payload)
    IN  IF ~packet.ok THEN Fail
        ELSE IF packet.val.end THEN packet
        ELSE IF packet.val.head[1] # 1 \/ packet.val.head[2] \notin 0 .. 1 THEN Fail
        ELSE IF ~frame.ok THEN Fail
        ELSE Ok([end |-> FALSE, index |-> packet.val.head[3], frame |-> frame.val, next |-> packet.val.next])

-------------------------------------------------------------------------------
(* .srsa                                                                   *)

AudioHeader(version, channels, rate) == <<AudioMagic, version, channels, rate>>
DecodeAudioHeader(cells) ==
    IF Len(cells) < 4 THEN Fail
    ELSE IF cells[1] # AudioMagic \/ cells[2] \notin 1 .. 2 \/ ~ChannelsOk(cells[3]) \/ cells[4] = 0 THEN Fail
    ELSE Ok([version |-> cells[2], channels |-> cells[3], rate |-> cells[4]])

WriteAudioFrame(header, index, frame) ==
    LET payload == IF header.version = 1 THEN Ok(EncodeAudioFrameV1(frame)) ELSE EncodeAudioFrame(frame)
    IN  IF frame.rate # header.rate \/ frame.channels # header.channels \/ ~SampleCount(frame).ok THEN Fail
        ELSE IF ~payload.ok THEN Fail
        ELSE Ok(Packet(AudioSync, <<header.version, frame.channels, index, SampleCount(frame).val>>, payload.val))

ReadAudioFrame(header, data, from) ==
    LET packet == PacketAt(data, from, AudioSync, 4)
        frame == DecodeAudioFrame(header.rate, packet.val.payload, header.version)
    IN  IF ~packet.ok THEN Fail
        ELSE IF packet.val.end THEN packet
        ELSE IF packet.val.head[1] # header.version \/ packet.val.head[2] # header.channels THEN Fail
        ELSE IF ~frame.ok THEN Fail
        ELSE Ok([end |-> FALSE, index |-> packet.val.head[3], frame |-> frame.val, next |-> packet.val.next])

-------------------------------------------------------------------------------
(* .srsv2                                                                  *)

WritePayload(index, payload) ==
    IF Len(payload) > MaxFramePayload THEN Fail ELSE Ok(Packet(VideoSync, <<2, 0, index>>, payload))
ReadPayload(data, from) ==
    LET packet == PacketAt(data, from, VideoSync, 3)
    IN  IF ~packet.ok THEN Fail
        ELSE IF packet.val.end THEN packet
        ELSE IF packet.val.head[1] # 2 \/ Len(packet.val.payload) > MaxFramePayload THEN Fail
        ELSE Ok([end |-> FALSE, index |-> packet.val.head[3], frame |-> packet.val.payload,
                   next |-> packet.val.next])

\* peek_is_srsv2
PeekIsSrsv2(cells) == Len(cells) >= 1 /\ cells[1] = SequenceMagic

-------------------------------------------------------------------------------
(* Whole streams; a stream is [kind, header, frames].                      *)

HeaderCells(stream) ==
    CASE stream.kind = "srsv" -> VideoHeader(stream.header.width, stream.header.height)
      [] stream.kind = "srsa" -> AudioHeader(stream.header.version, stream.header.channels, stream.header.rate)
      [] stream.kind = "srsv2" -> EncodeSequence(stream.header)
DecodeHeader(kind, cells) ==
    CASE kind = "srsv" -> DecodeVideoHeader(cells)
      [] kind = "srsa" -> DecodeAudioHeader(cells)
      [] kind = "srsv2" -> DecodeSequence(cells)
HeaderSize(kind) == IF kind = "srsv2" THEN SequenceCells ELSE 4

WriteFrame(stream, index, frame) ==
    CASE stream.kind = "srsv" -> WriteVideoFrame(stream.header, index, frame)
      [] stream.kind = "srsa" -> WriteAudioFrame(stream.header, index, frame)
      [] stream.kind = "srsv2" -> WritePayload(index, frame)
ReadFrame(kind, header, data, from) ==
    CASE kind = "srsv" -> ReadVideoFrame(header, data, from)
      [] kind = "srsa" -> ReadAudioFrame(header, data, from)
      [] kind = "srsv2" -> ReadPayload(data, from)

StreamCells(stream) ==
    HeaderCells(stream)
    \o FlattenSeq([i \in DOMAIN stream.frames |-> WriteFrame(stream, i - 1, stream.frames[i]).val])

\* the frames in front of an end or an error, and which of the two it is
StreamRead(kind, cells) ==
    LET header == DecodeHeader(kind, cells)
        turns == Len(cells) \div 7 + 1      \* no packet is shorter
        loop[k \in 0 .. turns] ==
            IF k = 0 THEN [frames |-> <<>>, next |-> HeaderSize(kind), at |-> "frame"]
            ELSE LET before == loop[k - 1]
                     read == ReadFrame(kind, header.val, cells, before.next)
                 IN  IF before.at # "frame" THEN before
                     ELSE IF ~read.ok THEN [before EXCEPT !.at = "error"]
                     ELSE IF read.val.end THEN [before EXCEPT !.at = "end"]
                     ELSE [frames |-> Append(before.frames, read.val.frame), next |-> read.val.next, at |-> "frame"]
    IN  IF ~header.ok THEN [header |-> header, frames |-> <<>>, whole |-> FALSE]
        ELSE [header |-> header, frames |-> loop[turns].frames, whole |-> loop[turns].at = "end"]
=============================================================================
