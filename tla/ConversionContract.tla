-------------------------- MODULE ConversionContract --------------------------
(***************************************************************************)
(* The bytes of the files of Conversion: what the formats of Elementary    *)
(* and Headers keep is what a job takes for granted when it reads the file *)
(* another job, or another program, has written.                           *)
(***************************************************************************)
EXTENDS Player, Elementary

CONSTANTS
    Width, Height,      \* of every picture
    Rate,               \* of every audio track
    Pictures,           \* the pixels of some gray frames
    Sounds,             \* the samples of some audio frames
    Revisions           \* revisions to take for a kind of frame

Pick(choices, n) == choices[(n % Len(choices)) + 1]

\* a frame to its codec; `version` tells apart two frames of the same place
Content(path, version, at, kind) ==
    CASE path = "srsv" -> LegacyFrame(Width, Height, "I", Pick(Pictures, version + at))
      [] path = "srsa" -> AudioFrame(Rate, 2, Pick(Sounds, version + at))
      [] path = "srsv2" -> <<Pick(Revisions[kind], version + at), at>>

\* audio of both versions, and video with and without references
StreamOf(path, version, kinds) ==
    [kind |-> path,
     header |-> CASE path = "srsv" -> [width |-> Width, height |-> Height]
                  [] path = "srsa" -> [version |-> version, channels |-> 2, rate |-> Rate]
                  [] path = "srsv2" -> MainSequence(Width, Height, version - 1),
     frames |-> [i \in DOMAIN kinds |-> Content(path, version, i - 1, kinds[i])]]

\* where the packets start, and where the last one ends
Starts(stream) ==
    {Len(StreamCells([stream EXCEPT !.frames = SubSeq(@, 1, n)])) : n \in 0 .. Len(stream.frames)}
Begins(some, all) == some = SubSeq(all, 1, Len(some))

Whole(stream, cells) ==
    StreamRead(stream.kind, cells) = [header |-> Ok(stream.header), frames |-> stream.frames, whole |-> TRUE]
\* without its end, a stream is read as a beginning, and as one that ends only
\* where no packet was begun: less than two cells of it are there
CutShort(stream, cells) ==
    \A n \in HeaderSize(stream.kind) .. Len(cells) - 1 : \E read \in {StreamRead(stream.kind, SubSeq(cells, 1, n))} :
        /\ Begins(read.frames, stream.frames)
        /\ stream.frames = <<>> \/ read.frames # stream.frames
        /\ read.whole <=> \E start \in Starts(stream) : n - start \in 0 .. 1
\* with another byte in one place, it is read as a beginning and refused there
Damaged(stream, cells) ==
    \A i \in HeaderSize(stream.kind) + 1 .. Len(cells) :
        \E read \in {StreamRead(stream.kind, [cells EXCEPT ![i] = (@ + 1) % Byte])} :
            Begins(read.frames, stream.frames) /\ ~read.whole
Trustworthy(stream) ==
    \E cells \in {StreamCells(stream)} : Whole(stream, cells) /\ CutShort(stream, cells) /\ Damaged(stream, cells)

\* what the muxer takes for a keyframe, or for nothing, is what the decoder does
KindsAgree(frames) ==
    \A i \in DOMAIN frames :
        /\ PayloadKind(frames[i][1]) = "Intra" <=> FrameTypeOf(frames[i][1]) = "Intra"
        /\ PayloadKind(frames[i][1]) = "Unknown" <=> FrameTypeOf(frames[i][1]) = "error"

Kinds(path) == IF path = "srsv2" THEN FrameKinds ELSE {"intra"}
Shapes ==
    UNION {{path} \X {1, 2} \X UNION {[1 .. n -> Kinds(path)] : n \in 0 .. 2} : path \in {"srsv", "srsa", "srsv2"}}
\* each with whether it can be trusted
StreamTable ==
    {<<shape, \E stream \in {StreamOf(shape[1], shape[2], shape[3])} :
                 Trustworthy(stream) /\ (shape[1] = "srsv2" => KindsAgree(stream.frames))>> : shape \in Shapes}

\* the header and the tracks of a container
TrackOf(track) ==
    [id |-> track.id, kind |-> IF track.codec = "audio" THEN 1 ELSE 2,
     codec |-> CASE track.codec = "v1" -> 1 [] track.codec = "audio" -> 2 [] track.codec = "v2" -> 3,
     flags |-> 0, timescale |-> 90,
     config |-> CASE track.codec = "v1" -> <<Width, Height>>
                  [] track.codec = "audio" -> <<Rate, 2>>
                  [] track.codec = "v2" -> EncodeSequence(MainSequence(Width, Height, 1))]
HeadCells(header, table) ==
    EncodeFileHeader(header).val
    \o (IF table = <<>> THEN <<>> ELSE IF Len(table) = 1 THEN EncodeTrack(table[1]).val
        ELSE EncodeTrack(table[1]).val \o EncodeTrack(table[2]).val)
HeadRead(cells) ==
    LET header == DecodeFileHeader(cells)
        table == DecodeTracks(cells, header.val.next, header.val.header.tracks)
    IN  IF ~header.ok THEN Refused ELSE IF ~table.ok THEN Refused
        ELSE Found(<<header.val.header, table.val.tracks>>)
\* both versions of the header are read back, and nothing is that was cut off
HeadTrusted(table, header) ==
    \E cells \in {HeadCells(header, table)} :
        /\ HeadRead(cells) = Found(<<header, table>>)
        /\ ProfileOf(header.flags) = IF header.version = 2 THEN Mixed ELSE 0
        /\ \A n \in 0 .. Len(cells) - 1 : ~HeadRead(SubSeq(cells, 1, n)).ok
        /\ \A track \in {table[i] : i \in DOMAIN table} :
              track.codec = 3 => DecodeSequence(track.config) = Found(MainSequence(Width, Height, 1))
Tables == UNION {[1 .. n -> {Track(id, codec) : id \in 1 .. 2, codec \in {"v1", "v2", "audio"}}] : n \in 0 .. 2}
HeadTable ==
    {<<tracks, \E table \in {[i \in DOMAIN tracks |-> TrackOf(tracks[i])]} :
                  \A header \in {NewFileHeader(Len(tracks), 2), NewLegacyFileHeader(Len(tracks), 2)} :
                      HeadTrusted(table, header)>> : tracks \in Tables}

-------------------------------------------------------------------------------
\* every file there is holds what the next job will read of it, by these tables
FilesTrusted(streams, heads) ==
    \A path \in DOMAIN disk \cap (Elementary \cup Containers) :
        Opens(path) /\ SupportedTracks(path) =>
            IF path \in Containers THEN <<disk[path].tracks, TRUE>> \in heads
            ELSE \A version \in {1, 2} :
                    <<<<path, version, [i \in DOMAIN disk[path].frames |-> disk[path].frames[i].kind]>>, TRUE>> \in streams
================================================================================
