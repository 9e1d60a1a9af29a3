------------------------------- MODULE Headers -------------------------------
(***************************************************************************)
(* What stands before the data: the header and the track table of a        *)
(* container (libsrs_container format.rs, io.rs), the sequence header of   *)
(* SRSV2 and the revisions its frames may carry (srsv2/model.rs,           *)
(* payload_kind.rs).  A field is one cell, a number, whatever its width.   *)
(***************************************************************************)
EXTENDS Integers, Sequences

CONSTANTS
    MaxTracks,          \* MAX_TRACKS
    MaxConfig,          \* MAX_TRACK_CONFIG_BYTES
    MaxSequenceRefs     \* 16, MAX_REF_FRAMES

ASSUME HeadersAssumption == MaxTracks \in Nat /\ MaxConfig \in Nat /\ MaxSequenceRefs \in Nat

Found(value) == [ok |-> TRUE, val |-> value]
Refused == [ok |-> FALSE]

-------------------------------------------------------------------------------
(* The file header: version 1 with a short magic, version 2 with a long one. *)

LegacyMagic == <<81>>           \* "SRSM"
LongMagic == <<82, 0>>          \* "SRS5", "28\0\0"
HeaderLength(version) == IF version = 1 THEN 20 ELSE 24
ProfileOf(flags) == IF flags % 16 \in 1 .. 5 THEN flags % 16 ELSE 0
Mixed == 5

FileHeader(version, flags, length, tracks, interval) ==
    [version |-> version, flags |-> flags, length |-> length, tracks |-> tracks, interval |-> interval]
\* FileHeader::new and new_legacy
NewFileHeader(tracks, interval) == FileHeader(2, Mixed, HeaderLength(2), tracks, interval)
NewLegacyFileHeader(tracks, interval) == FileHeader(1, 0, HeaderLength(1), tracks, interval)

EncodeFileHeader(h) ==
    IF h.tracks > MaxTracks \/ h.version \notin 1 .. 2 THEN Refused
    ELSE IF h.length # HeaderLength(h.version) THEN Refused
    ELSE Found((IF h.version = 1 THEN LegacyMagic ELSE LongMagic)
              \o <<h.version, h.flags, h.length, h.tracks, 0, h.interval>>)

\* decode_file_header: the magic and the version must say the same
DecodeFileHeader(cells) ==
    LET long == Len(cells) > 0 /\ cells[1] # LegacyMagic[1]
        start == IF long THEN 2 ELSE 1
        f == SubSeq(cells, start + 1, start + 6)
    IN  IF Len(cells) < start + 6 \/ (long /\ SubSeq(cells, 1, 2) # LongMagic) THEN Refused
        ELSE IF \/ f[1] # (IF long THEN 2 ELSE 1)
                \/ f[3] # HeaderLength(IF long THEN 2 ELSE 1)
                \/ f[4] > MaxTracks
        THEN Refused
        ELSE Found([header |-> FileHeader(f[1], f[2], f[3], f[4], f[6]), next |-> start + 6])

-------------------------------------------------------------------------------
(* The track table.                                                        *)

\* TrackKind: audio, video, data, subtitle, metadata, attachment
TrackKinds == 1 .. 6

\* t is [id, kind, codec, flags, timescale, config]
EncodeTrack(t) ==
    IF Len(t.config) > MaxConfig THEN Refused
    ELSE Found(<<t.id, t.kind, 0, t.codec, t.flags, t.timescale, Len(t.config)>> \o t.config)

DecodeTrack(cells, from) ==
    LET f == SubSeq(cells, from + 1, from + 7)
        end == from + 7 + f[7]
    IN  IF Len(cells) < from + 7 THEN Refused
        ELSE IF f[2] \notin TrackKinds \/ f[7] > MaxConfig \/ end > Len(cells) THEN Refused
        ELSE Found([track |-> [id |-> f[1], kind |-> f[2], codec |-> f[4], flags |-> f[5], timescale |-> f[6],
                              config |-> SubSeq(cells, from + 8, end)],
                   next |-> end])

\* the tracks that follow the header
DecodeTracks(cells, from, count) ==
    LET after[k \in 0 .. count] ==
            IF k = 0 THEN Found([tracks |-> <<>>, next |-> from])
            ELSE LET before == after[k - 1]
                     track == DecodeTrack(cells, before.val.next)
                 IN  IF ~before.ok THEN Refused
                     ELSE IF ~track.ok THEN Refused
                     ELSE Found([tracks |-> Append(before.val.tracks, track.val.track), next |-> track.val.next])
    IN  after[count]

-------------------------------------------------------------------------------
(* The sequence header of SRSV2.                                           *)

SequenceMagic == 83             \* "SRS2"
\* the fields that are numbers of an enumeration, with their last values
EnumFields == <<"profile", "format", "primaries", "transfer", "matrix", "siting", "range">>
LastValue == <<6, 9, 2, 2, 2, 2, 1>>
SequenceCells == 14

\* intra_main_yuv420_bt709_limited, and with one reference
MainSequence(width, height, refs) ==
    [width |-> width, height |-> height,
     fields |-> [profile |-> 1, format |-> 1, primaries |-> 1, transfer |-> 0, matrix |-> 1, siting |-> 0, range |-> 0],
     filterOff |-> TRUE, refs |-> refs, strength |-> 0]

EncodeSequence(q) ==
    <<SequenceMagic, 1, q.width, q.height>> \o [i \in 1 .. 7 |-> q.fields[EnumFields[i]]]
    \o <<IF q.filterOff THEN 1 ELSE 0, q.refs, q.strength>>

\* mutant: the strength and the number of references change places
DecodeSequenceSwapped(cells) ==
    IF Len(cells) < SequenceCells THEN Refused
    ELSE Found([width |-> cells[3], height |-> cells[4],
               fields |-> [name \in {EnumFields[i] : i \in 1 .. 7} |->
                              cells[4 + CHOOSE i \in 1 .. 7 : EnumFields[i] = name]],
               filterOff |-> cells[12] # 0, refs |-> cells[14], strength |-> cells[13]])

DecodeSequence(cells) ==
    IF Len(cells) < SequenceCells THEN Refused
    ELSE IF \/ cells[1] # SequenceMagic \/ cells[2] # 1
            \/ cells[13] > MaxSequenceRefs
            \/ \E i \in 1 .. 7 : cells[4 + i] > LastValue[i]
    THEN Refused
    ELSE Found([width |-> cells[3], height |-> cells[4],
               fields |-> [name \in {EnumFields[i] : i \in 1 .. 7} |->
                              cells[4 + CHOOSE i \in 1 .. 7 : EnumFields[i] = name]],
               filterOff |-> cells[12] # 0, refs |-> cells[13], strength |-> cells[14]])

-------------------------------------------------------------------------------
(* Revisions of frames.                                                    *)

IntraRevisions == {1, 3, 7, 29, 32, 34, 36}
PredictedRevisions == {2, 4, 5, 6, 8, 9, 15, 17, 19, 20, 23, 25, 27, 28, 30, 33, 35, 37}
BetweenRevisions == {10, 11, 13, 14, 16, 18, 21, 22, 24, 26, 31}

\* from_srsv2_revision
FrameTypeOf(revision) ==
    CASE revision \in IntraRevisions -> "Intra"
      [] revision \in PredictedRevisions -> "PredictedP"
      [] revision \in BetweenRevisions -> "BidirectionalB"
      [] revision = 12 -> "AltRef"
      [] OTHER -> "error"

\* classify_srsv2_payload, of a payload of at least four bytes: what is muxed as a
\* keyframe and what may not be muxed
PayloadKind(revision) ==
    CASE revision \in {1, 3, 7, 29, 32, 34, 36} -> "Intra"
      [] revision \in 2 .. 37 \ {3, 7, 12, 29, 32, 34, 36} -> "Predicted"
      [] revision = 12 -> "AltRef"
      [] OTHER -> "Unknown"
===============================================================================
