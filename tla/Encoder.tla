------------------------------ MODULE Encoder ------------------------------
(***************************************************************************)
(* Encoding a video track, with its audio, into the packets of a file.     *)
(* MuxNativeImportSink writes I and P pictures in display order and keeps  *)
(* one reference through decode_yuv420_srsv2_payload.  The B-GOP encoder   *)
(* of bench_srsv2 puts its pictures into an order of its own and keeps a   *)
(* reference manager; a file with its packets is what playback's own test  *)
(* of B pictures opens.                                                    *)
(***************************************************************************)
EXTENDS References, FiniteSets, FiniteSetsExt

CONSTANTS
    KeyInterval,   \* keyframe_interval of the settings, keyint of the bench
    Frames,        \* how many pictures there are to encode
    AltRefs,       \* the slots an alt-ref may be encoded for
    MaxPackets     \* bound on the packets of a file

ASSUME EncoderAssumption ==
    KeyInterval \in Nat \ {0} /\ Frames \in Nat /\ MaxPackets \in Nat /\ AltRefs \subseteq 0 .. MaxRef - 1

VARIABLES
    log,           \* the packets written, in file order
    encoder,       \* "import", "bgop", or what became of it: "done", "failed"
    encoded,       \* the pictures encoded, by display index
    reference,     \* srsv2_decoded_ref of the import sink
    anchors        \* the bench's reference manager

encoderVars == <<log, encoder, encoded, reference, anchors>>

EncoderInit ==
    /\ log = <<>> /\ encoder \in {"import"} \cup IF MaxRef >= 2 THEN {"bgop"} ELSE {}
    /\ encoded = {} /\ reference = None /\ anchors = NoRefs

CountOf(track) == Cardinality({i \in DOMAIN log : log[i].track = track})

\* write_packet with its timestamp on the track's own clock; the key flag is
\* classify_srsv2_payload's
VideoPacket(payload) ==
    [track |-> "video", key |-> payload.kind = "intra", pts |-> CountOf("video"), payload |-> payload]
AudioPacket == [track |-> "audio", key |-> TRUE, pts |-> CountOf("audio"), payload |-> None]
Put(packet) == Len(log) < MaxPackets /\ log' = Append(log, packet)
NextId == Len(log) + 1

\* decode_yuv420_srsv2_payload with one reference: intra and P only
LegacyPicture(payload, ref) ==
    Predicted(payload, IF payload.kind = "intra" THEN <<>> ELSE <<ref>>)

\* mutant: the reference is refreshed by intra pictures only
PushVideoRefreshedByIntra ==
    LET index == Cardinality(encoded)
        payload == InterPayload(NextId, index, KeyInterval, reference)
    IN  /\ encoder = "import" /\ index < Frames
        /\ Put(VideoPacket(payload))
        /\ encoded' = encoded \cup {index}
        /\ reference' = IF payload.kind = "intra" THEN LegacyPicture(payload, reference) ELSE reference
        /\ UNCHANGED <<encoder, anchors>>

PushVideo ==
    LET index == Cardinality(encoded)
        payload == InterPayload(NextId, index, KeyInterval, reference)
    IN  /\ encoder = "import" /\ index < Frames
        /\ Put(VideoPacket(payload))
        /\ encoded' = encoded \cup {index}
        /\ reference' = IF MaxRef = 0 THEN None ELSE LegacyPicture(payload, reference)
        /\ UNCHANGED <<encoder, anchors>>

PushAudio ==
    /\ encoder \in {"import", "bgop"}
    /\ Put(AudioPacket)
    /\ UNCHANGED <<encoder, encoded, reference, anchors>>

\* The B-GOP: I at every keyint, P on the other even indices, B on the odd ones
\* that have a later anchor (classify_bench_emit_kind).
KindOf(index) ==
    CASE index % KeyInterval = 0 -> "intra"
      [] index % KeyInterval # 0 /\ index % 2 = 0 -> "P"
      [] OTHER -> IF \E j \in index + 1 .. Frames - 1 : j % KeyInterval = 0 \/ j % 2 = 0
                  THEN "B" ELSE "P"
Anchor == {index \in 0 .. Frames - 1 : KindOf(index) # "B"}

\* the pictures that come before one in b_gop_encode_order
Needs(index) ==
    LET previous == Max({j \in Anchor : j < index})
        next == Min({j \in Anchor : j > index})
    IN  CASE KindOf(index) = "intra" -> {}
          [] KindOf(index) = "P" -> {previous}
          [] KindOf(index) = "B" -> {previous, next}

\* of the pictures whose anchors are encoded, the first in display order
Ready == {index \in (0 .. Frames - 1) \ encoded : Needs(index) \subseteq encoded}
Upcoming == Min(Ready)

\* a B picture is predicted from slot 1 backward and slot 0 forward
GopPayload(index) ==
    CASE KindOf(index) = "intra" -> Payload("intra", NextId, index, <<>>, <<>>)
      [] KindOf(index) = "P" -> InterPayload(NextId, index, KeyInterval, PrimaryRef(anchors))
      [] KindOf(index) = "B" -> Payload("B", NextId, index, <<anchors[1].id, anchors[0].id>>, <<1, 0>>)

BRefsHeld == MaxRef >= 2 /\ anchors[0] # None /\ anchors[1] # None

EncodeNext ==
    /\ encoder = "bgop" /\ Ready # {}
    /\ KindOf(Upcoming) = "B" => BRefsHeld
    /\ LET payload == GopPayload(Upcoming)
       IN  /\ Decodable(payload, anchors)
           /\ Put(VideoPacket(payload))
           /\ anchors' = SlotsAfter(payload, anchors)
    /\ encoded' = encoded \cup {Upcoming}
    /\ UNCHANGED <<encoder, reference>>

\* frame_at_slot_index finds no picture, or the refresh after encoding fails:
\* the pass ends with an error
EncodeFails ==
    /\ encoder = "bgop" /\ Ready # {}
    /\ KindOf(Upcoming) = "B" /\ ~(BRefsHeld /\ Decodable(GopPayload(Upcoming), anchors))
    /\ encoder' = "failed"
    /\ UNCHANGED <<log, encoded, reference, anchors>>

\* encode_yuv420_alt_ref_payload for the frame to come, decoded as the others
EncodeAltRef(at) ==
    LET payload == Payload("alt", NextId, Cardinality(encoded), <<>>, <<at>>)
    IN  /\ encoder = "bgop" /\ Put(VideoPacket(payload))
        /\ anchors' = SlotsAfter(payload, anchors)
        /\ UNCHANGED <<encoder, encoded, reference>>

EncoderNext ==
    \/ PushVideo \/ PushAudio \/ EncodeNext \/ EncodeFails
    \/ \E at \in AltRefs : EncodeAltRef(at)

EncoderSpec == EncoderInit /\ [][EncoderNext]_encoderVars
-----------------------------------------------------------------------------
\* docs/srsv2_benchmarks.md:111 says of --bframes 1: "keyint-aware I/B/P placement,
\* encode order = decode order (anchors before sandwiched B pictures)", requiring
\* two reference frames and three pictures.  A pass that has them does not fail.
GopIsEncoded == encoder # "failed"
=============================================================================
