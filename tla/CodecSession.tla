---------------------------- MODULE CodecSession ----------------------------
(***************************************************************************)
(* An encoder and a decoder of SRSV2 with a payload between them that may  *)
(* be damaged on the way: the order of frames, the references either side  *)
(* keeps (reference_manager.rs) and the decoder's dispatch on the kind of  *)
(* frame (frame_codec.rs).                                                 *)
(*                                                                         *)
(* A payload here is what was encoded; the bytes it becomes, and that they *)
(* are read back, are CodecContract's.  A picture that was coded is what   *)
(* was coded of it on top of the pictures it was predicted from.           *)
(***************************************************************************)
EXTENDS Integers, Sequences

CONSTANTS
    Empty,          \* an empty slot
    Settings,       \* settings an encoder may be given
    Pictures,       \* names of pictures
    MaxFrames       \* bound: frames of a session

ASSUME CodecSessionAssumption ==
    /\ MaxFrames \in Nat
    /\ \A s \in Settings : s.refs \in Nat /\ s.interval \in Nat

VARIABLES
    session,        \* "open", or "refused" once an encode returns an error
    s,              \* the settings
    frames,         \* frames encoded
    index,          \* frame_index of the next frame that is not a B frame
    made,           \* the encoder's slots: [index, picture] or Empty
    sent,           \* the picture the last payload stands for
    wire,           \* the payload on its way, <<payload>> or <<>>
    intact,         \* whether it is as it was sent
    slots,          \* the decoder's slots
    shown,          \* the picture it decoded last
    lost,           \* whether it missed a reference since the last intra frame
    answer          \* what it said last: "none", "frame", "error" or "unreferenced"

encoderVars == <<session, frames, index, made, sent>>
decoderVars == <<slots, shown, lost, answer>>
vars == <<s, encoderVars, wire, intact, decoderVars>>

Coded(from, what) == [from |-> from, what |-> what]
NoPicture == Coded(<<>>, <<>>)

\* what a frame is made of: its kind, picture and index, and the slots it names
Payload(kind, picture, at, places) == [kind |-> kind, picture |-> picture, index |-> at, slots |-> places]
Entry(at, picture) == [index |-> at, picture |-> picture]

-------------------------------------------------------------------------------
(* The slots of a reference manager.                                       *)

PrimaryRef(held) == IF held = <<>> THEN Empty ELSE held[1]

\* replace_after_keyframe
AfterKeyframe(held, entry) == [i \in DOMAIN held |-> IF i = 1 THEN entry ELSE Empty]
\* mutant: the picture that falls out is kept
AfterPKeepAll(held, entry) == <<entry>> \o held
\* push_displayable_last
AfterP(held, entry) == [i \in DOMAIN held |-> IF i = 1 THEN entry ELSE held[i - 1]]
\* store_alt_ref_at
AfterAlt(held, slot, entry) == [held EXCEPT ![slot + 1] = entry]

\* the pictures a B frame at `at` may be predicted from: one before, one after
Between(held, pair, at) ==
    /\ \A i \in 1 .. 2 : pair[i] \in 0 .. Len(held) - 1
    /\ \A i \in 1 .. 2 : held[pair[i] + 1] # Empty
    /\ held[pair[1] + 1].index < at /\ at < held[pair[2] + 1].index

-------------------------------------------------------------------------------
Init ==
    /\ session = "open" /\ s \in Settings /\ frames = 0 /\ index = 0
    /\ made = [i \in 1 .. s.refs |-> Empty] /\ slots = made
    /\ sent = NoPicture /\ shown = NoPicture
    /\ wire = <<>> /\ intact = TRUE /\ lost = FALSE /\ answer = "none"

MayEncode == session = "open" /\ wire = <<>> /\ frames < MaxFrames

\* a payload, the picture it stands for, the encoder's slots after it
Sends(payload, from, held) ==
    /\ wire' = <<payload>> /\ intact' = TRUE
    /\ sent' = Coded(from, payload) /\ made' = held
    /\ frames' = frames + 1 /\ UNCHANGED <<session, s, decoderVars>>

\* whether a frame is forced intra: encode_yuv420_inter_payload
Interval == IF s.interval < 1 THEN 1 ELSE s.interval
ForcesIntra == index % Interval = 0 \/ s.refs = 0 \/ PrimaryRef(made) = Empty

\* with B frames an anchor leaves room for one before it (the B-GOP of bench_srsv2)
NextIndex == index' = index + IF s.bFrames = "None" THEN 1 ELSE 2

\* encode_yuv420_inter_payload of a frame that is forced intra
EncodeKeyframe(picture) ==
    /\ MayEncode /\ ForcesIntra /\ NextIndex
    /\ LET payload == Payload("key", picture, index, <<>>)
       IN  Sends(payload, <<>>, AfterKeyframe(made, Entry(index, Coded(<<>>, payload))))

\* encode_yuv420_inter_payload of any other frame
EncodePredicted(picture) ==
    /\ MayEncode /\ ~ForcesIntra /\ NextIndex
    /\ LET payload == Payload("predicted", picture, index, <<>>)
           from == <<made[1].picture>>
       IN  Sends(payload, from, AfterP(made, Entry(index, Coded(from, payload))))

\* encode_yuv420_b_payload or encode_yuv420_b_payload_mb_blend between the last two anchors
EncodeBetween(picture) ==
    /\ MayEncode /\ s.bFrames # "None" /\ Between(made, <<1, 0>>, index - 3)
    /\ Sends(Payload("between", picture, index - 3, <<1, 0>>), <<made[2].picture, made[1].picture>>, made)
    /\ UNCHANGED index

\* encode_yuv420_alt_ref_payload
EncodeAltRef(picture, slot) ==
    /\ MayEncode /\ s.alt /\ slot < s.refs
    /\ LET payload == Payload("alt", picture, index, <<slot>>)
       IN  Sends(payload, <<>>, AfterAlt(made, slot, Entry(index, Coded(<<>>, payload))))
    /\ UNCHANGED index

\* an encode of any kind returns an error, as CodecContract has it
EncodeFails ==
    /\ MayEncode /\ session' = "refused"
    /\ UNCHANGED <<s, frames, index, made, sent, wire, intact, decoderVars>>

\* a payload loses its end or gains something behind it
Damage ==
    /\ wire # <<>> /\ intact /\ intact' = FALSE
    /\ UNCHANGED <<s, encoderVars, wire, decoderVars>>

-------------------------------------------------------------------------------
(* decode_yuv420_srsv2_payload_managed.                                    *)

Arrived == wire[1]
Unreferenced ==
    \/ Arrived.kind = "predicted" /\ PrimaryRef(slots) = Empty
    \/ Arrived.kind = "between" /\ ~Between(slots, Arrived.slots, Arrived.index)

\* the pictures it is predicted from
PredictedFrom ==
    CASE Arrived.kind = "between" -> [i \in 1 .. 2 |-> slots[Arrived.slots[i] + 1].picture]
      [] Arrived.kind = "predicted" -> <<slots[1].picture>>
      [] OTHER -> <<>>

\* mutant: a B frame takes a slot as well
SlotsWithAll(entry) ==
    CASE Arrived.kind = "key" -> AfterKeyframe(slots, entry)
      [] Arrived.kind = "alt" -> AfterAlt(slots, Arrived.slots[1], entry)
      [] OTHER -> AfterP(slots, entry)
SlotsWith(entry) ==
    CASE Arrived.kind = "key" -> AfterKeyframe(slots, entry)
      [] Arrived.kind = "predicted" -> AfterP(slots, entry)
      [] Arrived.kind = "between" -> slots
      [] Arrived.kind = "alt" -> AfterAlt(slots, Arrived.slots[1], entry)

DecodeFrameIntact ==
    /\ wire # <<>> /\ intact /\ ~Unreferenced
    /\ shown' = Coded(PredictedFrom, Arrived)
    /\ slots' = SlotsWith(Entry(Arrived.index, Coded(PredictedFrom, Arrived)))
    /\ answer' = "frame" /\ lost' = (lost /\ Arrived.kind # "key")
    /\ wire' = <<>> /\ UNCHANGED <<s, encoderVars, intact>>

\* the payload is refused as a whole; a damaged head may name any reference
DecodeRefused ==
    /\ wire # <<>> /\ (Unreferenced \/ ~intact)
    /\ answer' \in (IF Unreferenced THEN {"unreferenced"} ELSE {}) \cup (IF intact THEN {} ELSE {"error"})
    /\ lost' = (lost \/ Arrived.kind # "between")
    /\ wire' = <<>> /\ UNCHANGED <<s, encoderVars, intact, shown, slots>>

Next ==
    \/ \E picture \in Pictures :
          \/ EncodeKeyframe(picture) \/ EncodePredicted(picture) \/ EncodeBetween(picture)
          \/ \E slot \in 0 .. 1 : EncodeAltRef(picture, slot)
    \/ EncodeFails \/ Damage \/ DecodeFrameIntact \/ DecodeRefused

Spec == Init /\ [][Next]_vars

-------------------------------------------------------------------------------
Slot(held) ==
    /\ DOMAIN held = 1 .. s.refs
    /\ \A i \in DOMAIN held : held[i] = Empty \/ held[i].index \in 0 .. index

CodecTypeOK ==
    /\ session \in {"open", "refused"} /\ s \in Settings /\ frames \in 0 .. MaxFrames
    /\ Len(wire) <= 1 /\ intact \in BOOLEAN /\ lost \in BOOLEAN
    /\ answer \in {"none", "frame", "error", "unreferenced"}
    /\ Slot(made) /\ Slot(slots)

\* As long as no frame that others are predicted from went missing since the
\* last intra frame, the decoder holds the references the encoder predicts
\* from, shows the picture it meant, and never lacks the reference of a frame:
\* losing B frames costs nothing else, and an intra frame mends the rest
\* (replace_after_keyframe, push_displayable_last, store_alt_ref_at).
InStep ==
    wire = <<>> /\ ~lost =>
        /\ slots = made /\ answer # "unreferenced"
        /\ intact /\ answer = "frame" => shown = sent
===============================================================================
