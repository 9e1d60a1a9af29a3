----------------------------- MODULE References -----------------------------
(***************************************************************************)
(* The reference pictures of an SRSV2 decoder (SrsV2ReferenceManager) and  *)
(* what decoding a payload does to them.                                   *)
(*                                                                         *)
(* A payload names the pictures it was predicted from, which no bit of the *)
(* real one does: a decoder takes whatever its slots hold.  The picture it *)
(* makes is exact when those were the ones the encoder had, themselves     *)
(* exact.                                                                  *)
(***************************************************************************)
EXTENDS Integers, Sequences

CONSTANTS
    MaxRef,      \* max_ref_frames of the sequence header
    None         \* an empty slot, no picture

ASSUME ReferencesAssumption == MaxRef \in Nat

Picture == [id : Nat, index : Nat, exact : BOOLEAN]
Slots == [0 .. MaxRef - 1 -> Picture \cup {None}]
NoRefs == [i \in 0 .. MaxRef - 1 |-> None]

\* kind: "intra", "P", "B" or "alt"; from: ids of the pictures predicted from;
\* at: the slots a B payload or an alt-ref names
Payload(kind, id, index, from, at) ==
    [kind |-> kind, id |-> id, index |-> index, from |-> from, at |-> at]

PrimaryRef(slots) == IF MaxRef = 0 THEN None ELSE slots[0]

ReplaceAfterKeyframe(slots, picture) ==
    [i \in DOMAIN slots |-> IF i = 0 THEN picture ELSE None]

PushDisplayableLast(slots, picture) ==
    [i \in DOMAIN slots |-> IF i = 0 THEN picture ELSE slots[i - 1]]

StoreAltRefAt(slots, at, picture) == [slots EXCEPT ![at] = picture]

Predicted(payload, refs) ==
    [id |-> payload.id, index |-> payload.index,
     exact |-> payload.from = [i \in DOMAIN refs |-> refs[i].id] /\ \A i \in DOMAIN refs : refs[i].exact]

\* the pictures a payload is decoded from, None where there is none
RefsOf(payload, slots) ==
    CASE payload.kind = "P" -> <<PrimaryRef(slots)>>
      [] payload.kind = "B" -> [i \in 1 .. 2 |->
            IF payload.at[i] \in DOMAIN slots THEN slots[payload.at[i]] ELSE None]
      [] OTHER -> <<>>

\* a B payload lies between its two references in display order
Decodable(payload, slots) ==
    LET refs == RefsOf(payload, slots)
    IN  /\ \A i \in DOMAIN refs : refs[i] # None
        /\ payload.kind = "B" =>
            MaxRef >= 2 /\ refs[1].index < payload.index /\ payload.index < refs[2].index
        /\ payload.kind = "alt" => payload.at[1] \in DOMAIN slots

\* decode_yuv420_srsv2_payload_managed of a decodable payload
DecodedPicture(payload, slots) == Predicted(payload, RefsOf(payload, slots))
SlotsAfter(payload, slots) ==
    LET picture == DecodedPicture(payload, slots)
    IN  CASE payload.kind = "intra" -> ReplaceAfterKeyframe(slots, picture)
          [] payload.kind = "P" -> PushDisplayableLast(slots, picture)
          [] payload.kind = "alt" -> StoreAltRefAt(slots, payload.at[1], picture)
          [] payload.kind = "B" -> slots

\* encode_yuv420_inter_payload: intra at every keyframe interval and where there
\* is no reference
InterPayload(id, index, interval, reference) ==
    IF index % interval = 0 \/ MaxRef = 0 \/ reference = None
    THEN Payload("intra", id, index, <<>>, <<>>)
    ELSE Payload("P", id, index, <<reference.id>>, <<>>)
=============================================================================
