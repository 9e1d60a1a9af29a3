------------------------- MODULE CodecSessionProofs -------------------------
(***************************************************************************)
(* The two reference managers stay in step, for every choice of settings,  *)
(* any number of slots, and any losses and damage on the way.  Between two *)
(* payloads the decoder's slots are the encoder's; while one is on its way *)
(* they are one decoding behind (Pending), which for an intra frame holds  *)
(* whatever was lost before, since it clears all slots but the first.      *)
(***************************************************************************)
EXTENDS CodecSession, TLAPS

\* a payload of a kind the decoder knows, of a frame that was encoded
Known(payload, at) ==
    /\ payload.kind \in {"key", "predicted", "between", "alt"}
    /\ payload.kind # "between" => payload.index \in 0 .. at
    /\ payload.kind = "alt" => payload.slots[1] \in Nat

\* the wire holds at most one payload
WireInv == wire = <<>> \/ (wire = <<Arrived>> /\ Known(Arrived, index))

\* what an encode has left for the decoder: the payload's frame is what the
\* decoder will make of it, and the encoder's slots are what its own will be
Pending ==
    /\ sent = Coded(PredictedFrom, Arrived)
    /\ made = SlotsWith(Entry(Arrived.index, sent))

TypeInv == CodecTypeOK /\ WireInv /\ index \in Nat

IInv ==
    /\ TypeInv /\ InStep
    /\ wire # <<>> /\ Arrived.kind = "key" => Pending
    /\ wire # <<>> /\ ~lost => Pending /\ ~Unreferenced

-------------------------------------------------------------------------------
\* Two facts about the constants.
LEMMA Refs == ASSUME s \in Settings PROVE s.refs \in Nat
BY CodecSessionAssumption
LEMMA FrameBound == MaxFrames \in Nat
BY CodecSessionAssumption

LEMMA InitInvariant == Init => IInv
<1> SUFFICES ASSUME Init PROVE IInv
    OBVIOUS
<1>1. s \in Settings
    BY DEF Init
<1>2. s.refs \in Nat
    BY <1>1, Refs
<1>3. frames \in 0 .. MaxFrames
    BY FrameBound DEF Init
<1>4. Slot(made) /\ Slot(slots)
    BY <1>2 DEF Init, Slot
<1>5. Len(wire) <= 1 /\ wire = <<>>
    BY DEF Init
<1>6. CodecTypeOK
    BY <1>1, <1>3, <1>4, <1>5 DEF Init, CodecTypeOK
<1> QED
    BY <1>6 DEF Init, IInv, TypeInv, WireInv, InStep

\* A function over the slots, each empty or of a frame up to `at`.
SlotsUpTo(held, at) ==
    /\ DOMAIN held = 1 .. s.refs
    /\ \A i \in DOMAIN held : held[i] = Empty \/ held[i].index \in 0 .. at

\* Each way to refresh the slots gives slots.
LEMMA SlotsMoved ==
    ASSUME NEW held, NEW at \in Nat, SlotsUpTo(held, at), s.refs \in Nat, NEW next \in Nat, at <= next,
           NEW entry, entry.index \in 0 .. next, NEW slot \in Nat
    PROVE  /\ SlotsUpTo(AfterKeyframe(held, entry), next)
           /\ SlotsUpTo(AfterP(held, entry), next)
           /\ SlotsUpTo(AfterAlt(held, slot, entry), next)
           /\ SlotsUpTo(held, next)
<1> USE DEF SlotsUpTo
<1>1. SlotsUpTo(AfterKeyframe(held, entry), next)
    BY DEF AfterKeyframe
<1>2. SlotsUpTo(AfterP(held, entry), next)
    BY DEF AfterP
<1>3. SlotsUpTo(AfterAlt(held, slot, entry), next)
    BY DEF AfterAlt
<1>4. SlotsUpTo(held, next)
    OBVIOUS
<1> QED
    BY <1>1, <1>2, <1>3, <1>4

\* What an encode leaves: its slots, and the decoder as it was.
LEMMA EncodeKeepsTypes ==
    ASSUME TypeInv, MayEncode, NEW held, NEW payload, NEW from,
           Sends(payload, from, held), Known(payload, index'),
           index' \in Nat, index <= index', SlotsUpTo(held, index')
    PROVE  TypeInv'
<1>1. session = "open" /\ s \in Settings /\ frames \in 0 .. MaxFrames /\ frames < MaxFrames
    BY DEF TypeInv, CodecTypeOK, MayEncode
<1>2. /\ session' = session /\ s' = s /\ frames' = frames + 1 /\ wire' = <<payload>> /\ intact' = TRUE
      /\ made' = held /\ slots' = slots /\ lost' = lost /\ answer' = answer
    BY DEF Sends, decoderVars
<1>3. frames' \in 0 .. MaxFrames
    BY <1>1, <1>2, FrameBound
<1>4. Slot(slots)'
    BY <1>2, SlotsMoved DEF TypeInv, CodecTypeOK, Slot, SlotsUpTo
<1>5. Slot(made)'
    BY <1>2 DEF Slot, SlotsUpTo
<1>6. CodecTypeOK'
    BY <1>1, <1>2, <1>3, <1>4, <1>5 DEF TypeInv, CodecTypeOK
<1>7. WireInv'
    BY <1>2 DEF WireInv, Arrived
<1> QED
    BY <1>6, <1>7 DEF TypeInv

\* What an encode owes the decoder: when the slots are the same, or the frame is
\* intra, the decoder will make of the payload what was sent.
LEMMA EncodeKeepsStep ==
    ASSUME IInv, MayEncode, NEW held, NEW payload, NEW from,
           Sends(payload, from, held), TypeInv',
           payload.kind = "key" => Pending',
           slots = made => Pending' /\ ~Unreferenced'
    PROVE  IInv'
<1>1. wire = <<>> /\ wire' = <<payload>> /\ wire' # <<>> /\ lost' = lost
    BY DEF Sends, MayEncode, decoderVars
<1>2. Arrived' = payload
    BY <1>1 DEF Arrived
<1>3. InStep'
    BY <1>1 DEF InStep
<1>4. ~lost' => slots = made
    BY <1>1 DEF IInv, InStep
<1> QED
    BY <1>1, <1>2, <1>3, <1>4 DEF IInv

-------------------------------------------------------------------------------
(* The encoder's actions.                                                  *)

\* The slots the encoder has, and the index its next frame gets.
LEMMA EncoderHas ==
    ASSUME TypeInv
    PROVE  s \in Settings /\ s.refs \in Nat /\ index \in Nat /\ SlotsUpTo(made, index) /\ SlotsUpTo(slots, index)
BY Refs DEF TypeInv, CodecTypeOK, Slot, SlotsUpTo

LEMMA IndexGrows ==
    ASSUME index \in Nat, NextIndex
    PROVE  index' \in Nat /\ index <= index'
BY DEF NextIndex

LEMMA KeyframeInvariant ==
    ASSUME IInv, NEW picture, EncodeKeyframe(picture)
    PROVE  IInv'
<1> DEFINE payload == Payload("key", picture, index, <<>>)
           entry == Entry(index, Coded(<<>>, payload))
           held == AfterKeyframe(made, entry)
<1>1. MayEncode /\ NextIndex /\ Sends(payload, <<>>, held)
    BY DEF EncodeKeyframe
<1>2. TypeInv /\ s.refs \in Nat /\ index \in Nat /\ SlotsUpTo(made, index) /\ SlotsUpTo(slots, index)
    BY EncoderHas DEF IInv
<1>3. index' \in Nat /\ index <= index'
    BY <1>1, <1>2, IndexGrows
<1>4. entry.index = index /\ payload.kind = "key" /\ payload.index = index
    BY DEF Entry, Payload
<1>5. SlotsUpTo(held, index')
    BY <1>2, <1>3, <1>4, SlotsMoved
<1>13. Known(payload, index')
    BY <1>1, <1>2, <1>3, <1>4 DEF Known, Payload
<1>6. TypeInv'
    <2> HIDE DEF payload, entry, held
    <2> QED BY <1>1, <1>2, <1>3, <1>4, <1>5, <1>13, EncodeKeepsTypes
<1>7. /\ wire' = <<payload>> /\ sent' = Coded(<<>>, payload) /\ made' = held /\ slots' = slots
    BY <1>1 DEF Sends, decoderVars
<1>8. Arrived' = payload
    BY <1>7 DEF Arrived
<1>9. PredictedFrom' = <<>> /\ ~Unreferenced'
    BY <1>4, <1>8 DEF PredictedFrom, Unreferenced
<1>10. AfterKeyframe(slots, entry) = AfterKeyframe(made, entry)
    BY <1>2 DEF AfterKeyframe, SlotsUpTo
<1>11. Pending'
    BY <1>4, <1>7, <1>8, <1>9, <1>10 DEF Pending, SlotsWith
<1> QED
    BY <1>1, <1>6, <1>9, <1>11, EncodeKeepsStep

LEMMA PredictedInvariant ==
    ASSUME IInv, NEW picture, EncodePredicted(picture)
    PROVE  IInv'
<1> DEFINE payload == Payload("predicted", picture, index, <<>>)
           from == <<made[1].picture>>
           entry == Entry(index, Coded(from, payload))
           held == AfterP(made, entry)
<1>1. MayEncode /\ NextIndex /\ Sends(payload, from, held) /\ ~ForcesIntra
    BY DEF EncodePredicted
<1>2. TypeInv /\ s.refs \in Nat /\ index \in Nat /\ SlotsUpTo(made, index) /\ SlotsUpTo(slots, index)
    BY EncoderHas DEF IInv
<1>3. index' \in Nat /\ index <= index'
    BY <1>1, <1>2, IndexGrows
<1>4. entry.index = index /\ payload.kind = "predicted" /\ payload.index = index
    BY DEF Entry, Payload
<1>5. SlotsUpTo(held, index')
    BY <1>2, <1>3, <1>4, SlotsMoved
<1>13. Known(payload, index')
    BY <1>1, <1>2, <1>3, <1>4 DEF Known, Payload
<1>6. TypeInv'
    <2> HIDE DEF payload, entry, held
    <2> QED BY <1>1, <1>2, <1>3, <1>4, <1>5, <1>13, EncodeKeepsTypes
<1>7. /\ wire' = <<payload>> /\ sent' = Coded(from, payload) /\ made' = held /\ slots' = slots
    BY <1>1 DEF Sends, decoderVars
<1>8. Arrived' = payload
    BY <1>7 DEF Arrived
<1>9. ASSUME slots = made
      PROVE  PredictedFrom' = from /\ ~Unreferenced' /\ Pending'
    <2>1. PrimaryRef(slots)' # Empty
        BY <1>1, <1>7, <1>9 DEF ForcesIntra, PrimaryRef
    <2>2. ~Unreferenced'
        BY <1>4, <1>8, <2>1 DEF Unreferenced
    <2>3. PredictedFrom' = from
        BY <1>4, <1>7, <1>8, <1>9 DEF PredictedFrom
    <2>4. Pending'
        BY <1>4, <1>7, <1>8, <1>9, <2>3 DEF Pending, SlotsWith
    <2> QED
        BY <2>2, <2>3, <2>4
<1> QED
    BY <1>1, <1>4, <1>6, <1>9, EncodeKeepsStep

LEMMA BetweenInvariant ==
    ASSUME IInv, NEW picture, EncodeBetween(picture)
    PROVE  IInv'
<1> DEFINE payload == Payload("between", picture, index - 3, <<1, 0>>)
           from == <<made[2].picture, made[1].picture>>
<1>1. MayEncode /\ Sends(payload, from, made) /\ index' = index /\ Between(made, <<1, 0>>, index - 3)
    BY DEF EncodeBetween
<1>2. TypeInv /\ s.refs \in Nat /\ index \in Nat /\ SlotsUpTo(made, index) /\ SlotsUpTo(slots, index)
    BY EncoderHas DEF IInv
<1>4. payload.kind = "between" /\ payload.index = index - 3 /\ payload.slots = <<1, 0>>
    BY DEF Payload
<1>13. Known(payload, index')
    BY <1>1, <1>2, <1>4 DEF Known, Payload
<1>6. TypeInv'
    <2> HIDE DEF payload
    <2> QED BY <1>1, <1>2, <1>4, <1>13, EncodeKeepsTypes
<1>7. /\ wire' = <<payload>> /\ sent' = Coded(from, payload) /\ made' = made /\ slots' = slots
    BY <1>1 DEF Sends, decoderVars
<1>8. Arrived' = payload
    BY <1>7 DEF Arrived
<1>9. ASSUME slots = made
      PROVE  Pending' /\ ~Unreferenced'
    <2>1. ~Unreferenced'
        BY <1>1, <1>4, <1>7, <1>8, <1>9 DEF Unreferenced, Between
    <2>2. PredictedFrom' = from
        BY <1>4, <1>7, <1>8, <1>9 DEF PredictedFrom
    <2>3. SlotsWith(Entry(Arrived.index, sent))' = slots'
        BY <1>4, <1>8 DEF SlotsWith
    <2> QED
        BY <1>7, <1>8, <1>9, <2>1, <2>2, <2>3 DEF Pending
<1> QED
    BY <1>1, <1>4, <1>6, <1>9, EncodeKeepsStep

LEMMA AltRefInvariant ==
    ASSUME IInv, NEW picture, NEW slot \in 0 .. 1, EncodeAltRef(picture, slot)
    PROVE  IInv'
<1> DEFINE payload == Payload("alt", picture, index, <<slot>>)
           entry == Entry(index, Coded(<<>>, payload))
           held == AfterAlt(made, slot, entry)
<1>1. MayEncode /\ Sends(payload, <<>>, held) /\ index' = index
    BY DEF EncodeAltRef
<1>2. TypeInv /\ s.refs \in Nat /\ index \in Nat /\ SlotsUpTo(made, index) /\ SlotsUpTo(slots, index)
    BY EncoderHas DEF IInv
<1>4. entry.index = index /\ payload.kind = "alt" /\ payload.index = index /\ payload.slots = <<slot>>
    BY DEF Entry, Payload
<1>5. SlotsUpTo(held, index')
    BY <1>1, <1>2, <1>4, SlotsMoved
<1>13. Known(payload, index')
    BY <1>1, <1>2, <1>4 DEF Known, Payload
<1>6. TypeInv'
    <2> HIDE DEF payload, entry, held
    <2> QED BY <1>1, <1>2, <1>4, <1>5, <1>13, EncodeKeepsTypes
<1>7. /\ wire' = <<payload>> /\ sent' = Coded(<<>>, payload) /\ made' = held /\ slots' = slots
    BY <1>1 DEF Sends, decoderVars
<1>8. Arrived' = payload
    BY <1>7 DEF Arrived
<1>9. PredictedFrom' = <<>> /\ ~Unreferenced'
    BY <1>4, <1>8 DEF PredictedFrom, Unreferenced
<1>10. ASSUME slots = made
       PROVE  Pending'
    BY <1>4, <1>7, <1>8, <1>9, <1>10 DEF Pending, SlotsWith
<1> QED
    BY <1>1, <1>4, <1>6, <1>9, <1>10, EncodeKeepsStep

-------------------------------------------------------------------------------
(* The wire and the decoder.                                               *)

LEMMA FailureInvariant ==
    ASSUME IInv, EncodeFails
    PROVE  IInv'
<1>1. wire = <<>> /\ wire' = <<>> /\ session' = "refused"
      /\ UNCHANGED <<s, frames, index, made, sent, intact, slots, shown, lost, answer>>
    BY DEF EncodeFails, MayEncode, decoderVars
<1>2. TypeInv'
    BY <1>1 DEF IInv, TypeInv, CodecTypeOK, Slot, WireInv
<1>3. InStep'
    BY <1>1 DEF IInv, InStep
<1> QED
    BY <1>1, <1>2, <1>3 DEF IInv

LEMMA DamageInvariant ==
    ASSUME IInv, Damage
    PROVE  IInv'
<1>1. wire # <<>> /\ intact' = FALSE
      /\ UNCHANGED <<session, s, frames, index, made, sent, wire, slots, shown, lost, answer>>
    BY DEF Damage, encoderVars, decoderVars
<1>2. TypeInv'
    BY <1>1 DEF IInv, TypeInv, CodecTypeOK, Slot, WireInv, Arrived, Known
<1>3. InStep'
    BY <1>1 DEF InStep
<1>4. Arrived' = Arrived /\ Unreferenced' = Unreferenced /\ Pending' = Pending
    BY <1>1 DEF Arrived, Unreferenced, Pending, PredictedFrom, SlotsWith
<1> QED
    BY <1>1, <1>2, <1>3, <1>4 DEF IInv

\* Decoding a payload leaves slots.
LEMMA DecodedSlots ==
    ASSUME TypeInv, wire # <<>>, NEW entry, entry.index = Arrived.index
    PROVE  SlotsUpTo(SlotsWith(entry), index)
<1>1. s.refs \in Nat /\ index \in Nat /\ SlotsUpTo(slots, index)
    BY EncoderHas
<1>2. Known(Arrived, index)
    BY DEF TypeInv, WireInv
<1>3. CASE Arrived.kind = "between"
    BY <1>1, <1>3 DEF SlotsWith
<1>4. CASE Arrived.kind # "between"
    <2>1. entry.index \in 0 .. index
        BY <1>2, <1>4 DEF Known
    <2>2. \A slot \in Nat : /\ SlotsUpTo(AfterKeyframe(slots, entry), index)
                            /\ SlotsUpTo(AfterP(slots, entry), index)
                            /\ SlotsUpTo(AfterAlt(slots, slot, entry), index)
        BY <1>1, <2>1, SlotsMoved
    <2> QED
        BY <1>2, <1>4, <2>2 DEF SlotsWith, Known
<1> QED
    BY <1>3, <1>4

LEMMA DecodeInvariant ==
    ASSUME IInv, DecodeFrameIntact
    PROVE  IInv'
<1> DEFINE entry == Entry(Arrived.index, Coded(PredictedFrom, Arrived))
<1>1. /\ wire # <<>> /\ ~Unreferenced /\ wire' = <<>> /\ slots' = SlotsWith(entry)
      /\ shown' = Coded(PredictedFrom, Arrived) /\ answer' = "frame" /\ lost' = (lost /\ Arrived.kind # "key")
      /\ UNCHANGED <<session, s, frames, index, made, sent, intact>>
    BY DEF DecodeFrameIntact, encoderVars
<1>2. TypeInv /\ entry.index = Arrived.index
    BY DEF IInv, Entry
<1>3. SlotsUpTo(SlotsWith(entry), index)
    <2> HIDE DEF entry
    <2> QED  BY <1>1, <1>2, DecodedSlots
<1>4. Slot(slots)'
    BY <1>1, <1>3 DEF Slot, SlotsUpTo
<1>5. TypeInv'
    BY <1>1, <1>2, <1>4 DEF TypeInv, CodecTypeOK, Slot, WireInv
<1>6. ~lost' => Pending
    BY <1>1 DEF IInv, TypeInv, CodecTypeOK
<1>7. InStep'
    BY <1>1, <1>6 DEF InStep, Pending
<1> QED
    BY <1>1, <1>5, <1>7 DEF IInv

LEMMA RefusalInvariant ==
    ASSUME IInv, DecodeRefused
    PROVE  IInv'
<1>1. /\ wire # <<>> /\ (Unreferenced \/ ~intact) /\ wire' = <<>>
      /\ answer' \in (IF Unreferenced THEN {"unreferenced"} ELSE {}) \cup (IF intact THEN {} ELSE {"error"})
      /\ lost' = (lost \/ Arrived.kind # "between")
      /\ UNCHANGED <<session, s, frames, index, made, sent, intact, shown, slots>>
    BY DEF DecodeRefused, encoderVars
<1>2. TypeInv'
    BY <1>1 DEF IInv, TypeInv, CodecTypeOK, Slot, WireInv
<1>3. ASSUME ~lost'
      PROVE  slots' = made' /\ answer' = "error"
    <2>1. ~lost /\ Arrived.kind = "between"
        BY <1>1, <1>3 DEF IInv, TypeInv, CodecTypeOK
    <2>2. Pending /\ ~Unreferenced
        BY <1>1, <2>1 DEF IInv
    <2>3. made = slots
        BY <2>1, <2>2 DEF Pending, SlotsWith
    <2> QED
        BY <1>1, <2>2, <2>3
<1>4. InStep'
    BY <1>3 DEF InStep
<1> QED
    BY <1>1, <1>2, <1>4 DEF IInv

LEMMA StepInvariant ==
    ASSUME IInv, [Next]_vars
    PROVE  IInv'
<1>1. CASE \E picture \in Pictures :
          \/ EncodeKeyframe(picture) \/ EncodePredicted(picture) \/ EncodeBetween(picture)
          \/ \E slot \in 0 .. 1 : EncodeAltRef(picture, slot)
    BY <1>1, KeyframeInvariant, PredictedInvariant, BetweenInvariant, AltRefInvariant
<1>2. CASE EncodeFails
    BY <1>2, FailureInvariant
<1>3. CASE Damage
    BY <1>3, DamageInvariant
<1>4. CASE DecodeFrameIntact
    BY <1>4, DecodeInvariant
<1>5. CASE DecodeRefused
    BY <1>5, RefusalInvariant
<1>6. CASE UNCHANGED vars
    <2>1. UNCHANGED <<session, s, frames, index, made, sent, wire, intact, slots, shown, lost, answer>>
        BY <1>6 DEF vars, encoderVars, decoderVars
    <2>2. TypeInv' /\ InStep' /\ Arrived' = Arrived /\ Unreferenced' = Unreferenced /\ Pending' = Pending
        BY <2>1 DEF IInv, TypeInv, CodecTypeOK, Slot, WireInv, InStep, Known, Arrived, Unreferenced, Pending,
                    PredictedFrom, SlotsWith
    <2> QED
        BY <2>1, <2>2 DEF IInv
<1> QED
    BY <1>1, <1>2, <1>3, <1>4, <1>5, <1>6 DEF Next

-------------------------------------------------------------------------------
\* The state of an encoder and a decoder is what the code's types allow, with
\* slots that hold nothing or a frame that was encoded (SrsV2ReferenceManager).
THEOREM CodecTypeCorrect == Spec => []CodecTypeOK
<1>1. IInv => CodecTypeOK
    BY DEF IInv, TypeInv
<1> QED
    BY <1>1, InitInvariant, StepInvariant, PTL DEF Spec

\* The decoder is in step with the encoder as long as nothing others are predicted
\* from went missing since the last intra frame, for any settings, pictures and
\* losses (replace_after_keyframe, push_displayable_last, store_alt_ref_at).
THEOREM DecoderInStep == Spec => []InStep
<1>1. IInv => InStep
    BY DEF IInv
<1> QED
    BY <1>1, InitInvariant, StepInvariant, PTL DEF Spec
===============================================================================
