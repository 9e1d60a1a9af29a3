---------------------------- MODULE CodecContract ----------------------------
(***************************************************************************)
(* The bytes of the payloads of a session: the codec of every frame keeps  *)
(* what CodecSession takes for granted, on every payload a session sends.  *)
(***************************************************************************)
EXTENDS CodecSession, BFrames

-----------------------------------------------------------------------------
(* The frames of every kind (frame_codec.rs with p_frame_codec.rs,         *)
(* p_var_partition.rs, b_frame_codec.rs).                                  *)

\* encode_yuv420_p_payload or, with other partitions, its part in p_var_partition
PFrame(chosen, picture, number, qp) ==
    IF chosen.partition # "Fixed16x16" THEN VarFrame(chosen, picture.mbs, number, qp)
    ELSE LET payload == EncodeP(chosen, picture.mbs, number, qp)
         IN  IF payload.ok THEN Ok([cells |-> payload.val, recs |-> PRecs(chosen, picture.mbs, qp)]) ELSE Fail

\* a payload with the blocks it stands for
Stands(payload, recs) == IF payload.ok THEN Ok([cells |-> payload.val, recs |-> recs]) ELSE Fail

\* encode_yuv420_inter_payload, encode_yuv420_b_payload and the one with a blend
\* of each macroblock, encode_yuv420_alt_ref_payload
EncodeFrame(kind, chosen, picture, number, at) ==
    CASE kind = "key" ->
            Stands(EncodeIntra(chosen, picture.planes, number, picture.qp), IntraRecs(chosen, picture.planes, picture.qp))
      [] kind = "predicted" ->
            IF InterContextOk(chosen) /\ LayoutOk(chosen) /\ AdaptiveQuantOk(chosen)
            THEN PFrame(chosen, picture, number, FrameQp(chosen, picture.qp, <<>>)) ELSE Fail
      [] kind = "between" ->
            IF chosen.bFrames = "Plain" THEN Ok(EncodePlainB(chosen, picture.bmbs, number, picture.qp, at))
            ELSE EncodeBlendB(chosen, picture.bmbs, number, picture.qp, at)
      [] kind = "alt" ->
            Stands(EncodeAlt(chosen, picture.planes, number, picture.qp, at[1]), AltRecs(picture.planes, picture.qp))

\* by the revision, a payload's first byte
FrameKind(cells) ==
    CASE cells[1] \in IntraRevisions -> "key"
      [] cells[1] \in PRevisions \cup VarRevisions -> "predicted"
      [] cells[1] \in BRevisions -> "between"
      [] cells[1] = AltRevision -> "alt"
      [] OTHER -> "unknown"

\* the slots a B payload is predicted from and its place, when its head is whole
FrameReferences(cells) ==
    LET head == BHead(cells) IN IF head.ok THEN Ok([slots |-> head.val.slots, index |-> cells[2]]) ELSE Fail

\* what a payload holds, in a sequence whose pictures are `like` this one and
\* that has so many slots
DecodeFrame(like, refs, cells) ==
    LET sizes == [p \in Planes |-> Len(like.planes[p])]
        macroblocks == sizes[0] \div 4
        kind == FrameKind(cells)
    IN  CASE kind = "key" -> DecodeIntra(sizes, cells)
          [] kind = "alt" -> DecodeAlt(sizes, refs, cells)
          [] kind = "predicted" ->
                IF cells[1] \in PRevisions THEN DecodeP(macroblocks, cells) ELSE DecodeVar(macroblocks, cells)
          [] kind = "between" -> DecodeB(macroblocks, cells)
          [] kind = "unknown" -> Fail

-----------------------------------------------------------------------------
(* The bytes of the session.                                               *)

CONSTANTS
    PictureOf(_, _),    \* the picture of this name for settings: [planes, mbs, bmbs, qp]
    Cuts                \* bound: so many cells are cut from the end of a payload

FrameOf(payload) ==
    EncodeFrame(payload.kind, s, PictureOf(payload.picture, s), payload.index, payload.slots)
ReadFrame(payload, cells) == DecodeFrame(PictureOf(payload.picture, s), s.refs, cells)

\* the payload a step puts on the wire
Sent(payload) == wire = <<>> /\ wire' = <<payload>>

Restores(payload, frame) ==
    LET read == ReadFrame(payload, frame.cells)
    IN  /\ FrameKind(frame.cells) = payload.kind
        /\ payload.kind = "between" =>
              FrameReferences(frame.cells) = Ok([slots |-> payload.slots, index |-> payload.index])
        /\ read.ok
        /\ read.val.recs = frame.recs /\ read.val.index = payload.index
        /\ payload.kind = "alt" => read.val.slot = payload.slots[1]

\* What the encoder makes of a frame is read back by the decoder as the same
\* blocks, with the same index and slots: whatever the syntax, the entropy
\* coder, the contexts of neighbours, the cut into units, the quantiser of each
\* block and the scan, the two of them agree on every cell, and the decoder
\* refuses nothing an encoder emits.
ReadsBack ==
    [][\A payload \in {wire'[i] : i \in DOMAIN wire'} : Sent(payload) =>
          LET frame == FrameOf(payload) IN frame.ok => Restores(payload, frame.val)]_vars

\* what a payload may become on its way
Damages(cells) == {SubSeq(cells, 1, Len(cells) - n) : n \in Cuts \cap 1 .. Len(cells) - 1} \cup {Append(cells, 0)}

\* A payload that ends too early or goes on behind its end is
\* refused: no syntax takes a part of a frame for a frame (the "trailing
\* bytes" errors).
RefusesDamage ==
    [][\A payload \in {wire'[i] : i \in DOMAIN wire'} : Sent(payload) =>
          LET frame == FrameOf(payload)
          IN  frame.ok => \A cells \in Damages(frame.val.cells) : ~ReadFrame(payload, cells).ok]_vars
===============================================================================
