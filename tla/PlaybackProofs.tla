--------------------------- MODULE PlaybackProofs ---------------------------
(***************************************************************************)
(* What playback shows is what was encoded, for every file an encoder      *)
(* leaves, any damage, and every sequence of calls, seeks and stops.       *)
(*                                                                         *)
(* The argument: beside the packets there are the slots a decoder has that *)
(* got all of them (`ideal`), which are the encoder's own.  A session that *)
(* has decoded a keyframe and everything behind it has those slots at its  *)
(* mark (InStepSince); that nothing was left out follows from where the    *)
(* packets between the mark and the cursor are (Pulled): in the stash, or  *)
(* gone.                                                                   *)
(***************************************************************************)
EXTENDS Playback, SequenceTheorems, WellFoundedInduction, TLAPS

IsSeq(packets) == \E set : packets \in Seq(set)

-------------------------------------------------------------------------------
(* The encoder's part.                                                     *)

SlotsOk(slots) == DOMAIN slots = 0 .. MaxRef - 1
AllExact(slots) == \A i \in DOMAIN slots : slots[i] # None => slots[i].exact

\* the ids of the pictures a payload is decoded from are those it was encoded from
FromThese(payload, slots) ==
    payload.from = [i \in DOMAIN RefsOf(payload, slots) |-> RefsOf(payload, slots)[i].id]

\* a payload that decodes from these slots to the picture that was encoded
Fits(payload, slots) ==
    /\ payload.kind \in {"intra", "P", "B", "alt"}
    /\ Decodable(payload, slots) /\ DecodedPicture(payload, slots).exact

\* the packets of a file, and after each of them the slots of a decoder that
\* got them all
LogOk(packets, ideal) ==
    /\ IsSeq(packets) /\ DOMAIN ideal = 0 .. Len(packets)
    /\ \A i \in DOMAIN ideal : SlotsOk(ideal[i]) /\ AllExact(ideal[i])
    /\ \A i \in DOMAIN packets :
        /\ packets[i].track \in {"video", "audio"}
        /\ packets[i].track = "video" =>
            /\ packets[i].payload.id = i /\ (packets[i].key <=> packets[i].payload.kind = "intra")
            /\ Fits(packets[i].payload, ideal[i - 1])
            /\ ideal[i] = SlotsAfter(packets[i].payload, ideal[i - 1])
    /\ \A i, j \in DOMAIN ideal :
        (i <= j /\ \A k \in i + 1 .. j : packets[k].track # "video") => ideal[j] = ideal[i]

EncoderInv(ideal) ==
    /\ LogOk(log, ideal)
    /\ encoder = "import" => reference = PrimaryRef(ideal[Len(log)])
    /\ encoder = "bgop" => anchors = ideal[Len(log)]

-------------------------------------------------------------------------------
(* The session's part.                                                     *)

Video(i) == log[i].track = "video"
Gone == lost \cup dropped

\* a keyframe behind b from which everything up to i is there
IntactSince(b, i) ==
    \E k \in b + 1 .. i : /\ Video(k) /\ log[k].key
                         /\ \A j \in k .. i : Video(j) => j \notin Gone

\* where decoding started: no group of pictures that is intact reaches over it
Start(b) ==
    \/ b = 0
    \/ b + 1 \in DOMAIN log /\ Video(b + 1) /\ log[b + 1].key
    \/ 1 .. b \subseteq dropped

InStepSince(b, ideal) == Start(b) /\ (IntactSince(b, mark) => refs = ideal[mark])

\* where the packets are that were read and not decoded yet
Pulled ==
    /\ video_stash \in Seq(1 .. Len(log)) /\ audio_stash \in Seq(1 .. Len(log))
    /\ \A n \in DOMAIN video_stash : Video(video_stash[n]) /\ video_stash[n] \in mark + 1 .. cursor
    /\ \A m, n \in DOMAIN video_stash : m < n => video_stash[m] < video_stash[n]
    /\ \A n \in DOMAIN audio_stash : ~Video(audio_stash[n])
    /\ \A j \in mark + 1 .. cursor :
          Video(j) => j \in Gone \/ \E n \in DOMAIN video_stash : video_stash[n] = j

\* who uses the stash of video packets, and when it is empty; a call that is
\* under way has not returned anything
Waiting ==
    /\ call # None => result = Nothing
    /\ caller = "steps" => video_stash = <<>>
    /\ call # None /\ call.kind \in {"video", "audio"} => caller = "pulls"
    /\ call # None /\ call.kind # "audio" => video_stash = <<>>

Counts ==
    /\ handed \in Nat /\ decoded.video \in Nat
    /\ call # None /\ call.kind = "recover" => call.saved.video \in Nat
    /\ ~miscounted => IF call # None /\ call.kind = "recover" THEN call.saved.video = handed
                      ELSE decoded.video = handed

Positions(ideal) ==
    /\ mark \in Nat /\ cursor \in 0 .. Len(log) /\ mark <= cursor /\ SlotsOk(refs)
    /\ \E b \in 0 .. mark : InStepSince(b, ideal)

SessionInv(ideal) == Positions(ideal) /\ Pulled /\ Waiting /\ FramesAreExact

\* before the file is opened nothing has happened to the session
Unopened ==
    state = "unopened" =>
        /\ mark = 0 /\ cursor = 0 /\ refs = NoRefs /\ video_stash = <<>> /\ audio_stash = <<>>
        /\ call = None /\ result = Nothing /\ dropped = {}

IInv ==
    /\ \E ideal : EncoderInv(ideal) /\ SessionInv(ideal)
    /\ Counts /\ Unopened /\ (encoder # "done" => state = "unopened")
    /\ lost \subseteq DOMAIN log /\ index \subseteq DOMAIN log /\ restarts \in Nat

-------------------------------------------------------------------------------
(* Sets of numbers.                                                        *)

\* A set of numbers that is not empty has a least one.
LEMMA LeastExists ==
    ASSUME NEW set \in SUBSET Nat, set # {}
    PROVE  \E x \in set : \A y \in set : x <= y
<1>1. \E x \in set : \A y \in set : ~(y < x)
    <2>1. \E x \in set : \A y \in set : ~(<<y, x>> \in OpToRel(<, Nat))
        BY NatLessThanWellFounded, WFMin
    <2> QED
        BY <2>1 DEF OpToRel
<1> QED
    BY <1>1

LEMMA MinIsLeast ==
    ASSUME NEW set \in SUBSET Nat, set # {}
    PROVE  Min(set) \in set /\ \A y \in set : Min(set) <= y
BY LeastExists, Zenon DEF Min

LEMMA MaxIsGreatest ==
    ASSUME NEW n \in Nat, NEW set \in SUBSET (1 .. n), set # {}
    PROVE  Max(set) \in set /\ \A y \in set : y <= Max(set)
<1> DEFINE rest == {n - x : x \in set}
<1>1. rest \in SUBSET Nat /\ rest # {}
    <2>1. \A x \in set : n - x \in Nat
        OBVIOUS
    <2> QED
        BY <2>1
<1>2. PICK y \in rest : \A z \in rest : y <= z
    <2> HIDE DEF rest
    <2> QED BY <1>1, LeastExists
<1>3. PICK x \in set : y = n - x
    BY <1>2
<1>4. ASSUME NEW z \in set PROVE z <= x
    <2>1. n - x <= n - z
        BY <1>2, <1>3
    <2> QED
        BY <2>1
<1>5. \E a \in set : \A z \in set : a >= z
    BY <1>4
<1>6. \A a, z \in set : a >= z <=> z <= a
    OBVIOUS
<1>7. Max(set) \in set /\ \A z \in set : Max(set) >= z
    BY <1>5, Zenon DEF Max
<1> QED
    BY <1>6, <1>7

-------------------------------------------------------------------------------
(* Slots.                                                                  *)

\* What a payload makes of slots depends on them only through its references,
\* and an intra payload's on nothing.
LEMMA DecodingKeepsSlots ==
    ASSUME NEW slots, SlotsOk(slots), NEW payload, payload.kind \in {"intra", "P", "B", "alt"}
    PROVE  SlotsOk(SlotsAfter(payload, slots))
BY DEF SlotsOk, SlotsAfter, ReplaceAfterKeyframe, PushDisplayableLast, StoreAltRefAt

LEMMA IntraFitsAnySlots ==
    ASSUME NEW one, NEW other, SlotsOk(one), SlotsOk(other), NEW payload, payload.kind = "intra"
    PROVE  /\ SlotsAfter(payload, one) = SlotsAfter(payload, other)
           /\ Decodable(payload, one)
           /\ DecodedPicture(payload, one) = DecodedPicture(payload, other)
<1>1. RefsOf(payload, one) = <<>> /\ RefsOf(payload, other) = <<>>
    BY DEF RefsOf
<1>2. DecodedPicture(payload, one) = DecodedPicture(payload, other)
    BY <1>1 DEF DecodedPicture
<1>3. Decodable(payload, one)
    BY <1>1 DEF Decodable
<1>4. SlotsAfter(payload, one) = SlotsAfter(payload, other)
    BY <1>2 DEF SlotsAfter, ReplaceAfterKeyframe, SlotsOk
<1> QED
    BY <1>2, <1>3, <1>4

\* A picture decoded from exact ones that its payload names is exact, and leaves
\* exact ones.
LEMMA ExactStaysExact ==
    ASSUME NEW slots, SlotsOk(slots), AllExact(slots),
           NEW payload, payload.kind \in {"intra", "P", "B", "alt"}, DecodedPicture(payload, slots).exact
    PROVE  AllExact(SlotsAfter(payload, slots))
<1>1. CASE payload.kind = "intra"
    BY <1>1 DEF SlotsOk, AllExact, SlotsAfter, ReplaceAfterKeyframe
<1>2. CASE payload.kind = "P"
    <2>1. \A i \in DOMAIN slots : i # 0 => i - 1 \in DOMAIN slots
        BY ReferencesAssumption DEF SlotsOk
    <2>2. SlotsAfter(payload, slots) = PushDisplayableLast(slots, DecodedPicture(payload, slots))
        BY <1>2 DEF SlotsAfter
    <2> QED
        BY <2>1, <2>2 DEF SlotsOk, AllExact, PushDisplayableLast
<1>3. CASE payload.kind = "B"
    BY <1>3 DEF SlotsAfter
<1>4. CASE payload.kind = "alt"
    BY <1>4 DEF SlotsOk, AllExact, SlotsAfter, StoreAltRefAt
<1> QED
    BY <1>1, <1>2, <1>3, <1>4

LEMMA SoloFits ==
    ASSUME NEW slots, SlotsOk(slots), NEW payload, payload.from = <<>>,
           payload.kind = "intra" \/ (payload.kind = "alt" /\ payload.at[1] \in 0 .. MaxRef - 1)
    PROVE  Fits(payload, slots)
<1>1. RefsOf(payload, slots) = <<>>
    BY DEF RefsOf
<1>2. Decodable(payload, slots)
    BY <1>1 DEF Decodable, SlotsOk
<1>3. DOMAIN RefsOf(payload, slots) = {} /\ payload.from = [i \in {} |-> RefsOf(payload, slots)[i].id]
    BY <1>1
<1>4. DecodedPicture(payload, slots).exact
    BY <1>3 DEF DecodedPicture, Predicted
<1> QED
    BY <1>2, <1>4 DEF Fits

\* What encode_yuv420_inter_payload makes for the newest picture fits.
LEMMA InterFits ==
    ASSUME NEW slots, SlotsOk(slots), AllExact(slots), NEW id, NEW number, NEW interval,
           NEW payload, payload = InterPayload(id, number, interval, PrimaryRef(slots))
    PROVE  /\ Fits(payload, slots) /\ payload.id = id /\ payload.kind \in {"intra", "P"}
           /\ (MaxRef = 0 => payload.kind = "intra")
           /\ payload.kind = "P" => RefsOf(payload, slots) = <<PrimaryRef(slots)>>
<1> DEFINE ref == PrimaryRef(slots)
<1>1. CASE payload = Payload("intra", id, number, <<>>, <<>>)
    BY <1>1, SoloFits DEF Payload
<1>2. CASE payload = Payload("P", id, number, <<ref.id>>, <<>>) /\ MaxRef # 0 /\ ref # None
    <2>1. payload.kind = "P" /\ payload.id = id /\ payload.from = <<ref.id>>
        BY <1>2 DEF Payload
    <2>2. RefsOf(payload, slots) = <<ref>>
        BY <2>1 DEF RefsOf
    <2>3. ref.exact
        BY <1>2, ReferencesAssumption DEF PrimaryRef, AllExact, SlotsOk
    <2>4. Decodable(payload, slots)
        BY <1>2, <2>1, <2>2 DEF Decodable
    <2>5. <<ref.id>> = [i \in DOMAIN <<ref>> |-> <<ref>>[i].id] /\ \A i \in DOMAIN <<ref>> : <<ref>>[i].exact
        BY <2>3
    <2>6. DecodedPicture(payload, slots).exact
        BY <2>1, <2>2, <2>5 DEF DecodedPicture, Predicted
    <2> QED
        BY <1>2, <2>1, <2>2, <2>4, <2>6 DEF Fits
<1> QED
    BY <1>1, <1>2 DEF InterPayload

\* Nor does a B picture between the two newest ones.
LEMMA BetweenFits ==
    ASSUME NEW slots, SlotsOk(slots), AllExact(slots), MaxRef >= 2, NEW id, NEW number,
           NEW payload, payload = Payload("B", id, number, <<slots[1].id, slots[0].id>>, <<1, 0>>),
           Decodable(payload, slots)
    PROVE  Fits(payload, slots)
<1>1. payload.kind = "B" /\ payload.from = <<slots[1].id, slots[0].id>> /\ payload.at = <<1, 0>>
    BY DEF Payload
<1>2. 0 \in DOMAIN slots /\ 1 \in DOMAIN slots
    BY ReferencesAssumption DEF SlotsOk
<1>3. RefsOf(payload, slots) = <<slots[1], slots[0]>>
    BY <1>1, <1>2 DEF RefsOf
<1>4. slots[1] # None /\ slots[0] # None
    BY <1>3 DEF Decodable
<1>5. slots[1].exact /\ slots[0].exact
    BY <1>2, <1>4 DEF AllExact
<1> DEFINE refers == <<slots[1], slots[0]>>
<1>6. /\ <<slots[1].id, slots[0].id>> = [i \in DOMAIN refers |-> refers[i].id]
      /\ \A i \in DOMAIN refers : refers[i].exact
    BY <1>5
<1>7. DecodedPicture(payload, slots).exact
    BY <1>1, <1>3, <1>6 DEF DecodedPicture, Predicted
<1> QED
    BY <1>1, <1>7 DEF Fits

-------------------------------------------------------------------------------
(* The packets of a file.                                                  *)

LEMMA LogGrows ==
    ASSUME NEW packets, NEW ideal, LogOk(packets, ideal), NEW packet, NEW next,
           \/ packet.track = "audio" /\ next = ideal[Len(packets)]
           \/ /\ packet.track = "video" /\ packet.payload.id = Len(packets) + 1
              /\ packet.key <=> packet.payload.kind = "intra"
              /\ Fits(packet.payload, ideal[Len(packets)])
              /\ next = SlotsAfter(packet.payload, ideal[Len(packets)])
    PROVE  \E more : LogOk(Append(packets, packet), more) /\ more[Len(packets) + 1] = next
<1> DEFINE n == Len(packets)
           longer == Append(packets, packet)
           more == [i \in 0 .. n + 1 |-> IF i = n + 1 THEN next ELSE ideal[i]]
<1>1. PICK set : packets \in Seq(set)
    BY DEF LogOk, IsSeq
<1>2. packets \in Seq(set \cup {packet})
    BY <1>1
<1>3. /\ n \in Nat /\ Len(longer) = n + 1 /\ longer \in Seq(set \cup {packet}) /\ DOMAIN longer = 1 .. n + 1
      /\ DOMAIN packets = 1 .. n
      /\ longer[n + 1] = packet /\ \A i \in 1 .. n : longer[i] = packets[i]
    BY <1>1, <1>2
<1>4. DOMAIN ideal = 0 .. n /\ SlotsOk(ideal[n]) /\ AllExact(ideal[n])
    BY <1>3 DEF LogOk
<1>5. SlotsOk(next) /\ AllExact(next)
    BY <1>4, DecodingKeepsSlots, ExactStaysExact DEF Fits
<1>6. /\ DOMAIN more = 0 .. n + 1 /\ more[n + 1] = next
      /\ \A i \in 0 .. n : more[i] = ideal[i]
    BY <1>3
<1> HIDE DEF more, longer, n
<1>7. \A i \in DOMAIN more : SlotsOk(more[i]) /\ AllExact(more[i])
    <2>1. ASSUME NEW i \in DOMAIN more PROVE i = n + 1 \/ i \in DOMAIN ideal
        BY <1>3, <1>4, <1>6
    <2> QED
        BY <1>3, <1>4, <1>5, <1>6, <2>1 DEF LogOk
<1>8. ASSUME NEW i \in DOMAIN longer
      PROVE  /\ longer[i].track \in {"video", "audio"}
             /\ longer[i].track = "video" =>
                  /\ longer[i].payload.id = i /\ (longer[i].key <=> longer[i].payload.kind = "intra")
                  /\ Fits(longer[i].payload, more[i - 1])
                  /\ more[i] = SlotsAfter(longer[i].payload, more[i - 1])
    <2>1. CASE i = n + 1
        <3>1. longer[i] = packet /\ more[i - 1] = ideal[n] /\ more[i] = next
            BY <2>1, <1>3, <1>6
        <3> QED
            BY <2>1, <3>1 DEF n
    <2>2. CASE i \in 1 .. n
        <3>1. longer[i] = packets[i] /\ more[i - 1] = ideal[i - 1] /\ more[i] = ideal[i] /\ i \in DOMAIN packets
            BY <2>2, <1>3, <1>6
        <3> QED
            BY <3>1 DEF LogOk
    <2> QED
        BY <2>1, <2>2, <1>3
<1>9. ASSUME NEW i \in DOMAIN more, NEW j \in DOMAIN more, i <= j,
             \A k \in i + 1 .. j : longer[k].track # "video"
      PROVE  more[j] = more[i]
    <2>1. CASE j \in 0 .. n
        <3>1. i \in DOMAIN ideal /\ j \in DOMAIN ideal
            BY <2>1, <1>3, <1>4, <1>6, <1>9
        <3>2. \A k \in i + 1 .. j : packets[k].track # "video"
            BY <2>1, <1>3, <1>6, <1>9
        <3>3. ideal[j] = ideal[i]
            BY <3>1, <3>2, <1>9 DEF LogOk
        <3> QED
            BY <3>1, <3>3, <1>4, <1>6
    <2>2. CASE j = n + 1 /\ i \in 0 .. n
        <3>1. packet.track # "video"
            BY <2>2, <1>3, <1>9
        <3>2. next = ideal[n]
            BY <3>1 DEF n
        <3>3. i \in DOMAIN ideal /\ n \in DOMAIN ideal /\ i <= n
            BY <2>2, <1>3, <1>4
        <3>4. \A k \in i + 1 .. n : packets[k].track # "video"
            BY <2>2, <1>3, <1>9
        <3>5. ideal[n] = ideal[i]
            BY <3>3, <3>4 DEF LogOk
        <3> QED
            BY <2>2, <3>2, <3>5, <1>6
    <2>3. CASE i = n + 1
        BY <2>3, <1>3, <1>6, <1>9
    <2> QED
        BY <2>1, <2>2, <2>3, <1>3, <1>6
<1>10. LogOk(longer, more)
    <2>1. IsSeq(longer) /\ DOMAIN more = 0 .. Len(longer)
        BY <1>3, <1>6 DEF IsSeq
    <2> QED
        BY <2>1, <1>7, <1>8, <1>9 DEF LogOk
<1> QED
    BY <1>10, <1>6 DEF longer, n

\* A file that was cut short.
LEMMA LogIsCut ==
    ASSUME NEW packets, NEW ideal, LogOk(packets, ideal), NEW n \in 0 .. Len(packets)
    PROVE  \E less : LogOk(SubSeq(packets, 1, n), less)
<1> DEFINE shorter == SubSeq(packets, 1, n)
           less == [i \in 0 .. n |-> ideal[i]]
<1>1. PICK set : packets \in Seq(set)
    BY DEF LogOk, IsSeq
<1>2. /\ shorter \in Seq(set) /\ Len(shorter) = n /\ DOMAIN shorter = 1 .. n /\ n \in Nat
      /\ n <= Len(packets) /\ DOMAIN packets = 1 .. Len(packets)
      /\ \A i \in 1 .. n : shorter[i] = packets[i]
    BY <1>1
<1>3. \A i \in 0 .. n : less[i] = ideal[i] /\ i \in DOMAIN ideal
    BY <1>2 DEF LogOk
<1>4. DOMAIN less = 0 .. n
    OBVIOUS
<1> HIDE DEF less, shorter
<1>5. ASSUME NEW i \in DOMAIN shorter
      PROVE  /\ shorter[i].track \in {"video", "audio"}
             /\ shorter[i].track = "video" =>
                  /\ shorter[i].payload.id = i /\ (shorter[i].key <=> shorter[i].payload.kind = "intra")
                  /\ Fits(shorter[i].payload, less[i - 1])
                  /\ less[i] = SlotsAfter(shorter[i].payload, less[i - 1])
    <2>1. shorter[i] = packets[i] /\ less[i - 1] = ideal[i - 1] /\ less[i] = ideal[i] /\ i \in DOMAIN packets
        BY <1>2, <1>3
    <2> QED
        BY <2>1 DEF LogOk
<1>6. ASSUME NEW i \in DOMAIN less, NEW j \in DOMAIN less, i <= j,
             \A k \in i + 1 .. j : shorter[k].track # "video"
      PROVE  less[j] = less[i]
    <2>1. \A k \in i + 1 .. j : packets[k].track # "video"
        BY <1>2, <1>4, <1>6
    <2>2. ideal[j] = ideal[i]
        BY <2>1, <1>3, <1>4, <1>6 DEF LogOk
    <2> QED
        BY <2>2, <1>3, <1>4
<1>7. \A i \in DOMAIN less : SlotsOk(less[i]) /\ AllExact(less[i])
    BY <1>3, <1>4 DEF LogOk
<1>8. IsSeq(shorter) /\ DOMAIN less = 0 .. Len(shorter)
    BY <1>2, <1>4 DEF IsSeq
<1>9. LogOk(shorter, less)
    BY <1>5, <1>6, <1>7, <1>8 DEF LogOk
<1> QED
    BY <1>9 DEF shorter

-------------------------------------------------------------------------------
(* The encoder's steps.                                                    *)

\* A packet of the encoder's, with the slots its own decoding leaves.
LEMMA PushKeepsLog ==
    ASSUME NEW ideal, EncoderInv(ideal), NEW payload, NEW next,
           Put(VideoPacket(payload)), payload.id = NextId, Fits(payload, ideal[Len(log)]),
           next = SlotsAfter(payload, ideal[Len(log)])
    PROVE  \E more : LogOk(log', more) /\ more[Len(log')] = next
<1>1. /\ VideoPacket(payload).track = "video" /\ VideoPacket(payload).payload = payload
      /\ VideoPacket(payload).key <=> payload.kind = "intra"
    BY DEF VideoPacket
<1>2. PICK more : LogOk(Append(log, VideoPacket(payload)), more) /\ more[Len(log) + 1] = next
    <2> DEFINE packet == VideoPacket(payload)
    <2>1. LogOk(log, ideal) /\ payload.id = Len(log) + 1
        BY DEF EncoderInv, NextId
    <2> HIDE DEF packet
    <2> QED
        BY <1>1, <2>1, LogGrows DEF packet
<1>3. log' = Append(log, VideoPacket(payload)) /\ Len(log') = Len(log) + 1
    <2>1. PICK set : log \in Seq(set)
        BY DEF EncoderInv, LogOk, IsSeq
    <2> QED
        BY <2>1 DEF Put
<1> QED
    BY <1>2, <1>3

LEMMA EncoderKeepsLog ==
    ASSUME NEW ideal, EncoderInv(ideal), EncoderNext
    PROVE  \E more : EncoderInv(more)'
<1> DEFINE slots == ideal[Len(log)]
<1>1. Len(log) \in Nat /\ SlotsOk(slots) /\ AllExact(slots)
    <2>1. PICK set : log \in Seq(set)
        BY DEF EncoderInv, LogOk, IsSeq
    <2>2. Len(log) \in DOMAIN ideal
        BY <2>1 DEF EncoderInv, LogOk
    <2> QED
        BY <2>1, <2>2 DEF EncoderInv, LogOk
<1>2. ASSUME PushVideo PROVE \E more : EncoderInv(more)'
    <2> DEFINE payload == InterPayload(NextId, Cardinality(encoded), KeyInterval, reference)
    <2>1. encoder = "import" /\ encoder' = "import" /\ Put(VideoPacket(payload))
          /\ reference' = IF MaxRef = 0 THEN None ELSE LegacyPicture(payload, reference)
        BY <1>2 DEF PushVideo
    <2>2. reference = PrimaryRef(slots)
        BY <2>1 DEF EncoderInv
    <2>3. /\ Fits(payload, slots) /\ payload.id = NextId /\ payload.kind \in {"intra", "P"}
          /\ payload.kind = "P" => RefsOf(payload, slots) = <<reference>>
        BY <1>1, <2>2, InterFits
    <2>4. RefsOf(payload, slots) = IF payload.kind = "intra" THEN <<>> ELSE <<reference>>
        BY <2>3 DEF RefsOf
    <2>5. DecodedPicture(payload, slots) = LegacyPicture(payload, reference)
        BY <2>4 DEF DecodedPicture, LegacyPicture
    <2> DEFINE next == SlotsAfter(payload, slots)
    <2> HIDE DEF payload, slots
    <2>6. PrimaryRef(next) = reference'
        BY <1>1, <2>1, <2>3, <2>5, ReferencesAssumption
            DEF SlotsAfter, PrimaryRef, ReplaceAfterKeyframe, PushDisplayableLast, SlotsOk
    <2>7. \E more : LogOk(log', more) /\ more[Len(log')] = next
        <3> HIDE DEF next
        <3> QED BY <2>1, <2>3, PushKeepsLog DEF slots, next
    <2> QED
        BY <2>1, <2>6, <2>7 DEF EncoderInv
<1>3. ASSUME PushAudio PROVE \E more : EncoderInv(more)'
    <2>1. log' = Append(log, AudioPacket) /\ AudioPacket.track = "audio" /\ Len(log') = Len(log) + 1
        <3>1. PICK set : log \in Seq(set)
            BY DEF EncoderInv, LogOk, IsSeq
        <3> QED
            BY <1>3, <3>1 DEF PushAudio, Put, AudioPacket
    <2>2. PICK more : LogOk(log', more) /\ more[Len(log')] = slots
        <3> DEFINE packet == AudioPacket
        <3>1. packet.track = "audio" /\ log' = Append(log, packet) /\ LogOk(log, ideal) /\ Len(log') = Len(log) + 1
            BY <2>1 DEF EncoderInv
        <3>2. \E more : LogOk(Append(log, packet), more) /\ more[Len(log) + 1] = ideal[Len(log)]
            <4> HIDE DEF packet
            <4> QED BY <3>1, LogGrows
        <3> QED
            BY <3>1, <3>2
    <2> QED
        BY <2>2, <1>3 DEF EncoderInv, PushAudio
<1>4. ASSUME EncodeNext PROVE \E more : EncoderInv(more)'
    <2> DEFINE payload == GopPayload(Upcoming)
    <2>1. encoder = "bgop" /\ encoder' = "bgop" /\ Put(VideoPacket(payload))
          /\ Decodable(payload, anchors) /\ anchors' = SlotsAfter(payload, anchors)
          /\ (KindOf(Upcoming) = "B" => BRefsHeld)
        BY <1>4 DEF EncodeNext
    <2>2. anchors = slots
        BY <2>1 DEF EncoderInv
    <2>3. Fits(payload, slots) /\ payload.id = NextId
        <3>1. KindOf(Upcoming) \in {"intra", "P", "B"}
            BY DEF KindOf
        <3>2. CASE KindOf(Upcoming) = "intra"
            <4>1. payload = Payload("intra", NextId, Upcoming, <<>>, <<>>)
                BY <3>2 DEF GopPayload
            <4> QED
                BY <1>1, <4>1, SoloFits DEF Payload
        <3>3. CASE KindOf(Upcoming) = "P"
            <4>1. payload = InterPayload(NextId, Upcoming, KeyInterval, PrimaryRef(slots))
                BY <2>2, <3>3 DEF GopPayload
            <4> HIDE DEF payload, slots
            <4> QED
                BY <1>1, <4>1, InterFits
        <3>4. CASE KindOf(Upcoming) = "B"
            <4>1. payload = Payload("B", NextId, Upcoming, <<slots[1].id, slots[0].id>>, <<1, 0>>)
                BY <2>2, <3>4 DEF GopPayload
            <4>2. MaxRef >= 2
                BY <2>1, <3>4 DEF BRefsHeld
            <4>3. payload.id = NextId
                BY <4>1 DEF Payload
            <4> HIDE DEF payload, slots
            <4> QED
                BY <1>1, <2>1, <2>2, <4>1, <4>2, <4>3, BetweenFits
        <3> QED
            BY <3>1, <3>2, <3>3, <3>4
    <2> DEFINE next == SlotsAfter(payload, slots)
    <2>4. PICK more : LogOk(log', more) /\ more[Len(log')] = next
        <3> HIDE DEF payload, slots, next
        <3> QED BY <2>1, <2>3, PushKeepsLog DEF slots, next
    <2> QED
        BY <2>1, <2>2, <2>4 DEF EncoderInv
<1>5. ASSUME EncodeFails PROVE \E more : EncoderInv(more)'
    BY <1>5 DEF EncodeFails, EncoderInv
<1>6. ASSUME NEW at \in AltRefs, EncodeAltRef(at) PROVE \E more : EncoderInv(more)'
    <2> DEFINE payload == Payload("alt", NextId, Cardinality(encoded), <<>>, <<at>>)
    <2>1. encoder = "bgop" /\ encoder' = "bgop" /\ Put(VideoPacket(payload))
          /\ anchors' = SlotsAfter(payload, anchors)
        BY <1>6 DEF EncodeAltRef
    <2>2. anchors = slots /\ at \in 0 .. MaxRef - 1
        BY <2>1, EncoderAssumption DEF EncoderInv
    <2>3. Fits(payload, slots) /\ payload.id = NextId
        <3>1. payload.kind = "alt" /\ payload.at[1] = at /\ payload.from = <<>> /\ payload.id = NextId
            BY DEF Payload
        <3> HIDE DEF payload, slots
        <3> QED
            BY <1>1, <2>2, <3>1, SoloFits
    <2> DEFINE next == SlotsAfter(payload, slots)
    <2>4. PICK more : LogOk(log', more) /\ more[Len(log')] = next
        <3> HIDE DEF payload, slots, next
        <3> QED BY <2>1, <2>3, PushKeepsLog DEF slots, next
    <2> QED
        BY <2>1, <2>2, <2>4 DEF EncoderInv
<1> QED
    BY <1>2, <1>3, <1>4, <1>5, <1>6 DEF EncoderNext

-------------------------------------------------------------------------------
(* Decoding in a session.                                                  *)

LEMMA Positive ==
    ASSUME NEW ideal, LogOk(log, ideal)
    PROVE  /\ Len(log) \in Nat /\ DOMAIN log = 1 .. Len(log)
           /\ \A i \in DOMAIN log : log[i].track \in {"video", "audio"}
<1>1. PICK set : log \in Seq(set)
    BY DEF LogOk, IsSeq
<1> QED
    BY <1>1 DEF LogOk

\* A group of pictures that is intact begins behind where decoding started.
LEMMA IntactFromStart ==
    ASSUME NEW b \in Nat, Start(b), NEW i \in Nat, b < i, GopIntact(i)
    PROVE  IntactSince(b, i)
<1>1. PICK k \in 1 .. i : Video(k) /\ log[k].key /\ \A j \in k .. i : Video(j) => j \notin Gone
    BY DEF GopIntact, Video, Gone
<1>2. CASE k > b
    BY <1>1, <1>2 DEF IntactSince
<1>3. CASE k <= b
    <2>1. k \notin dropped
        BY <1>1 DEF Gone
    <2>2. k \in 1 .. b
        BY <1>3
    <2>3. Video(b + 1) /\ log[b + 1].key
        BY <2>1, <2>2 DEF Start
    <2>4. b + 1 \in b + 1 .. i /\ \A j \in b + 1 .. i : j \in k .. i
        BY <2>2
    <2> QED
        BY <1>1, <2>3, <2>4 DEF IntactSince
<1> QED
    BY <1>2, <1>3

\* The next packet of an intact group decodes to what was encoded.
LEMMA IntactDecodes ==
    ASSUME NEW ideal, LogOk(log, ideal), mark \in Nat, NEW b \in 0 .. mark, InStepSince(b, ideal),
           SlotsOk(refs), NEW i \in DOMAIN log, mark < i, Video(i),
           \A j \in mark + 1 .. i - 1 : Video(j) => j \in Gone,
           IntactSince(b, i)
    PROVE  /\ Decodable(log[i].payload, refs) /\ DecodedPicture(log[i].payload, refs).exact
           /\ SlotsAfter(log[i].payload, refs) = ideal[i]
<1> DEFINE payload == log[i].payload
<1>1. PICK k \in b + 1 .. i : Video(k) /\ log[k].key /\ \A j \in k .. i : Video(j) => j \notin Gone
    BY DEF IntactSince
<1>2. i \in Nat /\ i - 1 \in DOMAIN ideal /\ mark \in DOMAIN ideal /\ mark <= i - 1 /\ b \in Nat
    BY Positive DEF LogOk
<1>3. /\ Fits(payload, ideal[i - 1]) /\ ideal[i] = SlotsAfter(payload, ideal[i - 1])
      /\ (log[i].key <=> payload.kind = "intra")
    BY DEF LogOk, Video
<1>4. SlotsOk(ideal[i - 1])
    BY <1>2 DEF LogOk
<1>5. CASE k = i
    <2>1. payload.kind = "intra"
        BY <1>1, <1>3, <1>5
    <2> HIDE DEF payload
    <2> QED
        BY <1>3, <1>4, <2>1, IntraFitsAnySlots DEF Fits, payload
<1>6. CASE k < i
    <2>1. k <= mark
        <3>1. k \notin mark + 1 .. i - 1
            BY <1>1, <1>6
        <3> QED
            BY <3>1, <1>2, <1>6
    <2>2. IntactSince(b, mark)
        <3>1. k \in b + 1 .. mark /\ \A j \in k .. mark : j \in k .. i
            BY <1>2, <2>1
        <3> QED
            BY <1>1, <3>1 DEF IntactSince
    <2>3. refs = ideal[mark]
        BY <2>2 DEF InStepSince
    <2>4. \A j \in mark + 1 .. i - 1 : log[j].track # "video"
        <3>1. \A j \in mark + 1 .. i - 1 : j \in k .. i
            BY <1>2, <2>1
        <3> QED
            BY <1>1, <3>1 DEF Video
    <2>5. ideal[i - 1] = ideal[mark]
        BY <1>2, <2>4 DEF LogOk
    <2> QED
        BY <1>3, <2>3, <2>5 DEF Fits
<1> QED
    BY <1>2, <1>5, <1>6

\* what the step may not do, by the two action properties
StepOk ==
    /\ (mark' # mark /\ result' = Failure("decode")) => ~GopIntact(mark')
    /\ (mark' # mark /\ restarts' = restarts) =>
        /\ mark' > mark
        /\ \A j \in mark + 1 .. mark' - 1 : log[j].track = "video" => j \in lost \cup dropped

\* What decoding a packet returns, if it returns at all.
LEMMA Returned ==
    ASSUME NEW i, Decode(i)
    PROVE  \/ call # None /\ UNCHANGED <<call, result, handed>>
           \/ call' = None /\ (result' = Nothing \/ result' = Outcome(i))
<1> DEFINE r == Outcome(i)
<1>1. Deliver(r)
    BY DEF Decode
<1> HIDE DEF r
<1> QED
    BY <1>1 DEF Deliver, Finish, Continue, r

LEMMA DecodingVideo ==
    ASSUME NEW ideal, LogOk(log, ideal), Positions(ideal), Waiting, FramesAreExact,
           NEW i \in DOMAIN log, mark < i, Video(i),
           \A j \in mark + 1 .. i - 1 : Video(j) => j \in Gone,
           Decode(i), UNCHANGED <<log, lost, dropped>>
    PROVE  /\ mark' = i /\ SlotsOk(refs') /\ \E b \in 0 .. i : InStepSince(b, ideal)'
           /\ FramesAreExact' /\ StepOk
<1> DEFINE payload == log[i].payload
<1>1. PICK b \in 0 .. mark : InStepSince(b, ideal)
    BY DEF Positions
<1>2. i \in Nat /\ mark \in Nat /\ b \in Nat /\ b < i /\ SlotsOk(refs)
    BY Positive DEF Positions
<1>3. mark' = i
    BY DEF Decode, Video
<1>4. IntactSince(b, i) =>
        /\ Decodable(payload, refs) /\ DecodedPicture(payload, refs).exact
        /\ SlotsAfter(payload, refs) = ideal[i]
    BY <1>1, <1>2, IntactDecodes
<1>5. payload.kind \in {"intra", "P", "B", "alt"} /\ payload.id = i
    BY DEF LogOk, Video, Fits
<1>6. CASE Decodable(payload, refs)
    <2>1. Outcome(i) = IF payload.kind = "alt" THEN Nothing ELSE Frame(DecodedPicture(payload, refs))
        BY <1>6 DEF Outcome, Video
    <2>2. refs' = SlotsAfter(payload, refs)
        BY <2>1 DEF Decode, Video, Nothing, Frame
    <2>3. SlotsOk(refs')
        <3> HIDE DEF payload
        <3> QED BY <1>2, <1>5, <2>2, DecodingKeepsSlots
    <2>4. InStepSince(b, ideal)'
        <3>1. Start(b)'
            BY <1>1 DEF InStepSince, Start, Video
        <3>2. IntactSince(b, mark)' => IntactSince(b, i)
            BY <1>3 DEF IntactSince, Gone, Video
        <3> QED
            BY <1>3, <1>4, <2>2, <3>1, <3>2 DEF InStepSince
    <2>5. result' = result \/ result' = Nothing \/ result' = Frame(DecodedPicture(payload, refs))
        BY <2>1, Returned
    <2>6. FramesAreExact'
        <3>1. CASE result' = result
            BY <3>1 DEF FramesAreExact, GopIntact
        <3>2. CASE result' = Nothing
            BY <3>2 DEF FramesAreExact, Nothing
        <3>3. CASE result' = Frame(DecodedPicture(payload, refs))
            <4>1. result'.picture = DecodedPicture(payload, refs) /\ DecodedPicture(payload, refs).id = i
                BY <1>5, <3>3 DEF Frame, DecodedPicture, Predicted
            <4>2. GopIntact(result.picture.id)' => GopIntact(i)
                BY <4>1 DEF GopIntact
            <4>3. GopIntact(i) => IntactSince(b, i)
                BY <1>1, <1>2, IntactFromStart DEF InStepSince
            <4> QED
                BY <1>4, <4>1, <4>2, <4>3 DEF FramesAreExact
        <3> QED
            BY <2>5, <3>1, <3>2, <3>3
    <2>7. result' # Failure("decode")
        <3>1. Nothing.kind # Failure("decode").kind
            BY DEF Nothing, Failure
        <3>2. Frame(DecodedPicture(payload, refs)).kind # Failure("decode").kind
            BY DEF Frame, Failure
        <3>3. result' = Nothing \/ result' = Frame(DecodedPicture(payload, refs))
            BY <2>1, Returned DEF Waiting
        <3> QED
            BY <3>1, <3>2, <3>3
    <2> QED
        BY <1>1, <1>3, <1>2, <2>3, <2>4, <2>6, <2>7 DEF StepOk, Gone, Video
<1>7. CASE ~Decodable(payload, refs)
    <2>1. Outcome(i) = Failure("decode")
        BY <1>7 DEF Outcome, Video
    <2>2. Outcome(i).kind = "error"
        BY <2>1 DEF Failure
    <2>3. refs' = refs
        BY <2>2 DEF Decode
    <2>4. ~GopIntact(i)
        BY <1>1, <1>2, <1>4, <1>7, IntactFromStart DEF InStepSince
    <2>5. InStepSince(b, ideal)'
        <3>1. Start(b)'
            BY <1>1 DEF InStepSince, Start, Video
        <3>2. IntactSince(b, mark)' => IntactSince(b, i)
            BY <1>3 DEF IntactSince, Gone, Video
        <3> QED
            BY <1>4, <1>7, <3>1, <3>2 DEF InStepSince
    <2>6. FramesAreExact'
        <3>1. result' = result \/ result' = Nothing \/ result'.kind = "error"
            BY <2>1, <2>2, Returned
        <3> QED
            BY <3>1 DEF FramesAreExact, GopIntact, Nothing
    <2> QED
        BY <1>1, <1>2, <1>3, <2>3, <2>4, <2>5, <2>6 DEF StepOk, Gone, Video
<1> QED
    BY <1>6, <1>7

\* An audio packet leaves the video as it was.
LEMMA DecodingAudio ==
    ASSUME NEW ideal, LogOk(log, ideal), Positions(ideal), FramesAreExact,
           NEW i \in DOMAIN log, ~Video(i), Decode(i), UNCHANGED <<log, lost, dropped>>
    PROVE  /\ UNCHANGED <<mark, refs>> /\ FramesAreExact'
<1>1. log[i].track = "audio"
    BY DEF LogOk, Video
<1>2. Outcome(i) = Chunk(i) /\ Outcome(i).kind = "audio"
    BY <1>1 DEF Outcome, Chunk
<1>3. UNCHANGED <<mark, refs>>
    BY <1>1 DEF Decode
<1>4. result' = result \/ result' = Nothing \/ result'.kind = "audio"
    BY <1>2, Returned
<1> QED
    BY <1>3, <1>4 DEF FramesAreExact, GopIntact, Nothing

\* While positions, slots and file stay, so does what is known of them.
LEMMA PositionsStay ==
    ASSUME NEW ideal, Positions(ideal), UNCHANGED <<log, lost, mark, refs>>, dropped \subseteq dropped',
           cursor' \in 0 .. Len(log), cursor <= cursor'
    PROVE  Positions(ideal)'
<1>1. PICK b \in 0 .. mark : InStepSince(b, ideal)
    BY DEF Positions
<1>2. Start(b)'
    BY <1>1 DEF InStepSince, Start, Video
<1>3. IntactSince(b, mark)' => IntactSince(b, mark)
    BY DEF IntactSince, Gone, Video
<1>4. InStepSince(b, ideal)'
    BY <1>1, <1>2, <1>3 DEF InStepSince
<1>5. mark \in Nat /\ cursor \in 0 .. Len(log)
    BY DEF Positions
<1> QED
    BY <1>4, <1>5 DEF Positions

\* So does it when a session has just begun, or is empty.
LEMMA NothingYet ==
    ASSUME NEW ideal, Len(log) \in Nat, mark = 0, cursor = 0, refs = NoRefs, video_stash = <<>>,
           audio_stash = <<>>, call = None, result = Nothing
    PROVE  SessionInv(ideal)
<1>1. SlotsOk(refs)
    BY DEF SlotsOk, NoRefs
<1>2. InStepSince(0, ideal)
    BY DEF InStepSince, Start, IntactSince
<1>3. Positions(ideal)
    BY <1>1, <1>2 DEF Positions
<1>4. Pulled /\ Waiting /\ FramesAreExact
    BY DEF Pulled, Waiting, FramesAreExact, Nothing
<1> QED
    BY <1>3, <1>4 DEF SessionInv

\* The same of the state a step leaves.
LEMMA NothingLeft ==
    ASSUME NEW ideal,
           (/\ Len(log) \in Nat /\ mark = 0 /\ cursor = 0 /\ refs = NoRefs /\ video_stash = <<>>
            /\ audio_stash = <<>> /\ call = None /\ result = Nothing)'
    PROVE  SessionInv(ideal)'
<1>1. SlotsOk(refs)'
    BY DEF SlotsOk, NoRefs
<1>2. InStepSince(0, ideal)'
    BY DEF InStepSince, Start, IntactSince
<1>3. Positions(ideal)'
    BY <1>1, <1>2 DEF Positions
<1>4. Pulled' /\ Waiting' /\ FramesAreExact'
    BY DEF Pulled, Waiting, FramesAreExact, Nothing
<1> QED
    BY <1>3, <1>4 DEF SessionInv

\* Counters.
LEMMA DecodingCounts ==
    ASSUME Counts, NEW i, Decode(i)
    PROVE  Counts'
<1> DEFINE r == Outcome(i)
           one == IF r.kind = "video" THEN 1 ELSE 0
           recovering == call # None /\ call.kind = "recover"
<1>1. Deliver(r) /\ miscounted' = (miscounted \/ (r.kind = "error" /\ recovering))
    BY DEF Decode
<1>2. /\ handed \in Nat /\ decoded.video \in Nat /\ (recovering => call.saved.video \in Nat)
      /\ ~miscounted => IF recovering THEN call.saved.video = handed ELSE decoded.video = handed
    BY DEF Counts
<1>3. Counted(r).video = decoded.video + one /\ one \in {0, 1} /\ (r = Nothing => one = 0)
    BY DEF Counted, Nothing
<1>4. Nothing.kind = "none" /\ (r = Nothing \/ r.kind \in {"video", "audio", "error"})
    BY DEF Nothing, Outcome, Chunk, Frame, Failure
<1>5. ~miscounted' => ~miscounted /\ ~(r.kind = "error" /\ recovering)
    BY <1>1
<1> HIDE DEF r, one
<1>6. CASE recovering /\ r.kind \in {"video", "audio"} /\ position'.pts >= call.target
    <2>1. call' = None /\ handed' = handed /\ decoded' = call.saved
        BY <1>1, <1>4, <1>6 DEF Deliver, Finish
    <2> QED
        BY <1>2, <1>6, <1>5, <2>1 DEF Counts
<1>7. CASE recovering /\ r.kind \in {"video", "audio"} /\ ~(position'.pts >= call.target)
    <2>1. call' = call /\ handed' = handed /\ decoded' = Counted(r)
        BY <1>1, <1>7 DEF Deliver, Continue
    <2> QED
        BY <1>2, <1>3, <1>7, <1>5, <2>1 DEF Counts
<1>8. CASE call # None /\ call.kind \in {"step", "recover"} /\ r = Nothing
    <2>1. call' = call /\ handed' = handed /\ decoded' = Counted(r)
        BY <1>1, <1>4, <1>8 DEF Deliver, Continue
    <2> QED
        BY <1>2, <1>3, <1>8, <1>5, <2>1 DEF Counts
<1>9. CASE /\ ~(recovering /\ r.kind \in {"video", "audio"})
           /\ ~(call # None /\ call.kind \in {"step", "recover"} /\ r = Nothing)
    <2>1. call' = None /\ decoded' = Counted(r) /\ handed' = handed + one
        BY <1>1, <1>2, <1>9 DEF Deliver, Finish, one
    <2>2. recovering => r.kind = "error"
        BY <1>4, <1>9
    <2>3. decoded'.video \in Nat /\ handed' \in Nat
        BY <1>2, <1>3, <2>1
    <2>4. ~miscounted' => decoded.video = handed
        BY <1>2, <1>5, <2>2
    <2> QED
        BY <1>2, <1>3, <2>1, <2>3, <2>4 DEF Counts
<1> QED
    BY <1>6, <1>7, <1>8, <1>9

-------------------------------------------------------------------------------
(* The session's steps: what each leaves for a file and slots of its own.  *)

\* what all of them start from, and keep
Opened(ideal) ==
    /\ LogOk(log, ideal) /\ SessionInv(ideal)
    /\ lost \subseteq DOMAIN log /\ index \subseteq DOMAIN log /\ restarts \in Nat

LEMMA DecodingStash ==
    ASSUME NEW ideal, Opened(ideal), NextStashedVideo
    PROVE  SessionInv(ideal)' /\ StepOk
<1> DEFINE i == Head(video_stash)
<1>1. /\ call = None /\ video_stash # <<>> /\ video_stash' = Tail(video_stash) /\ Decode(i)
      /\ UNCHANGED <<log, lost, dropped, cursor, audio_stash, caller>> /\ caller = "pulls"
    BY DEF NextStashedVideo, Idle, encoderVars, fileVars
<1>2. /\ video_stash \in Seq(1 .. Len(log)) /\ Len(video_stash) \in Nat \ {0} /\ i = video_stash[1]
      /\ DOMAIN video_stash = 1 .. Len(video_stash) /\ i \in 1 .. Len(log)
    BY <1>1 DEF Opened, SessionInv, Pulled
<1>3. /\ DOMAIN log = 1 .. Len(log) /\ Len(log) \in Nat /\ mark \in Nat /\ cursor \in Nat /\ cursor \in 0 .. Len(log)
      /\ LogOk(log, ideal) /\ Positions(ideal) /\ Waiting /\ FramesAreExact /\ Pulled
    BY Positive DEF Opened, SessionInv, Positions
<1>4. i \in DOMAIN log /\ Video(i) /\ mark < i /\ i <= cursor
    <2>1. 1 \in DOMAIN video_stash
        BY <1>2
    <2>2. Video(video_stash[1]) /\ video_stash[1] \in mark + 1 .. cursor
        BY <1>3, <2>1 DEF Pulled
    <2> QED
        BY <1>2, <1>3, <2>2
<1>5. \A n \in DOMAIN video_stash : i <= video_stash[n]
    <2> SUFFICES ASSUME NEW n \in DOMAIN video_stash PROVE i <= video_stash[n]
        OBVIOUS
    <2>1. CASE n = 1
        BY <1>2, <2>1
    <2>2. CASE 1 < n
        <3>1. video_stash[1] < video_stash[n] /\ video_stash[n] \in 1 .. Len(log)
            BY SMTT(30), <1>2, <1>3, <2>2 DEF Pulled
        <3> QED
            BY <1>2, <3>1
    <2> QED
        BY <1>2, <2>1, <2>2
<1>6. \A j \in mark + 1 .. i - 1 : Video(j) => j \in Gone
    <2>1. \A j \in mark + 1 .. i - 1 : j \in mark + 1 .. cursor /\ ~(i <= j)
        BY <1>2, <1>3, <1>4
    <2> QED
        BY <1>3, <1>5, <2>1 DEF Pulled
<1> HIDE DEF i
<1>7. /\ mark' = i /\ SlotsOk(refs') /\ (\E b \in 0 .. i : InStepSince(b, ideal)')
      /\ FramesAreExact' /\ StepOk
    BY <1>1, <1>3, <1>4, <1>6, DecodingVideo
<1>8. Positions(ideal)'
    BY <1>1, <1>2, <1>3, <1>4, <1>7 DEF Positions
<1>9. Pulled'
    <2> DEFINE rest == Tail(video_stash)
    <2>1. /\ rest \in Seq(1 .. Len(log)) /\ DOMAIN rest = 1 .. Len(video_stash) - 1
          /\ \A n \in DOMAIN rest : n + 1 \in DOMAIN video_stash /\ rest[n] = video_stash[n + 1]
        BY <1>1, <1>2
    <2>2. \A n \in DOMAIN video_stash : n # 1 => n - 1 \in DOMAIN rest /\ rest[n - 1] = video_stash[n]
        BY <1>1, <1>2
    <2> HIDE DEF rest
    <2>3. \A n \in DOMAIN rest : Video(rest[n]) /\ rest[n] \in i + 1 .. cursor
        <3> SUFFICES ASSUME NEW n \in DOMAIN rest PROVE Video(rest[n]) /\ rest[n] \in i + 1 .. cursor
            OBVIOUS
        <3>1. 1 \in DOMAIN video_stash /\ n + 1 \in DOMAIN video_stash /\ 1 < n + 1
            BY <1>2, <2>1
        <3>2. video_stash[1] < video_stash[n + 1] /\ Video(video_stash[n + 1])
            BY <1>3, <3>1 DEF Pulled
        <3>3. video_stash[n + 1] \in mark + 1 .. cursor
            BY <1>3, <3>1 DEF Pulled
        <3> QED
            BY <1>2, <1>3, <2>1, <3>2, <3>3
    <2>4. \A m, n \in DOMAIN rest : m < n => rest[m] < rest[n]
        <3> SUFFICES ASSUME NEW m \in DOMAIN rest, NEW n \in DOMAIN rest, m < n PROVE rest[m] < rest[n]
            OBVIOUS
        <3>1. m + 1 < n + 1
            BY <1>2, <2>1
        <3> QED
            BY <1>3, <2>1, <3>1 DEF Pulled
    <2>5. \A j \in i + 1 .. cursor : Video(j) => j \in Gone \/ \E n \in DOMAIN rest : rest[n] = j
        <3> SUFFICES ASSUME NEW j \in i + 1 .. cursor, Video(j), j \notin Gone
                     PROVE  \E n \in DOMAIN rest : rest[n] = j
            OBVIOUS
        <3>1. j \in mark + 1 .. cursor
            BY <1>3, <1>4
        <3>2. PICK n \in DOMAIN video_stash : video_stash[n] = j
            BY <1>3, <3>1 DEF Pulled
        <3>3. n # 1
            BY <1>2, <1>4, <3>2
        <3> QED
            BY <2>2, <3>2, <3>3
    <2>6. audio_stash \in Seq(1 .. Len(log)) /\ \A n \in DOMAIN audio_stash : ~Video(audio_stash[n])
        BY <1>3 DEF Pulled
    <2>7. video_stash' = rest
        BY <1>1 DEF rest
    <2>8. /\ UNCHANGED <<log, lost, dropped, cursor, audio_stash>> /\ mark' = i
        BY <1>1, <1>7
    <2>9. (\A n \in DOMAIN video_stash : Video(video_stash[n]) /\ video_stash[n] \in mark + 1 .. cursor)'
        BY <2>3, <2>7, <2>8 DEF Video
    <2>10. (\A j \in mark + 1 .. cursor :
               Video(j) => j \in Gone \/ \E n \in DOMAIN video_stash : video_stash[n] = j)'
        BY <2>5, <2>7, <2>8 DEF Video, Gone
    <2>11. (\A m, n \in DOMAIN video_stash : m < n => video_stash[m] < video_stash[n])'
        BY <2>4, <2>7
    <2>12. (/\ video_stash \in Seq(1 .. Len(log)) /\ audio_stash \in Seq(1 .. Len(log))
            /\ \A n \in DOMAIN audio_stash : ~Video(audio_stash[n]))'
        BY <2>1, <2>6, <2>7, <2>8 DEF Video
    <2> QED
        BY <2>9, <2>10, <2>11, <2>12 DEF Pulled
<1>10. Waiting'
    BY <1>1, Returned DEF Waiting
<1> QED
    BY <1>7, <1>8, <1>9, <1>10 DEF SessionInv

LEMMA DecodingStashedAudio ==
    ASSUME NEW ideal, Opened(ideal), NextStashedAudio
    PROVE  SessionInv(ideal)' /\ StepOk
<1> DEFINE i == Head(audio_stash)
<1>1. /\ call = None /\ audio_stash # <<>> /\ audio_stash' = Tail(audio_stash) /\ Decode(i)
      /\ UNCHANGED <<log, lost, dropped, cursor, video_stash, caller>> /\ caller = "pulls"
    BY DEF NextStashedAudio, Idle, encoderVars, fileVars
<1>2. /\ audio_stash \in Seq(1 .. Len(log)) /\ Len(audio_stash) \in Nat \ {0} /\ i = audio_stash[1]
      /\ DOMAIN audio_stash = 1 .. Len(audio_stash) /\ i \in 1 .. Len(log)
    BY <1>1 DEF Opened, SessionInv, Pulled
<1>3. /\ DOMAIN log = 1 .. Len(log) /\ LogOk(log, ideal) /\ Positions(ideal) /\ Waiting /\ FramesAreExact /\ Pulled
      /\ cursor \in 0 .. Len(log) /\ cursor <= cursor
    BY Positive DEF Opened, SessionInv, Positions
<1>4. i \in DOMAIN log /\ ~Video(i)
    BY <1>2, <1>3 DEF Pulled
<1> HIDE DEF i
<1>5. UNCHANGED <<mark, refs>> /\ FramesAreExact'
    BY <1>1, <1>3, <1>4, DecodingAudio
<1>6. Positions(ideal)'
    BY <1>1, <1>3, <1>5, PositionsStay
<1>7. Pulled'
    <2> DEFINE rest == Tail(audio_stash)
    <2>1. /\ rest \in Seq(1 .. Len(log)) /\ DOMAIN rest = 1 .. Len(audio_stash) - 1
          /\ \A n \in DOMAIN rest : n + 1 \in DOMAIN audio_stash /\ rest[n] = audio_stash[n + 1]
        BY <1>1, <1>2
    <2>2. audio_stash' = rest
        BY <1>1
    <2> HIDE DEF rest
    <2>3. \A n \in DOMAIN rest : ~Video(rest[n])
        BY <1>3, <2>1 DEF Pulled
    <2> QED
        BY <1>1, <1>3, <1>5, <2>1, <2>2, <2>3 DEF Pulled, Video, Gone
<1>8. Waiting'
    BY <1>1, <1>3, Returned DEF Waiting
<1> QED
    BY <1>5, <1>6, <1>7, <1>8 DEF SessionInv, StepOk

\* A packet that is taken goes to the decoder or to a stash, and everything
\* between it and the last one taken is damaged.
LEMMA TakingPacket ==
    ASSUME NEW ideal, Opened(ideal), TakePacket
    PROVE  SessionInv(ideal)' /\ StepOk
<1> DEFINE ahead == {j \in Readable : j > cursor}
           i == Min(ahead)
<1>1. /\ call # None /\ ahead # {} /\ cursor' = i /\ UNCHANGED <<log, lost, caller, restarts>>
      /\ \/ call.kind \in {"video", "audio"} /\ log[i].track # call.kind /\ Stash(i)
         \/ /\ ~(call.kind \in {"video", "audio"} /\ log[i].track # call.kind)
            /\ Decode(i) /\ UNCHANGED <<video_stash, audio_stash, dropped>>
    BY DEF TakePacket, encoderVars, fileVars
<1>2. /\ DOMAIN log = 1 .. Len(log) /\ Len(log) \in Nat /\ mark \in Nat /\ mark <= cursor /\ cursor \in 0 .. Len(log)
      /\ LogOk(log, ideal) /\ Positions(ideal) /\ Waiting /\ FramesAreExact /\ Pulled
    BY Positive DEF Opened, SessionInv, Positions
<1>3. ahead \subseteq 1 .. Len(log) /\ i \in ahead /\ \A j \in ahead : i <= j
    <2>1. ahead \in SUBSET Nat /\ ahead \subseteq 1 .. Len(log)
        BY <1>2 DEF Readable
    <2> HIDE DEF ahead
    <2> QED
        BY <1>1, <2>1, MinIsLeast
<1>4. i \in DOMAIN log /\ i \in 1 .. Len(log) /\ cursor < i /\ i \notin lost /\ mark < i
    BY <1>2, <1>3 DEF Readable
<1>5. \A j \in cursor + 1 .. i - 1 : j \in lost
    <2> SUFFICES ASSUME NEW j \in cursor + 1 .. i - 1, j \notin lost PROVE FALSE
        OBVIOUS
    <2>1. j \in ahead
        BY <1>2, <1>4 DEF Readable
    <2> QED
        BY <1>2, <1>3, <1>4, <2>1
<1> HIDE DEF i, ahead
<1>6. \A j \in mark + 1 .. i : j \in mark + 1 .. cursor \/ j \in cursor + 1 .. i - 1 \/ j = i
    BY <1>2, <1>4
<1>7. cursor' \in 0 .. Len(log) /\ cursor <= cursor' /\ i \in Nat
    BY <1>1, <1>2, <1>4
<1>8. \A j \in mark + 1 .. cursor : j \in mark + 1 .. i
    BY <1>2, <1>4
<1>9. CASE Decode(i) /\ Video(i) /\ UNCHANGED <<video_stash, audio_stash, dropped>>
           /\ ~(call.kind \in {"video", "audio"} /\ log[i].track # call.kind)
    <2>1. video_stash = <<>>
        BY <1>1, <1>2, <1>9 DEF Waiting, Video
    <2>2. \A j \in mark + 1 .. i - 1 : Video(j) => j \in Gone
        <3>1. \A j \in mark + 1 .. cursor : Video(j) => j \in Gone
            BY <1>2, <2>1 DEF Pulled
        <3>2. \A j \in mark + 1 .. i - 1 : j \in mark + 1 .. cursor \/ j \in cursor + 1 .. i - 1
            BY <1>2, <1>4
        <3> QED
            BY <1>5, <3>1, <3>2 DEF Gone
    <2>3. /\ mark' = i /\ SlotsOk(refs') /\ (\E b \in 0 .. i : InStepSince(b, ideal)')
          /\ FramesAreExact' /\ StepOk
        BY <1>1, <1>2, <1>4, <1>9, <2>2, DecodingVideo
    <2>4. Positions(ideal)'
        BY <1>1, <1>7, <2>3 DEF Positions
    <2>5. Pulled'
        <3>1. video_stash' = <<>> /\ mark' = cursor'
            BY <1>1, <1>9, <2>1, <2>3
        <3>2. audio_stash' \in Seq(1 .. Len(log)) /\ \A n \in DOMAIN audio_stash' : ~Video(audio_stash'[n])
            BY <1>2, <1>9 DEF Pulled
        <3> QED
            BY <1>1, <1>7, <3>1, <3>2 DEF Pulled, Video
    <2>6. Waiting'
        BY <1>1, <1>2, <1>9, <2>1, Returned DEF Waiting
    <2> QED
        BY <2>3, <2>4, <2>5, <2>6 DEF SessionInv
<1>10. CASE Decode(i) /\ ~Video(i) /\ UNCHANGED <<video_stash, audio_stash, dropped>>
    <2>1. UNCHANGED <<mark, refs>> /\ FramesAreExact'
        BY <1>1, <1>2, <1>4, <1>10, DecodingAudio
    <2>2. Positions(ideal)'
        BY <1>1, <1>2, <1>7, <1>10, <2>1, PositionsStay
    <2>3. Pulled'
        <3>1. \A n \in DOMAIN video_stash : Video(video_stash[n]) /\ video_stash[n] \in mark + 1 .. i
            BY <1>2, <1>8 DEF Pulled
        <3>2. \A j \in mark + 1 .. i : Video(j) => j \in Gone \/ \E n \in DOMAIN video_stash : video_stash[n] = j
            BY <1>2, <1>5, <1>6, <1>10 DEF Pulled, Gone
        <3>3. UNCHANGED <<log, lost, dropped, mark, video_stash, audio_stash>> /\ cursor' = i
            BY <1>1, <1>10, <2>1
        <3> QED
            BY <1>2, <3>1, <3>2, <3>3 DEF Pulled, Video, Gone
    <2>4. Waiting'
        BY <1>1, <1>2, <1>10, Returned DEF Waiting
    <2> QED
        BY <2>1, <2>2, <2>3, <2>4 DEF SessionInv, StepOk
<1>11. CASE Stash(i) /\ call.kind \in {"video", "audio"} /\ log[i].track # call.kind
    <2>1. /\ UNCHANGED <<mark, refs>> /\ dropped \subseteq dropped'
          /\ result' = result \/ result' = Failure("backpressure")
        BY <1>11 DEF Stash, Finish
    <2>2. Positions(ideal)'
        BY <1>1, <1>2, <1>7, <2>1, PositionsStay
    <2>3. FramesAreExact'
        BY <1>1, <1>2, <2>1 DEF FramesAreExact, GopIntact, Failure
    <2>4. caller = "pulls"
        BY <1>1, <1>2, <1>11 DEF Waiting
    <2>5. CASE Len(video_stash) + Len(audio_stash) >= MaxStash
        <3>1. /\ call' = None /\ dropped' = dropped \cup {i} /\ UNCHANGED <<log, lost, mark, video_stash, audio_stash>>
              /\ cursor' = i /\ caller' = caller
            BY <1>1, <1>11, <2>5 DEF Stash, Finish
        <3>2. Waiting'
            BY <2>4, <3>1 DEF Waiting
        <3>3. Pulled'
            <4>1. \A n \in DOMAIN video_stash : Video(video_stash[n]) /\ video_stash[n] \in mark + 1 .. i
                BY <1>2, <1>8 DEF Pulled
            <4>2. \A j \in mark + 1 .. i :
                     Video(j) => j \in Gone \cup {i} \/ \E n \in DOMAIN video_stash : video_stash[n] = j
                BY <1>2, <1>5, <1>6 DEF Pulled, Gone
            <4>3. Gone' = Gone \cup {i}
                BY <3>1 DEF Gone
            <4> QED
                BY <1>2, <3>1, <4>1, <4>2, <4>3 DEF Pulled, Video
        <3> QED
            BY <2>1, <2>2, <2>3, <3>2, <3>3 DEF SessionInv, StepOk
    <2>6. CASE ~(Len(video_stash) + Len(audio_stash) >= MaxStash) /\ ~Video(i)
        <3>1. /\ audio_stash' = Append(audio_stash, i) /\ UNCHANGED <<log, lost, dropped, mark, video_stash, call, result>>
              /\ cursor' = i /\ caller' = caller
            BY <1>1, <1>11, <2>6 DEF Stash, Video
        <3>2. Waiting'
            BY <1>2, <3>1 DEF Waiting
        <3>3. Pulled'
            <4>1. \A n \in DOMAIN video_stash : Video(video_stash[n]) /\ video_stash[n] \in mark + 1 .. i
                BY <1>2, <1>8 DEF Pulled
            <4>2. \A j \in mark + 1 .. i :
                     Video(j) => j \in Gone \/ \E n \in DOMAIN video_stash : video_stash[n] = j
                BY <1>2, <1>5, <1>6, <2>6 DEF Pulled, Gone
            <4> DEFINE more == Append(audio_stash, i)
            <4>3. more \in Seq(1 .. Len(log)) /\ \A n \in DOMAIN more : ~Video(more[n])
                <5>1. audio_stash \in Seq(1 .. Len(log)) /\ \A n \in DOMAIN audio_stash : ~Video(audio_stash[n])
                    BY <1>2 DEF Pulled
                <5> QED
                    BY <1>4, <2>6, <5>1
            <4> HIDE DEF more
            <4>4. audio_stash' = more /\ Gone' = Gone
                BY <3>1 DEF more, Gone
            <4> QED
                BY <1>2, <3>1, <4>1, <4>2, <4>3, <4>4 DEF Pulled, Video
        <3> QED
            BY <2>1, <2>2, <2>3, <3>2, <3>3 DEF SessionInv, StepOk
    <2>7. CASE ~(Len(video_stash) + Len(audio_stash) >= MaxStash) /\ Video(i)
        <3>1. /\ video_stash' = Append(video_stash, i) /\ UNCHANGED <<log, lost, dropped, mark, audio_stash, call, result>>
              /\ cursor' = i /\ caller' = caller /\ call.kind = "audio"
            BY <1>1, <1>11, <2>7 DEF Stash, Video
        <3>2. Waiting'
            BY <1>2, <2>4, <3>1 DEF Waiting
        <3> DEFINE more == Append(video_stash, i)
                   len == Len(video_stash)
        <3>3. /\ more \in Seq(1 .. Len(log)) /\ DOMAIN more = 1 .. len + 1 /\ DOMAIN video_stash = 1 .. len
              /\ more[len + 1] = i /\ len \in Nat
              /\ \A n \in 1 .. len : more[n] = video_stash[n]
            <4>1. video_stash \in Seq(1 .. Len(log))
                BY <1>2 DEF Pulled
            <4> QED
                BY <1>4, <4>1
        <3>4. video_stash' = more /\ Gone' = Gone
            BY <3>1 DEF Gone
        <3> HIDE DEF more, len
        <3>5. \A n \in 1 .. len : Video(video_stash[n]) /\ video_stash[n] \in mark + 1 .. cursor
            BY <1>2, <3>3 DEF Pulled
        <3>6. \A n \in DOMAIN more : Video(more[n]) /\ more[n] \in mark + 1 .. i
            <4> SUFFICES ASSUME NEW n \in DOMAIN more PROVE Video(more[n]) /\ more[n] \in mark + 1 .. i
                OBVIOUS
            <4>1. CASE n \in 1 .. len
                BY <1>8, <3>3, <3>5, <4>1
            <4>2. CASE n = len + 1
                BY <1>2, <1>4, <2>7, <3>3, <4>2
            <4> QED
                BY <3>3, <4>1, <4>2
        <3>7. \A m, n \in DOMAIN more : m < n => more[m] < more[n]
            <4> SUFFICES ASSUME NEW m \in DOMAIN more, NEW n \in DOMAIN more, m < n PROVE more[m] < more[n]
                OBVIOUS
            <4>1. CASE n \in 1 .. len
                <5>1. m \in 1 .. len
                    BY <3>3, <4>1
                <5> QED
                    BY <1>2, <3>3, <4>1, <5>1 DEF Pulled
            <4>2. CASE n = len + 1
                <5>1. m \in 1 .. len
                    BY <3>3, <4>2
                <5> QED
                    BY <1>2, <1>4, <3>3, <3>5, <4>2, <5>1
            <4> QED
                BY <3>3, <4>1, <4>2
        <3>8. \A j \in mark + 1 .. i : Video(j) => j \in Gone \/ \E n \in DOMAIN more : more[n] = j
            <4> SUFFICES ASSUME NEW j \in mark + 1 .. i, Video(j), j \notin Gone
                         PROVE  \E n \in DOMAIN more : more[n] = j
                OBVIOUS
            <4>1. CASE j = i
                BY <3>3, <4>1
            <4>2. CASE j \in mark + 1 .. cursor
                <5>1. PICK n \in DOMAIN video_stash : video_stash[n] = j
                    BY <1>2, <4>2 DEF Pulled
                <5> QED
                    BY <3>3, <5>1
            <4> QED
                BY <1>5, <1>6, <4>1, <4>2 DEF Gone
        <3>9. audio_stash \in Seq(1 .. Len(log)) /\ \A n \in DOMAIN audio_stash : ~Video(audio_stash[n])
            BY <1>2 DEF Pulled
        <3>10. Pulled'
            BY <3>1, <3>3, <3>4, <3>6, <3>7, <3>8, <3>9 DEF Pulled, Video
        <3> QED
            BY <2>1, <2>2, <2>3, <3>2, <3>10 DEF SessionInv, StepOk
    <2> QED
        BY <2>5, <2>6, <2>7
<1> QED
    BY <1>1, <1>9, <1>10, <1>11

\* Steps that read nothing and decode nothing.
LEMMA StandingStill ==
    ASSUME NEW ideal, Opened(ideal),
           UNCHANGED <<log, lost, dropped, mark, refs, cursor, video_stash, audio_stash>>,
           result' = result \/ result'.kind # "video", Waiting'
    PROVE  SessionInv(ideal)' /\ StepOk
<1>1. cursor \in 0 .. Len(log) /\ cursor \in Nat /\ Positions(ideal) /\ Pulled /\ FramesAreExact
    BY Positive DEF Opened, SessionInv, Positions
<1>2. Positions(ideal)'
    BY <1>1, PositionsStay
<1>3. Pulled'
    BY <1>1 DEF Pulled, Video, Gone
<1>4. FramesAreExact'
    BY <1>1 DEF FramesAreExact, GopIntact
<1> QED
    BY <1>2, <1>3, <1>4 DEF SessionInv, StepOk

LEMMA Seeking ==
    ASSUME NEW ideal, Opened(ideal), NEW target, SeekMs(target)
    PROVE  SessionInv(ideal)' /\ StepOk
<1> DEFINE pts == target * position.timescale
           keyframes == KeyframesUpTo(pts)
           entry == Max(keyframes)
<1>1. /\ call = None /\ video_stash' = <<>> /\ audio_stash' = <<>> /\ refs' = NoRefs
      /\ UNCHANGED <<log, lost, caller>>
    BY DEF SeekMs, Idle, Restart, encoderVars, fileVars
<1>2. /\ DOMAIN log = 1 .. Len(log) /\ Len(log) \in Nat /\ mark \in Nat /\ mark <= cursor /\ cursor \in 0 .. Len(log)
    BY Positive DEF Opened, SessionInv, Positions
<1>3. SlotsOk(refs')
    BY <1>1 DEF SlotsOk, NoRefs
<1>4. CASE keyframes = {}
    <2>1. call' = None /\ result' = Failure("seek") /\ dropped' = 1 .. cursor /\ UNCHANGED <<cursor, mark>>
        BY <1>4 DEF SeekMs
    <2>2. Start(mark)'
        BY <1>2, <2>1 DEF Start
    <2>3. ~IntactSince(mark, mark)'
        BY <1>2, <2>1 DEF IntactSince
    <2>4. Positions(ideal)'
        BY <1>1, <1>2, <1>3, <2>1, <2>2, <2>3 DEF Positions, InStepSince
    <2>5. Pulled' /\ Waiting'
        <3>1. \A j \in mark + 1 .. cursor : j \in 1 .. cursor
            BY <1>2
        <3> QED
            BY <1>1, <1>2, <2>1, <3>1 DEF Pulled, Waiting, Gone, Video
    <2>6. FramesAreExact'
        BY <2>1 DEF FramesAreExact, Failure
    <2> QED
        BY <2>1, <2>4, <2>5, <2>6 DEF SessionInv, StepOk
<1>5. CASE keyframes # {}
    <2>1. entry \in 1 .. Len(log) /\ Video(entry) /\ log[entry].key
        <3>1. keyframes \in SUBSET (1 .. Len(log))
            BY <1>2 DEF KeyframesUpTo, Opened
        <3>2. entry \in keyframes
            <4> HIDE DEF keyframes
            <4> QED BY <1>2, <1>5, <3>1, MaxIsGreatest
        <3> QED
            BY <3>1, <3>2 DEF KeyframesUpTo, Video
    <2> DEFINE pause == [kind |-> "recover", target |-> pts, saved |-> decoded]
    <2>2. /\ cursor' = entry - 1 /\ mark' = entry - 1 /\ result' = Nothing
          /\ call' = None \/ call' = pause
          /\ restarts' = restarts + 1
        BY <1>5 DEF SeekMs, Restart
    <2> HIDE DEF entry
    <2>3. mark' \in Nat /\ mark' + 1 = entry /\ mark' \in 0 .. mark' /\ cursor' \in 0 .. Len(log) /\ mark' <= cursor'
        BY <1>2, <2>1, <2>2
    <2>4. Start(mark)'
        BY <1>1, <1>2, <2>1, <2>3 DEF Start, Video
    <2>5. ~IntactSince(mark, mark)'
        <3>1. mark' \in Nat
            BY <2>3
        <3>2. \A k \in Nat : k + 1 .. k = {}
            OBVIOUS
        <3> QED
            BY <3>1, <3>2 DEF IntactSince
    <2>6. Positions(ideal)'
        BY <1>1, <1>3, <2>3, <2>4, <2>5 DEF Positions, InStepSince
    <2>7. Pulled'
        BY <1>1, <2>2, <2>3 DEF Pulled
    <2>8. Waiting' /\ FramesAreExact'
        BY <1>1, <2>2 DEF Waiting, FramesAreExact, Nothing
    <2>9. result' # Failure("decode")
        BY <2>2 DEF Nothing, Failure
    <2>10. restarts' # restarts
        BY <2>2 DEF Opened
    <2> QED
        BY <2>2, <2>6, <2>7, <2>8, <2>9, <2>10 DEF SessionInv, StepOk
<1> QED
    BY <1>4, <1>5

-------------------------------------------------------------------------------
(* The invariant, and the theorems.                                        *)

LEMMA InitInvariant == PlaybackInit => IInv
<1> SUFFICES ASSUME PlaybackInit PROVE IInv
    OBVIOUS
<1> DEFINE ideal == [i \in 0 .. 0 |-> NoRefs]
<1>1. log = <<>> /\ reference = None /\ anchors = NoRefs /\ encoder \in {"import", "bgop"}
    BY DEF PlaybackInit, EncoderInit
<1>2. SlotsOk(NoRefs) /\ AllExact(NoRefs) /\ PrimaryRef(NoRefs) = None
    BY ReferencesAssumption DEF SlotsOk, AllExact, NoRefs, PrimaryRef
<1>3. IsSeq(log) /\ Len(log) = 0 /\ DOMAIN log = {}
    <2>1. log \in Seq({})
        BY <1>1
    <2> QED
        BY <1>1, <2>1 DEF IsSeq
<1>4. DOMAIN ideal = {0} /\ ideal[0] = NoRefs /\ DOMAIN ideal = 0 .. Len(log)
    BY <1>3
<1> HIDE DEF ideal
<1>5. LogOk(log, ideal)
    BY <1>2, <1>3, <1>4 DEF LogOk
<1>6. EncoderInv(ideal)
    BY <1>1, <1>2, <1>3, <1>4, <1>5 DEF EncoderInv
<1>7. SessionInv(ideal)
    BY <1>3, NothingYet DEF PlaybackInit
<1>8. Counts
    BY DEF Counts, PlaybackInit
<1>9. Unopened /\ lost \subseteq DOMAIN log /\ index \subseteq DOMAIN log /\ restarts \in Nat
      /\ state = "unopened"
    BY DEF Unopened, PlaybackInit
<1> QED
    BY <1>6, <1>7, <1>8, <1>9 DEF IInv

\* Every step of a session keeps what is known of it, and of its counters.
LEMMA SessionKeeps ==
    ASSUME IInv, SessionNext
    PROVE  /\ \E ideal : EncoderInv(ideal)' /\ SessionInv(ideal)'
           /\ StepOk /\ Counts' /\ restarts' \in Nat /\ UNCHANGED <<encoderVars, lost, index>>
           /\ state' # "unopened" /\ encoder = "done"
<1>1. PICK ideal : EncoderInv(ideal) /\ SessionInv(ideal)
    BY DEF IInv
<1>2. Opened(ideal) /\ Waiting /\ Counts /\ Unopened /\ restarts \in Nat /\ (encoder # "done" => state = "unopened")
    BY <1>1 DEF Opened, IInv, EncoderInv, SessionInv
<1>3. UNCHANGED <<encoderVars, lost, index>> => EncoderInv(ideal)'
    BY <1>1 DEF EncoderInv, encoderVars
<1>4. Nothing.kind = "none" /\ [kind |-> "step"].kind = "step"
    BY DEF Nothing
<1>5. CASE Open
    <2>1. state = "unopened" /\ video_stash = <<>> /\ call = None
        BY <1>2, <1>5 DEF Open, Unopened
    <2>2. UNCHANGED <<encoderVars, lost, index, log, dropped, mark, refs, cursor, video_stash, audio_stash, result,
                      call, decoded, handed, miscounted, restarts>>
        BY <1>5 DEF Open, encoderVars, fileVars, historyVars
    <2>3. Waiting'
        BY <2>1, <2>2 DEF Waiting
    <2>4. Counts'
        BY <1>2, <2>2 DEF Counts
    <2> QED
        BY <1>2, <1>3, <1>5, <2>2, <2>3, <2>4, StandingStill DEF Open
<1>6. CASE NextStep \/ NextOf("video", video_stash) \/ NextOf("audio", audio_stash)
    <2>1. PICK c : /\ call' = c /\ result' = Nothing /\ call = None
                   /\ \/ c = [kind |-> "step"] /\ caller = "steps"
                      \/ c = [kind |-> "video"] /\ caller = "pulls" /\ video_stash = <<>>
                      \/ c = [kind |-> "audio"] /\ caller = "pulls"
        BY <1>6 DEF NextStep, NextOf, Begin, Idle
    <2>2. UNCHANGED <<encoderVars, lost, index, log, dropped, mark, refs, cursor, video_stash, audio_stash,
                      caller, state, decoded, handed, miscounted, restarts>> /\ state # "unopened"
        BY <1>6 DEF NextStep, NextOf, Idle, encoderVars, fileVars, historyVars
    <2>3. Waiting'
        BY <1>2, <2>1, <2>2 DEF Waiting
    <2>4. Counts'
        BY <1>2, <2>1, <2>2 DEF Counts
    <2> QED
        BY <1>2, <1>3, <1>4, <2>1, <2>2, <2>3, <2>4, StandingStill
<1>7. CASE NextStashedVideo \/ NextStashedAudio
    <2>1. UNCHANGED <<encoderVars, lost, index, state, restarts>> /\ state # "unopened"
        BY <1>7 DEF NextStashedVideo, NextStashedAudio, Idle, fileVars
    <2>2. SessionInv(ideal)' /\ StepOk
        BY <1>2, <1>7, DecodingStash, DecodingStashedAudio
    <2>3. Counts'
        BY <1>2, <1>7, DecodingCounts DEF NextStashedVideo, NextStashedAudio
    <2> QED
        BY <1>2, <1>3, <2>1, <2>2, <2>3
<1>8. CASE TakePacket
    <2> DEFINE i == Min({j \in Readable : j > cursor})
    <2>1. UNCHANGED <<encoderVars, lost, index, state, restarts>> /\ state # "unopened" /\ call # None
          /\ ((Stash(i) /\ call.kind \in {"video", "audio"}) \/ Decode(i))
        BY <1>2, <1>8 DEF TakePacket, Unopened, fileVars
    <2> HIDE DEF i
    <2>2. SessionInv(ideal)' /\ StepOk
        BY <1>2, <1>8, TakingPacket
    <2>3. ASSUME Stash(i), call.kind \in {"video", "audio"} PROVE Counts'
        <3>1. /\ UNCHANGED <<decoded, miscounted, handed>>
              /\ call' = call \/ (call' = None /\ Len(video_stash) + Len(audio_stash) >= MaxStash)
            BY <2>3 DEF Stash, Finish, Failure
        <3> QED
            BY <1>2, <2>3, <3>1 DEF Counts
    <2>4. Counts'
        BY <1>2, <2>1, <2>3, DecodingCounts
    <2> QED
        BY <1>2, <1>3, <2>1, <2>2, <2>4
<1>9. CASE ReachEnd
    <2>1. UNCHANGED <<encoderVars, lost, index, restarts, log, dropped, mark, refs, cursor, video_stash, audio_stash,
                      caller>> /\ state' # "unopened" /\ state # "unopened" /\ call # None /\ call' = None
        BY <1>2, <1>9 DEF ReachEnd, Unopened, fileVars, Finish, encoderVars
    <2>2. result'.kind \in {"error", "end", "none"} /\ handed' = handed
        <3>1. PICK r : r \in {Failure("io"), End, Nothing, Failure("recovery")} /\ Finish(r)
            BY <1>9 DEF ReachEnd
        <3>2. r.kind \in {"error", "end", "none"}
            BY <3>1 DEF Failure, End, Nothing
        <3> QED
            BY <3>1, <3>2 DEF Finish
    <2>3. Waiting'
        BY <1>2, <2>1 DEF Waiting
    <2>4. Counts'
        <3>1. /\ decoded' = IF call.kind = "recover" /\ ~torn THEN call.saved ELSE decoded
              /\ ~miscounted' => ~miscounted /\ ~(call.kind = "recover" /\ torn)
            BY <1>9 DEF ReachEnd
        <3> QED
            BY <1>2, <2>1, <2>2, <3>1 DEF Counts
    <2>5. SessionInv(ideal)' /\ StepOk
        <3>1. result'.kind # "video"
            BY <2>2
        <3> QED
            BY <1>2, <2>1, <2>3, <3>1, StandingStill DEF encoderVars
    <2> QED
        BY <1>2, <1>3, <2>1, <2>4, <2>5
<1>10. CASE Play \/ Pause
    <2>1. UNCHANGED <<encoderVars, lost, index, log, dropped, mark, refs, cursor, video_stash, audio_stash, result,
                      call, caller, decoded, handed, miscounted, restarts>> /\ state # "unopened" /\ state' # "unopened"
        BY <1>10 DEF Play, Pause, Idle, encoderVars, fileVars, historyVars
    <2>2. Waiting' /\ Counts'
        BY <1>2, <2>1 DEF Waiting, Counts
    <2> QED
        BY <1>2, <1>3, <2>1, <2>2, StandingStill
<1>11. CASE Stop
    <2>1. /\ mark' = 0 /\ cursor' = 0 /\ refs' = NoRefs /\ video_stash' = <<>> /\ audio_stash' = <<>>
          /\ call' = None /\ result' = Nothing /\ restarts' = restarts + 1 /\ state' # "unopened" /\ state # "unopened"
          /\ handed' = 0 /\ decoded' = [video |-> 0, audio |-> 0] /\ UNCHANGED <<encoderVars, lost, index, log>>
        BY <1>11 DEF Stop, Idle, Restart, encoderVars, fileVars
    <2>2. (Len(log) \in Nat)'
        BY <1>2, <2>1, Positive DEF Opened
    <2>3. SessionInv(ideal)'
        BY <2>1, <2>2, NothingLeft
    <2>4. Counts'
        BY <2>1 DEF Counts
    <2>5. StepOk
        BY <1>2, <2>1 DEF StepOk, Nothing, Failure
    <2> QED
        BY <1>2, <1>3, <2>1, <2>3, <2>4, <2>5
<1>12. ASSUME NEW target \in Target, SeekMs(target)
       PROVE  /\ SessionInv(ideal)' /\ StepOk /\ Counts' /\ restarts' \in Nat
              /\ UNCHANGED <<encoderVars, lost, index>> /\ state' # "unopened" /\ state # "unopened"
    <2>1. SessionInv(ideal)' /\ StepOk
        BY <1>2, <1>12, Seeking
    <2>2. /\ restarts' = restarts + 1 /\ UNCHANGED <<encoderVars, lost, index, state, decoded, handed, miscounted>>
          /\ state # "unopened" /\ call = None
        BY <1>12 DEF SeekMs, Idle, Restart, fileVars
    <2>3. \/ call' = None
          \/ call' = [kind |-> "recover", target |-> target * position.timescale, saved |-> decoded]
        BY <1>12 DEF SeekMs
    <2>4. Counts'
        BY <1>2, <2>2, <2>3 DEF Counts
    <2> QED
        BY <1>2, <2>1, <2>2, <2>4
<1> QED
    BY <1>2, <1>3, <1>5, <1>6, <1>7, <1>8, <1>9, <1>10, <1>11, <1>12 DEF SessionNext

\* So does the encoder, before there is a session, and the end of its file.
LEMMA EncoderKeeps ==
    ASSUME IInv, EncoderNext /\ UNCHANGED <<fileVars, sessionVars, historyVars>>
    PROVE  IInv' /\ StepOk
<1>1. PICK ideal : EncoderInv(ideal)
    BY DEF IInv
<1>2. encoder # "done" /\ state = "unopened"
    BY DEF IInv, EncoderNext, PushVideo, PushAudio, EncodeNext, EncodeFails, EncodeAltRef
<1>3. /\ mark = 0 /\ cursor = 0 /\ refs = NoRefs /\ video_stash = <<>> /\ audio_stash = <<>>
      /\ call = None /\ result = Nothing /\ dropped = {}
    BY <1>2 DEF IInv, Unopened
<1>4. UNCHANGED <<lost, index, state, cursor, refs, video_stash, audio_stash, call, result, decoded, handed,
                  miscounted, mark, dropped, restarts>>
    BY DEF fileVars, sessionVars, historyVars
<1>5. PICK more : EncoderInv(more)'
    BY <1>1, EncoderKeepsLog
<1>6. (Len(log) \in Nat)' /\ DOMAIN log \subseteq DOMAIN log'
    <2>1. PICK set : log \in Seq(set)
        BY <1>1 DEF EncoderInv, LogOk, IsSeq
    <2>2. log' = log \/ \E packet : log' = Append(log, packet)
        BY DEF EncoderNext, PushVideo, PushAudio, EncodeNext, EncodeFails, EncodeAltRef, Put
    <2> QED
        BY <2>1, <2>2
<1>7. SessionInv(more)'
    BY <1>3, <1>4, <1>6, NothingLeft
<1>8. Counts'
    BY <1>4 DEF IInv, Counts
<1>9. Unopened' /\ (state = "unopened")' /\ StepOk
    BY <1>2, <1>3, <1>4 DEF Unopened, StepOk
<1>10. (lost \subseteq DOMAIN log /\ index \subseteq DOMAIN log /\ restarts \in Nat)'
    BY <1>4, <1>6 DEF IInv
<1> QED
    BY <1>5, <1>7, <1>8, <1>9, <1>10 DEF IInv

LEMMA FileKeeps ==
    ASSUME IInv, FinishFile
    PROVE  IInv' /\ StepOk
<1>1. PICK ideal : EncoderInv(ideal)
    BY DEF IInv
<1>2. encoder # "done" /\ state = "unopened" /\ encoder' = "done"
    BY DEF IInv, FinishFile
<1>3. /\ mark = 0 /\ cursor = 0 /\ refs = NoRefs /\ video_stash = <<>> /\ audio_stash = <<>>
      /\ call = None /\ result = Nothing /\ dropped = {}
    BY <1>2 DEF IInv, Unopened
<1>4. UNCHANGED <<state, cursor, refs, video_stash, audio_stash, call, result, decoded, handed,
                  miscounted, mark, dropped, restarts>>
    BY DEF FinishFile, sessionVars, historyVars
<1>5. PICK n \in 0 .. Len(log) :
        log' = SubSeq(log, 1, n) /\ lost' \subseteq 1 .. n /\ index' \subseteq 1 .. n
    BY DEF FinishFile
<1>6. (Len(log) \in Nat)' /\ DOMAIN log' = 1 .. n
    <2>1. PICK set : log \in Seq(set)
        BY <1>1 DEF EncoderInv, LogOk, IsSeq
    <2> QED
        BY <1>5, <2>1
<1>7. PICK less : LogOk(log', less)
    BY <1>1, <1>5, LogIsCut DEF EncoderInv
<1>8. EncoderInv(less)'
    BY <1>2, <1>7 DEF EncoderInv
<1>9. SessionInv(less)'
    BY <1>3, <1>4, <1>6, NothingLeft
<1>10. Counts'
    BY <1>4 DEF IInv, Counts
<1>11. Unopened' /\ (state = "unopened")' /\ StepOk
    BY <1>2, <1>3, <1>4 DEF Unopened, StepOk
<1>12. (lost \subseteq DOMAIN log /\ index \subseteq DOMAIN log /\ restarts \in Nat)'
    BY <1>4, <1>5, <1>6 DEF IInv
<1> QED
    BY <1>8, <1>9, <1>10, <1>11, <1>12 DEF IInv

LEMMA StepInvariant ==
    ASSUME IInv, [PlaybackNext]_playbackVars
    PROVE  IInv' /\ StepOk
<1>1. CASE SessionNext
    <2>1. /\ \E ideal : EncoderInv(ideal)' /\ SessionInv(ideal)'
          /\ StepOk /\ Counts' /\ restarts' \in Nat /\ UNCHANGED <<encoderVars, lost, index>>
          /\ state' # "unopened" /\ encoder = "done"
        BY <1>1, SessionKeeps
    <2>2. Unopened' /\ (encoder # "done" => state = "unopened")'
        BY <2>1 DEF Unopened, encoderVars
    <2>3. (lost \subseteq DOMAIN log /\ index \subseteq DOMAIN log)'
        BY <2>1 DEF IInv, encoderVars
    <2> QED
        BY <2>1, <2>2, <2>3 DEF IInv
<1>2. CASE UNCHANGED playbackVars
    <2>1. /\ UNCHANGED <<log, encoder, encoded, reference, anchors, lost, index, torn, state, caller>>
          /\ UNCHANGED <<cursor, position, refs, video_stash, audio_stash, decoded, call, result>>
          /\ UNCHANGED <<restarts, handed, miscounted, mark, dropped>>
        BY <1>2 DEF playbackVars, encoderVars, fileVars, sessionVars, historyVars
    <2>2. \A ideal : EncoderInv(ideal) => EncoderInv(ideal)'
        BY <2>1 DEF EncoderInv
    <2>3. \A ideal : Opened(ideal) => SessionInv(ideal)'
        <3> SUFFICES ASSUME NEW ideal, Opened(ideal) PROVE SessionInv(ideal)'
            OBVIOUS
        <3>1. Waiting'
            BY <2>1 DEF Opened, SessionInv, Waiting
        <3> QED
            BY <2>1, <3>1, StandingStill
    <2>4. Counts' /\ Unopened' /\ StepOk
        BY <2>1 DEF IInv, Counts, Unopened, StepOk
    <2> QED
        BY <2>1, <2>2, <2>3, <2>4 DEF IInv, Opened, EncoderInv
<1> QED
    BY <1>1, <1>2, EncoderKeeps, FileKeeps DEF PlaybackNext

LEMMA SpecInvariant == PlaybackSpec => []IInv /\ [][StepOk]_playbackVars
<1>1. IInv /\ [PlaybackNext]_playbackVars => IInv' /\ [StepOk]_playbackVars
    BY StepInvariant
<1> QED
    BY <1>1, InitInvariant, PTL DEF PlaybackSpec

\* Whatever was encoded, damaged, dropped and sought, a frame that playback
\* returns is the encoder's picture unless its group of pictures is damaged.
THEOREM ReturnedFramesAreExact == PlaybackSpec => []FramesAreExact
<1>1. IInv => FramesAreExact
    BY DEF IInv, SessionInv
<1> QED
    BY <1>1, SpecInvariant, PTL

\* Nor is a picture of an intact group refused.
THEOREM NoIntactPictureRefused == PlaybackSpec => IntactIsDecoded
<1>1. [StepOk]_playbackVars =>
        [(mark' # mark /\ result' = Failure("decode")) => ~GopIntact(mark')]_playbackVars
    BY DEF StepOk
<1> QED
    BY <1>1, SpecInvariant, PTL DEF IntactIsDecoded

\* Between restarts the pictures are decoded in file order, each once, and none
\* is left out but for damage and full stashes.
THEOREM PicturesInFileOrder == PlaybackSpec => DecodedInOrder
<1>1. [StepOk]_playbackVars =>
        [(mark' # mark /\ restarts' = restarts) =>
            /\ mark' > mark
            /\ \A j \in mark + 1 .. mark' - 1 : log[j].track = "video" => j \in lost \cup dropped]_playbackVars
    BY DEF StepOk
<1> QED
    BY <1>1, SpecInvariant, PTL DEF DecodedInOrder

\* The frame counter is the number of frames returned, over every recovery that
\* does not fail.
THEOREM CounterIsFramesReturned == PlaybackSpec => []CountsReturnedFrames
<1>1. IInv => CountsReturnedFrames
    BY DEF IInv, Counts, CountsReturnedFrames
<1> QED
    BY <1>1, SpecInvariant, PTL
===============================================================================
