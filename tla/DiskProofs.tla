------------------------------ MODULE DiskProofs ------------------------------
(***************************************************************************)
(* Theorems about the writer and the reader, for any tracks, frames, cue   *)
(* interval and bounds.  A cell ranges over everything a writer puts into  *)
(* a file, so that the file is a sequence over a set and the laws of       *)
(* sequences apply.  The writer's half shows where blocks lie and what     *)
(* their preludes stand for; the reader's half goes backwards over the     *)
(* positions of the file, as the reader's functions are defined.           *)
(***************************************************************************)
EXTENDS Demux, FiniteSetTheorems, SequenceTheorems, WellFoundedInduction, TLAPS

PacketHeader == [track : Track, key : BOOLEAN, sequence : Nat, pts : Nat]
Packet == [track : Track, key : BOOLEAN, sequence : Nat, pts : Nat,
           payload : Seq({S, B, Plain})]
Row == [offset : Nat, packet : Packet]

BodyCell == {S, B, Plain} \cup PacketHeader \cup Entry \cup [cue : Nat, first : Nat]
              \cup [count : Nat]
PreludeCell == [type : {"packet", "cue", "index"}, bodyLen : Nat, bodyCrc : Seq(BodyCell)]
Cell == BodyCell \cup PreludeCell \cup [crc : PreludeCell] \cup [start : {"SRS528"}]

\* A block with a typed body is a sequence of cells, the header and then the body.
LEMMA BlockType ==
    ASSUME NEW type \in {"packet", "cue", "index"}, NEW body \in Seq(BodyCell)
    PROVE  /\ Block(type, body) \in Seq(Cell)
           /\ Len(Block(type, body)) = HeaderLen + Len(body)
<1> DEFINE head == <<S, B, Prelude(type, body), [crc |-> Prelude(type, body)]>>
<1>1. Prelude(type, body) \in PreludeCell
  BY DEF Prelude, PreludeCell
<1>2. S \in Cell /\ B \in Cell /\ Prelude(type, body) \in Cell
        /\ [crc |-> Prelude(type, body)] \in Cell
  BY <1>1 DEF Cell, BodyCell
<1>3. head \in Seq(Cell) /\ Len(head) = 4
  BY <1>2
<1>4. body \in Seq(Cell)
  BY SeqMonotonic DEF Cell
<1> QED BY <1>3, <1>4, ConcatProperties DEF Block, HeaderLen

LEMMA PacketBlockType ==
    ASSUME NEW packet \in Packet
    PROVE  PacketBlock(packet) \in Seq(Cell)
<1>1. <<HeaderOf(packet)>> \in Seq(BodyCell)
  BY DEF HeaderOf, Packet, PacketHeader, BodyCell
<1>2. packet.payload \in Seq(BodyCell)
  <2>1. packet.payload \in Seq({S, B, Plain}) /\ {S, B, Plain} \subseteq BodyCell
    BY DEF Packet, BodyCell
  <2> QED BY <2>1, SeqMonotonic
<1>3. <<HeaderOf(packet)>> \o packet.payload \in Seq(BodyCell)
  BY <1>1, <1>2, ConcatProperties
<1> QED BY <1>3, BlockType DEF PacketBlock

LEMMA IndexBlockType ==
    ASSUME NEW es \in Seq(Entry)
    PROVE  IndexBlock(es) \in Seq(Cell)
<1>1. <<[count |-> Len(es)]>> \in Seq(BodyCell)
  BY DEF BodyCell
<1>2. es \in Seq(BodyCell)
  BY SeqMonotonic DEF BodyCell
<1>3. <<[count |-> Len(es)]>> \o es \in Seq(BodyCell)
  BY <1>1, <1>2, ConcatProperties
<1> QED BY <1>3, BlockType DEF IndexBlock

LEMMA CueType ==
    ASSUME NEW es \in Seq(Entry), cue_count \in Nat, packet_count \in Nat,
           pending_cue_start \in 0 .. Len(es)
    PROVE  Cue(es) \in Seq(Cell)
<1> DEFINE new == SubSeq(es, pending_cue_start + 1, Len(es))
           first == IF new = <<>> THEN packet_count ELSE new[1].packet_number
<1>1. new \in Seq(Entry)
  <2>1. \A i \in pending_cue_start + 1 .. Len(es) : es[i] \in Entry
    BY ElementOfSeq
  <2> QED BY <2>1, SubSeqProperties
<1>2. first \in Nat
  <2>1. CASE new = <<>> BY <2>1
  <2>2. CASE new # <<>>
    <3>1. Len(new) \in Nat \ {0} BY <1>1, <2>2, EmptySeq
    <3>2. new[1] \in Entry BY <1>1, <3>1, ElementOfSeq
    <3> QED BY <2>2, <3>2 DEF Entry
  <2> QED BY <2>1, <2>2
<1> HIDE DEF first
<1>3. <<[cue |-> cue_count, first |-> first]>> \in Seq(BodyCell)
  BY <1>2 DEF BodyCell
<1> HIDE DEF new
<1>4. new \in Seq(BodyCell)
  BY <1>1, SeqMonotonic DEF BodyCell
<1>5. <<[cue |-> cue_count, first |-> first]>> \o new \in Seq(BodyCell)
  BY <1>3, <1>4, ConcatProperties
<1> QED BY <1>5, BlockType DEF Cue, CueBlock, new, first

-----------------------------------------------------------------------------
\* What is in the file stays there when something is appended.
LEMMA CellsKept ==
    ASSUME NEW f \in Seq(Cell), NEW g \in Seq(Cell), NEW a \in Nat, NEW n \in Nat,
           a + n <= Len(f)
    PROVE  Cells(f \o g, a, n) = Cells(f, a, n)
<1>1. /\ f \o g \in Seq(Cell) /\ Len(f \o g) = Len(f) + Len(g)
      /\ \A i \in 1 .. Len(f) : (f \o g)[i] = f[i]
  BY ConcatProperties
<1>2. /\ \A i \in a + 1 .. a + n : f[i] \in Cell
      /\ \A i \in a + 1 .. a + n : (f \o g)[i] = f[i]
  BY <1>1, ElementOfSeq
<1>3. /\ Cells(f, a, n) \in Seq(Cell) /\ Len(Cells(f, a, n)) = n
      /\ \A i \in 1 .. n : Cells(f, a, n)[i] = f[a + i]
  BY <1>2, SubSeqProperties DEF Cells
<1>4. /\ Cells(f \o g, a, n) \in Seq(Cell) /\ Len(Cells(f \o g, a, n)) = n
      /\ \A i \in 1 .. n : Cells(f \o g, a, n)[i] = (f \o g)[a + i]
  BY <1>2, SubSeqProperties DEF Cells
<1> QED BY <1>2, <1>3, <1>4, SeqEqual

\* What is appended is found where the file ended.
LEMMA CellsAppended ==
    ASSUME NEW f \in Seq(Cell), NEW g \in Seq(Cell)
    PROVE  Cells(f \o g, Len(f), Len(g)) = g
<1>1. /\ f \o g \in Seq(Cell) /\ Len(f \o g) = Len(f) + Len(g)
      /\ \A i \in 1 .. Len(g) : (f \o g)[Len(f) + i] = g[i]
  BY ConcatProperties
<1>2. \A i \in Len(f) + 1 .. Len(f) + Len(g) : (f \o g)[i] \in Cell
  BY <1>1, ElementOfSeq
<1>3. /\ Cells(f \o g, Len(f), Len(g)) \in Seq(Cell)
      /\ Len(Cells(f \o g, Len(f), Len(g))) = Len(g)
      /\ \A i \in 1 .. Len(g) : Cells(f \o g, Len(f), Len(g))[i] = (f \o g)[Len(f) + i]
  BY <1>2, SubSeqProperties DEF Cells
<1> QED BY <1>1, <1>3, SeqEqual

\* A block that is whole in a prefix of the file is the one in the file.
LEMMA CellsOfPrefix ==
    ASSUME NEW f \in Seq(Cell), NEW m \in 0 .. Len(f), NEW a \in Nat, NEW n \in Nat,
           a + n <= m
    PROVE  Cells(SubSeq(f, 1, m), a, n) = Cells(f, a, n)
<1>1. \A i \in 1 .. m : f[i] \in Cell
  BY ElementOfSeq
<1>2. /\ SubSeq(f, 1, m) \in Seq(Cell) /\ Len(SubSeq(f, 1, m)) = m
      /\ \A i \in 1 .. m : SubSeq(f, 1, m)[i] = f[i]
  BY <1>1, SubSeqProperties
<1>3. PICK h \in Seq(Cell) : h = SubSeq(f, 1, m)
  BY <1>2
<1>4. \A i \in a + 1 .. a + n : f[i] \in Cell /\ h[i] \in Cell /\ h[i] = f[i]
  BY <1>1, <1>2, <1>3
<1>5. /\ Cells(f, a, n) \in Seq(Cell) /\ Len(Cells(f, a, n)) = n
      /\ \A i \in 1 .. n : Cells(f, a, n)[i] = f[a + i]
  BY <1>4, SubSeqProperties DEF Cells
<1>6. /\ Cells(h, a, n) \in Seq(Cell) /\ Len(Cells(h, a, n)) = n
      /\ \A i \in 1 .. n : Cells(h, a, n)[i] = h[a + i]
  BY <1>4, SubSeqProperties DEF Cells
<1>7. \A i \in 1 .. n : h[a + i] = f[a + i]
  BY <1>4
<1>8. Cells(h, a, n) = Cells(f, a, n)
  BY <1>5, <1>6, <1>7, SeqEqual
<1> QED BY <1>3, <1>8

-----------------------------------------------------------------------------
MuxTyped ==
    /\ file \in Seq(Cell) /\ Len(file) >= DataStart
    /\ packet_count = Len(entries) /\ sequence = packet_count
    /\ cue_count \in Nat
    /\ entries \in Seq(Entry) /\ pending_cue_start \in 0 .. Len(entries)
    /\ phase \in {"writing", "finalized", "crashed"}
    /\ log \in Seq(Row) /\ Len(log) = Len(entries)

MuxInv == MuxTyped /\ EntriesPointAtPackets

LEMMA InitMux == MuxInit => MuxInv
<1> SUFFICES ASSUME MuxInit PROVE MuxInv
  OBVIOUS
<1>1. FileStart \in Seq(Cell) /\ Len(FileStart) = 1
  BY DEF FileStart, Cell
<1>2. entries = <<>> /\ log = <<>> /\ entries \in Seq(Entry) /\ log \in Seq(Row)
  BY DEF MuxInit
<1>3. MuxTyped
  BY <1>1, <1>2 DEF MuxInit, MuxTyped, DataStart
<1>4. EntriesPointAtPackets
  BY <1>2 DEF EntriesPointAtPackets
<1> QED BY <1>3, <1>4 DEF MuxInv

\* What one entry owes the packet it was made for, in the file f.
PointsAt(e, p, i, f) ==
    /\ e.packet_number = i - 1 /\ p.sequence = e.packet_number
    /\ <<e.track, e.key, e.pts>> = <<p.track, p.key, p.pts>>
    /\ e.file_offset + Len(PacketBlock(p)) <= Len(f) =>
            Cells(f, e.file_offset, Len(PacketBlock(p))) = PacketBlock(p)

LEMMA PointsAtIs ==
    EntriesPointAtPackets <=>
        \A i \in DOMAIN entries :
            /\ PointsAt(entries[i], log[i].packet, i, file)
            /\ phase # "crashed" =>
                entries[i].file_offset + Len(PacketBlock(log[i].packet)) <= Len(file)
BY DEF EntriesPointAtPackets, PointsAt

\* An entry that is right for a file is right when the file grows.
LEMMA PointsAtKept ==
    ASSUME NEW e \in Entry, NEW p \in Packet, NEW i \in Nat,
           NEW f \in Seq(Cell), NEW g \in Seq(Cell),
           PointsAt(e, p, i, f), e.file_offset + Len(PacketBlock(p)) <= Len(f)
    PROVE  /\ PointsAt(e, p, i, f \o g)
           /\ e.file_offset + Len(PacketBlock(p)) <= Len(f \o g)
<1>1. PacketBlock(p) \in Seq(Cell) /\ Len(PacketBlock(p)) \in Nat /\ e.file_offset \in Nat
  BY PacketBlockType, LenProperties DEF Entry
<1>2. Len(f \o g) = Len(f) + Len(g) /\ Len(f) \in Nat /\ Len(g) \in Nat
  BY ConcatProperties, LenProperties
<1>3. Cells(f \o g, e.file_offset, Len(PacketBlock(p)))
        = Cells(f, e.file_offset, Len(PacketBlock(p)))
  BY <1>1, CellsKept
<1> QED BY <1>1, <1>2, <1>3 DEF PointsAt

\* The new entry and packet of write_packet.
LEMMA FrameType ==
    ASSUME MuxTyped, NEW frame \in Frames
    PROVE  /\ PacketOf(frame) \in Packet /\ EntryOf(frame) \in Entry
           /\ PacketBlock(PacketOf(frame)) \in Seq(Cell)
           /\ Len(PacketBlock(PacketOf(frame))) \in Nat
<1>1. /\ frame.track \in Track /\ frame.key \in BOOLEAN /\ frame.pts \in Nat
      /\ frame.payload \in Seq({S, B, Plain})
  BY MuxAssumption
<1>2. Len(file) \in Nat /\ packet_count \in Nat /\ sequence \in Nat
  BY LenProperties DEF MuxTyped
<1>3. PacketOf(frame) \in Packet
  BY <1>1, <1>2 DEF PacketOf, Packet
<1>4. EntryOf(frame) \in Entry
  BY <1>1, <1>2 DEF EntryOf, Entry
<1> QED BY <1>3, <1>4, PacketBlockType, LenProperties

\* write_packet, whether or not a cue follows the packet.
LEMMA StepWritePacket ==
    ASSUME MuxInv, NEW frame \in Frames, WritePacket(frame)
    PROVE  MuxInv'
<1> DEFINE e == EntryOf(frame)
           p == PacketOf(frame)
           row == [offset |-> Len(file), packet |-> p]
           n == Len(entries)
<1>1. /\ p \in Packet /\ e \in Entry
      /\ PacketBlock(p) \in Seq(Cell) /\ Len(PacketBlock(p)) \in Nat
  BY FrameType DEF MuxInv
<1>2. /\ file \in Seq(Cell) /\ entries \in Seq(Entry) /\ log \in Seq(Row)
      /\ n \in Nat /\ Len(file) \in Nat /\ Len(log) = n /\ phase = "writing"
      /\ packet_count = n /\ sequence = n /\ cue_count \in Nat
      /\ pending_cue_start \in 0 .. n
  BY LenProperties DEF MuxInv, MuxTyped, WritePacket
<1>3. /\ entries' = Append(entries, e) /\ entries' \in Seq(Entry)
      /\ Len(entries') = n + 1 /\ entries'[n + 1] = e
      /\ \A i \in 1 .. n : entries'[i] = entries[i]
  BY <1>1, <1>2, AppendProperties DEF WritePacket
<1>4. row \in Row
  BY <1>1, <1>2 DEF Row
<1>5. /\ log' = Append(log, row) /\ log' \in Seq(Row)
      /\ Len(log') = n + 1 /\ log'[n + 1] = row
      /\ \A i \in 1 .. n : log'[i] = log[i]
  BY <1>2, <1>4, AppendProperties DEF WritePacket
<1>6. PICK g \in Seq(Cell) : file' = (file \o PacketBlock(p)) \o g
  <2>1. CASE CueDue
    <3>1. pending_cue_start \in 0 .. Len(entries')
      BY <1>2, <1>3
    <3>2. Cue(entries') \in Seq(Cell)
      BY <1>2, <1>3, <3>1, CueType
    <3> QED BY <2>1, <3>2, <1>3 DEF WritePacket, WriteCue
  <2>2. CASE ~CueDue
    <3>1. file \o PacketBlock(p) \in Seq(Cell)
      BY <1>1, <1>2, ConcatProperties
    <3>2. (file \o PacketBlock(p)) \o <<>> = file \o PacketBlock(p)
      BY <3>1, ConcatEmptySeq
    <3> QED BY <2>2, <3>2, EmptySeq DEF WritePacket
  <2> QED BY <2>1, <2>2
<1>7. pending_cue_start' \in 0 .. n + 1 /\ cue_count' \in Nat
  BY <1>2, <1>3 DEF WritePacket, WriteCue
<1>8. /\ file \o PacketBlock(p) \in Seq(Cell)
      /\ Len(file \o PacketBlock(p)) = Len(file) + Len(PacketBlock(p))
      /\ file' \in Seq(Cell)
      /\ Len(file') = Len(file) + Len(PacketBlock(p)) + Len(g)
      /\ Len(g) \in Nat
  BY <1>1, <1>2, <1>6, ConcatProperties, LenProperties
<1>9. MuxTyped'
  <2>1. packet_count' = n + 1 /\ sequence' = n + 1 /\ phase' = "writing"
    BY <1>2 DEF WritePacket
  <2>2. Len(file') >= DataStart'
    BY <1>1, <1>2, <1>8 DEF MuxInv, MuxTyped, DataStart, FileStart
  <2> QED BY <1>3, <1>5, <1>7, <1>8, <2>1, <2>2 DEF MuxTyped
<1>10. ASSUME NEW i \in 1 .. n
       PROVE  /\ PointsAt(entries[i], log[i].packet, i, file')
              /\ entries[i].file_offset + Len(PacketBlock(log[i].packet)) <= Len(file')
  <2>1. /\ PointsAt(entries[i], log[i].packet, i, file)
        /\ entries[i].file_offset + Len(PacketBlock(log[i].packet)) <= Len(file)
    BY <1>2, LenProperties, PointsAtIs DEF MuxInv
  <2>2. entries[i] \in Entry /\ log[i].packet \in Packet /\ i \in Nat
    <3>1. entries[i] \in Entry
      BY <1>2, ElementOfSeq
    <3>2. log[i] \in Row
      BY <1>2, ElementOfSeq
    <3> QED BY <3>1, <3>2, <1>2 DEF Row
  <2>3. PICK q \in Packet : q = log[i].packet
    BY <2>2
  <2>4. PICK h \in Seq(Cell) : h = file \o PacketBlock(p)
    BY <1>8
  <2>5. /\ PointsAt(entries[i], q, i, h)
        /\ entries[i].file_offset + Len(PacketBlock(q)) <= Len(h)
    <3>1. /\ PointsAt(entries[i], q, i, file)
          /\ entries[i].file_offset + Len(PacketBlock(q)) <= Len(file)
      BY <2>1, <2>3
    <3> QED BY <1>1, <1>2, <2>2, <2>4, <3>1, PointsAtKept
  <2>6. /\ PointsAt(entries[i], q, i, h \o g)
        /\ entries[i].file_offset + Len(PacketBlock(q)) <= Len(h \o g)
    BY <2>2, <2>5, PointsAtKept
  <2> QED BY <1>6, <2>3, <2>4, <2>6
<1>11. /\ PointsAt(e, p, n + 1, file')
       /\ e.file_offset + Len(PacketBlock(p)) <= Len(file')
  <2>1. e.file_offset = Len(file) /\ e.packet_number = n /\ p.sequence = n
    BY <1>2 DEF EntryOf, PacketOf
  <2>2. Cells(file \o PacketBlock(p), Len(file), Len(PacketBlock(p))) = PacketBlock(p)
    BY <1>1, <1>2, CellsAppended
  <2>3. /\ PointsAt(e, p, n + 1, file \o PacketBlock(p))
        /\ e.file_offset + Len(PacketBlock(p)) <= Len(file \o PacketBlock(p))
    BY <1>1, <1>2, <1>8, <2>1, <2>2 DEF PointsAt, EntryOf, PacketOf
  <2>4. PICK h \in Seq(Cell) : h = file \o PacketBlock(p)
    BY <1>8
  <2>5. PointsAt(e, p, n + 1, h) /\ e.file_offset + Len(PacketBlock(p)) <= Len(h)
    BY <2>3, <2>4
  <2>6. n + 1 \in Nat
    BY <1>2
  <2>7. /\ PointsAt(e, p, n + 1, h \o g)
        /\ e.file_offset + Len(PacketBlock(p)) <= Len(h \o g)
    <3> HIDE DEF e, p, n
    <3> QED BY <1>1, <2>5, <2>6, PointsAtKept
  <2> QED BY <1>6, <2>4, <2>7
<1>12. EntriesPointAtPackets'
  <2>1. DOMAIN entries' = 1 .. n + 1
    BY <1>3, LenProperties
  <2>2. ASSUME NEW i \in 1 .. n + 1
        PROVE  /\ PointsAt(entries'[i], log'[i].packet, i, file')
               /\ entries'[i].file_offset + Len(PacketBlock(log'[i].packet)) <= Len(file')
    <3>1. CASE i = n + 1 BY <3>1, <1>3, <1>5, <1>11
    <3>2. CASE i \in 1 .. n BY <3>2, <1>3, <1>5, <1>10
    <3> QED BY SMTT(30), <3>1, <3>2, <1>2
  <2> QED BY <2>1, <2>2 DEF EntriesPointAtPackets, PointsAt
<1> QED BY <1>9, <1>12 DEF MuxInv

\* The file that finalize writes extends the one it found.
LEMMA WithIndexType ==
    ASSUME MuxTyped
    PROVE  \E g \in Seq(Cell) : WithIndex = file \o g
<1>1. /\ file \in Seq(Cell) /\ entries \in Seq(Entry) /\ cue_count \in Nat
      /\ packet_count \in Nat /\ pending_cue_start \in 0 .. Len(entries)
  BY LenProperties DEF MuxTyped
<1>2. IndexBlock(entries) \in Seq(Cell)
  BY <1>1, IndexBlockType
<1>3. (IF pending_cue_start < Len(entries) THEN Cue(entries) ELSE <<>>) \in Seq(Cell)
  BY <1>1, CueType, EmptySeq
<1>4. PICK c \in Seq(Cell) :
        c = IF pending_cue_start < Len(entries) THEN Cue(entries) ELSE <<>>
  BY <1>3
<1>5. c \o IndexBlock(entries) \in Seq(Cell)
  BY <1>2, ConcatProperties
<1>6. WithIndex = file \o (c \o IndexBlock(entries))
  <2>1. PICK x \in Seq(Cell) : x = IndexBlock(entries)
    BY <1>2
  <2>2. WithIndex = (file \o c) \o x
    BY <1>4, <2>1 DEF WithIndex
  <2>3. (file \o c) \o x = file \o (c \o x)
    BY SMTT(30), <1>1, ConcatAssociative
  <2> QED BY <2>1, <2>2, <2>3
<1> QED BY <1>5, <1>6

\* finalize and a crash: the entries stay, the file grows or is cut.
LEMMA StepEnd ==
    ASSUME MuxInv, Finalize \/ Crash
    PROVE  MuxInv'
<1>1. /\ MuxTyped /\ phase = "writing" /\ file \in Seq(Cell) /\ Len(file) \in Nat
      /\ entries' = entries /\ log' = log /\ entries \in Seq(Entry) /\ log \in Seq(Row)
      /\ Len(log) = Len(entries) /\ Len(file) >= 1
  BY LenProperties DEF MuxInv, MuxTyped, Finalize, Crash, DataStart, FileStart
<1>2. PICK g \in Seq(Cell) : WithIndex = file \o g
  BY <1>1, WithIndexType
<1>3. /\ WithIndex \in Seq(Cell) /\ Len(WithIndex) \in Nat /\ Len(WithIndex) >= Len(file)
  BY <1>1, <1>2, ConcatProperties, LenProperties
<1>4. ASSUME NEW i \in DOMAIN entries
      PROVE  /\ entries[i] \in Entry /\ log[i].packet \in Packet
             /\ PointsAt(entries[i], log[i].packet, i, WithIndex)
             /\ entries[i].file_offset + Len(PacketBlock(log[i].packet)) <= Len(WithIndex)
  <2>1. i \in 1 .. Len(entries)
    BY <1>1, LenProperties
  <2>2. entries[i] \in Entry /\ log[i].packet \in Packet /\ i \in Nat
    <3>1. entries[i] \in Entry
      BY <1>1, <2>1, ElementOfSeq
    <3>2. log[i] \in Row
      BY <1>1, <2>1, ElementOfSeq
    <3> QED BY <3>1, <3>2, <2>1 DEF Row
  <2>3. /\ PointsAt(entries[i], log[i].packet, i, file)
        /\ entries[i].file_offset + Len(PacketBlock(log[i].packet)) <= Len(file)
    BY <1>1, PointsAtIs DEF MuxInv
  <2> QED BY <1>1, <1>2, <2>2, <2>3, PointsAtKept
<1>5. CASE Finalize
  <2>1. file' = WithIndex
    BY <1>5 DEF Finalize
  <2>2. MuxTyped'
    BY <1>1, <1>3, <1>5, <2>1 DEF MuxTyped, Finalize, DataStart, FileStart
  <2>3. EntriesPointAtPackets'
    BY <1>1, <1>4, <2>1 DEF EntriesPointAtPackets, PointsAt
  <2> QED BY <2>2, <2>3 DEF MuxInv
<1>6. CASE Crash
  <2>1. PICK m \in DataStart .. Len(WithIndex) - 1 : file' = SubSeq(WithIndex, 1, m)
    BY <1>6 DEF Crash
  <2>2. m \in 0 .. Len(WithIndex) /\ m >= 1
    BY <1>3, <2>1 DEF DataStart, FileStart
  <2>3. file' \in Seq(Cell) /\ Len(file') = m
    <3>1. \A i \in 1 .. m : WithIndex[i] \in Cell
      BY <1>3, <2>2, ElementOfSeq
    <3> QED BY <2>1, <2>2, <3>1, SubSeqProperties
  <2>4. MuxTyped'
    BY <1>1, <1>6, <2>2, <2>3 DEF MuxTyped, Crash, DataStart, FileStart
  <2>5. ASSUME NEW i \in DOMAIN entries
        PROVE  PointsAt(entries[i], log[i].packet, i, file')
    <3> DEFINE o == entries[i].file_offset
               b == PacketBlock(log[i].packet)
    <3>1. b \in Seq(Cell) /\ Len(b) \in Nat /\ o \in Nat
      BY <1>4, PacketBlockType, LenProperties DEF Entry
    <3>2. o + Len(b) <= m => Cells(file', o, Len(b)) = Cells(WithIndex, o, Len(b))
      BY <1>3, <2>1, <2>2, <3>1, CellsOfPrefix
    <3> QED BY <1>3, <1>4, <2>2, <2>3, <3>1, <3>2 DEF PointsAt
  <2>6. phase' = "crashed"
    BY <1>6 DEF Crash
  <2>7. EntriesPointAtPackets'
    BY <1>1, <2>5, <2>6 DEF EntriesPointAtPackets, PointsAt
  <2> QED BY <2>4, <2>7 DEF MuxInv
<1> QED BY <1>5, <1>6

LEMMA MuxAlways == MuxSpec => []MuxInv
<1>1. MuxInv /\ [MuxNext]_muxVars => MuxInv'
  <2> SUFFICES ASSUME MuxInv, [MuxNext]_muxVars PROVE MuxInv'
    OBVIOUS
  <2>1. CASE UNCHANGED muxVars
    BY <2>1 DEF muxVars, MuxInv, MuxTyped, EntriesPointAtPackets
  <2>2. CASE \E frame \in Frames : WritePacket(frame)
    BY <2>2, StepWritePacket
  <2>3. CASE Finalize \/ Crash
    BY <2>3, StepEnd
  <2> QED BY <2>1, <2>2, <2>3 DEF MuxNext
<1> QED BY InitMux, <1>1, PTL DEF MuxSpec

\* Every reachable state of the writer is well typed.
THEOREM MuxTypeCorrect == MuxSpec => []MuxTypeOK
<1>1. MuxInv => MuxTypeOK
  BY LenProperties DEF MuxInv, MuxTyped, MuxTypeOK
<1> QED BY MuxAlways, <1>1, PTL

\* Every index entry leads to the block of its packet, in the growing file, in
\* the finalized one and in what a crash leaves.
THEOREM IndexEntriesAreRight == MuxSpec => []EntriesPointAtPackets
<1>1. MuxInv => EntriesPointAtPackets
  BY DEF MuxInv
<1> QED BY MuxAlways, <1>1, PTL

-----------------------------------------------------------------------------
(* Where the blocks of a file lie.                                         *)

\* Nothing but a prelude has a type.
LEMMA OnlyPreludesAreTyped ==
    /\ \A c \in Cell \cup {Damaged} : "type" \in DOMAIN c <=> c \in PreludeCell
    /\ \A c \in BodyCell : c \notin PreludeCell /\ c # Damaged
    /\ \A c \in PreludeCell : c # Damaged /\ [crc |-> c] # Damaged /\ [crc |-> c] \notin PreludeCell
    /\ S # Damaged /\ B # Damaged
    /\ [start |-> "SRS528"] \notin PreludeCell
<1>1. \A c \in PreludeCell : DOMAIN c = {"type", "bodyLen", "bodyCrc"}
  BY DEF PreludeCell
<1>2. DOMAIN S = {"byte"} /\ DOMAIN B = {"byte"} /\ DOMAIN Plain = {"byte"}
        /\ DOMAIN Damaged = {"byte"}
  BY DEF S, B, Plain, Damaged
<1>3. S \in BodyCell /\ B \in BodyCell
  BY DEF BodyCell
<1>4. \A c \in PacketHeader : DOMAIN c = {"track", "key", "sequence", "pts"}
  BY DEF PacketHeader
<1>5. \A c \in Entry : DOMAIN c = {"packet_number", "file_offset", "track", "key", "pts"}
  BY DEF Entry
<1>6. \A c \in [cue : Nat, first : Nat] : DOMAIN c = {"cue", "first"}
  OBVIOUS
<1>7. \A c \in [count : Nat] : DOMAIN c = {"count"}
  OBVIOUS
<1>8. \A c \in [crc : PreludeCell] : DOMAIN c = {"crc"}
  OBVIOUS
<1>9. \A c \in [start : {"SRS528"}] : DOMAIN c = {"start"}
  OBVIOUS
<1>10. \A c \in BodyCell : "type" \notin DOMAIN c
  BY <1>2, <1>4, <1>5, <1>6, <1>7 DEF BodyCell
<1>11. \A c \in Cell \cup {Damaged} : "type" \in DOMAIN c <=> c \in PreludeCell
  BY <1>1, <1>2, <1>8, <1>9, <1>10 DEF Cell
<1>12. \A c \in BodyCell : c \notin PreludeCell
  BY <1>1, <1>10
<1>13. \A c \in BodyCell : c # Damaged
  <2>1. S # Damaged /\ B # Damaged /\ Plain # Damaged
    BY DEF S, B, Plain, Damaged
  <2> QED BY <2>1, <1>2, <1>4, <1>5, <1>6, <1>7 DEF BodyCell
<1>14. \A c \in PreludeCell : c # Damaged /\ [crc |-> c] # Damaged /\ [crc |-> c] \notin PreludeCell
  <2> SUFFICES ASSUME NEW c \in PreludeCell
               PROVE  c # Damaged /\ [crc |-> c] # Damaged /\ [crc |-> c] \notin PreludeCell
    OBVIOUS
  <2>1. DOMAIN Damaged = {"byte"} /\ DOMAIN c = {"type", "bodyLen", "bodyCrc"}
    BY <1>1, <1>2
  <2>2. [crc |-> c] \in [crc : PreludeCell]
    OBVIOUS
  <2>3. DOMAIN [crc |-> c] = {"crc"}
    BY <2>2, <1>8
  <2> QED BY <2>1, <2>3, <1>1
<1>15. S # Damaged /\ B # Damaged
  BY DEF S, B, Damaged
<1>16. [start |-> "SRS528"] \notin PreludeCell
  <2>1. [start |-> "SRS528"] \in [start : {"SRS528"}]
    OBVIOUS
  <2> QED BY <2>1, <1>1, <1>9
<1> QED BY <1>11, <1>12, <1>13, <1>14, <1>15, <1>16

\* The cells of a block.
LEMMA CellsOfBlock ==
    ASSUME NEW type \in {"packet", "cue", "index"}, NEW body \in Seq(BodyCell)
    PROVE  /\ Block(type, body) \in Seq(Cell)
           /\ Len(Block(type, body)) = 4 + Len(body)
           /\ Prelude(type, body) \in PreludeCell
           /\ Block(type, body)[1] = S /\ Block(type, body)[2] = B
           /\ Block(type, body)[3] = Prelude(type, body)
           /\ Block(type, body)[4] = [crc |-> Prelude(type, body)]
           /\ \A j \in 1 .. Len(body) : Block(type, body)[4 + j] = body[j]
<1> DEFINE head == <<S, B, Prelude(type, body), [crc |-> Prelude(type, body)]>>
<1>1. Prelude(type, body) \in PreludeCell
  BY LenProperties DEF Prelude, PreludeCell
<1>2. S \in Cell /\ B \in Cell /\ Prelude(type, body) \in Cell
        /\ [crc |-> Prelude(type, body)] \in Cell
  BY <1>1 DEF Cell, BodyCell
<1>3. /\ head \in Seq(Cell) /\ Len(head) = 4
      /\ head[1] = S /\ head[2] = B /\ head[3] = Prelude(type, body)
      /\ head[4] = [crc |-> Prelude(type, body)]
  BY <1>2
<1>4. body \in Seq(Cell) /\ Len(body) \in Nat
  BY SeqMonotonic, LenProperties DEF Cell
<1>5. Block(type, body) = head \o body
  BY DEF Block
<1> HIDE DEF head
<1>6. PICK h \in Seq(Cell), t \in Seq(Cell) : h = head /\ t = body
  BY <1>3, <1>4
<1>7. PICK b : b = Block(type, body)
  OBVIOUS
<1>8. /\ b \in Seq(Cell) /\ Len(b) = Len(h) + Len(t)
      /\ \A i \in 1 .. Len(h) + Len(t) : b[i] = IF i <= Len(h) THEN h[i] ELSE t[i - Len(h)]
  BY <1>5, <1>6, <1>7, ConcatProperties
<1>9. Len(h) = 4 /\ Len(t) \in Nat
  BY <1>3, <1>4, <1>6
<1>10. b[1] = h[1] /\ b[2] = h[2] /\ b[3] = h[3] /\ b[4] = h[4]
  BY <1>8, <1>9
<1>11. ASSUME NEW j \in 1 .. Len(t) PROVE b[4 + j] = t[j]
  BY <1>8, <1>9
<1> QED BY <1>1, <1>3, <1>6, <1>7, <1>8, <1>9, <1>10, <1>11

\* the positions of the file at which a block starts, as far as its prelude is there
Starts(f) == {q \in 0 .. Len(f) - 3 : f[q + 3] \in PreludeCell}

BodyOf(packet) == <<HeaderOf(packet)>> \o packet.payload

\* the index entry of a packet
EntryFor(row) ==
    [packet_number |-> row.packet.sequence, file_offset |-> row.offset,
     track |-> row.packet.track, key |-> row.packet.key, pts |-> row.packet.pts]

\* the entries of the packets that end at q or before
EntriesBelow(q, rows) ==
    {e \in Entry : e.file_offset < q
                     /\ \E k \in 1 .. Len(rows) :
                            /\ e = EntryFor(rows[k])
                            /\ e.file_offset + Len(PacketBlock(rows[k].packet)) <= q}

\* what the prelude c at q stands for: a packet that was logged, or entries of
\* blocks before
Known(c, q, rows) ==
    /\ c.bodyLen = Len(c.bodyCrc)
    /\ \/ \E k \in 1 .. Len(rows) :
             rows[k].offset = q /\ c = Prelude("packet", BodyOf(rows[k].packet))
       \/ c.type \in {"cue", "index"} /\ Tail(c.bodyCrc) \in Seq(EntriesBelow(q, rows))

Layout(f, rows) ==
    /\ \A q \in Starts(f) : q >= 1 /\ Known(f[q + 3], q, rows)
    /\ \A q \in Starts(f) : \A r \in Starts(f) : q < r => q + 4 + f[q + 3].bodyLen <= r

Complete(f) == \A q \in Starts(f) : q + 4 + f[q + 3].bodyLen <= Len(f)

\* g is f with a block behind it
Appended(g, f, type, body) ==
    /\ g = f \o Block(type, body)
    /\ Len(g) = Len(f) + 4 + Len(body)
    /\ \A i \in 1 .. Len(f) : g[i] = f[i]
    /\ \A i \in 1 .. 4 + Len(body) : g[Len(f) + i] = Block(type, body)[i]
    /\ \A q \in Starts(g) : \/ q \in Starts(f) /\ g[q + 3] = f[q + 3]
                            \/ q = Len(f) /\ g[q + 3] = Prelude(type, body)
    /\ \A q \in Starts(f) : q \in Starts(g)
    /\ Len(f) \in Starts(g)

\* Where blocks start in a file that a block was appended to.
LEMMA StartsAppend ==
    ASSUME NEW f \in Seq(Cell), Len(f) >= 1,
           NEW type \in {"packet", "cue", "index"}, NEW body \in Seq(BodyCell)
    PROVE  \E g \in Seq(Cell) : Appended(g, f, type, body)
<1> DEFINE n == Len(f)
           m == Len(body)
           c == Prelude(type, body)
<1>1. n \in Nat /\ m \in Nat
  BY LenProperties
<1>2. PICK b \in Seq(Cell) : b = Block(type, body)
  BY CellsOfBlock
<1>3. /\ Len(b) = 4 + m /\ c \in PreludeCell
      /\ b[1] = S /\ b[2] = B /\ b[3] = c /\ b[4] = [crc |-> c]
      /\ \A j \in 1 .. m : b[4 + j] = body[j]
  BY <1>2, CellsOfBlock
<1>4. c.bodyLen = m
  BY DEF Prelude
<1>5. PICK g \in Seq(Cell) : g = f \o b
  BY ConcatProperties
<1> HIDE DEF m, c
<1>6. /\ Len(g) = n + 4 + m
      /\ \A i \in 1 .. n : g[i] = f[i]
      /\ \A i \in 1 .. 4 + m : g[n + i] = b[i]
  <2>1. /\ Len(g) = Len(f) + Len(b)
        /\ \A i \in 1 .. Len(f) + Len(b) : g[i] = IF i <= Len(f) THEN f[i] ELSE b[i - Len(f)]
    BY <1>5, ConcatProperties
  <2>2. ASSUME NEW i \in 1 .. n PROVE g[i] = f[i]
    BY <1>1, <1>3, <2>1
  <2>3. ASSUME NEW i \in 1 .. 4 + m PROVE g[n + i] = b[i]
    <3>1. n + i \in 1 .. Len(f) + Len(b) /\ ~(n + i <= Len(f)) /\ n + i - Len(f) = i
      BY <1>1, <1>3
    <3> QED BY <2>1, <3>1
  <2> QED BY <1>1, <1>3, <2>1, <2>2, <2>3
<1> HIDE DEF n
<1>7. ASSUME NEW i \in 1 .. 4 + m, i # 3 PROVE b[i] \notin PreludeCell
  <2>1. CASE i \in {1, 2}
    <3>1. S \in BodyCell /\ B \in BodyCell BY DEF BodyCell
    <3> QED BY <2>1, <3>1, <1>3, OnlyPreludesAreTyped
  <2>2. CASE i = 4 BY <2>2, <1>3, OnlyPreludesAreTyped
  <2>3. CASE i \in 5 .. 4 + m
    <3>1. i - 4 \in 1 .. m /\ 4 + (i - 4) = i BY <1>1, <2>3
    <3>2. b[i] = body[i - 4] BY <1>3, <3>1
    <3>3. body[i - 4] \in BodyCell BY <3>1, ElementOfSeq DEF m
    <3> QED BY <3>2, <3>3, OnlyPreludesAreTyped
  <2>4. i \in {1, 2} \/ i = 4 \/ i \in 5 .. 4 + m BY <1>1, <1>7
  <2> QED BY <2>1, <2>2, <2>3, <2>4
<1>8. ASSUME NEW q \in Starts(g)
      PROVE  \/ q \in Starts(f) /\ g[q + 3] = f[q + 3]
             \/ q = n /\ g[q + 3] = c
  <2>1. q \in 0 .. n + 4 + m - 3 /\ g[q + 3] \in PreludeCell
    <3>1. q \in 0 .. Len(g) - 3 /\ g[q + 3] \in PreludeCell
      BY DEF Starts
    <3> QED BY <3>1, <1>1, <1>6
  <2>2. CASE q + 3 <= n
    <3>1. q \in 0 .. n - 3 /\ q + 3 \in 1 .. n BY <1>1, <2>1, <2>2
    <3> QED BY <2>1, <3>1, <1>6 DEF Starts, n
  <2>3. CASE q + 3 > n
    <3>1. q + 3 - n \in 1 .. 4 + m /\ n + (q + 3 - n) = q + 3 BY <1>1, <2>1, <2>3
    <3>2. g[q + 3] = b[q + 3 - n] BY <1>6, <3>1
    <3>3. q + 3 - n = 3 BY <2>1, <3>1, <3>2, <1>7
    <3>4. q = n BY <1>1, <2>1, <3>3
    <3> QED BY <3>2, <3>3, <3>4, <1>3
  <2> QED BY <1>1, <2>1, <2>2, <2>3
<1>9. ASSUME NEW q \in Starts(f) PROVE q \in Starts(g)
  <2>1. q \in 0 .. n - 3 /\ f[q + 3] \in PreludeCell
    BY DEF Starts, n
  <2>2. q + 3 \in 1 .. n /\ q \in 0 .. n + 4 + m - 3
    BY <2>1, <1>1
  <2>3. g[q + 3] = f[q + 3] /\ q \in 0 .. Len(g) - 3
    BY <2>2, <1>1, <1>6
  <2> QED BY <2>1, <2>3 DEF Starts
<1>10. n \in Starts(g)
  <2>1. 3 \in 1 .. 4 + m /\ n \in 0 .. n + 4 + m - 3
    BY <1>1
  <2>2. g[n + 3] = c
    BY <2>1, <1>3, <1>6
  <2>3. n \in 0 .. Len(g) - 3
    BY <2>1, <1>1, <1>6
  <2> QED BY <2>2, <2>3, <1>3 DEF Starts
<1> QED BY <1>2, <1>5, <1>6, <1>8, <1>9, <1>10 DEF n, m, c, Appended

\* A block at the end of a file whose blocks are complete.
LEMMA LayoutAppend ==
    ASSUME NEW f \in Seq(Cell), Len(f) >= 1, NEW rows, Layout(f, rows), Complete(f),
           NEW type \in {"packet", "cue", "index"}, NEW body \in Seq(BodyCell),
           Known(Prelude(type, body), Len(f), rows)
    PROVE  Layout(f \o Block(type, body), rows) /\ Complete(f \o Block(type, body))
<1>5. PICK g \in Seq(Cell) : Appended(g, f, type, body)
  BY StartsAppend
<1> DEFINE n == Len(f)
           m == Len(body)
           c == Prelude(type, body)
<1>1. n \in Nat /\ m \in Nat
  BY LenProperties
<1>4. c.bodyLen = m
  BY DEF Prelude
<1>6. Len(g) = n + 4 + m
  BY <1>5 DEF Appended
<1>8. \A q \in Starts(g) : \/ q \in Starts(f) /\ g[q + 3] = f[q + 3]
                           \/ q = n /\ g[q + 3] = c
  BY <1>5 DEF Appended
<1> HIDE DEF m, c, n
<1>9. ASSUME NEW q \in Starts(f)
      PROVE  /\ q \in Nat /\ q >= 1 /\ Known(f[q + 3], q, rows)
             /\ q + 4 + f[q + 3].bodyLen <= n /\ f[q + 3].bodyLen \in Nat
  <2>1. q \in Nat /\ f[q + 3].bodyLen \in Nat
    BY <1>1 DEF Starts, PreludeCell
  <2> QED BY <2>1 DEF Layout, Complete, n
<1>10. Complete(g)
  <2> SUFFICES ASSUME NEW q \in Starts(g) PROVE q + 4 + g[q + 3].bodyLen <= Len(g)
    BY DEF Complete
  <2>1. CASE q \in Starts(f) /\ g[q + 3] = f[q + 3]
    BY <2>1, <1>1, <1>6, <1>9
  <2>2. CASE q = n /\ g[q + 3] = c
    BY <2>2, <1>1, <1>4, <1>6
  <2> QED BY <2>1, <2>2, <1>8
<1>11. \A q \in Starts(g) : q >= 1 /\ Known(g[q + 3], q, rows)
  <2> SUFFICES ASSUME NEW q \in Starts(g) PROVE q >= 1 /\ Known(g[q + 3], q, rows)
    OBVIOUS
  <2>1. CASE q \in Starts(f) /\ g[q + 3] = f[q + 3]
    BY <2>1, <1>9
  <2>2. CASE q = n /\ g[q + 3] = c
    BY <2>2 DEF c, n
  <2> QED BY <2>1, <2>2, <1>8
<1>12. ASSUME NEW q \in Starts(g), NEW r \in Starts(g), q < r
       PROVE  q + 4 + g[q + 3].bodyLen <= r
  <2>1. CASE q \in Starts(f) /\ g[q + 3] = f[q + 3] /\ r \in Starts(f)
    BY <2>1, <1>12 DEF Layout
  <2>2. CASE q \in Starts(f) /\ g[q + 3] = f[q + 3] /\ r = n
    BY <2>2, <1>9
  <2>3. CASE q = n
    <3>1. r = n \/ (r \in Nat /\ r + 4 + f[r + 3].bodyLen <= n /\ f[r + 3].bodyLen \in Nat)
      BY <1>8, <1>9
    <3> QED BY SMTT(30), <2>3, <3>1, <1>1, <1>12
  <2> QED BY <2>1, <2>2, <2>3, <1>8
<1> QED BY <1>5, <1>10, <1>11, <1>12 DEF Layout, Appended

\* What is known of a file stays known while rows are added to the log.
LEMMA LayoutLog ==
    ASSUME NEW f, NEW rows, NEW more, Len(rows) \in Nat, Len(more) \in Nat,
           Len(rows) <= Len(more), \A k \in 1 .. Len(rows) : more[k] = rows[k], Layout(f, rows)
    PROVE  Layout(f, more)
<1>1. ASSUME NEW c, NEW q, Known(c, q, rows) PROVE Known(c, q, more)
  <2>1. ASSUME NEW k \in 1 .. Len(rows),
               rows[k].offset = q /\ c = Prelude("packet", BodyOf(rows[k].packet))
        PROVE  Known(c, q, more)
    <3>1. k \in 1 .. Len(more) /\ more[k] = rows[k] OBVIOUS
    <3> QED BY <3>1, <2>1, <1>1 DEF Known
  <2>2. EntriesBelow(q, rows) \subseteq EntriesBelow(q, more)
    <3> SUFFICES ASSUME NEW e \in EntriesBelow(q, rows) PROVE e \in EntriesBelow(q, more)
      OBVIOUS
    <3>1. PICK k \in 1 .. Len(rows) :
            e = EntryFor(rows[k]) /\ e.file_offset + Len(PacketBlock(rows[k].packet)) <= q
      BY DEF EntriesBelow
    <3>2. k \in 1 .. Len(more) /\ more[k] = rows[k]
      OBVIOUS
    <3> QED BY <3>1, <3>2 DEF EntriesBelow
  <2>3. Seq(EntriesBelow(q, rows)) \subseteq Seq(EntriesBelow(q, more))
    BY <2>2, SeqMonotonic
  <2> QED BY <1>1, <2>1, <2>3 DEF Known
<1> QED BY <1>1 DEF Layout

\* What a crash leaves of a file is laid out as the file was.
LEMMA LayoutPrefix ==
    ASSUME NEW f \in Seq(Cell), NEW rows, Layout(f, rows), NEW m \in 0 .. Len(f)
    PROVE  Layout(SubSeq(f, 1, m), rows)
<1>1. \A i \in 1 .. m : f[i] \in Cell
  BY LenProperties, ElementOfSeq
<1>2. /\ SubSeq(f, 1, m) \in Seq(Cell) /\ Len(SubSeq(f, 1, m)) = m
      /\ \A i \in 1 .. m : SubSeq(f, 1, m)[i] = f[i]
  BY <1>1, SubSeqProperties
<1>3. PICK h \in Seq(Cell) : h = SubSeq(f, 1, m)
  BY <1>2
<1>4. Len(f) \in Nat
  BY LenProperties
<1>5. ASSUME NEW q \in Starts(h) PROVE q \in Starts(f) /\ h[q + 3] = f[q + 3]
  <2>1. q \in 0 .. m - 3 /\ q + 3 \in 1 .. m /\ q \in 0 .. Len(f) - 3
    BY <1>2, <1>3, <1>4 DEF Starts
  <2> QED BY <2>1, <1>2, <1>3 DEF Starts
<1> QED BY <1>3, <1>5 DEF Layout

\* A body is one cell for the counts and the cells behind it.
LEMMA OneAndMore ==
    ASSUME NEW T, NEW x \in T, NEW s \in Seq(T)
    PROVE  /\ <<x>> \o s \in Seq(T) /\ Len(<<x>> \o s) = 1 + Len(s)
           /\ (<<x>> \o s)[1] = x /\ Tail(<<x>> \o s) = s
<1>0. <<x>> \in Seq(T)
  OBVIOUS
<1>1. PICK o \in Seq(T) : o = <<x>>
  BY <1>0
<1>2. Len(o) = 1 /\ o[1] = x /\ Len(s) \in Nat
  BY <1>1, LenProperties
<1>3. PICK t : t = o \o s
  OBVIOUS
<1>4. /\ t \in Seq(T) /\ Len(t) = 1 + Len(s)
      /\ \A i \in 1 .. 1 + Len(s) : t[i] = IF i <= 1 THEN o[i] ELSE s[i - 1]
  <2>1. /\ t \in Seq(T) /\ Len(t) = Len(o) + Len(s)
        /\ \A i \in 1 .. Len(o) + Len(s) : t[i] = IF i <= Len(o) THEN o[i] ELSE s[i - Len(o)]
    BY <1>3, ConcatProperties
  <2> QED BY <2>1, <1>2
<1>5. t[1] = x /\ t # <<>>
  BY <1>2, <1>4
<1>6. /\ Tail(t) \in Seq(T) /\ Len(Tail(t)) = Len(t) - 1
      /\ \A i \in 1 .. Len(Tail(t)) : Tail(t)[i] = t[i + 1]
  BY <1>4, <1>5, HeadTailProperties
<1>7. Len(Tail(t)) = Len(s)
  BY <1>2, <1>4, <1>6
<1>8. ASSUME NEW i \in 1 .. Len(s) PROVE Tail(t)[i] = s[i]
  <2>1. i + 1 \in 1 .. 1 + Len(s) /\ ~(i + 1 <= 1) /\ i + 1 - 1 = i
    BY <1>2
  <2> QED BY <2>1, <1>4, <1>6, <1>7
<1>9. Tail(t) = s
  BY <1>6, <1>7, <1>8, SeqEqual
<1> QED BY <1>1, <1>3, <1>4, <1>5, <1>9

LEMMA BodyType ==
    ASSUME NEW packet \in Packet
    PROVE  /\ BodyOf(packet) \in Seq(BodyCell) /\ Len(BodyOf(packet)) = 1 + Len(packet.payload)
           /\ BodyOf(packet)[1] = HeaderOf(packet) /\ Tail(BodyOf(packet)) = packet.payload
<1>1. HeaderOf(packet) \in BodyCell
  BY DEF HeaderOf, Packet, PacketHeader, BodyCell
<1>2. packet.payload \in Seq(BodyCell)
  <2>1. packet.payload \in Seq({S, B, Plain}) /\ {S, B, Plain} \subseteq BodyCell
    BY DEF Packet, BodyCell
  <2> QED BY <2>1, SeqMonotonic
<1> QED BY <1>1, <1>2, OneAndMore DEF BodyOf

\* A cue or index block repeats entries of packets before it.
LEMMA RepeatKnown ==
    ASSUME NEW type \in {"cue", "index"}, NEW x \in BodyCell, NEW es \in Seq(Entry),
           NEW q, NEW rows
    PROVE  /\ <<x>> \o es \in Seq(BodyCell)
           /\ (\A i \in 1 .. Len(es) : es[i] \in EntriesBelow(q, rows))
                    => Known(Prelude(type, <<x>> \o es), q, rows)
           /\ Len(<<x>> \o es) = 1 + Len(es) /\ Tail(<<x>> \o es) = es
<1>1. es \in Seq(BodyCell)
  BY SeqMonotonic DEF BodyCell
<1>2. <<x>> \o es \in Seq(BodyCell) /\ Tail(<<x>> \o es) = es /\ Len(<<x>> \o es) = 1 + Len(es)
  BY <1>1, OneAndMore
<1>3. ASSUME \A i \in 1 .. Len(es) : es[i] \in EntriesBelow(q, rows)
      PROVE  es \in Seq(EntriesBelow(q, rows))
  <2>1. Len(es) \in Nat /\ SubSeq(es, 1, Len(es)) = es
    BY LenProperties, SubSeqFull
  <2> QED BY <2>1, <1>3, SubSeqProperties
<1>4. PICK body : body = <<x>> \o es
  OBVIOUS
<1>5. ASSUME \A i \in 1 .. Len(es) : es[i] \in EntriesBelow(q, rows)
      PROVE  Known(Prelude(type, body), q, rows)
  <2>1. Tail(body) \in Seq(EntriesBelow(q, rows))
    BY <1>2, <1>3, <1>4, <1>5
  <2> QED BY <2>1 DEF Known, Prelude
<1> QED BY <1>2, <1>4, <1>5

\* t repeats es from behind the first a up to the first b
Repeats(t, es, a, b) == Len(t) = b - a /\ \A i \in 1 .. b - a : t[i] = es[a + i]

LEMMA CueKnown ==
    ASSUME NEW es \in Seq(Entry), cue_count \in Nat, packet_count \in Nat,
           pending_cue_start \in 0 .. Len(es), NEW q, NEW rows
    PROVE  \E body \in Seq(BodyCell) :
               /\ Cue(es) = Block("cue", body) /\ Len(body) <= 1 + Len(es)
               /\ Repeats(Tail(body), es, pending_cue_start, Len(es))
               /\ (\A i \in 1 .. Len(es) : es[i] \in EntriesBelow(q, rows))
                        => Known(Prelude("cue", body), q, rows)
<1> DEFINE new == SubSeq(es, pending_cue_start + 1, Len(es))
           first == IF new = <<>> THEN packet_count ELSE new[1].packet_number
<1>0. Len(es) \in Nat
  BY LenProperties
<1>1. /\ new \in Seq(Entry)
      /\ \A i \in 1 .. Len(new) : \E j \in 1 .. Len(es) : new[i] = es[j]
      /\ Len(new) \in Nat /\ Len(new) <= Len(es)
      /\ Repeats(new, es, pending_cue_start, Len(es))
  <2>1. \A i \in pending_cue_start + 1 .. Len(es) : es[i] \in Entry
    BY ElementOfSeq
  <2>2. PICK a \in Nat : a = pending_cue_start /\ a <= Len(es)
    BY <1>0
  <2>3. /\ new \in Seq(Entry)
        /\ Len(new) = IF a + 1 <= Len(es) THEN Len(es) - (a + 1) + 1 ELSE 0
        /\ \A i \in 1 .. Len(es) - (a + 1) + 1 : new[i] = es[a + 1 + i - 1]
    BY <2>1, <2>2, <1>0, SubSeqProperties
  <2>4. ASSUME NEW i \in 1 .. Len(new) PROVE \E j \in 1 .. Len(es) : new[i] = es[j]
    <3>1. i \in 1 .. Len(es) - (a + 1) + 1 /\ a + 1 + i - 1 \in 1 .. Len(es)
      BY <2>2, <2>3, <1>0
    <3> QED BY <3>1, <2>3
  <2>5. Len(new) \in Nat /\ Len(new) <= Len(es)
    BY <2>2, <2>3, <1>0
  <2>6. Repeats(new, es, pending_cue_start, Len(es))
    <3>1. Len(new) = Len(es) - a
      BY <2>2, <2>3, <1>0
    <3>2. ASSUME NEW i \in 1 .. Len(es) - a PROVE new[i] = es[a + i]
      <4>1. i \in 1 .. Len(es) - (a + 1) + 1 /\ a + 1 + i - 1 = a + i
        BY <2>2, <1>0
      <4> QED BY <4>1, <2>3
    <3> HIDE DEF new
    <3> QED BY <3>1, <3>2, <2>2 DEF Repeats
  <2> QED BY <2>3, <2>4, <2>5, <2>6
<1>2. first \in Nat
  <2>1. CASE new = <<>> BY <2>1
  <2>2. CASE new # <<>>
    <3>1. Len(new) \in Nat \ {0} BY <1>1, <2>2, EmptySeq
    <3>2. new[1] \in Entry BY <1>1, <3>1, ElementOfSeq
    <3> QED BY <2>2, <3>2 DEF Entry
  <2> QED BY <2>1, <2>2
<1>3. [cue |-> cue_count, first |-> first] \in BodyCell
  <2> HIDE DEF first
  <2> QED BY <1>2 DEF BodyCell
<1>4. Cue(es) = Block("cue", <<[cue |-> cue_count, first |-> first]>> \o new)
  BY DEF Cue, CueBlock
<1> HIDE DEF new, first
<1>5. PICK x \in BodyCell : x = [cue |-> cue_count, first |-> first]
  BY <1>3
<1>6. PICK body : body = <<x>> \o new
  OBVIOUS
<1>7. /\ body \in Seq(BodyCell) /\ Len(body) = 1 + Len(new) /\ Tail(body) = new
      /\ (\A i \in 1 .. Len(new) : new[i] \in EntriesBelow(q, rows))
            => Known(Prelude("cue", body), q, rows)
  BY <1>1, <1>6, RepeatKnown
<1>9. ASSUME \A i \in 1 .. Len(es) : es[i] \in EntriesBelow(q, rows)
      PROVE  Known(Prelude("cue", body), q, rows)
  BY <1>1, <1>7, <1>9
<1>8. Len(body) <= 1 + Len(es)
  BY <1>0, <1>1, <1>7
<1>10. Repeats(Tail(body), es, pending_cue_start, Len(es))
  BY <1>1, <1>7
<1> QED BY <1>4, <1>5, <1>6, <1>7, <1>8, <1>9, <1>10

LEMMA IndexKnown ==
    ASSUME NEW es \in Seq(Entry), NEW q, NEW rows
    PROVE  \E body \in Seq(BodyCell) :
               /\ IndexBlock(es) = Block("index", body)
               /\ Len(body) = 1 + Len(es) /\ Tail(body) = es
               /\ (\A i \in 1 .. Len(es) : es[i] \in EntriesBelow(q, rows))
                        => Known(Prelude("index", body), q, rows)
<1>1. [count |-> Len(es)] \in BodyCell
  BY LenProperties DEF BodyCell
<1> QED BY <1>1, RepeatKnown DEF IndexBlock

-----------------------------------------------------------------------------
\* the payloads callers pass fit into a block that a reader accepts
FramesFit == \A frame \in Frames : Len(frame.payload) < MaxBody

RowsRight ==
    /\ \A k \in 1 .. Len(log) : /\ entries[k] = EntryFor(log[k]) /\ log[k].offset >= 1
                                /\ FramesFit => Len(log[k].packet.payload) < MaxBody
    /\ \A k, l \in 1 .. Len(log) : k < l => log[k].offset < log[l].offset

MuxLaid ==
    /\ Layout(file, log)
    /\ phase = "writing" => Complete(file)
    /\ RowsRight

LEMMA InitLaid == MuxInit => MuxLaid
<1> SUFFICES ASSUME MuxInit PROVE MuxLaid
  OBVIOUS
<1>1. Len(file) = 1 /\ Len(log) = 0
  BY DEF MuxInit, FileStart
<1>2. Starts(file) = {}
  BY <1>1 DEF Starts
<1> QED BY <1>1, <1>2 DEF MuxLaid, Layout, Complete, RowsRight

\* While it is written, the file holds every packet that was logged.
LEMMA LoggedInFile ==
    ASSUME MuxInv, RowsRight, phase # "crashed", NEW k \in 1 .. Len(log)
    PROVE  entries[k].file_offset \in Nat /\ entries[k] \in EntriesBelow(Len(file), log)
<1>1. k \in DOMAIN entries /\ entries[k] \in Entry /\ log[k] \in Row /\ Len(file) \in Nat
  BY LenProperties, ElementOfSeq DEF MuxInv, MuxTyped
<1>2. entries[k].file_offset + Len(PacketBlock(log[k].packet)) <= Len(file)
  BY <1>1, PointsAtIs DEF MuxInv
<1>3. BodyOf(log[k].packet) \in Seq(BodyCell)
  BY <1>1, BodyType DEF Row
<1>4. Len(PacketBlock(log[k].packet)) = 4 + Len(BodyOf(log[k].packet))
        /\ Len(BodyOf(log[k].packet)) \in Nat
  BY <1>3, CellsOfBlock, LenProperties DEF PacketBlock, BodyOf
<1>5. entries[k].file_offset \in Nat /\ entries[k].file_offset < Len(file)
  BY <1>1, <1>2, <1>4 DEF Entry
<1>6. entries[k] = EntryFor(log[k])
  BY DEF RowsRight
<1> QED BY <1>1, <1>2, <1>5, <1>6 DEF EntriesBelow

LEMMA LaidWritePacket ==
    ASSUME MuxInv, MuxLaid, NEW frame \in Frames, WritePacket(frame)
    PROVE  MuxLaid'
<1> DEFINE p == PacketOf(frame)
           e == EntryOf(frame)
           row == [offset |-> Len(file), packet |-> p]
           n == Len(entries)
           written == file \o PacketBlock(p)
<1>1. p \in Packet /\ e \in Entry /\ e.file_offset = Len(file)
  BY FrameType DEF MuxInv, EntryOf
<1>2. /\ file \in Seq(Cell) /\ Len(file) \in Nat /\ Len(file) >= 1
      /\ entries \in Seq(Entry) /\ log \in Seq(Row) /\ n \in Nat /\ Len(log) = n
      /\ phase = "writing" /\ phase' = phase
      /\ cue_count \in Nat /\ packet_count \in Nat /\ pending_cue_start \in 0 .. n
  BY LenProperties DEF MuxInv, MuxTyped, WritePacket, DataStart, FileStart
<1>3. row \in Row
  BY <1>1, <1>2 DEF Row
<1>4. /\ entries' = Append(entries, e) /\ entries' \in Seq(Entry)
      /\ Len(entries') = n + 1 /\ entries'[n + 1] = e
      /\ \A i \in 1 .. n : entries'[i] = entries[i]
  BY <1>1, <1>2, AppendProperties DEF WritePacket
<1>5. /\ log' = Append(log, row) /\ Len(log') = n + 1 /\ log'[n + 1] = row
      /\ \A i \in 1 .. n : log'[i] = log[i]
  BY <1>2, <1>3, AppendProperties DEF WritePacket
<1>6. ASSUME NEW k \in 1 .. n
      PROVE  /\ entries[k].file_offset \in Nat /\ entries[k].file_offset < Len(file)
             /\ entries[k] = EntryFor(log[k])
             /\ entries[k].file_offset + Len(PacketBlock(log[k].packet)) <= Len(file)
  <2>1. k \in 1 .. Len(log) /\ phase # "crashed" /\ RowsRight
    BY <1>2 DEF MuxLaid
  <2>2. entries[k].file_offset \in Nat /\ entries[k] \in EntriesBelow(Len(file), log)
    BY <2>1, LoggedInFile
  <2>3. entries[k] = EntryFor(log[k])
    BY <2>1 DEF RowsRight
  <2>4. entries[k].file_offset + Len(PacketBlock(log[k].packet)) <= Len(file)
    <3>1. k \in DOMAIN entries
      BY <2>1, LenProperties DEF MuxInv, MuxTyped
    <3> QED BY <3>1, <2>1, PointsAtIs DEF MuxInv
  <2> QED BY <2>2, <2>3, <2>4 DEF EntriesBelow
<1>14. ASSUME NEW k \in 1 .. n + 1 PROVE entries'[k] = EntryFor(log'[k])
  <2>1. CASE k \in 1 .. n BY <2>1, <1>4, <1>5, <1>6
  <2>2. CASE k = n + 1
    <3>1. packet_count = sequence
      BY DEF MuxInv, MuxTyped
    <3>2. e = EntryFor(row)
      BY <3>1 DEF EntryFor, EntryOf, PacketOf
    <3> QED BY <2>2, <3>2, <1>4, <1>5
  <2> QED BY <2>1, <2>2, <1>2
<1>7. Layout(file, log') /\ Complete(file)
  <2>1. Len(log) \in Nat /\ Len(log') \in Nat /\ Len(log) <= Len(log')
    BY <1>2, <1>5
  <2>2. \A k \in 1 .. Len(log) : log'[k] = log[k]
    BY <1>2, <1>5
  <2>3. Layout(file, log) /\ Complete(file)
    BY <1>2 DEF MuxLaid
  <2> QED BY <2>1, <2>2, <2>3, LayoutLog
<1>8. Known(Prelude("packet", BodyOf(p)), Len(file), log')
  <2>1. n + 1 \in 1 .. Len(log') BY <1>2, <1>5
  <2>2. log'[n + 1].offset = Len(file) /\ log'[n + 1].packet = p BY <1>5
  <2> HIDE DEF p
  <2> QED BY <2>1, <2>2 DEF Known, Prelude
<1>9. BodyOf(p) \in Seq(BodyCell) /\ written = file \o Block("packet", BodyOf(p))
  BY <1>1, BodyType DEF PacketBlock, BodyOf
<1>10. Layout(written, log') /\ Complete(written)
  BY <1>2, <1>7, <1>8, <1>9, LayoutAppend
<1>11. written \in Seq(Cell) /\ Len(written) >= 1 /\ Len(written) > Len(file)
  <2>1. PICK b \in Seq(Cell) : b = Block("packet", BodyOf(p)) /\ Len(b) = 4 + Len(BodyOf(p))
    BY <1>9, CellsOfBlock
  <2>2. Len(BodyOf(p)) \in Nat
    BY <1>9, LenProperties
  <2> QED BY <1>2, <1>9, <2>1, <2>2, ConcatProperties
<1>15. Len(written) = Len(file) + Len(PacketBlock(p))
  <2>1. PICK b \in Seq(Cell) : b = PacketBlock(p)
    BY <1>1, PacketBlockType
  <2> QED BY <1>2, <2>1, ConcatProperties
<1>12. Layout(file', log') /\ Complete(file')
  <2>1. CASE ~CueDue
    BY <2>1, <1>10 DEF WritePacket
  <2>2. CASE CueDue
    <3>1. \A i \in 1 .. Len(entries') : entries'[i] \in EntriesBelow(Len(written), log')
      <4> SUFFICES ASSUME NEW i \in 1 .. Len(entries')
                   PROVE  entries'[i] \in EntriesBelow(Len(written), log')
        OBVIOUS
      <4>1. Len(written) \in Nat BY <1>11, LenProperties
      <4>2. entries'[i].file_offset < Len(written)
        <5>1. CASE i = n + 1 BY <5>1, <1>1, <1>4, <1>11
        <5>2. CASE i \in 1 .. n BY <4>1, <5>2, <1>2, <1>4, <1>6, <1>11
        <5> QED BY <5>1, <5>2, <1>2, <1>4
      <4>3. entries'[i] = EntryFor(log'[i])
        BY <1>2, <1>4, <1>14
      <4>4. i \in 1 .. Len(log')
        BY <1>4, <1>5
      <4>5. entries'[i] \in Entry
        BY <1>4, ElementOfSeq
      <4>6. entries'[i].file_offset + Len(PacketBlock(log'[i].packet)) <= Len(written)
        <5>1. CASE i = n + 1
          <6>1. entries'[i].file_offset = Len(file) /\ log'[i].packet = p
            BY <5>1, <1>1, <1>4, <1>5
          <6>2. Len(file) + Len(PacketBlock(p)) = Len(written)
            BY <1>2, <1>15
          <6> QED BY <6>1, <6>2, <4>1
        <5>2. CASE i \in 1 .. n
          <6>1. PICK l : l = Len(PacketBlock(log[i].packet))
            OBVIOUS
          <6>2. l \in Nat
            <7>1. log[i] \in Row BY <5>2, <1>2, ElementOfSeq
            <7>2. log[i].packet \in Packet BY <7>1 DEF Row
            <7> QED BY <6>1, <7>2, PacketBlockType, LenProperties
          <6>3. entries[i].file_offset + l <= Len(file) /\ entries[i].file_offset \in Nat
            BY <5>2, <6>1, <1>6
          <6>4. entries'[i] = entries[i] /\ log'[i] = log[i]
            BY <5>2, <1>4, <1>5
          <6>5. entries[i].file_offset + l <= Len(written)
            BY <6>2, <6>3, <4>1, <1>2, <1>11
          <6> QED BY <6>1, <6>4, <6>5
        <5> QED BY <5>1, <5>2, <1>2, <1>4
      <4> QED BY <4>2, <4>3, <4>4, <4>5, <4>6 DEF EntriesBelow
    <3>2. pending_cue_start \in 0 .. Len(entries')
      BY <1>2, <1>4
    <3>3. PICK body \in Seq(BodyCell) :
            Cue(entries') = Block("cue", body) /\ Known(Prelude("cue", body), Len(written), log')
      <4> HIDE DEF written
      <4> QED BY <1>2, <1>4, <3>1, <3>2, CueKnown
    <3>4. file' = written \o Cue(entries')
      BY <2>2, <1>4 DEF WritePacket, WriteCue
    <3> HIDE DEF written
    <3>5. Layout(written \o Block("cue", body), log') /\ Complete(written \o Block("cue", body))
      BY <1>10, <1>11, <3>3, LayoutAppend
    <3> QED BY <3>3, <3>4, <3>5
  <2> QED BY <2>1, <2>2
<1>13. RowsRight'
  <2>1. ASSUME NEW k \in 1 .. n + 1
        PROVE  /\ entries'[k] = EntryFor(log'[k]) /\ log'[k].offset >= 1
               /\ FramesFit => Len(log'[k].packet.payload) < MaxBody
    <3>1. CASE k \in 1 .. n BY <3>1, <1>2, <1>4, <1>5, <1>14 DEF MuxLaid, RowsRight
    <3>2. CASE k = n + 1
      <4>1. log'[k].offset = Len(file) /\ log'[k].packet.payload = frame.payload
        BY <3>2, <1>5 DEF PacketOf
      <4> QED BY <4>1, <3>2, <1>1, <1>2, <1>14 DEF FramesFit
    <3> QED BY <3>1, <3>2, <1>2
  <2>2. ASSUME NEW k \in 1 .. n + 1, NEW l \in 1 .. n + 1, k < l
        PROVE  log'[k].offset < log'[l].offset
    <3>1. k \in 1 .. n BY <2>2, <1>2
    <3>2. CASE l \in 1 .. n
      <4>1. log[k].offset < log[l].offset
        BY <2>2, <3>1, <3>2, <1>2 DEF MuxLaid, RowsRight
      <4> QED BY <4>1, <3>1, <3>2, <1>5
    <3>3. CASE l = n + 1
      <4>1. log[k].offset = entries[k].file_offset
        <5>1. EntryFor(log[k]).file_offset = log[k].offset
          BY DEF EntryFor
        <5> QED BY <5>1, <3>1, <1>6
      <4>2. log'[k] = log[k] /\ log'[l].offset = Len(file)
        BY <3>1, <3>3, <1>5
      <4> QED BY <4>1, <4>2, <3>1, <1>6
    <3> QED BY <3>2, <3>3, <1>2
  <2> QED BY <2>1, <2>2, <1>5 DEF RowsRight, FramesFit
<1> QED BY <1>2, <1>12, <1>13 DEF MuxLaid

LEMMA LaidEnd ==
    ASSUME MuxInv, MuxLaid, Finalize \/ Crash
    PROVE  MuxLaid'
<1>1. /\ file \in Seq(Cell) /\ Len(file) \in Nat /\ Len(file) >= 1
      /\ entries \in Seq(Entry) /\ log' = log /\ entries' = entries
      /\ phase = "writing" /\ phase' # "writing" /\ Len(log) = Len(entries)
      /\ cue_count \in Nat /\ packet_count \in Nat /\ pending_cue_start \in 0 .. Len(entries)
  BY LenProperties DEF MuxInv, MuxTyped, Finalize, Crash, DataStart, FileStart
<1>2. \A i \in 1 .. Len(entries) :
        entries[i].file_offset \in Nat /\ entries[i] \in EntriesBelow(Len(file), log)
  BY <1>1, LoggedInFile DEF MuxLaid
<1>3. Layout(file, log) /\ Complete(file)
  BY <1>1 DEF MuxLaid
<1> DEFINE cued == file \o (IF pending_cue_start < Len(entries) THEN Cue(entries) ELSE <<>>)
<1>4. PICK f \in Seq(Cell) : f = cued /\ Len(f) >= Len(file) /\ Layout(f, log) /\ Complete(f)
  <2>1. CASE pending_cue_start < Len(entries)
    <3>1. PICK body \in Seq(BodyCell) :
            Cue(entries) = Block("cue", body) /\ Known(Prelude("cue", body), Len(file), log)
      BY <1>1, <1>2, CueKnown
    <3>2. PICK b \in Seq(Cell) : b = Block("cue", body)
      BY CellsOfBlock
    <3>3. cued = file \o b
      BY <2>1, <3>1, <3>2
    <3>4. Layout(cued, log) /\ Complete(cued)
      BY <1>1, <1>3, <3>1, <3>2, <3>3, LayoutAppend
    <3>5. file \o b \in Seq(Cell) /\ Len(file \o b) = Len(file) + Len(b) /\ Len(b) \in Nat
      BY <1>1, ConcatProperties, LenProperties
    <3> HIDE DEF cued
    <3>6. Len(cued) >= Len(file) /\ cued \in Seq(Cell)
      BY <1>1, <3>3, <3>5
    <3> QED BY <3>4, <3>6
  <2>2. CASE ~(pending_cue_start < Len(entries))
    <3>1. cued = file
      BY <2>2, <1>1, ConcatEmptySeq
    <3> QED BY <3>1, <1>1, <1>3
  <2> QED BY <2>1, <2>2
<1>5. Len(f) \in Nat /\ Len(f) >= 1
  BY <1>1, <1>4, LenProperties
<1>6. PICK body \in Seq(BodyCell) :
        IndexBlock(entries) = Block("index", body) /\ Known(Prelude("index", body), Len(f), log)
  <2>1. \A i \in 1 .. Len(entries) : entries[i] \in EntriesBelow(Len(f), log)
    <3> SUFFICES ASSUME NEW i \in 1 .. Len(entries)
                 PROVE  entries[i] \in EntriesBelow(Len(f), log)
      OBVIOUS
    <3>1. entries[i].file_offset \in Nat /\ entries[i] \in EntriesBelow(Len(file), log)
      BY <1>2
    <3>2. PICK k \in 1 .. Len(log) :
            /\ entries[i] = EntryFor(log[k]) /\ entries[i] \in Entry
            /\ entries[i].file_offset + Len(PacketBlock(log[k].packet)) <= Len(file)
            /\ entries[i].file_offset < Len(file)
      BY <3>1 DEF EntriesBelow
    <3>3. entries[i].file_offset < Len(f)
      BY <3>1, <3>2, <1>1, <1>4, <1>5
    <3>4. Len(PacketBlock(log[k].packet)) \in Nat
      <4>1. log[k] \in Row
        BY ElementOfSeq DEF MuxInv, MuxTyped
      <4>2. log[k].packet \in Packet
        BY <4>1 DEF Row
      <4> QED BY <4>2, PacketBlockType, LenProperties
    <3>5. PICK l \in Nat : l = Len(PacketBlock(log[k].packet))
      BY <3>4
    <3>6. entries[i].file_offset + l <= Len(f)
      BY <3>1, <3>2, <3>5, <1>1, <1>4, <1>5
    <3> QED BY <3>2, <3>3, <3>5, <3>6 DEF EntriesBelow
  <2> QED BY <1>1, <2>1, IndexKnown
<1>7. WithIndex = f \o Block("index", body)
  BY <1>4, <1>6 DEF WithIndex
<1>8. Layout(WithIndex, log)
  BY <1>4, <1>5, <1>6, <1>7, LayoutAppend
<1>9. WithIndex \in Seq(Cell)
  <2>1. PICK b \in Seq(Cell) : b = Block("index", body)
    BY CellsOfBlock
  <2> QED BY <2>1, <1>7, ConcatProperties
<1>10. Layout(file', log')
  <2>1. CASE Finalize BY <2>1, <1>1, <1>8 DEF Finalize
  <2>2. CASE Crash
    <3>1. PICK m \in DataStart .. Len(WithIndex) - 1 : file' = SubSeq(WithIndex, 1, m)
      BY <2>2 DEF Crash
    <3>2. m \in 0 .. Len(WithIndex)
      BY <3>1, <1>9, LenProperties DEF DataStart, FileStart
    <3> QED BY <3>1, <3>2, <1>1, <1>8, <1>9, LayoutPrefix
  <2> QED BY <2>1, <2>2
<1>11. RowsRight'
  BY <1>1 DEF MuxLaid, RowsRight, FramesFit
<1> QED BY <1>1, <1>10, <1>11 DEF MuxLaid

-----------------------------------------------------------------------------
(* Functions defined backwards over positions, as those of the reader are. *)

LEMMA LeastExists ==
    ASSUME NEW set \in SUBSET Nat, set # {}
    PROVE  \E x \in set : \A y \in set : x <= y
<1>1. \E x \in set : \A y \in set : ~(<<y, x>> \in OpToRel(<, Nat))
  BY NatLessThanWellFounded, WFMin
<1>2. \E x \in set : \A y \in set : ~(y < x)
  BY <1>1 DEF OpToRel
<1> QED BY <1>2

LEMMA GreatestExists ==
    ASSUME NEW n \in Nat, NEW set \in SUBSET (0 .. n), set # {}
    PROVE  \E x \in set : \A y \in set : y <= x
<1> DEFINE below == {k \in 0 .. n : n - k \in set}
<1>1. below \in SUBSET Nat /\ below # {}
  <2>1. PICK x \in set : TRUE OBVIOUS
  <2>2. n - x \in 0 .. n /\ n - (n - x) = x BY <2>1
  <2>3. n - x \in below BY <2>1, <2>2
  <2>4. below \in SUBSET Nat OBVIOUS
  <2> QED BY <2>3, <2>4
<1> HIDE DEF below
<1>2. PICK k \in below : \A y \in below : k <= y
  BY <1>1, LeastExists
<1>3. n - k \in set /\ k \in 0 .. n
  BY <1>2 DEF below
<1>4. ASSUME NEW y \in set PROVE y <= n - k
  <2>1. n - y \in 0 .. n /\ n - (n - y) = y BY <1>4
  <2>2. n - y \in below BY <2>1, <1>4 DEF below
  <2> QED BY <2>1, <2>2, <1>2, <1>3
<1> QED BY <1>3, <1>4

\* what a function that goes on at jump[p] from the positions in skip must satisfy
Follows(g, first, n, skip, jump, combine, stop) ==
    \A p \in first .. n : g[p] = IF p \in skip THEN combine[p][g[jump[p]]] ELSE stop[p]

LEMMA BackwardsDefined ==
    ASSUME NEW n \in Nat, NEW V, NEW skip, NEW jump, NEW combine, NEW stop,
           \A p \in 0 .. n : p \in skip =>
                jump[p] \in p + 1 .. n /\ combine[p] \in [V -> V],
           \A p \in 0 .. n : p \notin skip => stop[p] \in V
    PROVE  \E g \in [0 .. n -> V] : Follows(g, 0, n, skip, jump, combine, stop)
<1> DEFINE from == {k \in 0 .. n : \E g \in [k .. n -> V] : Follows(g, k, n, skip, jump, combine, stop)}
<1>1. n \in from
  <2>1. n \notin skip
    OBVIOUS
  <2>2. stop[n] \in V
    BY <2>1
  <2>3. [p \in n .. n |-> stop[n]] \in [n .. n -> V]
    BY <2>2
  <2>4. Follows([p \in n .. n |-> stop[n]], n, n, skip, jump, combine, stop)
    BY <2>1 DEF Follows
  <2> QED BY <2>3, <2>4
<1>2. ASSUME NEW k \in from, k # 0 PROVE k - 1 \in from
  <2>1. PICK g \in [k .. n -> V] : Follows(g, k, n, skip, jump, combine, stop)
    OBVIOUS
  <2>2. k \in 1 .. n /\ k - 1 \in 0 .. n
    BY <1>2
  <2> DEFINE v == IF k - 1 \in skip THEN combine[k - 1][g[jump[k - 1]]] ELSE stop[k - 1]
             h == [p \in k - 1 .. n |-> IF p = k - 1 THEN v ELSE g[p]]
  <2>3. v \in V
    <3>1. CASE k - 1 \in skip
      <4>1. jump[k - 1] \in k .. n /\ combine[k - 1] \in [V -> V]
        BY <3>1, <2>2
      <4> QED BY <4>1, <3>1
    <3>2. CASE k - 1 \notin skip
      BY <3>2, <2>2
    <3> QED BY <3>1, <3>2
  <2>4. h \in [k - 1 .. n -> V]
    <3> HIDE DEF v
    <3>1. \A p \in k - 1 .. n : p = k - 1 \/ p \in k .. n
      BY <2>2
    <3> QED BY <2>3, <3>1
  <2>5. \A p \in k .. n : h[p] = g[p]
    <3> HIDE DEF v
    <3> QED BY <2>2
  <2>6. h[k - 1] = v
    <3> HIDE DEF v
    <3> QED BY <2>2
  <2>7. ASSUME NEW p \in k - 1 .. n
        PROVE  h[p] = IF p \in skip THEN combine[p][h[jump[p]]] ELSE stop[p]
    <3> HIDE DEF h
    <3>1. p \in 0 .. n
      BY <2>2
    <3>2. p \in skip => jump[p] \in k .. n
      BY <3>1, <2>2
    <3>3. p \in skip => h[jump[p]] = g[jump[p]]
      BY <3>2, <2>5
    <3>4. CASE p = k - 1
      BY <3>4, <3>3, <2>6
    <3>5. CASE p \in k .. n
      <4>1. g[p] = IF p \in skip THEN combine[p][g[jump[p]]] ELSE stop[p]
        BY <3>5, <2>1 DEF Follows
      <4> QED BY <4>1, <3>3, <3>5, <2>5
    <3> QED BY <3>4, <3>5, <2>2
  <2>8. Follows(h, k - 1, n, skip, jump, combine, stop)
    <3> HIDE DEF h
    <3> QED BY <2>7 DEF Follows
  <2> HIDE DEF h
  <2> QED BY <2>2, <2>4, <2>8
<1> HIDE DEF from
<1>3. PICK k \in from : \A y \in from : k <= y
  <2>1. from \in SUBSET Nat BY DEF from
  <2> QED BY <1>1, <2>1, LeastExists
<1>4. k = 0
  <2> SUFFICES ASSUME k # 0 PROVE FALSE
    OBVIOUS
  <2>1. k - 1 \in from BY <1>2
  <2>2. k \in Nat BY DEF from
  <2> QED BY <2>1, <2>2, <1>3
<1> QED BY <1>3, <1>4 DEF from

-----------------------------------------------------------------------------
(* What the reader gets of the file.                                       *)

DiskCell == Cell \cup {Damaged}

\* The cells read at a position.
LEMMA CellsAre ==
    ASSUME NEW T, NEW s \in Seq(T), NEW a \in Nat, NEW l \in Nat, a + l <= Len(s)
    PROVE  /\ Cells(s, a, l) \in Seq(T) /\ Len(Cells(s, a, l)) = l
           /\ \A i \in 1 .. l : Cells(s, a, l)[i] = s[a + i]
<1>1. \A i \in a + 1 .. a + l : s[i] \in T
  <2>1. Len(s) \in Nat BY LenProperties
  <2> QED BY <2>1, ElementOfSeq
<1>2. PICK m \in Int, n \in Int : m = a + 1 /\ n = a + l
  OBVIOUS
<1>3. PICK c : c = SubSeq(s, m, n)
  OBVIOUS
<1>4. /\ c \in Seq(T) /\ Len(c) = IF m <= n THEN n - m + 1 ELSE 0
      /\ \A i \in 1 .. n - m + 1 : c[i] = s[m + i - 1]
  BY <1>1, <1>2, <1>3, SubSeqProperties
<1>5. Len(c) = l
  BY <1>2, <1>4
<1>6. ASSUME NEW i \in 1 .. l PROVE c[i] = s[a + i]
  <2>1. i \in 1 .. n - m + 1 /\ m + i - 1 = a + i BY <1>2
  <2> QED BY <2>1, <1>4
<1>7. c = Cells(s, a, l)
  BY <1>2, <1>3 DEF Cells
<1> QED BY <1>4, <1>5, <1>6, <1>7

DiskTyped ==
    /\ disk \in Seq(DiskCell) /\ Len(disk) = Len(file)
    /\ \A i \in 1 .. Len(file) : disk[i] \in {file[i], Damaged}

FileInv == MuxInv /\ MuxLaid /\ DiskTyped

\* A valid header stands where a block was written.
LEMMA HeaderIsStart ==
    ASSUME FileInv, NEW p \in Nat, HeaderOk(disk, p)
    PROVE  /\ p \in Starts(file) /\ disk[p + 3] = file[p + 3] /\ disk[p + 3] \in PreludeCell
           /\ disk[p + 3].bodyLen \in Nat /\ p + 4 <= Len(file)
           /\ Known(disk[p + 3], p, log)
           /\ disk[p + 4] = [crc |-> disk[p + 3]] /\ disk[p + 3].bodyLen <= MaxBody
<1>1. /\ Len(disk) = Len(file) /\ Len(file) \in Nat /\ disk \in Seq(DiskCell)
      /\ p + 4 <= Len(file) /\ "type" \in DOMAIN disk[p + 3]
      /\ disk[p + 4] = [crc |-> disk[p + 3]] /\ disk[p + 3].bodyLen <= MaxBody
  BY LenProperties DEF FileInv, DiskTyped, HeaderOk, HeaderLen
<1>2. p + 3 \in 1 .. Len(file) /\ p \in 0 .. Len(file) - 3
  BY <1>1
<1>3. disk[p + 3] \in DiskCell
  BY <1>1, <1>2, ElementOfSeq
<1>4. disk[p + 3] \in PreludeCell
  BY <1>1, <1>3, OnlyPreludesAreTyped DEF DiskCell
<1>5. disk[p + 3] = file[p + 3]
  BY <1>2, <1>4, OnlyPreludesAreTyped DEF FileInv, DiskTyped
<1>6. p \in Starts(file)
  BY <1>2, <1>4, <1>5 DEF Starts
<1>7. Known(disk[p + 3], p, log)
  BY <1>5, <1>6 DEF FileInv, MuxLaid, Layout
<1>8. disk[p + 3].bodyLen \in Nat
  BY <1>4 DEF PreludeCell
<1> QED BY <1>1, <1>4, <1>5, <1>6, <1>7, <1>8

\* there is a packet at o that is whole and undamaged, and payloads fit
RowAt(o) == FramesFit /\ \E r \in ToSet(log) : Intact(r) /\ r.offset = o

\* A packet that is whole and undamaged is where it was written, cell by cell.
LEMMA IntactCells ==
    ASSUME FileInv, NEW r \in ToSet(log), Intact(r)
    PROVE  /\ r.offset \in Nat /\ r.offset >= 1 /\ r.packet \in Packet
           /\ BodyOf(r.packet) \in Seq(BodyCell)
           /\ Len(PacketBlock(r.packet)) = 4 + Len(BodyOf(r.packet))
           /\ r.offset + Len(PacketBlock(r.packet)) <= Len(file)
           /\ \A j \in 1 .. 4 + Len(BodyOf(r.packet)) :
                /\ disk[r.offset + j] = PacketBlock(r.packet)[j]
                /\ file[r.offset + j] = PacketBlock(r.packet)[j]
<1>1. PICK k \in 1 .. Len(log) : r = log[k]
  <2>1. DOMAIN log = 1 .. Len(log)
    BY LenProperties DEF FileInv, MuxInv, MuxTyped
  <2> QED BY <2>1 DEF ToSet
<1>2. r \in Row /\ r.offset \in Nat /\ r.packet \in Packet
  <2>1. r \in Row
    BY <1>1, ElementOfSeq DEF FileInv, MuxInv, MuxTyped
  <2> QED BY <2>1 DEF Row
<1>3. r.offset >= 1 /\ entries[k].file_offset = r.offset
  <2>1. log[k].offset >= 1 /\ entries[k] = EntryFor(log[k])
    BY DEF FileInv, MuxLaid, RowsRight
  <2>2. EntryFor(log[k]).file_offset = log[k].offset
    BY DEF EntryFor
  <2> QED BY <2>1, <2>2, <1>1
<1>4. PICK b \in Seq(Cell) : b = PacketBlock(r.packet)
  BY <1>2, PacketBlockType
<1>5. BodyOf(r.packet) \in Seq(BodyCell) /\ Len(BodyOf(r.packet)) \in Nat
  BY <1>2, BodyType, LenProperties
<1>6. Len(b) = 4 + Len(BodyOf(r.packet)) /\ Len(b) \in Nat
  <2>1. PacketBlock(r.packet) = Block("packet", BodyOf(r.packet))
    BY DEF PacketBlock, BodyOf
  <2>2. Len(Block("packet", BodyOf(r.packet))) = 4 + Len(BodyOf(r.packet))
    BY <1>5, CellsOfBlock
  <2>3. Len(b) = 4 + Len(BodyOf(r.packet))
    BY <2>1, <2>2, <1>4
  <2> QED BY <2>3, <1>5
<1>7. /\ Len(file) \in Nat /\ DOMAIN file = 1 .. Len(file) /\ file \in Seq(Cell)
  BY LenProperties DEF FileInv, MuxInv, MuxTyped
<1>8. r.offset + 1 .. r.offset + Len(b) \subseteq 1 .. Len(file)
        /\ \A i \in r.offset + 1 .. r.offset + Len(b) : disk[i] = file[i]
  BY <1>4, <1>7 DEF Intact, BlockCells, damaged
<1>9. r.offset + Len(b) \in r.offset + 1 .. r.offset + Len(b)
  BY <1>2, <1>5, <1>6
<1>10. r.offset + Len(b) <= Len(file)
  BY <1>8, <1>9
<1>11. Cells(file, r.offset, Len(b)) = b
  <2>1. k \in DOMAIN entries
    BY <1>1, LenProperties DEF FileInv, MuxInv, MuxTyped
  <2>2. PointsAt(entries[k], log[k].packet, k, file)
    BY <2>1, PointsAtIs DEF FileInv, MuxInv
  <2> QED BY <2>2, <1>1, <1>3, <1>4, <1>10 DEF PointsAt
<1>12. ASSUME NEW j \in 1 .. Len(b)
       PROVE  disk[r.offset + j] = b[j] /\ file[r.offset + j] = b[j]
  <2>1. \A i \in 1 .. Len(b) : Cells(file, r.offset, Len(b))[i] = file[r.offset + i]
    <3>1. r.offset \in Nat BY <1>2
    <3>2. Len(b) \in Nat BY <1>6
    <3>3. file \in Seq(Cell) BY <1>7
    <3> QED BY ZenonT(30), <3>1, <3>2, <3>3, <1>10, CellsAre
  <2>2. file[r.offset + j] = b[j]
    BY <2>1, <1>11
  <2>3. r.offset + j \in r.offset + 1 .. r.offset + Len(b)
    BY <1>2, <1>6
  <2> QED BY <2>2, <2>3, <1>8
<1> QED BY <1>2, <1>3, <1>4, <1>5, <1>6, <1>10, <1>12

\* So is its header, and its body passes the checksum.
LEMMA IntactIsRead ==
    ASSUME FileInv, FramesFit, NEW r \in ToSet(log), Intact(r)
    PROVE  /\ r.offset \in Starts(file) /\ r.offset + 5 <= Len(file)
           /\ HasMagic(disk, r.offset) /\ ~HeaderEof(disk, r.offset) /\ HeaderOk(disk, r.offset)
           /\ ~BodyEof(disk, r.offset) /\ BodyOk(disk, r.offset)
           /\ disk[r.offset + 3].type = "packet"
<1> DEFINE o == r.offset
           body == BodyOf(r.packet)
           c == Prelude("packet", body)
<1>1. /\ o \in Nat /\ o >= 1 /\ r.packet \in Packet /\ body \in Seq(BodyCell)
      /\ Len(PacketBlock(r.packet)) = 4 + Len(body) /\ o + 4 + Len(body) <= Len(file)
      /\ \A j \in 1 .. 4 + Len(body) : disk[o + j] = PacketBlock(r.packet)[j]
                                         /\ file[o + j] = PacketBlock(r.packet)[j]
  BY IntactCells
<1>2. Len(body) \in Nat /\ Len(body) = 1 + Len(r.packet.payload) /\ Len(r.packet.payload) \in Nat
  <2>1. r.packet.payload \in Seq({S, B, Plain}) BY <1>1 DEF Packet
  <2> QED BY <2>1, <1>1, BodyType, LenProperties
<1>3. PacketBlock(r.packet) = Block("packet", body)
  BY DEF PacketBlock, BodyOf
<1> HIDE DEF o, body
<1>4. /\ c \in PreludeCell
      /\ disk[o + 1] = S /\ disk[o + 2] = B /\ disk[o + 3] = c /\ disk[o + 4] = [crc |-> c]
      /\ \A j \in 1 .. Len(body) : disk[o + 4 + j] = body[j]
      /\ file[o + 3] = c
  <2>1. PICK b : b = Block("packet", body) OBVIOUS
  <2>2. /\ c \in PreludeCell /\ b[1] = S /\ b[2] = B /\ b[3] = c /\ b[4] = [crc |-> c]
        /\ \A j \in 1 .. Len(body) : b[4 + j] = body[j]
    BY <2>1, <1>1, CellsOfBlock
  <2>3. \A j \in 1 .. 4 + Len(body) : disk[o + j] = b[j] /\ file[o + j] = b[j]
    BY <2>1, <1>1, <1>3
  <2> HIDE DEF c
  <2>4. ASSUME NEW j \in 1 .. Len(body) PROVE disk[o + 4 + j] = body[j]
    <3>1. 4 + j \in 1 .. 4 + Len(body) /\ o + (4 + j) = o + 4 + j BY <1>1, <1>2
    <3> QED BY <3>1, <2>2, <2>3
  <2>5. 1 \in 1 .. 4 + Len(body) /\ 2 \in 1 .. 4 + Len(body) /\ 3 \in 1 .. 4 + Len(body)
          /\ 4 \in 1 .. 4 + Len(body)
    BY <1>2
  <2> QED BY <2>2, <2>3, <2>4, <2>5
<1>5. c.type = "packet" /\ c.bodyLen = Len(body) /\ c.bodyCrc = body
  BY DEF Prelude
<1>6. /\ Len(disk) = Len(file) /\ Len(file) \in Nat /\ disk \in Seq(DiskCell)
  BY LenProperties DEF FileInv, DiskTyped
<1>14. /\ o \in Nat /\ Len(body) \in Nat /\ Len(file) \in Nat
       /\ o + 4 + Len(body) <= Len(file) /\ o + 5 <= Len(file)
  <2>1. PICK l \in Nat, m \in Nat : l = Len(body) /\ m = Len(r.packet.payload)
    BY <1>2
  <2>2. l = 1 + m /\ o \in Nat /\ o + 4 + l <= Len(file) /\ Len(file) \in Nat
    BY <2>1, <1>1, <1>2, <1>6
  <2>3. o \in Nat BY <2>2
  <2>4. Len(body) \in Nat BY <2>1
  <2>5. Len(file) \in Nat BY <2>2
  <2>6. o + 4 + Len(body) <= Len(file) BY <2>1, <2>2
  <2>7. o + 5 <= Len(file) BY <2>2
  <2> QED BY <2>3, <2>4, <2>5, <2>6, <2>7
<1> HIDE DEF c
<1>7. HasMagic(disk, o)
  <2>2. PICK s : s = Cells(disk, o, 2) OBVIOUS
  <2>3. s \in Seq(DiskCell) /\ Len(s) = 2 /\ s[1] = disk[o + 1] /\ s[2] = disk[o + 2]
    <3>1. o + 2 <= Len(disk) BY <1>6, <1>14
    <3>2. /\ s \in Seq(DiskCell) /\ Len(s) = 2
          /\ \A i \in 1 .. 2 : s[i] = disk[o + i]
      <4>1. o \in Nat BY <1>14
      <4>2. disk \in Seq(DiskCell) BY <1>6
      <4>3. 2 \in Nat OBVIOUS
      <4> QED BY <4>1, <4>2, <4>3, <3>1, <2>2, CellsAre
    <3> QED BY <3>2
  <2>4. <<S, B>> \in Seq(DiskCell) /\ Len(<<S, B>>) = 2 /\ <<S, B>>[1] = S /\ <<S, B>>[2] = B
    <3>1. S \in DiskCell /\ B \in DiskCell BY DEF DiskCell, Cell, BodyCell
    <3> QED BY <3>1
  <2>5. \A i \in 1 .. 2 : s[i] = <<S, B>>[i]
    BY <2>3, <2>4, <1>4
  <2>6. s = <<S, B>>
    BY <2>3, <2>4, <2>5, SeqEqual
  <2> QED BY <2>2, <2>6 DEF HasMagic
<1>8. ~HeaderEof(disk, o)
  BY <1>6, <1>14 DEF HeaderEof, HeaderLen
<1>9. Len(body) <= MaxBody
  <2>1. \E k \in 1 .. Len(log) : r = log[k]
    <3>1. DOMAIN log = 1 .. Len(log)
      BY LenProperties DEF FileInv, MuxInv, MuxTyped
    <3> QED BY <3>1 DEF ToSet
  <2>2. Len(r.packet.payload) < MaxBody
    BY <2>1 DEF FileInv, MuxLaid, RowsRight
  <2> QED BY <2>2, <1>2, ContainerAssumption
<1>10. HeaderOk(disk, o)
  <2>1. "type" \in DOMAIN c
    BY <1>4, OnlyPreludesAreTyped DEF Cell
  <2> QED BY <2>1, <1>4, <1>5, <1>6, <1>7, <1>9, <1>14 DEF HeaderOk, HeaderLen
<1>11. ~BodyEof(disk, o)
  BY <1>4, <1>5, <1>6, <1>14 DEF BodyEof, HeaderLen
<1>12. BodyOk(disk, o)
  <2>1. PICK s : s = Cells(disk, o + 4, Len(body)) OBVIOUS
  <2>2. o + 4 \in Nat /\ Len(body) \in Nat /\ o + 4 + Len(body) <= Len(disk)
    BY <1>6, <1>14
  <2>3. /\ s \in Seq(DiskCell) /\ Len(s) = Len(body)
        /\ \A i \in 1 .. Len(body) : s[i] = disk[o + 4 + i]
    BY <2>1, <2>2, <1>6, CellsAre
  <2>6. \A i \in 1 .. Len(body) : s[i] = body[i]
    BY <2>3, <1>4
  <2>7. body \in Seq(DiskCell)
    <3>1. BodyCell \subseteq DiskCell BY DEF DiskCell, Cell
    <3> QED BY <3>1, <1>1, SeqMonotonic
  <2>8. s = body
    BY <2>3, <2>6, <2>7, SeqEqual
  <2>9. BodyAt(disk, o) = s
    BY <2>1, <1>4, <1>5 DEF BodyAt, HeaderLen
  <2> QED BY <2>8, <2>9, <1>4, <1>5 DEF BodyOk
<1>13. o \in Starts(file)
  BY <1>4, <1>14 DEF Starts
<1> QED BY <1>4, <1>5, <1>7, <1>8, <1>10, <1>11, <1>12, <1>13, <1>14 DEF o

\* Where the reader is and how many cells there are.
LEMMA DiskLen ==
    ASSUME FileInv
    PROVE  /\ Len(disk) = Len(file) /\ Len(file) \in Nat /\ Len(file) >= 1
           /\ DOMAIN file = 1 .. Len(file) /\ disk \in Seq(DiskCell) /\ file \in Seq(Cell)
BY LenProperties DEF FileInv, DiskTyped, MuxInv, MuxTyped, DataStart, FileStart

\* b is the block at q, read and checked
ReadAt(b, q) ==
    /\ HeaderOk(disk, q) /\ ~BodyEof(disk, q) /\ BodyOk(disk, q)
    /\ b.type = disk[q + 3].type /\ b.body = BodyAt(disk, q)
    /\ b.after = AfterBlock(disk, q)

\* the row of the log that b is the block of
RowOf(b, r) == r.offset = b.offset /\ Intact(r) /\ PacketIn(b) = r.packet
                 /\ b.after = r.offset + Len(PacketBlock(r.packet))

\* A block that was read ends inside the file, and entries in it lead to places
\* before it.
LEMMA ReadIsKnown ==
    ASSUME FileInv, NEW b, NEW q \in Nat, ReadAt(b, q)
    PROVE  /\ b.type \in {"packet", "cue", "index"}
           /\ b.after \in Nat /\ q + 4 <= b.after /\ b.after <= Len(file)
           /\ b.type \in {"cue", "index"} => Tail(b.body) \in Seq(EntriesBelow(q, log))
<1>1. /\ disk[q + 3] \in PreludeCell /\ disk[q + 3].bodyLen \in Nat
      /\ Known(disk[q + 3], q, log)
  BY HeaderIsStart DEF ReadAt
<1>2. b.type \in {"packet", "cue", "index"}
  BY <1>1 DEF ReadAt, PreludeCell
<1>3. b.body = disk[q + 3].bodyCrc
  BY DEF ReadAt, BodyOk
<1>4. b.after = q + 4 + disk[q + 3].bodyLen
  BY DEF ReadAt, AfterBlock, HeaderLen
<1>5. ~(Len(file) < q + 4 + disk[q + 3].bodyLen)
  BY DiskLen DEF ReadAt, BodyEof, HeaderLen
<1>6. b.after \in Nat /\ q + 4 <= b.after /\ b.after <= Len(file)
  BY <1>1, <1>4, <1>5, DiskLen
<1>7. ASSUME b.type \in {"cue", "index"} PROVE Tail(b.body) \in Seq(EntriesBelow(q, log))
  <2>1. ASSUME NEW body PROVE Prelude("packet", body).type = "packet"
    BY DEF Prelude
  <2>2. disk[q + 3].type # "packet"
    BY <1>7 DEF ReadAt
  <2> QED BY <2>1, <2>2, <1>1, <1>3 DEF Known
<1> QED BY <1>2, <1>6, <1>7

\* A packet block that was read is one that was written, whole and undamaged.
LEMMA PacketRow ==
    ASSUME FileInv, NEW b, NEW q \in Nat, b.offset = q, ReadAt(b, q), b.type = "packet"
    PROVE  \E r \in ToSet(log) : RowOf(b, r)
<1>1. /\ disk[q + 3] \in PreludeCell /\ disk[q + 3].bodyLen \in Nat
      /\ Known(disk[q + 3], q, log) /\ disk[q + 3] = file[q + 3] /\ q + 4 <= Len(file)
      /\ disk[q + 4] = [crc |-> disk[q + 3]]
  BY HeaderIsStart DEF ReadAt
<1>2. PICK k \in 1 .. Len(log) :
        log[k].offset = q /\ disk[q + 3] = Prelude("packet", BodyOf(log[k].packet))
  BY <1>1 DEF Known, ReadAt
<1> DEFINE body == BodyOf(log[k].packet)
<1>3. log[k] \in Row /\ log[k] \in ToSet(log)
  BY ElementOfSeq, LenProperties DEF FileInv, MuxInv, MuxTyped, ToSet
<1>4. log[k].packet \in Packet
  BY <1>3 DEF Row
<1>5. /\ body \in Seq(BodyCell) /\ Len(body) \in Nat
      /\ body[1] = HeaderOf(log[k].packet) /\ Tail(body) = log[k].packet.payload
  BY <1>4, BodyType, LenProperties
<1>6. disk[q + 3].bodyLen = Len(body) /\ disk[q + 3].bodyCrc = body
  BY <1>2 DEF Prelude
<1>7. Len(PacketBlock(log[k].packet)) = 4 + Len(body)
  <2>1. PacketBlock(log[k].packet) = Block("packet", body)
    BY DEF PacketBlock, BodyOf
  <2> HIDE DEF body
  <2> QED BY <2>1, <1>5, CellsOfBlock
<1> HIDE DEF body
<1>8. b.body = body /\ b.after = q + (4 + Len(body))
  BY <1>5, <1>6 DEF ReadAt, BodyOk, AfterBlock, HeaderLen
<1>9. q + 4 + Len(body) <= Len(file)
  <2>1. ~(Len(file) < q + 4 + Len(body))
    BY DiskLen, <1>6 DEF ReadAt, BodyEof, HeaderLen
  <2> QED BY <2>1, <1>5, DiskLen
<1>10. PacketIn(b) = log[k].packet
  <2>1. b.body[1] = HeaderOf(log[k].packet) /\ Tail(b.body) = log[k].packet.payload
    BY <1>5, <1>8
  <2>2. PICK p \in Packet : p = log[k].packet
    BY <1>4
  <2>3. b.body[1] = [track |-> p.track, key |-> p.key, sequence |-> p.sequence, pts |-> p.pts]
    BY <2>1, <2>2 DEF HeaderOf
  <2>4. PacketIn(b) = [track |-> p.track, key |-> p.key, sequence |-> p.sequence,
                       pts |-> p.pts, payload |-> p.payload]
    <3>1. /\ b.body[1].track = p.track /\ b.body[1].key = p.key
          /\ b.body[1].sequence = p.sequence /\ b.body[1].pts = p.pts
      BY <2>3
    <3>2. Tail(b.body) = p.payload
      BY <2>1, <2>2
    <3> QED BY <3>1, <3>2 DEF PacketIn
  <2>5. p = [track |-> p.track, key |-> p.key, sequence |-> p.sequence,
             pts |-> p.pts, payload |-> p.payload]
    BY <2>2 DEF Packet
  <2> QED BY <2>2, <2>4, <2>5
<1>11. HasMagic(disk, q)
  BY DEF ReadAt, HeaderOk
<1>12. disk[q + 1] = S /\ disk[q + 2] = B
  <2>1. PICK s : s = Cells(disk, q, 2)
    OBVIOUS
  <2>2. q + 2 <= Len(disk) BY <1>1, DiskLen
  <2>3. disk \in Seq(DiskCell) BY DiskLen
  <2>4. \A i \in 1 .. 2 : s[i] = disk[q + i]
    <3>1. 2 \in Nat OBVIOUS
    <3> QED BY <2>1, <2>2, <2>3, <3>1, CellsAre
  <2>5. s = <<S, B>>
    BY <2>1, <1>11 DEF HasMagic
  <2> QED BY <2>4, <2>5
<1>13. \A j \in 1 .. Len(body) : disk[q + 4 + j] = body[j]
  <2>1. PICK s : s = Cells(disk, q + 4, Len(body))
    OBVIOUS
  <2>2. q + 4 \in Nat OBVIOUS
  <2>3. Len(body) \in Nat BY <1>5
  <2>4. q + 4 + Len(body) <= Len(disk) BY <1>9, DiskLen
  <2>5. disk \in Seq(DiskCell) BY DiskLen
  <2>6. \A j \in 1 .. Len(body) : s[j] = disk[q + 4 + j]
    BY ZenonT(30), <2>1, <2>2, <2>3, <2>4, <2>5, CellsAre
  <2>7. s = body
    BY <2>1, <1>6 DEF ReadAt, BodyOk, BodyAt, HeaderLen
  <2> QED BY <2>6, <2>7
<1>14. ASSUME NEW i \in q + 1 .. q + (4 + Len(body))
       PROVE  i \in 1 .. Len(file) /\ disk[i] = file[i]
  <2>1. i \in 1 .. Len(file)
    BY <1>5, <1>9, DiskLen
  <2>2. disk[i] # Damaged
    <3>1. CASE i \in {q + 1, q + 2}
      BY <3>1, <1>12, OnlyPreludesAreTyped
    <3>2. CASE i = q + 3
      BY <3>2, <1>1, OnlyPreludesAreTyped
    <3>3. CASE i = q + 4
      BY <3>3, <1>1, OnlyPreludesAreTyped
    <3>4. CASE i \in q + 5 .. q + (4 + Len(body))
      <4>1. i - q - 4 \in 1 .. Len(body) /\ q + 4 + (i - q - 4) = i
        BY <3>4, <1>5
      <4>2. disk[i] = body[i - q - 4]
        BY <4>1, <1>13
      <4>3. body[i - q - 4] \in BodyCell
        BY <4>1, <1>5, ElementOfSeq
      <4> QED BY <4>2, <4>3, OnlyPreludesAreTyped
    <3>5. i = q + 1 \/ i = q + 2 \/ i = q + 3 \/ i = q + 4 \/ i \in q + 5 .. q + (4 + Len(body))
      BY <1>5, <1>14
    <3> QED BY <3>1, <3>2, <3>3, <3>4, <3>5
  <2> QED BY <2>1, <2>2 DEF FileInv, DiskTyped
<1>15. Intact(log[k])
  BY <1>2, <1>7, <1>14, DiskLen DEF Intact, BlockCells, damaged
<1> QED BY <1>2, <1>3, <1>7, <1>8, <1>10, <1>15 DEF RowOf

\* No intact packet starts inside a block whose header is valid.
LEMMA NoRowInside ==
    ASSUME FileInv, NEW p \in Nat, HeaderOk(disk, p), NEW o, RowAt(o), p < o
    PROVE  AfterBlock(disk, p) <= o
<1>1. o \in Starts(file)
  BY IntactIsRead DEF RowAt
<1>2. p \in Starts(file) /\ disk[p + 3] = file[p + 3]
  BY HeaderIsStart
<1>3. p + 4 + file[p + 3].bodyLen <= o
  BY <1>1, <1>2 DEF FileInv, MuxLaid, Layout
<1> QED BY <1>2, <1>3 DEF AfterBlock, HeaderLen

\* What there is at an intact packet.
LEMMA RowIsRead ==
    ASSUME FileInv, NEW o, RowAt(o)
    PROVE  /\ o \in Nat /\ o >= 1 /\ o + 5 <= Len(file)
           /\ HasMagic(disk, o) /\ ~HeaderEof(disk, o) /\ HeaderOk(disk, o)
           /\ ~BodyEof(disk, o) /\ BodyOk(disk, o) /\ disk[o + 3].type = "packet"
BY IntactIsRead, IntactCells DEF RowAt

-----------------------------------------------------------------------------
(* next_block.                                                             *)

\* What next_block owes the position p it is called at: a block it returns is one
\* that was read, and the next intact packet is not passed over, but for one that
\* the end of a window hides.
Placed(b, p) ==
    /\ b.type \in {"packet", "cue", "index", "end", "error"}
    /\ b.offset \in p .. Len(file) /\ b.after \in p .. Len(file)
    /\ b.type \in {"packet", "cue", "index"} => ReadAt(b, b.offset)
    /\ b.type = "end" => b.offset = Len(file) /\ b.after = Len(file)

NonePassed(b, p) ==
    /\ b.type # "error" => \A o \in p .. b.offset - 1 : ~RowAt(o)
    /\ b.type = "error" => ~RowAt(p)
    /\ b.type = "error" => \A o \in p .. b.after - 1 :
            RowAt(o) => p < o /\ o = b.after - 1 /\ Hidden(o)

Scanned(b, p) == Placed(b, p) /\ NonePassed(b, p)

Resyncs == {p \in 0 .. Len(disk) :
                ~HeaderEof(disk, p) /\ ~HeaderOk(disk, p) /\ MagicsAfter(disk, p) # {}}

LEMMA WindowIs ==
    ASSUME FileInv, NEW p \in 0 .. Len(file)
    PROVE  /\ Window(disk, p) \in 0 .. Len(file) - p
           /\ Window(disk, p) = Len(file) - p \/ Window(disk, p) = Probe
<1>1. PICK n \in Nat : n = Len(file) /\ n = Len(disk)
  BY DiskLen
<1> QED BY <1>1, ContainerAssumption DEF Window

LEMMA NextMagic ==
    ASSUME FileInv, NEW p \in 0 .. Len(file), MagicsAfter(disk, p) # {}
    PROVE  /\ Min(MagicsAfter(disk, p)) \in MagicsAfter(disk, p)
           /\ \A q \in MagicsAfter(disk, p) : Min(MagicsAfter(disk, p)) <= q
           /\ Min(MagicsAfter(disk, p)) \in p + 1 .. Len(file)
<1>1. PICK w \in Nat : w = Window(disk, p) /\ p + w <= Len(file)
  BY WindowIs, DiskLen
<1>2. MagicsAfter(disk, p) \subseteq p + 1 .. p + w - 2
  BY <1>1 DEF MagicsAfter
<1>3. MagicsAfter(disk, p) \in SUBSET Nat
  BY <1>1, <1>2
<1>4. \E x \in MagicsAfter(disk, p) : \A y \in MagicsAfter(disk, p) : x <= y
  BY <1>3, LeastExists
<1>5. /\ Min(MagicsAfter(disk, p)) \in MagicsAfter(disk, p)
      /\ \A q \in MagicsAfter(disk, p) : Min(MagicsAfter(disk, p)) <= q
  BY <1>4 DEF Min
<1> QED BY <1>1, <1>2, <1>5, DiskLen

\* g goes on at jump[p] from the positions in skip and is stop at the others
Skips(g, n, skip, jump, stop) ==
    /\ g = [p \in 0 .. n |-> g[p]]
    /\ \A p \in 0 .. n : g[p] = IF p \in skip THEN g[jump[p]] ELSE stop[p]

\* a function that goes on from some positions and stops at the others exists
LEMMA SkippingDefined ==
    ASSUME NEW n \in Nat, NEW skip, NEW jump, NEW stop,
           \A p \in 0 .. n : p \in skip => jump[p] \in p + 1 .. n
    PROVE  \E g : Skips(g, n, skip, jump, stop)
<1> DEFINE V == {stop[p] : p \in 0 .. n}
           same == [p \in 0 .. n |-> [v \in V |-> v]]
<1>1. \A p \in 0 .. n : stop[p] \in V /\ same[p] \in [V -> V]
  OBVIOUS
<1>2. \A p \in 0 .. n : \A v \in V : same[p][v] = v
  OBVIOUS
<1> HIDE DEF V, same
<1>3. PICK g \in [0 .. n -> V] : Follows(g, 0, n, skip, jump, same, stop)
  BY <1>1, BackwardsDefined
<1>4. \A p \in 0 .. n : g[p] \in V
  OBVIOUS
<1>5. ASSUME NEW p \in 0 .. n
      PROVE  g[p] = IF p \in skip THEN g[jump[p]] ELSE stop[p]
  <2>1. g[p] = IF p \in skip THEN same[p][g[jump[p]]] ELSE stop[p]
    BY <1>3 DEF Follows
  <2>2. CASE p \in skip
    <3>1. jump[p] \in 0 .. n BY <2>2
    <3> QED BY <3>1, <2>1, <2>2, <1>2, <1>4
  <2>3. CASE p \notin skip BY <2>1, <2>3
  <2> QED BY <2>2, <2>3
<1> QED BY <1>5 DEF Skips

LEMMA NextBlockDefined ==
    ASSUME FileInv
    PROVE  \A p \in 0 .. Len(file) : NextBlock[p] = BlockAt(p, NextBlock)
<1> DEFINE n == Len(disk)
           jump == [p \in 0 .. n |-> Min(MagicsAfter(disk, p))]
           stop == [p \in 0 .. n |-> BlockAt(p, <<>>)]
<1>1. n \in Nat /\ n = Len(file)
  BY DiskLen
<1>2. ASSUME NEW p \in 0 .. n, p \in Resyncs PROVE jump[p] \in p + 1 .. n
  <2>1. Min(MagicsAfter(disk, p)) \in p + 1 .. n
    BY <1>1, <1>2, NextMagic DEF Resyncs
  <2> QED BY <2>1
<1>3. ASSUME NEW p \in 0 .. n, NEW g
      PROVE  BlockAt(p, g) = IF p \in Resyncs THEN g[jump[p]] ELSE stop[p]
  <2>1. jump[p] = Min(MagicsAfter(disk, p)) /\ stop[p] = BlockAt(p, <<>>)
    OBVIOUS
  <2> HIDE DEF jump, stop
  <2>2. CASE p \in Resyncs
    BY <2>1, <2>2 DEF BlockAt, Resyncs
  <2>3. CASE p \notin Resyncs
    BY <2>1, <2>3 DEF BlockAt, Resyncs
  <2> QED BY <2>2, <2>3
<1> HIDE DEF n, jump, stop
<1>4. PICK g : Skips(g, n, Resyncs, jump, stop)
  <2>1. n \in Nat BY <1>1
  <2>2. \A p \in 0 .. n : p \in Resyncs => jump[p] \in p + 1 .. n BY <1>2
  <2> QED BY <2>1, <2>2, SkippingDefined
<1>5. g = [p \in 0 .. n |-> BlockAt(p, g)]
  <2>1. \A p \in 0 .. n : g[p] = BlockAt(p, g)
    BY <1>3, <1>4 DEF Skips
  <2> QED BY <2>1, <1>4 DEF Skips
<1>6. NextBlock = [p \in 0 .. n |-> BlockAt(p, NextBlock)]
  <2>1. NextBlock = CHOOSE f : f = [p \in 0 .. n |-> BlockAt(p, f)]
    BY DEF NextBlock, n
  <2> QED BY <2>1, <1>5
<1>7. ASSUME NEW p \in 0 .. n PROVE NextBlock[p] = BlockAt(p, NextBlock)
  <2>1. PICK h : h = NextBlock OBVIOUS
  <2>2. h = [q \in 0 .. n |-> BlockAt(q, h)] BY <2>1, <1>6
  <2>3. h[p] = BlockAt(p, h) BY <2>2
  <2> QED BY <2>1, <2>3
<1> QED BY <1>1, <1>7

\* what holds wherever it is stepped to holds everywhere
LEMMA Backwards ==
    ASSUME NEW n \in Nat, NEW good \in SUBSET (0 .. n),
           \A p \in 0 .. n : (\A q \in p + 1 .. n : q \in good) => p \in good
    PROVE  \A p \in 0 .. n : p \in good
<1> DEFINE bad == (0 .. n) \ good
<1> SUFFICES ASSUME bad # {} PROVE FALSE
  OBVIOUS
<1>1. PICK p \in bad : \A y \in bad : y <= p
  BY GreatestExists
<1>2. \A q \in p + 1 .. n : q \in good
  BY <1>1
<1> QED BY <1>1, <1>2

\* next_block keeps its promise.
LEMMA NextBlockScans ==
    ASSUME FileInv
    PROVE  \A p \in 0 .. Len(file) : Scanned(NextBlock[p], p)
<1> DEFINE n == Len(file)
           good == {p \in 0 .. n : Scanned(NextBlock[p], p)}
<1>1. n \in Nat /\ n = Len(disk)
  BY DiskLen
<1>2. ASSUME NEW p \in 0 .. n, \A q \in p + 1 .. n : q \in good PROVE p \in good
  <2>1. PICK b : b = NextBlock[p]
    OBVIOUS
  <2>2. b = BlockAt(p, NextBlock)
    BY <2>1, NextBlockDefined
  <2>3. CASE HeaderEof(disk, p)
    <3>1. b = EndOfFile
      BY <2>2, <2>3 DEF BlockAt
    <3>2. b.type = "end" /\ b.offset = n /\ b.after = n
      BY <3>1 DEF EndOfFile
    <3>3. ASSUME NEW o \in p .. n - 1 PROVE ~RowAt(o)
      <4> SUFFICES ASSUME RowAt(o) PROVE FALSE
        OBVIOUS
      <4>1. o \in Nat /\ o + 5 <= n
        BY RowIsRead
      <4>2. n < p + 4
        BY <1>1, <2>3 DEF HeaderEof, HeaderLen
      <4> QED BY <4>1, <4>2, <1>1
    <3> QED BY <2>1, <3>2, <3>3, <1>1 DEF Scanned, Placed, NonePassed
  <2>4. CASE ~HeaderEof(disk, p) /\ ~HeaderOk(disk, p)
    <3>0. ~RowAt(p)
      BY <2>4, RowIsRead
    <3>1. CASE MagicsAfter(disk, p) = {}
      <4>1. PICK w \in Nat : w = Window(disk, p) /\ w \in 0 .. n - p
                              /\ (w = n - p \/ w = Probe)
        BY WindowIs, <1>1
      <4>2. b = Failure(p + w)
        BY <2>2, <2>4, <3>1, <4>1 DEF BlockAt
      <4>3. b.type = "error" /\ b.offset = p + w /\ b.after = p + w
        BY <4>2 DEF Failure
      <4>4. ASSUME NEW o \in p .. p + w - 1, RowAt(o)
            PROVE  p < o /\ o = p + w - 1 /\ Hidden(o)
        <5>1. HasMagic(disk, o) /\ o + 5 <= n
          BY <4>4, RowIsRead
        <5>2. o # p BY <3>0, <4>4
        <5>3. ~(o \in p + 1 .. p + w - 2)
          BY <3>1, <4>1, <5>1 DEF MagicsAfter
        <5>4. o = p + w - 1
          BY <5>2, <5>3, <4>1, <1>1
        <5>5. w = Probe
          BY <5>1, <5>4, <4>1, <1>1
        <5>6. Probe <= o + 1 /\ o - Probe + 2 = p + 1 /\ o - 1 = p + w - 2 /\ p < o
          BY <5>2, <5>4, <5>5, <4>1, <1>1
        <5>7. ASSUME NEW q \in p + 1 .. p + w - 2 PROVE ~HasMagic(disk, q)
          BY <5>7, <3>1, <4>1 DEF MagicsAfter
        <5> QED BY <5>4, <5>6, <5>7 DEF Hidden
      <4>5. p + w \in p .. n BY <4>1, <1>1
      <4> QED BY <2>1, <3>0, <4>3, <4>4, <4>5 DEF Scanned, Placed, NonePassed
    <3>2. CASE MagicsAfter(disk, p) # {}
      <4>1. PICK m : m = Min(MagicsAfter(disk, p))
        OBVIOUS
      <4>2. /\ m \in MagicsAfter(disk, p) /\ \A q \in MagicsAfter(disk, p) : m <= q
            /\ m \in p + 1 .. n
        BY <3>2, <4>1, NextMagic, <1>1
      <4>3. b = NextBlock[m]
        BY <2>2, <2>4, <3>2, <4>1 DEF BlockAt
      <4>4. Scanned(b, m)
        BY <4>2, <4>3, <1>2
      <4>5. ASSUME NEW o \in p .. m - 1 PROVE ~RowAt(o)
        <5> SUFFICES ASSUME RowAt(o), o # p PROVE FALSE
          BY <3>0
        <5>1. HasMagic(disk, o)
          BY RowIsRead
        <5>2. PICK w \in Nat : w = Window(disk, p)
          BY WindowIs, <1>1
        <5>3. m <= p + w - 2
          BY <4>2, <5>2 DEF MagicsAfter
        <5>4. o \in p + 1 .. p + w - 2
          BY <5>2, <5>3, <4>2, <1>1
        <5>5. o \in MagicsAfter(disk, p)
          BY <5>1, <5>2, <5>4 DEF MagicsAfter
        <5> QED BY <5>5, <4>2
      <4>6. b.offset \in p .. n /\ b.after \in p .. n
        BY <4>2, <4>4, <1>1 DEF Scanned, Placed, NonePassed
      <4>7. ASSUME b.type # "error", NEW o \in p .. b.offset - 1 PROVE ~RowAt(o)
        BY <4>2, <4>4, <4>5, <4>6, <4>7 DEF Scanned, Placed, NonePassed
      <4>8. ASSUME b.type = "error", NEW o \in p .. b.after - 1, RowAt(o)
            PROVE  p < o /\ o = b.after - 1 /\ Hidden(o)
        BY <4>2, <4>4, <4>5, <4>6, <4>8 DEF Scanned, Placed, NonePassed
      <4> QED BY <2>1, <3>0, <4>4, <4>6, <4>7, <4>8 DEF Scanned, Placed, NonePassed
    <3> QED BY <3>1, <3>2
  <2>5. CASE ~HeaderEof(disk, p) /\ HeaderOk(disk, p)
    <3>1. disk[p + 3].bodyLen \in Nat /\ disk[p + 3] \in PreludeCell
      <4>1. p \in Nat OBVIOUS
      <4> QED BY <4>1, <2>5, HeaderIsStart
    <3>2. PICK a \in Nat : a = AfterBlock(disk, p) /\ p + 4 <= a
      BY <3>1 DEF AfterBlock, HeaderLen
    <3>3. ASSUME NEW o, RowAt(o), p < o PROVE a <= o
      BY <2>5, <3>2, <3>3, NoRowInside
    <3>4. CASE BodyEof(disk, p)
      <4>1. b = Failure(n)
        BY <2>2, <2>5, <3>4, <1>1 DEF BlockAt
      <4>2. b.type = "error" /\ b.offset = n /\ b.after = n
        BY <4>1 DEF Failure
      <4>3. ASSUME NEW o \in p .. n - 1 PROVE ~RowAt(o)
        <5> SUFFICES ASSUME RowAt(o) PROVE FALSE
          OBVIOUS
        <5>1. o # p BY <3>4, RowIsRead
        <5>2. a <= o BY <5>1, <3>3
        <5>3. n < a BY <3>2, <3>4, <1>1 DEF BodyEof, AfterBlock
        <5> QED BY <5>2, <5>3, <3>2, <1>1
      <4>4. ~RowAt(p)
        BY <3>4, RowIsRead
      <4> QED BY <2>1, <4>2, <4>3, <4>4, <1>1 DEF Scanned, Placed, NonePassed
    <3>5. CASE ~BodyEof(disk, p) /\ ~BodyOk(disk, p)
      <4>1. b = Failure(a)
        BY <2>2, <2>5, <3>2, <3>5 DEF BlockAt
      <4>2. b.type = "error" /\ b.offset = a /\ b.after = a
        BY <4>1 DEF Failure
      <4>3. a <= n
        BY <3>2, <3>5, <1>1 DEF BodyEof, AfterBlock
      <4>4. ASSUME NEW o \in p .. a - 1 PROVE ~RowAt(o)
        <5> SUFFICES ASSUME RowAt(o) PROVE FALSE
          OBVIOUS
        <5>1. o # p BY <3>5, RowIsRead
        <5>2. a <= o BY <5>1, <3>3
        <5> QED BY <5>2, <3>2
      <4>5. a \in p .. n BY <4>3, <3>2, <1>1
      <4>6. ~RowAt(p)
        BY <3>5, RowIsRead
      <4> QED BY <2>1, <4>2, <4>4, <4>5, <4>6 DEF Scanned, Placed, NonePassed
    <3>6. CASE ~BodyEof(disk, p) /\ BodyOk(disk, p)
      <4>1. /\ b.type = disk[p + 3].type /\ b.offset = p /\ b.body = BodyAt(disk, p)
            /\ b.after = a
        BY <2>2, <2>5, <3>2, <3>6 DEF BlockAt
      <4>2. ReadAt(b, p)
        BY <4>1, <2>5, <3>2, <3>6 DEF ReadAt
      <4>3. b.type \in {"packet", "cue", "index"} /\ a <= n
        BY <4>1, <4>2, <3>2, ReadIsKnown
      <4>4. a \in p .. n /\ p \in p .. n /\ p .. p - 1 = {}
        BY <4>3, <3>2, <1>1
      <4> QED BY <2>1, <4>1, <4>2, <4>3, <4>4 DEF Scanned, Placed, NonePassed
    <3> QED BY <3>4, <3>5, <3>6
  <2> QED BY <2>3, <2>4, <2>5
<1> HIDE DEF good
<1>3. good \in SUBSET (0 .. n)
  BY DEF good
<1>4. \A p \in 0 .. n : p \in good
  BY <1>1, <1>2, <1>3, Backwards
<1> QED BY <1>4 DEF good

Types == {"packet", "cue", "index"}

\* A block that next_block returns ends behind where it was asked for.
LEMMA NextIsBeyond ==
    ASSUME FileInv, NEW p \in 0 .. Len(file), NextBlock[p].type \in Types
    PROVE  NextBlock[p].after \in p + 1 .. Len(file)
<1>1. PICK b : b = NextBlock[p]
  OBVIOUS
<1>2. Placed(b, p) /\ b.type \in Types
  BY <1>1, NextBlockScans DEF Scanned
<1>3. b.offset \in p .. Len(file) /\ b.after \in p .. Len(file) /\ ReadAt(b, b.offset)
  BY <1>2 DEF Placed, Types
<1>4. b.offset \in Nat
  BY <1>3
<1>5. b.offset + 4 <= b.after
  BY <1>3, <1>4, ReadIsKnown
<1> QED BY <1>1, <1>3, <1>5

PastAt(p, skipped, found) ==
    IF NextBlock[p].type \in skipped THEN found[NextBlock[p].after] ELSE NextBlock[p]

LEMMA BlockPastDefined ==
    ASSUME FileInv, NEW skipped \in SUBSET Types
    PROVE  \E found : /\ \A p : BlockPast(NextBlock, skipped, p) = found[p]
                      /\ \A p \in 0 .. Len(file) : found[p] = PastAt(p, skipped, found)
<1> DEFINE n == Len(file)
           skip == {p \in 0 .. n : NextBlock[p].type \in skipped}
           jump == [p \in 0 .. n |-> NextBlock[p].after]
           stop == [p \in 0 .. n |-> NextBlock[p]]
           Past(f) == [p \in 0 .. n |->
               IF NextBlock[p].type \in skipped THEN f[NextBlock[p].after] ELSE NextBlock[p]]
           found == CHOOSE f : f = Past(f)
<1>1. n \in Nat
  BY DiskLen
<1>2. ASSUME NEW p \in 0 .. n, p \in skip PROVE jump[p] \in p + 1 .. n
  <2>1. NextBlock[p].type \in Types
    BY <1>2
  <2>2. NextBlock[p].after \in p + 1 .. n
    BY <2>1, NextIsBeyond
  <2> QED BY <2>2
<1>3. ASSUME NEW p \in 0 .. n, NEW f
      PROVE  /\ PastAt(p, skipped, f) = IF p \in skip THEN f[jump[p]] ELSE stop[p]
             /\ Past(f)[p] = PastAt(p, skipped, f)
  BY DEF PastAt
<1> HIDE DEF skip, jump, stop
<1>4. PICK g : Skips(g, n, skip, jump, stop)
  <2>1. n \in Nat BY <1>1
  <2>2. \A p \in 0 .. n : p \in skip => jump[p] \in p + 1 .. n BY <1>2
  <2> HIDE DEF n
  <2> QED BY <2>1, <2>2, SkippingDefined
<1>5. g = Past(g)
  <2>1. \A p \in 0 .. n : g[p] = PastAt(p, skipped, g)
    BY <1>3, <1>4 DEF Skips
  <2>2. g = [p \in 0 .. n |-> g[p]]
    BY <1>4 DEF Skips
  <2>3. \A p \in 0 .. n : g[p] = IF NextBlock[p].type \in skipped
                                 THEN g[NextBlock[p].after] ELSE NextBlock[p]
    BY <2>1 DEF PastAt
  <2> QED BY <2>2, <2>3
<1>6. found = Past(found)
  <2> HIDE DEF Past
  <2> QED BY <1>5
<1>7. \A p : BlockPast(NextBlock, skipped, p) = found[p]
  BY DEF BlockPast
<1>8. PICK h : h = found
  OBVIOUS
<1> HIDE DEF found
<1>9. h = Past(h)
  BY <1>6, <1>8
<1>10. ASSUME NEW p \in 0 .. n PROVE h[p] = PastAt(p, skipped, h)
  <2>1. Past(h)[p] = PastAt(p, skipped, h)
    BY <1>3
  <2> HIDE DEF Past
  <2> QED BY <2>1, <1>9
<1> HIDE DEF Past
<1> QED BY <1>7, <1>8, <1>10

\* Skipping blocks keeps the promise of next_block, as long as no packet is skipped.
LEMMA BlockPastScans ==
    ASSUME FileInv, NEW skipped \in SUBSET Types, NEW p \in 0 .. Len(file)
    PROVE  LET b == BlockPast(NextBlock, skipped, p)
           IN  /\ Placed(b, p) /\ b.type \notin skipped
               /\ "packet" \notin skipped => NonePassed(b, p)
<1> DEFINE n == Len(file)
           Kept(b, q) == /\ Placed(b, q) /\ b.type \notin skipped
                         /\ "packet" \notin skipped => NonePassed(b, q)
<1>1. n \in Nat
  BY DiskLen
<1>2. PICK found : /\ \A q : BlockPast(NextBlock, skipped, q) = found[q]
                   /\ \A q \in 0 .. n : found[q] = PastAt(q, skipped, found)
  BY BlockPastDefined
<1> DEFINE good == {q \in 0 .. n : Kept(found[q], q)}
<1>3. ASSUME NEW q \in 0 .. n, \A r \in q + 1 .. n : r \in good PROVE q \in good
  <2>1. PICK b : b = NextBlock[q]
    OBVIOUS
  <2>2. Placed(b, q) /\ NonePassed(b, q)
    BY <2>1, NextBlockScans DEF Scanned
  <2>3. CASE b.type \notin skipped
    <3>1. found[q] = b
      BY <1>2, <2>1, <2>3 DEF PastAt
    <3> QED BY <2>2, <2>3, <3>1
  <2>4. CASE b.type \in skipped
    <3>1. b.after \in q + 1 .. n
      BY <2>1, <2>4, NextIsBeyond
    <3>2. PICK c : c = found[b.after]
      OBVIOUS
    <3>3. found[q] = c
      BY <1>2, <2>1, <2>4, <3>2 DEF PastAt
    <3>4. Kept(c, b.after)
      BY <3>1, <3>2, <1>3
    <3>5. Placed(c, q)
      BY <3>1, <3>4, <1>1 DEF Placed
    <3>6. ASSUME "packet" \notin skipped PROVE NonePassed(c, q)
      <4>1. b.type # "packet" /\ b.type # "error"
        BY <2>4, <3>6 DEF Types
      <4>2. ReadAt(b, b.offset) /\ b.offset \in q .. n
        BY <2>2, <2>4 DEF Placed, Types
      <4>3. ASSUME NEW o \in q .. b.after - 1 PROVE ~RowAt(o)
        <5>1. CASE o < b.offset
          <6>1. o \in q .. b.offset - 1
            BY <5>1, <4>2, <3>1, <1>1
          <6> QED BY <6>1, <2>2, <4>1 DEF NonePassed
        <5>2. CASE o = b.offset
          <6>1. RowAt(o) => disk[o + 3].type = "packet"
            BY RowIsRead
          <6> QED BY <5>2, <6>1, <4>1, <4>2 DEF ReadAt
        <5>3. CASE b.offset < o
          <6>1. b.offset \in Nat
            BY <4>2
          <6>2. HeaderOk(disk, b.offset) /\ b.after = AfterBlock(disk, b.offset)
            BY <4>2 DEF ReadAt
          <6>3. RowAt(o) => b.after <= o
            BY <6>1, <6>2, <5>3, NoRowInside
          <6> QED BY <6>3, <3>1, <1>1, <4>3
        <5> QED BY <5>1, <5>2, <5>3, <4>2, <4>3
      <4>4. NonePassed(c, b.after) /\ Placed(c, b.after)
        BY <3>4, <3>6
      <4>5. c.offset \in b.after .. n /\ c.after \in b.after .. n
        BY <4>4 DEF Placed
      <4>6. ASSUME c.type # "error", NEW o \in q .. c.offset - 1 PROVE ~RowAt(o)
        <5>1. o \in q .. b.after - 1 \/ o \in b.after .. c.offset - 1
          BY <3>1, <4>5, <4>6, <1>1
        <5> QED BY <5>1, <4>3, <4>4, <4>6 DEF NonePassed
      <4>7. ASSUME c.type = "error", NEW o \in q .. c.after - 1, RowAt(o)
            PROVE  q < o /\ o = c.after - 1 /\ Hidden(o)
        <5>1. o \in q .. b.after - 1 \/ o \in b.after .. c.after - 1
          BY <3>1, <4>5, <4>7, <1>1
        <5>2. o \in b.after .. c.after - 1 /\ q < o
          BY <5>1, <4>3, <4>7, <3>1, <1>1
        <5> QED BY <5>2, <4>4, <4>7 DEF NonePassed
      <4>8. ~RowAt(q)
        BY <3>1, <4>3, <1>1
      <4> QED BY <4>6, <4>7, <4>8 DEF NonePassed
    <3> QED BY <3>3, <3>4, <3>5, <3>6
  <2> QED BY <2>3, <2>4
<1> HIDE DEF good
<1>4. good \in SUBSET (0 .. n)
  BY DEF good
<1>5. p \in good
  <2>1. p \in 0 .. n OBVIOUS
  <2> HIDE DEF n
  <2>2. \A q \in 0 .. n : q \in good
    BY <1>1, <1>3, <1>4, Backwards
  <2> QED BY <2>1, <2>2
<1>6. BlockPast(NextBlock, skipped, p) = found[p]
  BY <1>2
<1> QED BY <1>5, <1>6 DEF good

\* What rebuild_index collects of one block.
Collects(p, types) == IF NextBlock[p].type \in types THEN EntriesIn(NextBlock[p]) ELSE <<>>

CollectedAt(p, types, c) ==
    IF NextBlock[p].type \in {"packet", "cue"}
    THEN Collects(p, types) \o c[NextBlock[p].after]
    ELSE <<>>

LEMMA CollectsType ==
    ASSUME FileInv, NEW types \in SUBSET {"packet", "cue"}, NEW p \in 0 .. Len(file)
    PROVE  Collects(p, types) \in Seq(EntriesBelow(Len(file), log))
<1>1. PICK b : b = NextBlock[p]
  OBVIOUS
<1>2. Placed(b, p)
  BY <1>1, NextBlockScans DEF Scanned
<1>3. CASE b.type = "packet" /\ b.type \in types
  <2>1. ReadAt(b, b.offset) /\ b.offset \in Nat
    BY <1>2, <1>3 DEF Placed
  <2>2. PICK r \in ToSet(log) : RowOf(b, r)
    BY <2>1, <1>3, PacketRow
  <2>3. r.packet \in Packet
    BY <2>2, IntactCells DEF RowOf
  <2>4. PICK q \in Packet : q = PacketIn(b)
    BY <2>2, <2>3 DEF RowOf
  <2>5. b.offset < Len(file)
    <3>1. b.offset + 4 <= b.after /\ b.after \in Nat /\ b.after <= Len(file)
      BY <2>1, ReadIsKnown
    <3> QED BY <3>1, <2>1, DiskLen
  <2>6. EntriesIn(b) = <<[packet_number |-> q.sequence, file_offset |-> b.offset,
                          track |-> q.track, key |-> q.key, pts |-> q.pts]>>
    BY <1>3, <2>4 DEF EntriesIn
  <2>9. PICK k \in 1 .. Len(log) : r = log[k]
    <3>1. DOMAIN log = 1 .. Len(log)
      BY LenProperties DEF FileInv, MuxInv, MuxTyped
    <3> QED BY <3>1 DEF ToSet
  <2>10. r.offset = b.offset /\ r.packet = q
    BY <2>2, <2>4 DEF RowOf
  <2>7. [packet_number |-> q.sequence, file_offset |-> b.offset,
         track |-> q.track, key |-> q.key, pts |-> q.pts] \in EntriesBelow(Len(file), log)
    <3>1. PICK e : e = [packet_number |-> q.sequence, file_offset |-> b.offset,
                        track |-> q.track, key |-> q.key, pts |-> q.pts]
      OBVIOUS
    <3>2. e \in Entry /\ e.file_offset < Len(file)
      BY <3>1, <2>1, <2>4, <2>5 DEF Packet, Entry
    <3>3. e = EntryFor(r)
      BY <3>1, <2>10 DEF EntryFor
    <3>5. e.file_offset + Len(PacketBlock(r.packet)) <= Len(file)
      <4>1. b.after = r.offset + Len(PacketBlock(r.packet)) /\ r.offset = b.offset
        BY <2>2 DEF RowOf
      <4>2. b.after <= Len(file)
        BY <2>1, ReadIsKnown
      <4> QED BY <4>1, <4>2, <3>1
    <3>4. e \in EntriesBelow(Len(file), log)
      BY <3>2, <3>3, <3>5, <2>9 DEF EntriesBelow
    <3> QED BY <3>1, <3>4
  <2>8. EntriesIn(b) \in Seq(EntriesBelow(Len(file), log))
    BY <2>6, <2>7
  <2> QED BY <1>1, <1>3, <2>8 DEF Collects
<1>4. CASE b.type = "cue" /\ b.type \in types
  <2>1. ReadAt(b, b.offset) /\ b.offset \in Nat
    BY <1>2, <1>4 DEF Placed
  <2>2. Tail(b.body) \in Seq(EntriesBelow(b.offset, log))
    BY <2>1, <1>4, ReadIsKnown
  <2>3. b.offset <= Len(file)
    BY <1>2 DEF Placed
  <2>4. EntriesBelow(b.offset, log) \subseteq EntriesBelow(Len(file), log)
    BY <2>1, <2>3, DiskLen DEF EntriesBelow, Entry
  <2>5. Tail(b.body) \in Seq(EntriesBelow(Len(file), log))
    BY <2>2, <2>4, SeqMonotonic
  <2>6. EntriesIn(b) = Tail(b.body)
    BY <1>4 DEF EntriesIn
  <2> QED BY <1>1, <1>4, <2>5, <2>6 DEF Collects
<1>5. CASE b.type \notin types
  BY <1>1, <1>5 DEF Collects
<1> QED BY <1>3, <1>4, <1>5

LEMMA EntriesAlongDefined ==
    ASSUME FileInv, NEW types \in SUBSET {"packet", "cue"}
    PROVE  \E c \in [0 .. Len(file) -> Seq(EntriesBelow(Len(file), log))] :
               /\ EntriesAlong(NextBlock, types) = c[DataStart]
               /\ \A p \in 0 .. Len(file) : c[p] = CollectedAt(p, types, c)
<1> DEFINE n == Len(file)
           V == Seq(EntriesBelow(n, log))
           skip == {p \in 0 .. n : NextBlock[p].type \in {"packet", "cue"}}
           jump == [p \in 0 .. n |-> NextBlock[p].after]
           combine == [p \in 0 .. n |-> [v \in V |-> Collects(p, types) \o v]]
           stop == [p \in 0 .. n |-> <<>>]
           Collected(f) == [p \in 0 .. n |->
               IF NextBlock[p].type \in {"packet", "cue"}
               THEN (IF NextBlock[p].type \in types THEN EntriesIn(NextBlock[p]) ELSE <<>>)
                       \o f[NextBlock[p].after]
               ELSE <<>>]
           collected == CHOOSE f : f = Collected(f)
<1>1. n \in Nat
  BY DiskLen
<1>2. ASSUME NEW p \in 0 .. n, p \in skip PROVE jump[p] \in p + 1 .. n
  <2>1. NextBlock[p].type \in Types
    BY <1>2 DEF Types
  <2>2. NextBlock[p].after \in p + 1 .. n
    BY <2>1, NextIsBeyond
  <2> QED BY <2>2
<1>3. ASSUME NEW p \in 0 .. n
      PROVE  /\ combine[p] \in [V -> V] /\ stop[p] \in V
             /\ \A v \in V : combine[p][v] = Collects(p, types) \o v
  <2>1. Collects(p, types) \in V
    BY CollectsType
  <2>2. \A v \in V : Collects(p, types) \o v \in V
    BY <2>1, ConcatProperties
  <2>3. stop[p] \in V
    OBVIOUS
  <2> HIDE DEF V
  <2> QED BY <2>2, <2>3
<1>4. ASSUME NEW f
      PROVE  Collected(f) = [p \in 0 .. n |-> CollectedAt(p, types, f)]
  BY DEF CollectedAt, Collects
<1> HIDE DEF Collected
<1>5. ASSUME NEW p \in 0 .. n, NEW f, \A q \in 0 .. n : f[q] \in V
      PROVE  CollectedAt(p, types, f) = IF p \in skip THEN combine[p][f[jump[p]]] ELSE stop[p]
  <2>1. CASE p \in skip
    <3>1. jump[p] \in 0 .. n /\ jump[p] = NextBlock[p].after
      BY <1>2, <2>1
    <3>2. combine[p][f[jump[p]]] = Collects(p, types) \o f[jump[p]]
      BY <3>1, <1>3, <1>5
    <3> QED BY <3>1, <3>2, <2>1 DEF CollectedAt
  <2>2. CASE p \notin skip
    BY <2>2 DEF CollectedAt
  <2> QED BY <2>1, <2>2
<1>6. PICK g \in [0 .. n -> V] : Follows(g, 0, n, skip, jump, combine, stop)
  <2>1. n \in Nat BY <1>1
  <2>2. \A p \in 0 .. n : p \in skip => jump[p] \in p + 1 .. n /\ combine[p] \in [V -> V]
    BY <1>2, <1>3
  <2>3. \A p \in 0 .. n : p \notin skip => stop[p] \in V
    BY <1>3
  <2> HIDE DEF n, V, skip, jump, combine, stop
  <2> QED BY <2>1, <2>2, <2>3, BackwardsDefined
<1>7. \A q \in 0 .. n : g[q] \in V
  <2> HIDE DEF V
  <2> QED OBVIOUS
<1> HIDE DEF V, skip, jump, combine, stop
<1>8. \A p \in 0 .. n : g[p] = CollectedAt(p, types, g)
  BY <1>5, <1>6, <1>7 DEF Follows
<1>9. g = Collected(g)
  <2>1. g = [p \in 0 .. n |-> g[p]]
    OBVIOUS
  <2> QED BY <2>1, <1>4, <1>8
<1>10. PICK c : c = collected
  OBVIOUS
<1>11. c = Collected(c)
  BY <1>9, <1>10
<1>12. EntriesAlong(NextBlock, types) = c[DataStart]
  BY <1>10 DEF EntriesAlong, Collected
<1> HIDE DEF collected
<1>13. \A p \in 0 .. n : c[p] = CollectedAt(p, types, c)
  <2>1. c = [p \in 0 .. n |-> CollectedAt(p, types, c)]
    BY <1>4, <1>11
  <2>2. ASSUME NEW p \in 0 .. n PROVE c[p] = CollectedAt(p, types, c)
    BY <2>1
  <2> QED BY <2>2
<1> DEFINE good == {q \in 0 .. n : c[q] \in V}
<1>14. ASSUME NEW p \in 0 .. n, \A q \in p + 1 .. n : q \in good PROVE p \in good
  <2>1. CASE NextBlock[p].type \in {"packet", "cue"}
    <3>1. NextBlock[p].after \in p + 1 .. n
      BY <2>1, NextIsBeyond DEF Types
    <3>2. c[NextBlock[p].after] \in V
      BY <3>1, <1>14
    <3>3. Collects(p, types) \in V
      BY CollectsType DEF V
    <3>4. Collects(p, types) \o c[NextBlock[p].after] \in V
      BY <3>2, <3>3, ConcatProperties DEF V
    <3>5. c[p] = Collects(p, types) \o c[NextBlock[p].after]
      BY <2>1, <1>13 DEF CollectedAt
    <3> QED BY <3>4, <3>5
  <2>2. CASE NextBlock[p].type \notin {"packet", "cue"}
    <3>1. c[p] = <<>>
      BY <2>2, <1>13 DEF CollectedAt
    <3>2. c[p] \in V
      BY <3>1 DEF V
    <3> QED BY <3>2
  <2> QED BY <2>1, <2>2
<1> HIDE DEF good
<1>15. \A p \in 0 .. n : p \in good
  <2>1. good \in SUBSET (0 .. n)
    BY DEF good
  <2> HIDE DEF n
  <2> QED BY <2>1, <1>1, <1>14, Backwards
<1>16. c \in [0 .. n -> V]
  <2>1. c = [p \in 0 .. n |-> CollectedAt(p, types, c)]
    BY <1>4, <1>11
  <2>2. \A p \in 0 .. n : CollectedAt(p, types, c) \in V
    BY <1>13, <1>15 DEF good
  <2> QED BY <2>1, <2>2
<1> QED BY <1>12, <1>13, <1>16 DEF V

\* rebuild_index ends inside the file with entries that lead into it.
LEMMA RebuiltType ==
    ASSUME FileInv
    PROVE  /\ Rebuilt.index \in Seq(EntriesBelow(Len(file), log))
           /\ Rebuilt.reader \in 0 .. Len(file) /\ Rebuilt.ok \in BOOLEAN
<1> DEFINE final == BlockPast(NextBlock, {"packet", "cue"}, DataStart)
<1>1. DataStart \in 0 .. Len(file) /\ {"packet", "cue"} \in SUBSET Types
  BY DiskLen DEF DataStart, FileStart, Types
<1>2. Placed(final, DataStart)
  BY <1>1, BlockPastScans
<1>3. EntriesAlong(NextBlock, {"packet", "cue"}) \in Seq(EntriesBelow(Len(file), log))
  BY <1>1, EntriesAlongDefined
<1>4. Rebuilt = RebuiltOf(NextBlock, final)
  BY DEF Rebuilt, RebuiltFrom
<1> HIDE DEF final
<1>5. PICK a, es, t : a = final.after /\ t = final.type /\ es = Tail(final.body)
  OBVIOUS
<1>6. t = "index" => es \in Seq(EntriesBelow(Len(file), log))
  <2> SUFFICES ASSUME t = "index" PROVE es \in Seq(EntriesBelow(Len(file), log))
    OBVIOUS
  <2>1. ReadAt(final, final.offset) /\ final.offset \in DataStart .. Len(file)
    BY <1>2, <1>5 DEF Placed
  <2>2. final.offset \in Nat
    BY <2>1, <1>1
  <2>3. es \in Seq(EntriesBelow(final.offset, log))
    BY <2>1, <2>2, <1>5, ReadIsKnown
  <2>4. EntriesBelow(final.offset, log) \subseteq EntriesBelow(Len(file), log)
    BY <2>1, <2>2, DiskLen DEF EntriesBelow, Entry
  <2> QED BY <2>3, <2>4, SeqMonotonic
<1>7. Rebuilt.index \in Seq(EntriesBelow(Len(file), log))
  BY <1>3, <1>4, <1>5, <1>6 DEF RebuiltOf
<1>8. a \in 0 .. Len(file)
  <2>1. a \in DataStart .. Len(file)
    BY <1>2, <1>5 DEF Placed
  <2> QED BY <2>1, <1>1
<1>9. Rebuilt.reader = a /\ Rebuilt.ok \in BOOLEAN
  BY <1>4, <1>5 DEF RebuiltOf
<1> QED BY <1>7, <1>8, <1>9

-----------------------------------------------------------------------------
(* The reader over its file.                                               *)

ReaderInv ==
    /\ reader \in 0 .. Len(file) /\ origin \in 0 .. Len(file)
    /\ index \in Seq(EntriesBelow(Len(file), log))
    /\ last.kind \in {"none", "end", "error", "packet", "entry"}
    /\ last.kind = "entry" => last.entry \in EntriesBelow(Len(file), log)
    /\ phase = "writing" => reader = 0 /\ origin = 0 /\ index = <<>> /\ last = None
                              /\ seen = <<>> /\ disk = file

DemuxInv == FileInv /\ ReaderInv

LEMMA InitDemux == DemuxInit => DemuxInv
<1> SUFFICES ASSUME DemuxInit PROVE DemuxInv
  OBVIOUS
<1>1. MuxInv /\ MuxLaid
  BY InitMux, InitLaid DEF DemuxInit
<1>2. file \in Seq(Cell) /\ Len(file) \in Nat /\ disk = file
  BY <1>1, LenProperties DEF DemuxInit, MuxInv, MuxTyped
<1>3. DiskTyped
  <2>1. Cell \subseteq DiskCell
    BY DEF DiskCell
  <2> QED BY <2>1, <1>2, SeqMonotonic DEF DiskTyped
<1>4. index \in Seq(EntriesBelow(Len(file), log))
  BY DEF DemuxInit
<1>5. last.kind = "none"
  BY DEF DemuxInit, None
<1> QED BY <1>1, <1>2, <1>3, <1>4, <1>5 DEF DemuxInit, DemuxInv, FileInv, ReaderInv

\* Reading and the caller's steps leave the file as it is.
LEMMA FileKept ==
    ASSUME UNCHANGED <<muxVars, disk>>
    PROVE  /\ FileInv => FileInv'
           /\ file' = file /\ log' = log /\ phase' = phase /\ disk' = disk
           /\ \A r : Intact(r)' <=> Intact(r)
           /\ \A o : Hidden(o)' <=> Hidden(o)
<1>1. /\ file' = file /\ packet_count' = packet_count /\ cue_count' = cue_count
      /\ sequence' = sequence /\ entries' = entries
      /\ pending_cue_start' = pending_cue_start /\ phase' = phase /\ log' = log
      /\ disk' = disk
  BY DEF muxVars
<1>2. MuxInv => MuxInv'
  BY <1>1 DEF MuxInv, MuxTyped, EntriesPointAtPackets
<1>3. MuxLaid => MuxLaid'
  BY <1>1 DEF MuxLaid, RowsRight
<1>4. DiskTyped => DiskTyped'
  BY <1>1 DEF DiskTyped
<1>5. \A r : Intact(r)' <=> Intact(r)
  BY <1>1 DEF Intact, damaged
<1>6. \A o : Hidden(o)' <=> Hidden(o)
  BY <1>1 DEF Hidden
<1> QED BY <1>1, <1>2, <1>3, <1>4, <1>5, <1>6 DEF FileInv

LEMMA WriteKeeps ==
    ASSUME DemuxInv, Write
    PROVE  DemuxInv'
<1>1. /\ MuxNext /\ disk' = file' /\ MuxInv /\ MuxLaid
      /\ UNCHANGED <<reader, index, last, origin, seen>>
  BY DEF DemuxInv, FileInv, Write
<1>2. MuxInv' /\ MuxLaid' /\ phase = "writing"
  <2>1. CASE \E frame \in Frames : WritePacket(frame)
    <3>1. PICK frame \in Frames : WritePacket(frame)
      BY <2>1
    <3>2. phase = "writing"
      BY <3>1 DEF WritePacket
    <3> QED BY <3>1, <3>2, <1>1, StepWritePacket, LaidWritePacket
  <2>2. CASE Finalize \/ Crash
    <3>1. phase = "writing"
      BY <2>2 DEF Finalize, Crash
    <3> QED BY <2>2, <3>1, <1>1, StepEnd, LaidEnd
  <2> QED BY <1>1, <2>1, <2>2 DEF MuxNext
<1>3. file' \in Seq(Cell) /\ Len(file') \in Nat
  BY <1>2, LenProperties DEF MuxInv, MuxTyped
<1>4. DiskTyped'
  <2>1. Cell \subseteq DiskCell
    BY DEF DiskCell
  <2> QED BY <2>1, <1>1, <1>3, SeqMonotonic DEF DiskTyped
<1>5. /\ reader' = 0 /\ origin' = 0 /\ index' = <<>> /\ last' = None /\ seen' = <<>>
  BY <1>1, <1>2 DEF DemuxInv, ReaderInv
<1>6. index' \in Seq(EntriesBelow(Len(file'), log'))
  BY <1>5
<1>7. last'.kind = "none"
  BY <1>5 DEF None
<1> QED BY <1>1, <1>2, <1>3, <1>4, <1>5, <1>6, <1>7 DEF DemuxInv, FileInv, ReaderInv

LEMMA DamageKeeps ==
    ASSUME DemuxInv, NEW i \in DataStart + 1 .. Len(file), Damage(i)
    PROVE  DemuxInv'
<1>1. /\ file' = file /\ packet_count' = packet_count /\ cue_count' = cue_count
      /\ sequence' = sequence /\ entries' = entries
      /\ pending_cue_start' = pending_cue_start /\ phase' = phase /\ log' = log
      /\ disk' = [disk EXCEPT ![i] = Damaged] /\ phase # "writing"
      /\ UNCHANGED <<reader, index, last, origin, seen>>
  BY DEF Damage, muxVars
<1>2. MuxInv'
  BY <1>1 DEF DemuxInv, FileInv, MuxInv, MuxTyped, EntriesPointAtPackets
<1>3. MuxLaid'
  BY <1>1 DEF DemuxInv, FileInv, MuxLaid, RowsRight
<1>4. DiskTyped'
  <2>1. disk \in Seq(DiskCell) /\ Len(disk) = Len(file)
          /\ \A j \in 1 .. Len(file) : disk[j] \in {file[j], Damaged}
    BY DEF DemuxInv, FileInv, DiskTyped
  <2>2. Damaged \in DiskCell
    BY DEF DiskCell
  <2>3. disk' \in Seq(DiskCell) /\ Len(disk') = Len(disk)
          /\ \A j \in 1 .. Len(disk) : disk'[j] = IF j = i THEN Damaged ELSE disk[j]
    <3>1. i \in 1 .. Len(disk)
      BY <2>1 DEF DataStart, FileStart
    <3>2. disk \in Seq(DiskCell) BY <2>1
    <3> QED BY <3>1, <3>2, <2>2, <1>1, ExceptSeq
  <2> QED BY <2>1, <2>3, <1>1 DEF DiskTyped
<1>5. ReaderInv'
  BY <1>1 DEF DemuxInv, ReaderInv
<1> QED BY <1>2, <1>3, <1>4, <1>5 DEF DemuxInv, FileInv

\* What a seek does, whichever entries it looks at.
SeekStep ==
    /\ Opened /\ UNCHANGED <<muxVars, disk>>
    /\ index' = index \/ index' = Rebuilt.index
    /\ \/ Stay /\ last' = None
       \/ MoveTo(Rebuilt.reader) /\ last' = Error
       \/ \E i \in DOMAIN index' :
             MoveTo(index'[i].file_offset) /\ last' = [kind |-> "entry", entry |-> index'[i]]

LEMMA SeekIs ==
    /\ \A pts \in Targets : SeekNearest(pts) => SeekStep
    /\ \A track \in Track, pts \in Targets : SeekKeyframe(track, pts) => SeekStep
<1>1. ASSUME NEW pts \in Targets, SeekNearest(pts) PROVE SeekStep
  BY <1>1 DEF SeekNearest, SeekAmong, SeekStep, Latest
<1>2. ASSUME NEW track \in Track, NEW pts \in Targets, SeekKeyframe(track, pts) PROVE SeekStep
  BY <1>2 DEF SeekKeyframe, SeekAmong, SeekStep, Latest
<1> QED BY <1>1, <1>2

\* The step of every call.
Calls == Open \/ NextPacket \/ ResetToDataStart \/ RebuildIndex \/ SeekStep

LEMMA CallKeeps ==
    ASSUME DemuxInv, Calls
    PROVE  DemuxInv'
<1>1. UNCHANGED <<muxVars, disk>> /\ phase # "writing"
  BY DEF Calls, Open, NextPacket, ResetToDataStart, RebuildIndex, SeekStep, Opened, DemuxInv, ReaderInv
<1>2. FileInv' /\ file' = file /\ log' = log /\ phase' = phase
  BY <1>1, FileKept DEF DemuxInv
<1>3. DataStart \in 0 .. Len(file) /\ Len(file) \in Nat
  BY DiskLen DEF DemuxInv, DataStart, FileStart
<1>4. /\ Rebuilt.index \in Seq(EntriesBelow(Len(file), log)) /\ Rebuilt.reader \in 0 .. Len(file)
  BY RebuiltType DEF DemuxInv
<1>5. ReaderInv
  BY DEF DemuxInv
<1>6. last.kind = "entry" => last.entry \in EntriesBelow(Len(file), log)
  BY <1>5 DEF ReaderInv
<1> DEFINE NewReader == reader' \in 0 .. Len(file) /\ origin' \in 0 .. Len(file)
           NewIndex == index' \in Seq(EntriesBelow(Len(file), log))
           NewLast == /\ last'.kind \in {"none", "end", "error", "packet", "entry"}
                      /\ last'.kind = "entry" => last'.entry \in EntriesBelow(Len(file), log)
<1>7. CASE Open \/ ResetToDataStart
  <2>1. reader' = DataStart /\ origin' = DataStart /\ index' = index /\ last' = last
    BY <1>7 DEF Open, ResetToDataStart, MoveTo
  <2> QED BY <2>1, <1>1, <1>2, <1>3, <1>5 DEF ReaderInv, DemuxInv
<1>8. CASE NextPacket
  <2>1. PICK b : /\ b = NextPacketFrom(reader) /\ reader' = b.after
                 /\ \/ last' = Found(PacketIn(b)) \/ last' = End \/ last' = Error
                 /\ index' = index /\ origin' = origin
    BY <1>8 DEF NextPacket
  <2>2. Placed(b, reader)
    <3>1. {"cue", "index"} \in SUBSET Types /\ reader \in 0 .. Len(file) /\ FileInv
      BY <1>5 DEF Types, ReaderInv, DemuxInv
    <3> QED BY <3>1, <2>1, BlockPastScans DEF NextPacketFrom
  <2>3. reader' \in 0 .. Len(file)
    BY <2>1, <2>2, <1>3, <1>5 DEF Placed, ReaderInv
  <2>4. last'.kind \in {"packet", "end", "error"}
    BY <2>1 DEF Found, End, Error
  <2> QED BY <2>1, <2>3, <2>4, <1>1, <1>2, <1>5 DEF ReaderInv, DemuxInv
<1>9. CASE RebuildIndex
  <2>1. /\ index' = Rebuilt.index
        /\ \/ Stay /\ last' = None
           \/ MoveTo(Rebuilt.reader) /\ last' = Error
    BY <1>9 DEF RebuildIndex
  <2>2. reader' \in 0 .. Len(file) /\ origin' \in 0 .. Len(file)
    BY <2>1, <1>4, <1>5 DEF Stay, MoveTo, ReaderInv
  <2>3. last'.kind \in {"none", "error"}
    BY <2>1 DEF None, Error
  <2> QED BY <2>1, <2>2, <2>3, <1>1, <1>2, <1>4 DEF ReaderInv, DemuxInv
<1>10. CASE SeekStep
  <2>1. index' \in Seq(EntriesBelow(Len(file), log))
    BY <1>10, <1>4, <1>5 DEF SeekStep, ReaderInv
  <2>2. CASE Stay /\ last' = None
    <3>1. last'.kind = "none" /\ reader' = reader /\ origin' = origin
      BY <2>2 DEF None, Stay
    <3> QED BY <3>1, <2>1, <1>1, <1>2, <1>5 DEF ReaderInv, DemuxInv
  <2>3. CASE MoveTo(Rebuilt.reader) /\ last' = Error
    <3>1. last'.kind = "error" /\ reader' = Rebuilt.reader /\ origin' = Rebuilt.reader
      BY <2>3 DEF Error, MoveTo
    <3> QED BY <3>1, <2>1, <1>1, <1>2, <1>4 DEF ReaderInv, DemuxInv
  <2>4. ASSUME NEW i \in DOMAIN index', MoveTo(index'[i].file_offset),
               last' = [kind |-> "entry", entry |-> index'[i]]
        PROVE  DemuxInv'
    <3>1. index'[i] \in EntriesBelow(Len(file), log)
      BY <2>1, <2>4, LenProperties, ElementOfSeq
    <3>2. PICK e \in EntriesBelow(Len(file), log) : e = index'[i]
      BY <3>1
    <3>3. e.file_offset \in 0 .. Len(file)
      BY <1>3 DEF EntriesBelow, Entry
    <3>4. reader' \in 0 .. Len(file) /\ origin' \in 0 .. Len(file)
      BY <2>4, <3>2, <3>3 DEF MoveTo
    <3>5. last'.kind = "entry" /\ last'.entry \in EntriesBelow(Len(file), log)
      BY <2>4, <3>1
    <3> QED BY <2>1, <3>4, <3>5, <1>1, <1>2 DEF ReaderInv, DemuxInv
  <2> QED BY <1>10, <2>2, <2>3, <2>4 DEF SeekStep
<1> QED BY <1>7, <1>8, <1>9, <1>10 DEF Calls

LEMMA DemuxStep ==
    ASSUME DemuxInv, [DemuxNext]_vars
    PROVE  DemuxInv'
<1>1. CASE UNCHANGED vars
  <2>1. UNCHANGED <<muxVars, disk>> /\ UNCHANGED <<reader, index, last, origin, seen>>
    BY <1>1 DEF vars, demuxVars
  <2>2. FileInv' /\ file' = file /\ log' = log /\ phase' = phase /\ disk' = disk
    BY <2>1, FileKept DEF DemuxInv
  <2> QED BY <2>1, <2>2 DEF DemuxInv, ReaderInv
<1>2. CASE Write
  BY <1>2, WriteKeeps
<1>3. CASE \E i \in DataStart + 1 .. Len(file) : Damage(i)
  BY <1>3, DamageKeeps
<1>4. CASE Calls
  BY <1>4, CallKeeps
<1> QED BY <1>1, <1>2, <1>3, <1>4, SeekIs DEF DemuxNext, Calls

LEMMA DemuxAlways == DemuxSpec => []DemuxInv
BY InitDemux, DemuxStep, PTL DEF DemuxSpec

\* Writer, file and reader are well typed in every reachable state, whatever is
\* damaged: a reader never leaves its file, whatever index it follows.
THEOREM ReaderTypeCorrect == DemuxSpec => []DemuxTypeOK
<1>1. DemuxInv => DemuxTypeOK
  <2> SUFFICES ASSUME DemuxInv PROVE DemuxTypeOK
    OBVIOUS
  <2>1. MuxTypeOK
    BY LenProperties DEF DemuxInv, FileInv, MuxInv, MuxTyped, MuxTypeOK
  <2>2. EntriesBelow(Len(file), log) \subseteq Entry
    BY DEF EntriesBelow
  <2>3. index \in Seq(Entry)
    BY <2>2, SeqMonotonic DEF DemuxInv, ReaderInv
  <2>4. DOMAIN file = 1 .. Len(file)
    BY DiskLen DEF DemuxInv
  <2> QED BY <2>1, <2>3, <2>4 DEF DemuxTypeOK, DemuxInv, FileInv, DiskTyped, ReaderInv
<1> QED BY DemuxAlways, <1>1, PTL

\* With a reader at work too, and whatever it is damaged by, the writer's file
\* keeps every entry right.
THEOREM EntriesStayRight == DemuxSpec => []EntriesPointAtPackets
<1>1. DemuxInv => EntriesPointAtPackets
  BY DEF DemuxInv, FileInv, MuxInv
<1> QED BY DemuxAlways, <1>1, PTL

-----------------------------------------------------------------------------
(* What reading on hands out.                                              *)

\* Two packets do not lie at one place.
LEMMA RowsApart ==
    ASSUME FileInv, NEW r \in ToSet(log), NEW q \in ToSet(log), r.offset = q.offset
    PROVE  r = q
<1>1. DOMAIN log = 1 .. Len(log) /\ log \in Seq(Row) /\ Len(log) \in Nat
  BY LenProperties DEF FileInv, MuxInv, MuxTyped
<1>2. PICK k \in 1 .. Len(log), l \in 1 .. Len(log) : r = log[k] /\ q = log[l]
  BY <1>1 DEF ToSet
<1>3. k < l => log[k].offset < log[l].offset
  BY DEF FileInv, MuxLaid, RowsRight
<1>4. l < k => log[l].offset < log[k].offset
  BY DEF FileInv, MuxLaid, RowsRight
<1>5. log[k].offset \in Nat
  <2>1. log[k] \in Row BY <1>1, ElementOfSeq
  <2> QED BY <2>1 DEF Row
<1> QED BY <1>1, <1>2, <1>3, <1>4, <1>5

SeenInv ==
    Opened => /\ seen \in Seq(Row) /\ origin <= reader
              /\ ReadsIntactPackets

\* Where next_packet stops, and what lies before.
LEMMA NextPacketScans ==
    ASSUME DemuxInv, NEW b, b = NextPacketFrom(reader)
    PROVE  /\ Placed(b, reader) /\ NonePassed(b, reader) /\ b.type \notin {"cue", "index"}
           /\ b.offset \in Nat /\ b.after \in Nat /\ reader \in Nat
           /\ b.type = "packet" => \E r \in ToSet(log) : RowOf(b, r)
<1>1. {"cue", "index"} \in SUBSET Types /\ reader \in 0 .. Len(file) /\ FileInv
  BY DEF Types, ReaderInv, DemuxInv
<1>2. Placed(b, reader) /\ NonePassed(b, reader) /\ b.type \notin {"cue", "index"}
  BY <1>1, BlockPastScans DEF NextPacketFrom
<1>3. b.offset \in Nat /\ b.after \in Nat /\ reader \in Nat
  BY <1>1, <1>2 DEF Placed
<1>4. b.type = "packet" => ReadAt(b, b.offset)
  BY <1>2 DEF Placed
<1> QED BY <1>1, <1>2, <1>3, <1>4, PacketRow

LEMMA NextPacketReads ==
    ASSUME FramesFit, DemuxInv, SeenInv, NextPacket
    PROVE  SeenInv'
<1>1. PICK b : /\ b = NextPacketFrom(reader) /\ reader' = b.after
               /\ \/ /\ b.type = "packet"
                     /\ seen' = Append(seen, [offset |-> b.offset, packet |-> PacketIn(b)])
                  \/ b.type = "end" /\ seen' = seen
                  \/ b.type = "error" /\ seen' = seen
               /\ origin' = origin /\ UNCHANGED <<muxVars, disk>>
  BY DEF NextPacket
<1>2. /\ Placed(b, reader) /\ NonePassed(b, reader)
      /\ b.offset \in Nat /\ b.after \in Nat /\ reader \in Nat
      /\ b.type = "packet" => \E r \in ToSet(log) : RowOf(b, r)
  BY <1>1, NextPacketScans
<1>3. FileInv /\ seen \in Seq(Row) /\ origin <= reader /\ ReadsIntactPackets /\ reader # 0 /\ origin \in Nat
  BY DEF DemuxInv, ReaderInv, SeenInv, NextPacket, Opened
<1>4. /\ log' = log /\ \A r : Intact(r)' <=> Intact(r)
      /\ \A o : Hidden(o)' <=> Hidden(o)
  BY <1>1, FileKept
<1>5. reader <= reader' /\ reader' # 0 /\ origin <= reader' /\ reader' \in Nat
  <2>1. b.after \in reader .. Len(file)
    BY <1>2 DEF Placed
  <2> QED BY <2>1, <1>1, <1>2, <1>3
<1>6. ASSUME NEW r \in ToSet(log), Intact(r)
      PROVE  RowAt(r.offset) /\ r.offset \in Nat
  BY <1>3, <1>6, IntactCells DEF RowAt
<1>7. /\ \A r \in ToSet(log) : (Intact(r) /\ origin <= r.offset /\ r.offset < reader)
                                    => r \in ToSet(seen) \/ Hidden(r.offset)
      /\ \A r \in ToSet(seen) : /\ r \in ToSet(log) /\ Intact(r)
                                /\ origin <= r.offset /\ r.offset < reader
      /\ \A i, j \in DOMAIN seen : i < j => seen[i].offset < seen[j].offset
  BY <1>3 DEF ReadsIntactPackets, Opened
<1>8. CASE b.type = "packet"
  <2>1. PICK r \in ToSet(log) : RowOf(b, r)
    BY <1>2, <1>8
  <2>2. /\ r.offset = b.offset /\ Intact(r) /\ PacketIn(b) = r.packet
        /\ r.offset \in Nat /\ r \in Row
    <3>1. log \in Seq(Row) /\ DOMAIN log = 1 .. Len(log)
      BY <1>3, LenProperties DEF FileInv, MuxInv, MuxTyped
    <3>2. r \in Row
      BY <3>1, ElementOfSeq DEF ToSet
    <3> QED BY <2>1, <3>2, <1>6 DEF RowOf
  <2>3. [offset |-> b.offset, packet |-> PacketIn(b)] = r
    BY <2>2 DEF Row
  <2>4. seen' = Append(seen, r)
    BY <1>1, <1>8, <2>3
  <2>5. /\ seen' \in Seq(Row) /\ Len(seen') = Len(seen) + 1 /\ seen'[Len(seen) + 1] = r
        /\ \A i \in 1 .. Len(seen) : seen'[i] = seen[i]
    BY <2>2, <2>4, <1>3, AppendProperties
  <2>6. /\ DOMAIN seen = 1 .. Len(seen) /\ DOMAIN seen' = 1 .. Len(seen) + 1
        /\ Len(seen) \in Nat
    BY <2>5, <1>3, LenProperties
  <2>7. ToSet(seen') = ToSet(seen) \cup {r}
    BY <2>5, <2>6 DEF ToSet
  <2>8. reader <= r.offset /\ r.offset < reader'
    <3>1. b.offset \in reader .. Len(file) /\ ReadAt(b, b.offset)
      BY <1>2, <1>8 DEF Placed
    <3>2. b.offset + 4 <= b.after
      BY <3>1, <1>2, <1>3, ReadIsKnown
    <3> QED BY <3>1, <3>2, <2>2, <1>1, <1>2
  <2>9. ASSUME NEW q \in ToSet(log), Intact(q), origin <= q.offset, q.offset < reader'
        PROVE  q \in ToSet(seen') \/ Hidden(q.offset)
    <3>1. RowAt(q.offset) /\ q.offset \in Nat
      BY <2>9, <1>6
    <3>2. CASE q.offset < reader
      BY <3>2, <2>7, <2>9, <1>7
    <3>3. CASE reader <= q.offset /\ q.offset < b.offset
      <4>1. q.offset \in reader .. b.offset - 1
        BY <3>1, <3>3, <1>2
      <4> QED BY <4>1, <3>1, <1>2, <1>8 DEF NonePassed
    <3>4. CASE q.offset = b.offset
      <4>1. q = r BY <3>4, <2>2, <1>3, RowsApart
      <4> QED BY <4>1, <2>7
    <3>5. CASE b.offset < q.offset
      <4>1. ReadAt(b, b.offset)
        BY <1>2, <1>8 DEF Placed
      <4>2. HeaderOk(disk, b.offset) /\ b.after = AfterBlock(disk, b.offset)
        BY <4>1 DEF ReadAt
      <4>3. b.after <= q.offset
        BY <4>2, <3>1, <3>5, <1>2, <1>3, NoRowInside
      <4> QED BY <4>3, <3>1, <2>9, <1>1, <1>2
    <3> QED BY <3>1, <3>2, <3>3, <3>4, <3>5, <1>2
  <2>10. ASSUME NEW q \in ToSet(seen')
         PROVE  q \in ToSet(log) /\ Intact(q) /\ origin <= q.offset /\ q.offset < reader'
    <3>1. CASE q = r
      BY <3>1, <2>2, <2>8, <1>2, <1>3
    <3>2. CASE q \in ToSet(seen)
      <4>1. q \in ToSet(log) /\ Intact(q) /\ origin <= q.offset /\ q.offset < reader
        BY <3>2, <1>7
      <4>2. q.offset \in Nat
        BY <4>1, <1>6
      <4> QED BY <4>1, <4>2, <1>2, <1>5
    <3> QED BY <3>1, <3>2, <2>7
  <2>11. ASSUME NEW i \in DOMAIN seen', NEW j \in DOMAIN seen', i < j
         PROVE  seen'[i].offset < seen'[j].offset
    <3>1. i \in 1 .. Len(seen) /\ seen'[i] = seen[i] /\ seen[i] \in ToSet(seen)
      BY <2>5, <2>6, <2>11 DEF ToSet
    <3>2. CASE j \in 1 .. Len(seen)
      BY <3>1, <3>2, <2>5, <2>6, <2>11, <1>7
    <3>3. CASE j = Len(seen) + 1
      <4>1. seen[i] \in ToSet(log) /\ Intact(seen[i]) /\ seen[i].offset < reader
        BY <3>1, <1>7
      <4>2. seen[i].offset \in Nat
        BY <4>1, <1>6
      <4> QED BY <4>1, <4>2, <3>1, <3>3, <2>2, <2>5, <2>8, <1>2
    <3> QED BY <3>2, <3>3, <2>6
  <2>12. ReadsIntactPackets'
    BY <2>9, <2>10, <2>11, <1>1, <1>4 DEF ReadsIntactPackets
  <2> QED BY <2>5, <2>12, <1>1, <1>5 DEF SeenInv
<1>9. CASE b.type \in {"end", "error"}
  <2>1. seen' = seen
    BY <1>1, <1>9
  <2>2. ASSUME NEW q \in ToSet(log), Intact(q), origin <= q.offset, q.offset < reader'
        PROVE  q \in ToSet(seen) \/ Hidden(q.offset)
    <3>1. RowAt(q.offset) /\ q.offset \in Nat
      BY <2>2, <1>6
    <3>2. CASE q.offset < reader
      BY <3>2, <2>2, <1>7
    <3>3. CASE reader <= q.offset
      <4>1. q.offset \in reader .. b.after - 1
        BY <3>1, <3>3, <2>2, <1>1, <1>2
      <4>2. b.type = "end" => b.after = b.offset
        BY <1>2 DEF Placed
      <4> QED BY <4>1, <4>2, <3>1, <1>2, <1>9 DEF NonePassed
    <3> QED BY <3>1, <3>2, <3>3, <1>2
  <2>3. ASSUME NEW q \in ToSet(seen)
        PROVE  q \in ToSet(log) /\ Intact(q) /\ origin <= q.offset /\ q.offset < reader'
    <3>1. q \in ToSet(log) /\ Intact(q) /\ origin <= q.offset /\ q.offset < reader
      BY <1>7
    <3>2. q.offset \in Nat
      BY <3>1, <1>6
    <3> QED BY <3>1, <3>2, <1>2, <1>5
  <2>4. ReadsIntactPackets'
    BY <2>1, <2>2, <2>3, <1>1, <1>4, <1>7 DEF ReadsIntactPackets
  <2> QED BY <2>1, <2>4, <1>1, <1>3, <1>5 DEF SeenInv
<1> QED BY <1>1, <1>8, <1>9

\* Any other step goes to a place and has read nothing from there, or reads nothing.
LEMMA OthersRead ==
    ASSUME DemuxInv, SeenInv, [DemuxNext]_vars, ~NextPacket
    PROVE  SeenInv'
<1>1. ASSUME NEW p, MoveTo(p), p \in 0 .. Len(file) PROVE SeenInv'
  <2>1. reader' = p /\ origin' = p /\ seen' = <<>> /\ p \in Nat
    BY <1>1 DEF MoveTo
  <2>2. seen' \in Seq(Row) /\ ToSet(seen') = {} /\ DOMAIN seen' = {}
    BY <2>1 DEF ToSet
  <2>3. ASSUME NEW r, p <= r.offset, r.offset < p, r \in ToSet(log'), Intact(r)' PROVE FALSE
    <3>1. FileInv'
      <4>1. DemuxInv /\ [DemuxNext]_vars => DemuxInv'
        BY DemuxStep
      <4> QED BY <4>1 DEF DemuxInv
    <3>2. r.offset \in Nat
      <4>1. log' \in Seq(Row) /\ DOMAIN log' = 1 .. Len(log')
        BY <3>1, LenProperties DEF FileInv, MuxInv, MuxTyped
      <4>2. r \in Row
        BY <2>3, <4>1, ElementOfSeq DEF ToSet
      <4> QED BY <4>2 DEF Row
    <3> QED BY <2>1, <2>3, <3>2
  <2> QED BY <2>1, <2>2, <2>3 DEF SeenInv, ReadsIntactPackets
<1>2. ASSUME Stay, UNCHANGED <<muxVars, disk>> PROVE SeenInv'
  <2>1. reader' = reader /\ origin' = origin /\ seen' = seen
    BY <1>2 DEF Stay
  <2>2. log' = log /\ (\A r : Intact(r)' <=> Intact(r)) /\ (\A o : Hidden(o)' <=> Hidden(o))
    BY <1>2, FileKept
  <2> QED BY <2>1, <2>2 DEF SeenInv, ReadsIntactPackets, Opened
<1>3. CASE UNCHANGED vars
  <2>1. Stay /\ UNCHANGED <<muxVars, disk>>
    BY <1>3 DEF Stay, vars, demuxVars
  <2> QED BY <2>1, <1>2
<1>4. CASE Write \/ \E i \in DataStart + 1 .. Len(file) : Damage(i)
  <2>1. reader' = 0
    <3>1. CASE Write
      <4>1. phase = "writing"
        BY <3>1 DEF Write, MuxNext, WritePacket, Finalize, Crash
      <4> QED BY <3>1, <4>1 DEF Write, DemuxInv, ReaderInv
    <3>2. CASE \E i \in DataStart + 1 .. Len(file) : Damage(i)
      BY <3>2 DEF Damage
    <3> QED BY <1>4, <3>1, <3>2
  <2> QED BY <2>1 DEF SeenInv, Opened
<1>5. DataStart \in 0 .. Len(file)
  BY DiskLen DEF DemuxInv, DataStart, FileStart
<1>6. Rebuilt.reader \in 0 .. Len(file)
  BY RebuiltType DEF DemuxInv
<1>7. CASE Open \/ ResetToDataStart
  BY <1>1, <1>5, <1>7 DEF Open, ResetToDataStart
<1>8. CASE RebuildIndex
  BY <1>1, <1>2, <1>6, <1>8 DEF RebuildIndex
<1>9. CASE SeekStep
  <2>1. ASSUME NEW i \in DOMAIN index', MoveTo(index'[i].file_offset) PROVE SeenInv'
    <3>1. DemuxInv'
      BY DemuxStep
    <3>2. index' \in Seq(EntriesBelow(Len(file), log))
      <4>1. file' = file /\ log' = log
        BY <1>9, FileKept DEF SeekStep
      <4> QED BY <3>1, <4>1 DEF DemuxInv, ReaderInv
    <3>3. index'[i] \in EntriesBelow(Len(file), log)
      BY <3>2, <2>1, LenProperties, ElementOfSeq
    <3>4. PICK e \in EntriesBelow(Len(file), log) : e = index'[i]
      BY <3>3
    <3>5. e.file_offset \in 0 .. Len(file)
      BY DiskLen DEF EntriesBelow, Entry, DemuxInv
    <3> QED BY <3>4, <3>5, <2>1, <1>1
  <2> QED BY <2>1, <1>1, <1>2, <1>6, <1>9 DEF SeekStep
<1> QED BY <1>3, <1>4, <1>7, <1>8, <1>9, SeekIs DEF DemuxNext

\* Reading on hands out exactly the packets that are whole and undamaged, in order
\* and once, whatever is damaged and wherever the reader was sent before.
THEOREM ReadsWhatIsIntact ==
    ASSUME FramesFit
    PROVE  DemuxSpec => []ReadsIntactPackets
<1>1. DemuxInit => SeenInv
  BY DEF DemuxInit, SeenInv, Opened
<1>2. DemuxInv /\ SeenInv /\ [DemuxNext]_vars => SeenInv'
  BY NextPacketReads, OthersRead
<1>3. SeenInv => ReadsIntactPackets
  BY DEF SeenInv, ReadsIntactPackets
<1> QED BY DemuxAlways, <1>1, <1>2, <1>3, PTL DEF DemuxSpec

\* A packet found by a seek is the next one read, if it is undamaged.
THEOREM SeekReadsItsPacket ==
    ASSUME FramesFit
    PROVE  DemuxSpec => SeekLands
<1> DEFINE Lands ==
        (NextPacket /\ last.kind = "entry" /\ reader = last.entry.file_offset) =>
            LET r == log[last.entry.packet_number + 1]
            IN  /\ r.offset = reader
                /\ Intact(r) => last' = Found(r.packet)
<1>1. DemuxInv => Lands
  <2> SUFFICES ASSUME DemuxInv, NextPacket, last.kind = "entry", reader = last.entry.file_offset
               PROVE  Lands
    OBVIOUS
  <2>1. last.entry \in EntriesBelow(Len(file), log)
    BY DEF DemuxInv, ReaderInv
  <2>2. PICK k \in 1 .. Len(log) : last.entry = EntryFor(log[k])
    BY <2>1 DEF EntriesBelow
  <2>3. log[k].packet.sequence = k - 1 /\ log[k] \in ToSet(log)
    <3>1. k \in DOMAIN entries /\ k \in DOMAIN log
      BY LenProperties DEF DemuxInv, FileInv, MuxInv, MuxTyped
    <3>2. PointsAt(entries[k], log[k].packet, k, file)
      BY <3>1, PointsAtIs DEF DemuxInv, FileInv, MuxInv
    <3> QED BY <3>1, <3>2 DEF PointsAt, ToSet
  <2>4. last.entry.packet_number + 1 = k /\ log[k].offset = reader
    BY <2>2, <2>3 DEF EntryFor
  <2>5. PICK r \in ToSet(log) : r = log[k]
    BY <2>3
  <2>6. ASSUME Intact(r) PROVE last' = Found(r.packet)
    <3>1. PICK b : /\ b = NextPacketFrom(reader)
                   /\ \/ b.type = "packet" /\ last' = Found(PacketIn(b))
                      \/ b.type = "end" \/ b.type = "error"
      BY DEF NextPacket
    <3>2. /\ Placed(b, reader) /\ NonePassed(b, reader)
          /\ b.offset \in Nat /\ b.after \in Nat /\ reader \in Nat
          /\ b.type = "packet" => \E q \in ToSet(log) : RowOf(b, q)
      BY <3>1, NextPacketScans
    <3>3. RowAt(reader) /\ reader + 5 <= Len(file)
      <4>1. RowAt(reader)
        BY <2>4, <2>5, <2>6 DEF RowAt
      <4> QED BY <4>1, RowIsRead DEF DemuxInv
    <3>4. b.offset \in reader .. Len(file) /\ b.after \in reader .. Len(file)
      BY <3>2 DEF Placed
    <3>5. Len(file) \in Nat
      BY DiskLen DEF DemuxInv
    <3>6. b.type # "error"
      BY <3>2, <3>3 DEF NonePassed
    <3>7. b.offset = reader
      <4>1. ~(reader \in reader .. b.offset - 1)
        BY <3>2, <3>3, <3>6 DEF NonePassed
      <4> QED BY <4>1, <3>2, <3>4
    <3>8. b.type # "end"
      <4>1. b.type = "end" => b.offset = Len(file)
        BY <3>2 DEF Placed
      <4> QED BY <4>1, <3>2, <3>3, <3>5, <3>7
    <3>9. PICK q \in ToSet(log) : RowOf(b, q)
      BY <3>1, <3>2, <3>6, <3>8
    <3>10. q.offset = r.offset /\ PacketIn(b) = q.packet
      BY <3>7, <3>9, <2>4, <2>5 DEF RowOf
    <3>11. q = r
      BY <3>10, RowsApart DEF DemuxInv
    <3> QED BY <3>1, <3>6, <3>8, <3>10, <3>11
  <2> QED BY <2>4, <2>5, <2>6
<1>2. DemuxInv /\ [DemuxNext]_vars => [Lands]_vars
  BY <1>1
<1>3. SeekLands <=> [][Lands]_vars
  BY DEF SeekLands
<1> QED BY DemuxAlways, <1>2, PTL DEF DemuxSpec, SeekLands

-----------------------------------------------------------------------------
(* The blocks of a file follow each other without a gap.                   *)

\* the positions a block or the data behind it may start at
Boundary(f) == {DataStart} \cup {q + 4 + f[q + 3].bodyLen : q \in Starts(f)}

\* every block is followed by a block or by the end of the file
Gapless(f) == \A p \in Boundary(f) : p \in Starts(f) \/ p = Len(f)
Chained(f) == \A p \in Boundary(f) : p \in Starts(f) \/ p > Len(f) - 3

\* there is everything of a block that the file is long enough for
Formed(f) ==
    \A q \in Starts(f) :
        /\ f[q + 1] = S /\ f[q + 2] = B
        /\ q + 4 <= Len(f) => f[q + 4] = [crc |-> f[q + 3]]
        /\ \A j \in 1 .. f[q + 3].bodyLen : q + 4 + j <= Len(f) => f[q + 4 + j] = f[q + 3].bodyCrc[j]

Fits(f) == \A q \in Starts(f) : f[q + 3].bodyLen <= MaxBody

Indexed(f, es) == \A q \in Starts(f) : f[q + 3].type = "index" => Tail(f[q + 3].bodyCrc) = es
Unindexed(f) == \A q \in Starts(f) : f[q + 3].type # "index"

\* a body a reader accepts can list every packet
EntriesFit == MaxPackets < MaxBody

LEMMA ChainAppend ==
    ASSUME NEW f \in Seq(Cell), Len(f) >= 1, Complete(f), Gapless(f), Formed(f),
           NEW type \in {"packet", "cue", "index"}, NEW body \in Seq(BodyCell)
    PROVE  LET g == f \o Block(type, body)
           IN  /\ Gapless(g) /\ Formed(g) /\ Complete(g)
               /\ Fits(f) /\ Len(body) <= MaxBody => Fits(g)
               /\ Unindexed(f) /\ type # "index" => Unindexed(g)
               /\ Unindexed(f) /\ type = "index" => Indexed(g, Tail(body))
<1>1. PICK g \in Seq(Cell) : Appended(g, f, type, body)
  BY StartsAppend
<1>2. PICK n \in Nat, m \in Nat, c \in {Prelude(type, body)} : n = Len(f) /\ m = Len(body) /\ c = Prelude(type, body)
  BY LenProperties
<1>3. /\ g = f \o Block(type, body) /\ Len(g) = n + 4 + m
      /\ \A i \in 1 .. n : g[i] = f[i]
      /\ \A i \in 1 .. 4 + m : g[n + i] = Block(type, body)[i]
      /\ \A q \in Starts(g) : \/ q \in Starts(f) /\ g[q + 3] = f[q + 3]
                              \/ q = n /\ g[q + 3] = c
      /\ \A q \in Starts(f) : q \in Starts(g)
      /\ n \in Starts(g)
  BY <1>1, <1>2 DEF Appended
<1>4. c.type = type /\ c.bodyLen = m /\ c.bodyCrc = body
  BY <1>2 DEF Prelude
<1>5. ASSUME NEW q \in Starts(f)
      PROVE  q \in Nat /\ f[q + 3].bodyLen \in Nat /\ q + 4 + f[q + 3].bodyLen <= n
  <2>1. q \in Nat /\ f[q + 3].bodyLen \in Nat
    BY <1>2 DEF Starts, PreludeCell
  <2> QED BY <2>1, <1>2 DEF Complete
<1>6. Gapless(g)
  <2> SUFFICES ASSUME NEW p \in Boundary(g) PROVE p \in Starts(g) \/ p = Len(g)
    BY DEF Gapless
  <2>1. CASE p \in Boundary(f)
    <3>1. p \in Starts(f) \/ p = n
      BY <2>1, <1>2 DEF Gapless
    <3> QED BY <3>1, <1>3
  <2>2. CASE p \notin Boundary(f)
    <3>1. PICK q \in Starts(g) : p = q + 4 + g[q + 3].bodyLen
      BY <2>2 DEF Boundary
    <3>2. ~(q \in Starts(f) /\ g[q + 3] = f[q + 3])
      BY <3>1, <2>2 DEF Boundary
    <3>3. q = n /\ g[q + 3] = c
      BY <3>2, <1>3
    <3> QED BY <3>1, <3>3, <1>3, <1>4
  <2> QED BY <2>1, <2>2
<1>7. Formed(g)
  <2> SUFFICES ASSUME NEW q \in Starts(g)
               PROVE  /\ g[q + 1] = S /\ g[q + 2] = B
                      /\ q + 4 <= Len(g) => g[q + 4] = [crc |-> g[q + 3]]
                      /\ \A j \in 1 .. g[q + 3].bodyLen :
                            q + 4 + j <= Len(g) => g[q + 4 + j] = g[q + 3].bodyCrc[j]
    BY DEF Formed
  <2>1. CASE q \in Starts(f) /\ g[q + 3] = f[q + 3]
    <3>1. PICK l \in Nat : l = f[q + 3].bodyLen /\ q + 4 + l <= n /\ q \in Nat
      BY <2>1, <1>5
    <3>2. \A i \in 1 .. 4 + l : g[q + i] = f[q + i]
      <4>1. ASSUME NEW i \in 1 .. 4 + l PROVE q + i \in 1 .. n
        BY <3>1
      <4> QED BY <4>1, <1>3
    <3>3. /\ f[q + 1] = S /\ f[q + 2] = B /\ f[q + 4] = [crc |-> f[q + 3]]
          /\ \A j \in 1 .. l : f[q + 4 + j] = f[q + 3].bodyCrc[j]
      <4>1. /\ f[q + 1] = S /\ f[q + 2] = B
            /\ q + 4 <= Len(f) => f[q + 4] = [crc |-> f[q + 3]]
            /\ \A j \in 1 .. l : q + 4 + j <= Len(f) => f[q + 4 + j] = f[q + 3].bodyCrc[j]
        BY <2>1, <3>1 DEF Formed
      <4>2. q + 4 <= Len(f)
        BY <3>1, <1>2
      <4>3. ASSUME NEW j \in 1 .. l PROVE q + 4 + j <= Len(f)
        BY <3>1, <1>2
      <4> QED BY <4>1, <4>2, <4>3
    <3>4. 1 \in 1 .. 4 + l /\ 2 \in 1 .. 4 + l /\ 4 \in 1 .. 4 + l
      BY <3>1
    <3>5. g[q + 1] = S /\ g[q + 2] = B /\ g[q + 4] = [crc |-> g[q + 3]]
      BY <2>1, <3>2, <3>3, <3>4
    <3>6. ASSUME NEW j \in 1 .. g[q + 3].bodyLen
          PROVE  g[q + 4 + j] = g[q + 3].bodyCrc[j]
      <4>1. j \in 1 .. l /\ 4 + j \in 1 .. 4 + l /\ q + (4 + j) = q + 4 + j
        BY SMTT(30), <2>1, <3>1, <3>6
      <4> QED BY <4>1, <2>1, <3>2, <3>3
    <3> QED BY <3>5, <3>6
  <2>2. CASE q = n /\ g[q + 3] = c
    <3>1. PICK b : b = Block(type, body)
      OBVIOUS
    <3>2. /\ b[1] = S /\ b[2] = B /\ b[4] = [crc |-> c]
          /\ \A j \in 1 .. m : b[4 + j] = body[j]
      BY <3>1, <1>2, CellsOfBlock
    <3>3. \A i \in 1 .. 4 + m : g[q + i] = b[i]
      BY <2>2, <3>1, <1>3
    <3>4. 1 \in 1 .. 4 + m /\ 2 \in 1 .. 4 + m /\ 4 \in 1 .. 4 + m
      BY <1>2
    <3>5. g[q + 1] = S /\ g[q + 2] = B /\ g[q + 4] = [crc |-> g[q + 3]]
      BY <2>2, <3>2, <3>3, <3>4
    <3>6. ASSUME NEW j \in 1 .. g[q + 3].bodyLen
          PROVE  g[q + 4 + j] = g[q + 3].bodyCrc[j]
      <4>1. j \in 1 .. m /\ 4 + j \in 1 .. 4 + m /\ q + (4 + j) = q + 4 + j
        BY <2>2, <3>6, <1>2, <1>4
      <4> QED BY <4>1, <2>2, <3>2, <3>3, <1>4
    <3> QED BY <3>5, <3>6
  <2> QED BY <2>1, <2>2, <1>3
<1>11. Complete(g)
  <2> SUFFICES ASSUME NEW q \in Starts(g) PROVE q + 4 + g[q + 3].bodyLen <= Len(g)
    BY DEF Complete
  <2>1. CASE q \in Starts(f) /\ g[q + 3] = f[q + 3]
    <3>1. q \in Nat /\ f[q + 3].bodyLen \in Nat /\ q + 4 + f[q + 3].bodyLen <= n
      BY <2>1, <1>5
    <3> QED BY <3>1, <2>1, <1>2, <1>3
  <2>2. CASE q = n /\ g[q + 3] = c
    BY <2>2, <1>3, <1>4
  <2> QED BY <2>1, <2>2, <1>3
<1>8. ASSUME Fits(f), Len(body) <= MaxBody PROVE Fits(g)
  BY <1>2, <1>3, <1>4, <1>8 DEF Fits
<1>9. ASSUME Unindexed(f), type # "index" PROVE Unindexed(g)
  BY <1>3, <1>4, <1>9 DEF Unindexed
<1>10. ASSUME Unindexed(f), type = "index" PROVE Indexed(g, Tail(body))
  BY <1>3, <1>4, <1>10 DEF Unindexed, Indexed
<1> QED BY <1>3, <1>6, <1>7, <1>8, <1>9, <1>10, <1>11

\* What a crash leaves of such a file.
LEMMA ChainPrefix ==
    ASSUME NEW f \in Seq(Cell), Complete(f), Gapless(f), Formed(f), NEW es, Indexed(f, es),
           NEW m \in 0 .. Len(f) - 1
    PROVE  LET h == SubSeq(f, 1, m)
           IN  Chained(h) /\ Formed(h) /\ Indexed(h, es) /\ (Fits(f) => Fits(h))
<1>1. \A i \in 1 .. m : f[i] \in Cell
  BY LenProperties, ElementOfSeq
<1>2. PICK h : h = SubSeq(f, 1, m)
  OBVIOUS
<1>3. h \in Seq(Cell) /\ Len(h) = m /\ \A i \in 1 .. m : h[i] = f[i]
  BY <1>1, <1>2, SubSeqProperties
<1>4. PICK n \in Nat : n = Len(f) /\ m \in Nat /\ m < n
  BY LenProperties
<1>5. ASSUME NEW q \in Starts(h)
      PROVE  /\ q \in Starts(f) /\ h[q + 3] = f[q + 3]
             /\ q \in Nat /\ h[q + 3].bodyLen \in Nat /\ q + 3 <= m
  <2>1. q \in 0 .. m - 3 /\ q + 3 \in 1 .. m /\ q \in 0 .. Len(f) - 3
    BY <1>3, <1>4 DEF Starts
  <2>2. h[q + 3] \in PreludeCell
    BY DEF Starts
  <2>3. h[q + 3].bodyLen \in Nat
    BY <2>2 DEF PreludeCell
  <2> QED BY <2>1, <2>3, <1>3, <1>4 DEF Starts
<1>6. ASSUME NEW q \in Starts(f), q <= m - 3 PROVE q \in Starts(h)
  <2>1. q \in Nat /\ f[q + 3] \in PreludeCell
    BY <1>4 DEF Starts
  <2>2. q \in 0 .. m - 3 /\ q + 3 \in 1 .. m
    BY <2>1, <1>4, <1>6
  <2> QED BY <2>1, <2>2, <1>3 DEF Starts
<1>7. Chained(h)
  <2> SUFFICES ASSUME NEW p \in Boundary(h) PROVE p \in Starts(h) \/ p > Len(h) - 3
    BY DEF Chained
  <2>1. p \in Boundary(f) /\ p \in Nat
    <3>1. CASE p = DataStart BY <3>1 DEF Boundary, DataStart, FileStart
    <3>2. CASE \E q \in Starts(h) : p = q + 4 + h[q + 3].bodyLen
      BY SMTT(30), <3>2, <1>5 DEF Boundary
    <3> QED BY <3>1, <3>2 DEF Boundary
  <2>2. p \in Starts(f) \/ p = n
    BY <2>1, <1>4 DEF Gapless
  <2>3. CASE p = n BY <2>3, <1>3, <1>4
  <2>4. CASE p \in Starts(f)
    <3>1. p <= m - 3 \/ p > m - 3 BY <2>1, <1>4
    <3> QED BY <3>1, <2>4, <1>3, <1>6
  <2> QED BY <2>2, <2>3, <2>4
<1>8. Formed(h)
  <2> SUFFICES ASSUME NEW q \in Starts(h)
               PROVE  /\ h[q + 1] = S /\ h[q + 2] = B
                      /\ q + 4 <= Len(h) => h[q + 4] = [crc |-> h[q + 3]]
                      /\ \A j \in 1 .. h[q + 3].bodyLen :
                            q + 4 + j <= Len(h) => h[q + 4 + j] = h[q + 3].bodyCrc[j]
    BY DEF Formed
  <2>1. /\ f[q + 1] = S /\ f[q + 2] = B
        /\ q + 4 <= Len(f) => f[q + 4] = [crc |-> f[q + 3]]
        /\ \A j \in 1 .. f[q + 3].bodyLen : q + 4 + j <= Len(f) => f[q + 4 + j] = f[q + 3].bodyCrc[j]
    BY <1>5 DEF Formed
  <2>2. q + 1 \in 1 .. m /\ q + 2 \in 1 .. m
    BY <1>4, <1>5
  <2>3. ASSUME q + 4 <= Len(h) PROVE h[q + 4] = [crc |-> h[q + 3]]
    <3>1. q + 4 \in 1 .. m /\ q + 4 <= Len(f)
      BY <2>3, <1>3, <1>4, <1>5
    <3> QED BY <3>1, <2>1, <1>3, <1>5
  <2>4. ASSUME NEW j \in 1 .. h[q + 3].bodyLen, q + 4 + j <= Len(h)
        PROVE  h[q + 4 + j] = h[q + 3].bodyCrc[j]
    <3>1. q + 4 + j \in 1 .. m /\ q + 4 + j <= Len(f) /\ j \in 1 .. f[q + 3].bodyLen
      BY <2>4, <1>3, <1>4, <1>5
    <3> QED BY <3>1, <2>1, <1>3, <1>5
  <2> QED BY <2>1, <2>2, <2>3, <2>4, <1>3
<1>9. Indexed(h, es)
  BY <1>5 DEF Indexed
<1>10. Fits(f) => Fits(h)
  BY <1>5 DEF Fits
<1> QED BY <1>2, <1>7, <1>8, <1>9, <1>10

-----------------------------------------------------------------------------
(* The index of an undamaged file.                                         *)

\* what the writer keeps of the chain of blocks
ChainInv ==
    /\ Chained(file) /\ Formed(file) /\ Indexed(file, entries) /\ Len(entries) <= MaxPackets
    /\ FramesFit /\ EntriesFit => Fits(file)
    /\ phase = "writing" => Complete(file) /\ Gapless(file) /\ Unindexed(file)

LEMMA InitChain == MuxInit => ChainInv
<1> SUFFICES ASSUME MuxInit PROVE ChainInv
  OBVIOUS
<1>1. Len(file) = 1 /\ entries = <<>> /\ Len(entries) = 0
  BY DEF MuxInit, FileStart
<1>2. Starts(file) = {}
  BY <1>1 DEF Starts
<1>3. Boundary(file) = {1}
  BY <1>2 DEF Boundary, DataStart, FileStart
<1> QED BY <1>1, <1>2, <1>3, MuxAssumption
     DEF ChainInv, Chained, Gapless, Formed, Indexed, Unindexed, Complete, Fits

LEMMA GaplessIsChained ==
    ASSUME NEW f \in Seq(Cell), Gapless(f)
    PROVE  Chained(f)
<1>1. Len(f) \in Nat /\ Len(f) > Len(f) - 3
  BY LenProperties
<1> QED BY <1>1 DEF Gapless, Chained

LEMMA UnindexedIsIndexed ==
    ASSUME NEW f, NEW es, Unindexed(f)
    PROVE  Indexed(f, es)
BY DEF Unindexed, Indexed

\* every block is there to its end, one behind the other
Whole(f) == Complete(f) /\ Gapless(f) /\ Formed(f)

LEMMA ChainWritePacket ==
    ASSUME MuxInv, ChainInv, NEW frame \in Frames, WritePacket(frame)
    PROVE  ChainInv'
<1> DEFINE p == PacketOf(frame)
           e == EntryOf(frame)
           es == Append(entries, e)
           written == file \o PacketBlock(p)
<1>1. p \in Packet /\ e \in Entry
  BY FrameType DEF MuxInv
<1>2. /\ file \in Seq(Cell) /\ Len(file) \in Nat /\ Len(file) >= 1
      /\ entries \in Seq(Entry) /\ phase = "writing" /\ phase' = phase
      /\ cue_count \in Nat /\ packet_count \in Nat /\ packet_count = Len(entries)
      /\ packet_count < MaxPackets /\ pending_cue_start \in 0 .. Len(entries)
      /\ entries' = es
  BY LenProperties DEF MuxInv, MuxTyped, WritePacket, DataStart, FileStart
<1>3. Whole(file) /\ Unindexed(file)
  BY <1>2 DEF ChainInv, Whole
<1>4. es \in Seq(Entry) /\ Len(es) = Len(entries) + 1 /\ Len(es) <= MaxPackets
  <2>1. es \in Seq(Entry) /\ Len(es) = Len(entries) + 1
    BY <1>1, <1>2, AppendProperties
  <2> QED BY <2>1, <1>2, MuxAssumption
<1>5. PICK body \in Seq(BodyCell) : body = BodyOf(p)
  BY <1>1, BodyType
<1>6. written = file \o Block("packet", body)
  BY <1>5 DEF PacketBlock, BodyOf
<1>7. FramesFit => Len(body) <= MaxBody
  <2>1. Len(body) = 1 + Len(p.payload) /\ p.payload = frame.payload
    <3>1. Len(body) = 1 + Len(p.payload)
      BY <1>1, <1>5, BodyType
    <3> QED BY <3>1 DEF PacketOf
  <2>2. Len(frame.payload) \in Nat
    BY MuxAssumption, LenProperties
  <2> QED BY <2>1, <2>2, ContainerAssumption DEF FramesFit
<1>8. PICK w \in Seq(Cell) : Appended(w, file, "packet", body)
  BY <1>2, StartsAppend
<1>9. w = written /\ Len(w) >= 1
  <2>1. w = written /\ Len(w) = Len(file) + 4 + Len(body)
    BY <1>6, <1>8 DEF Appended
  <2>2. Len(body) \in Nat
    BY LenProperties
  <2> QED BY <2>1, <2>2, <1>2
<1> HIDE DEF written
<1>10. /\ Whole(w) /\ Unindexed(w)
       /\ FramesFit /\ EntriesFit => Fits(w)
  <2>1. Complete(file) /\ Gapless(file) /\ Formed(file)
    BY <1>3 DEF Whole
  <2>2. /\ Gapless(written) /\ Formed(written) /\ Complete(written)
        /\ Fits(file) /\ Len(body) <= MaxBody => Fits(written)
        /\ Unindexed(file) => Unindexed(written)
    BY <2>1, <1>2, <1>6, ChainAppend
  <2> QED BY <2>2, <1>3, <1>7, <1>9 DEF Whole, ChainInv
<1>11. CASE ~CueDue
  <2>1. file' = w
    BY <1>9, <1>11 DEF WritePacket, written
  <2> HIDE DEF es
  <2> QED BY <2>1, <1>2, <1>4, <1>10, GaplessIsChained, UnindexedIsIndexed
       DEF ChainInv, Whole, FramesFit, EntriesFit
<1>12. CASE CueDue
  <2>1. file' = w \o Cue(es)
    BY <1>9, <1>12 DEF WritePacket, WriteCue, written
  <2> HIDE DEF es
  <2>2. PICK cue \in Seq(BodyCell) : Cue(es) = Block("cue", cue) /\ Len(cue) <= 1 + Len(es)
    <3>1. pending_cue_start \in 0 .. Len(es)
      BY <1>2, <1>4
    <3> QED BY <3>1, <1>2, <1>4, CueKnown
  <2>3. Complete(w) /\ Gapless(w) /\ Formed(w)
    BY <1>10 DEF Whole
  <2>4. PICK g \in Seq(Cell) : g = w \o Block("cue", cue)
    <3>1. Block("cue", cue) \in Seq(Cell) BY CellsOfBlock
    <3> QED BY <3>1, ConcatProperties
  <2>5. /\ Gapless(g) /\ Formed(g) /\ Complete(g)
        /\ Fits(w) /\ Len(cue) <= MaxBody => Fits(g)
        /\ Unindexed(w) => Unindexed(g)
    BY <2>3, <2>4, <1>9, ChainAppend
  <2>6. EntriesFit => Len(cue) <= MaxBody
    <3>1. Len(cue) \in Nat /\ Len(es) \in Nat
      BY <1>4, LenProperties
    <3> QED BY <3>1, <2>2, <1>4, MuxAssumption, ContainerAssumption DEF EntriesFit
  <2>7. FramesFit /\ EntriesFit => Fits(g)
    BY <2>5, <2>6, <1>10
  <2>8. file' = g
    BY <2>1, <2>2, <2>4
  <2> QED BY <2>5, <2>7, <2>8, <1>2, <1>4, <1>10, GaplessIsChained, UnindexedIsIndexed
       DEF ChainInv, FramesFit, EntriesFit
<1> QED BY <1>11, <1>12

LEMMA ChainEnd ==
    ASSUME MuxInv, ChainInv, Finalize \/ Crash
    PROVE  ChainInv'
<1>1. /\ file \in Seq(Cell) /\ Len(file) \in Nat /\ Len(file) >= 1
      /\ entries \in Seq(Entry) /\ Len(entries) \in Nat /\ entries' = entries
      /\ phase = "writing" /\ phase' # "writing"
      /\ cue_count \in Nat /\ packet_count \in Nat /\ pending_cue_start \in 0 .. Len(entries)
  BY LenProperties DEF MuxInv, MuxTyped, Finalize, Crash, DataStart, FileStart
<1>2. /\ Complete(file) /\ Gapless(file) /\ Formed(file) /\ Unindexed(file)
      /\ FramesFit /\ EntriesFit => Fits(file)
      /\ Len(entries) <= MaxPackets
  BY <1>1 DEF ChainInv
<1> DEFINE cued == file \o (IF pending_cue_start < Len(entries) THEN Cue(entries) ELSE <<>>)
<1>3. PICK f \in Seq(Cell) : /\ f = cued /\ Len(f) >= 1
                             /\ Complete(f) /\ Gapless(f) /\ Formed(f) /\ Unindexed(f)
                             /\ FramesFit /\ EntriesFit => Fits(f)
  <2>1. CASE pending_cue_start < Len(entries)
    <3>1. PICK cue \in Seq(BodyCell) :
            Cue(entries) = Block("cue", cue) /\ Len(cue) <= 1 + Len(entries)
      BY <1>1, CueKnown
    <3>2. PICK g \in Seq(Cell) : Appended(g, file, "cue", cue)
      BY <1>1, StartsAppend
    <3>3. g = file \o Block("cue", cue) /\ Len(g) >= 1
      <4>1. Len(cue) \in Nat
        BY LenProperties
      <4> QED BY <4>1, <3>2, <1>1 DEF Appended
    <3>4. /\ Gapless(g) /\ Formed(g) /\ Complete(g)
          /\ Fits(file) /\ Len(cue) <= MaxBody => Fits(g)
          /\ Unindexed(file) => Unindexed(g)
      BY <3>3, <1>1, <1>2, ChainAppend
    <3>5. EntriesFit => Len(cue) <= MaxBody
      <4>1. Len(cue) \in Nat
        BY LenProperties
      <4> QED BY <4>1, <3>1, <1>1, <1>2, MuxAssumption, ContainerAssumption DEF EntriesFit
    <3>6. g = cued
      BY <2>1, <3>1, <3>3
    <3> HIDE DEF cued
    <3> QED BY <3>3, <3>4, <3>5, <3>6, <1>2
  <2>2. CASE ~(pending_cue_start < Len(entries))
    <3>1. cued = file
      BY <2>2, <1>1, ConcatEmptySeq
    <3> HIDE DEF cued
    <3> QED BY <3>1, <1>1, <1>2
  <2> QED BY <2>1, <2>2
<1>4. PICK body \in Seq(BodyCell) : /\ IndexBlock(entries) = Block("index", body)
                                    /\ Len(body) = 1 + Len(entries) /\ Tail(body) = entries
  BY <1>1, IndexKnown
<1>5. PICK w \in Seq(Cell) : w = WithIndex /\ w = f \o Block("index", body)
  <2>1. WithIndex = f \o Block("index", body)
    BY <1>3, <1>4 DEF WithIndex
  <2>2. Block("index", body) \in Seq(Cell)
    BY CellsOfBlock
  <2> QED BY <2>1, <2>2, ConcatProperties
<1>6. /\ Gapless(w) /\ Formed(w) /\ Complete(w) /\ Indexed(w, entries)
      /\ FramesFit /\ EntriesFit => Fits(w)
  <2>1. /\ Gapless(w) /\ Formed(w) /\ Complete(w) /\ Indexed(w, Tail(body))
        /\ Fits(f) /\ Len(body) <= MaxBody => Fits(w)
    BY <1>3, <1>5, ChainAppend
  <2>2. EntriesFit => Len(body) <= MaxBody
    BY <1>1, <1>2, <1>4, MuxAssumption, ContainerAssumption DEF EntriesFit
  <2> QED BY <2>1, <2>2, <1>3, <1>4
<1>7. CASE Finalize
  <2>1. file' = w
    BY <1>5, <1>7 DEF Finalize
  <2> QED BY <2>1, <1>1, <1>2, <1>6, GaplessIsChained DEF ChainInv, FramesFit, EntriesFit
<1>8. CASE Crash
  <2>1. PICK m \in DataStart .. Len(w) - 1 : file' = SubSeq(w, 1, m)
    BY <1>5, <1>8 DEF Crash
  <2>2. m \in 0 .. Len(w) - 1
    BY <2>1 DEF DataStart, FileStart
  <2>3. PICK h : h = SubSeq(w, 1, m)
    OBVIOUS
  <2>4. Chained(h) /\ Formed(h) /\ Indexed(h, entries) /\ (Fits(w) => Fits(h))
    BY <2>2, <2>3, <1>6, ChainPrefix
  <2>5. file' = h
    BY <2>1, <2>3
  <2> QED BY <2>4, <2>5, <1>1, <1>2, <1>6 DEF ChainInv, FramesFit, EntriesFit
<1> QED BY <1>7, <1>8

\* What next_block finds where a block may start, in an undamaged file: the block
\* there, whole, with another such place behind it; or no packet comes any more.
Lands(b, p) ==
    \/ /\ b.type \in Types /\ b.offset = p /\ ReadAt(b, p)
       /\ b.after \in p + 1 .. Len(file) /\ b.after \in Boundary(file)
    \/ b.type \in {"end", "error"} /\ \A o \in p .. Len(file) : ~RowAt(o)

LEMMA Undamaged ==
    ASSUME FileInv, damaged = {}
    PROVE  disk = file
<1>1. disk \in Seq(DiskCell) /\ Len(disk) = Len(file) /\ file \in Seq(DiskCell)
  <2>1. Cell \subseteq DiskCell
    BY DEF DiskCell
  <2> QED BY <2>1, DiskLen, SeqMonotonic
<1>2. \A i \in 1 .. Len(file) : disk[i] = file[i]
  BY DiskLen DEF damaged
<1> QED BY <1>1, <1>2, SeqEqual

LEMMA MagicIsThere ==
    ASSUME NEW f \in Seq(DiskCell), NEW p \in Nat, p + 2 <= Len(f), f[p + 1] = S, f[p + 2] = B
    PROVE  HasMagic(f, p)
<1>1. PICK s : s = Cells(f, p, 2)
  OBVIOUS
<1>2. /\ s \in Seq(DiskCell) /\ Len(s) = 2
      /\ \A i \in 1 .. 2 : s[i] = f[p + i]
  <2>1. 2 \in Nat OBVIOUS
  <2> QED BY <2>1, <1>1, CellsAre
<1>3. <<S, B>> \in Seq(DiskCell) /\ Len(<<S, B>>) = 2 /\ <<S, B>>[1] = S /\ <<S, B>>[2] = B
  <2>1. S \in DiskCell /\ B \in DiskCell BY DEF DiskCell, Cell, BodyCell
  <2> QED BY <2>1
<1>4. \A i \in 1 .. 2 : s[i] = <<S, B>>[i]
  BY <1>2, <1>3
<1>5. s = <<S, B>>
  BY <1>2, <1>3, <1>4, SeqEqual
<1> QED BY <1>1, <1>5 DEF HasMagic

\* A block is where it starts, as far as the file goes.
LEMMA StartIsRead ==
    ASSUME FileInv, Formed(file), Fits(file), damaged = {},
           NEW p \in Starts(file), p + 4 <= Len(file)
    PROVE  HeaderOk(disk, p) /\ (~BodyEof(disk, p) => BodyOk(disk, p))
<1>1. /\ disk = file /\ Len(file) \in Nat /\ disk \in Seq(DiskCell)
      /\ p \in Nat /\ file[p + 3] \in PreludeCell
  BY Undamaged, DiskLen DEF Starts
<1>2. PICK n \in Nat, c \in PreludeCell : n = Len(file) /\ c = file[p + 3]
  BY <1>1
<1>3. /\ disk[p + 1] = S /\ disk[p + 2] = B /\ disk[p + 4] = [crc |-> c]
      /\ \A j \in 1 .. c.bodyLen : p + 4 + j <= n => disk[p + 4 + j] = c.bodyCrc[j]
  BY <1>1, <1>2 DEF Formed
<1>4. c.bodyLen \in Nat /\ c.bodyCrc \in Seq(BodyCell) /\ c.bodyLen = Len(c.bodyCrc)
  <2>1. Known(file[p + 3], p, log)
    BY DEF FileInv, MuxLaid, Layout
  <2> QED BY <2>1, <1>2 DEF Known, PreludeCell
<1>5. HasMagic(disk, p)
  <2>1. p + 2 <= Len(disk)
    BY <1>1, <1>2
  <2> QED BY <2>1, <1>1, <1>3, MagicIsThere
<1>6. HeaderOk(disk, p)
  <2>1. "type" \in DOMAIN c
    BY <1>2, OnlyPreludesAreTyped DEF Cell
  <2>2. c.bodyLen <= MaxBody
    BY <1>2 DEF Fits
  <2>3. disk[p + 3] = c /\ Len(disk) >= p + 4
    BY <1>1, <1>2
  <2> QED BY <2>1, <2>2, <2>3, <1>3, <1>5 DEF HeaderOk, HeaderLen
<1>7. ASSUME ~BodyEof(disk, p) PROVE BodyOk(disk, p)
  <2>1. PICK l \in Nat : l = c.bodyLen
    BY <1>4
  <2>2. p + 4 + l <= n
    BY <1>1, <1>2, <1>7, <2>1 DEF BodyEof, HeaderLen
  <2>3. PICK s : s = Cells(disk, p + 4, l) OBVIOUS
  <2>4. /\ s \in Seq(DiskCell) /\ Len(s) = l
        /\ \A i \in 1 .. l : s[i] = disk[p + 4 + i]
    <3>1. p + 4 \in Nat
      BY <1>1
    <3>2. p + 4 + l <= Len(disk)
      BY <1>1, <1>2, <2>2
    <3>3. disk \in Seq(DiskCell)
      BY <1>1
    <3> QED BY <3>1, <3>2, <3>3, <2>3, CellsAre
  <2>5. \A i \in 1 .. l : s[i] = c.bodyCrc[i]
    <3>1. ASSUME NEW i \in 1 .. l PROVE p + 4 + i <= n
      BY <1>1, <2>2
    <3> QED BY <3>1, <1>3, <2>1, <2>4
  <2>6. c.bodyCrc \in Seq(DiskCell)
    <3>1. BodyCell \subseteq DiskCell BY DEF DiskCell, Cell
    <3> QED BY <3>1, <1>4, SeqMonotonic
  <2>7. s = c.bodyCrc
    BY <2>1, <2>4, <2>5, <2>6, <1>4, SeqEqual
  <2>8. BodyAt(disk, p) = s
    BY <2>1, <2>3, <1>1, <1>2 DEF BodyAt, HeaderLen
  <2> QED BY <2>7, <2>8, <1>1, <1>2 DEF BodyOk
<1> QED BY <1>6, <1>7

LEMMA NextAtBoundary ==
    ASSUME FileInv, Chained(file), Formed(file), Fits(file), damaged = {},
           NEW p \in 0 .. Len(file), p \in Boundary(file)
    PROVE  Lands(NextBlock[p], p)
<1>1. PICK n \in Nat : n = Len(file) /\ n = Len(disk) /\ p \in Nat /\ p <= n
  BY DiskLen
<1>2. PICK b : b = NextBlock[p] /\ b = BlockAt(p, NextBlock)
  BY NextBlockDefined
<1>3. CASE HeaderEof(disk, p)
  <2>1. b.type = "end"
    BY <1>2, <1>3 DEF BlockAt, EndOfFile
  <2>2. n < p + 4
    BY <1>1, <1>3 DEF HeaderEof, HeaderLen
  <2>3. ASSUME NEW o \in p .. Len(file), RowAt(o) PROVE FALSE
    <3>1. o \in Nat /\ o + 5 <= n
      BY <2>3, <1>1, RowIsRead
    <3> QED BY <3>1, <2>2, <2>3, <1>1
  <2> QED BY <2>1, <2>3, <1>2 DEF Lands
<1>4. CASE ~HeaderEof(disk, p)
  <2>1. n >= p + 3
    BY <1>1, <1>4 DEF HeaderEof
  <2>2. p \in Starts(file)
    BY <2>1, <1>1 DEF Chained
  <2>3. p + 4 <= n
    <3>1. n >= p + 4 \/ ~HasMagic(disk, p)
      BY <1>1, <1>4 DEF HeaderEof, HeaderLen
    <3>2. disk = file /\ file[p + 1] = S /\ file[p + 2] = B
      BY <2>2, Undamaged DEF Formed
    <3>3. p + 2 <= Len(disk) /\ disk \in Seq(DiskCell)
      BY <1>1, <2>1, DiskLen
    <3>4. HasMagic(disk, p)
      BY <3>2, <3>3, <1>1, MagicIsThere
    <3> QED BY <3>1, <3>4, <1>1
  <2>4. HeaderOk(disk, p) /\ (~BodyEof(disk, p) => BodyOk(disk, p))
    BY <2>2, <2>3, <1>1, StartIsRead
  <2>5. CASE BodyEof(disk, p)
    <3>1. b.type = "error"
      BY <1>2, <1>4, <2>4, <2>5 DEF BlockAt, Failure
    <3>2. ASSUME NEW o \in p .. Len(file), RowAt(o) PROVE FALSE
      <4>1. o # p
        BY <2>5, <3>2, RowIsRead
      <4>2. p < o
        BY <4>1, <3>2, <1>1
      <4>3. AfterBlock(disk, p) <= o
        BY <4>2, <3>2, <2>4, <1>1, NoRowInside
      <4>4. n < AfterBlock(disk, p)
        BY <2>5, <1>1 DEF BodyEof, AfterBlock
      <4>5. disk[p + 3].bodyLen \in Nat
        BY <2>4, <1>1, HeaderIsStart
      <4>6. AfterBlock(disk, p) \in Nat
        BY <4>5, <1>1 DEF AfterBlock, HeaderLen
      <4> QED BY <4>3, <4>4, <4>6, <3>2, <1>1
    <3> QED BY <3>1, <3>2, <1>2 DEF Lands
  <2>6. CASE ~BodyEof(disk, p)
    <3>1. b = [type |-> disk[p + 3].type, offset |-> p, body |-> BodyAt(disk, p),
               after |-> AfterBlock(disk, p)]
      BY <1>2, <1>4, <2>4, <2>6 DEF BlockAt
    <3>2. b.offset = p /\ ReadAt(b, p)
      BY <3>1, <2>4, <2>6 DEF ReadAt
    <3>3. b.type \in Types
      BY <3>2, <1>1, ReadIsKnown DEF Types
    <3>4. b.after \in p + 1 .. Len(file)
      BY <3>3, <1>2, NextIsBeyond
    <3>5. b.after \in Boundary(file)
      <4>1. disk[p + 3] = file[p + 3]
        BY <2>4, <1>1, HeaderIsStart
      <4>2. b.after = p + 4 + file[p + 3].bodyLen
        BY <4>1, <3>1 DEF AfterBlock, HeaderLen
      <4> QED BY <4>2, <2>2 DEF Boundary
    <3> QED BY <3>2, <3>3, <3>4, <3>5, <1>2 DEF Lands
  <2> QED BY <2>5, <2>6
<1> QED BY <1>3, <1>4

\* the entries es lead to the packet at o, or an index block does that ended the search
Leads(b, es, o) == b.type = "index" \/ \E i \in DOMAIN es : es[i].file_offset = o

LEMMA LeadsFurther ==
    ASSUME NEW T, NEW head \in Seq(T), NEW es \in Seq(T), NEW b, NEW o, Leads(b, es, o)
    PROVE  Leads(b, head \o es, o)
<1>1. PICK m \in Nat, n \in Nat : m = Len(head) /\ n = Len(es)
  BY LenProperties
<1>0. PICK all : all = head \o es
  OBVIOUS
<1>2. /\ all \in Seq(T) /\ Len(all) = m + n
      /\ \A i \in 1 .. m + n : all[i] = IF i <= m THEN head[i] ELSE es[i - m]
  BY <1>0, <1>1, ConcatProperties
<1>3. ASSUME NEW i \in DOMAIN es, es[i].file_offset = o PROVE Leads(b, head \o es, o)
  <2>1. i \in 1 .. n
    BY <1>1, LenProperties
  <2>2. m + i \in 1 .. m + n /\ ~(m + i <= m) /\ (m + i) - m = i
    BY <2>1
  <2>3. all[m + i] = es[i]
    BY <2>2, <1>2
  <2>4. m + i \in DOMAIN all
    BY <2>2, <1>2, LenProperties
  <2> QED BY <2>3, <2>4, <1>0, <1>3 DEF Leads
<1> QED BY <1>3 DEF Leads

LEMMA LeadsHere ==
    ASSUME NEW T, NEW e \in T, NEW es \in Seq(T), NEW b, NEW o, e.file_offset = o
    PROVE  Leads(b, <<e>> \o es, o)
<1>1. PICK head : head = <<e>>
  OBVIOUS
<1>6. head \in Seq(T) /\ Len(head) = 1 /\ head[1] = e
  BY <1>1
<1>2. PICK n \in Nat : n = Len(es)
  BY LenProperties
<1>7. PICK all : all = head \o es
  OBVIOUS
<1>3. /\ all \in Seq(T) /\ Len(all) = 1 + n
      /\ \A i \in 1 .. 1 + n : all[i] = IF i <= 1 THEN head[i] ELSE es[i - 1]
  <2>1. /\ all \in Seq(T) /\ Len(all) = Len(head) + Len(es)
        /\ \A i \in 1 .. Len(head) + Len(es) : all[i] = IF i <= Len(head) THEN head[i] ELSE es[i - Len(head)]
    <3>1. head \in Seq(T) BY <1>6
    <3> QED BY <3>1, <1>7, ConcatProperties
  <2> QED BY <2>1, <1>2, <1>6
<1>4. all[1] = e
  <2>1. 1 \in 1 .. 1 + n BY <1>2
  <2> QED BY <2>1, <1>6, <1>3
<1>5. 1 \in DOMAIN all
  BY <1>2, <1>3, LenProperties
<1> QED BY <1>1, <1>4, <1>5, <1>7 DEF Leads

\* found is where rebuild_index ends from each position on, c what it collects
Searched(found, c) ==
    /\ \A p \in 0 .. Len(file) : found[p] = PastAt(p, {"packet", "cue"}, found)
    /\ c \in [0 .. Len(file) -> Seq(EntriesBelow(Len(file), log))]
    /\ \A p \in 0 .. Len(file) : c[p] = CollectedAt(p, {"packet", "cue"}, c)

LEMMA Search ==
    ASSUME FileInv
    PROVE  \E found, c :
              /\ Searched(found, c)
              /\ BlockPast(NextBlock, {"packet", "cue"}, DataStart) = found[DataStart]
              /\ EntriesAlong(NextBlock, {"packet", "cue"}) = c[DataStart]
<1> DEFINE n == Len(file)
           both == {"packet", "cue"}
           T == EntriesBelow(Len(file), log)
<1>1. PICK found : /\ \A p : BlockPast(NextBlock, both, p) = found[p]
                   /\ \A p \in 0 .. n : found[p] = PastAt(p, both, found)
  <2>1. both \in SUBSET Types BY DEF Types
  <2> QED BY <2>1, BlockPastDefined
<1>2. PICK c \in [0 .. n -> Seq(T)] :
          /\ EntriesAlong(NextBlock, both) = c[DataStart]
          /\ \A p \in 0 .. n : c[p] = CollectedAt(p, both, c)
  BY EntriesAlongDefined
<1> QED BY <1>1, <1>2 DEF Searched

\* What rebuild_index collects from where a block may start leads to every packet
\* from there on.
LEMMA CollectedLeads ==
    ASSUME FileInv, Chained(file), Formed(file), Fits(file), damaged = {},
           NEW found, NEW c, Searched(found, c)
    PROVE  \A p \in 0 .. Len(file) : p \in Boundary(file) =>
                \A o \in p .. Len(file) : RowAt(o) => Leads(found[p], c[p], o)
<1> DEFINE n == Len(file)
           both == {"packet", "cue"}
           T == EntriesBelow(Len(file), log)
<1>1. n \in Nat
  BY DiskLen
<1>2. \A p \in 0 .. n : found[p] = PastAt(p, both, found)
  BY DEF Searched
<1>3. c \in [0 .. n -> Seq(T)] /\ \A p \in 0 .. n : c[p] = CollectedAt(p, both, c)
  BY DEF Searched
<1> DEFINE good == {p \in 0 .. n : p \in Boundary(file) =>
                        \A o \in p .. n : RowAt(o) => Leads(found[p], c[p], o)}
<1>4. ASSUME NEW p \in 0 .. n, \A q \in p + 1 .. n : q \in good PROVE p \in good
  <2> SUFFICES ASSUME p \in Boundary(file), NEW o \in p .. n, RowAt(o)
               PROVE  Leads(found[p], c[p], o)
    OBVIOUS
  <2>1. PICK b : b = NextBlock[p]
    OBVIOUS
  <2>2. Lands(b, p)
    BY <2>1, NextAtBoundary
  <2>3. /\ b.type \in Types /\ b.offset = p /\ ReadAt(b, p)
        /\ b.after \in p + 1 .. n /\ b.after \in Boundary(file)
    BY <2>2 DEF Lands
  <2>4. p \in Nat /\ o \in Nat /\ p <= o
    BY <1>1
  <2>5. CASE b.type = "index"
    <3>1. found[p] = b
      BY <2>1, <2>5, <1>2 DEF PastAt
    <3> QED BY <3>1, <2>5 DEF Leads
  <2>6. CASE b.type \in both
    <3>1. PICK a \in p + 1 .. n : a = b.after
      BY <2>3
    <3>2. found[p] = found[a] /\ c[p] = Collects(p, both) \o c[a]
      BY <3>1, <2>1, <2>6, <1>2, <1>3 DEF PastAt, CollectedAt
    <3>3. Collects(p, both) \in Seq(T)
      <4>1. both \in SUBSET {"packet", "cue"} OBVIOUS
      <4> QED BY <4>1, CollectsType
    <3>4. c[a] \in Seq(T)
      BY <3>1, <1>1, <1>3
    <3>5. CASE o = p
      <4>1. b.type = "packet"
        BY <3>5, <2>3, RowIsRead DEF ReadAt
      <4>2. PICK e : /\ EntriesIn(b) = <<e>>
                     /\ e.file_offset = p
        <5>1. PICK q : q = PacketIn(b)
          OBVIOUS
        <5>2. PICK e : e = [packet_number |-> q.sequence, file_offset |-> b.offset,
                            track |-> q.track, key |-> q.key, pts |-> q.pts]
          OBVIOUS
        <5>3. EntriesIn(b) = <<e>>
          BY <4>1, <5>1, <5>2 DEF EntriesIn
        <5>4. e.file_offset = p
          BY <5>2, <2>3
        <5> QED BY <5>3, <5>4
      <4>3. Collects(p, both) = <<e>>
        BY <4>1, <4>2, <2>1 DEF Collects
      <4>4. e \in T
        <5>1. PICK s : s = Collects(p, both)
          OBVIOUS
        <5>2. Len(s) = 1 /\ s[1] = e
          BY <5>1, <4>3
        <5>3. 1 \in 1 .. Len(s) /\ s \in Seq(T)
          BY <5>1, <5>2, <3>3
        <5> HIDE DEF T, both
        <5>4. s[1] \in T
          BY <5>3, ElementOfSeq
        <5> QED BY <5>2, <5>4
      <4> HIDE DEF T, both
      <4> QED BY <4>2, <4>3, <4>4, <3>2, <3>4, <3>5, LeadsHere
    <3>6. CASE p < o
      <4>1. HeaderOk(disk, p) /\ a = AfterBlock(disk, p)
        BY <3>1, <2>3 DEF ReadAt
      <4>2. a <= o
        BY <4>1, <3>6, <2>4, NoRowInside
      <4>3. o \in a .. n
        BY <4>2, <3>1, <1>1
      <4>4. a \in good /\ a \in Boundary(file)
        BY <3>1, <2>3, <1>4
      <4>5. Leads(found[a], c[a], o)
        BY <4>3, <4>4
      <4> HIDE DEF T, both
      <4>6. Leads(found[a], Collects(p, both) \o c[a], o)
        BY <4>5, <3>3, <3>4, LeadsFurther
      <4> QED BY <4>6, <3>2
    <3> QED BY <3>5, <3>6, <2>4
  <2> QED BY <2>3, <2>5, <2>6 DEF Types
<1> HIDE DEF good
<1>5. \A p \in 0 .. n : p \in good
  <2>1. good \in SUBSET (0 .. n)
    BY DEF good
  <2> HIDE DEF n
  <2> QED BY <2>1, <1>1, <1>4, Backwards
<1> QED BY <1>5 DEF good

\* A rebuilt index leads to every packet of an undamaged file.
LEMMA RebuiltLeads ==
    ASSUME FileInv, ChainInv, FramesFit, EntriesFit, damaged = {},
           NEW r \in ToSet(log), Intact(r)
    PROVE  \E i \in DOMAIN Rebuilt.index : Rebuilt.index[i].file_offset = r.offset
<1> DEFINE final == BlockPast(NextBlock, {"packet", "cue"}, DataStart)
           es == EntriesAlong(NextBlock, {"packet", "cue"})
           o == r.offset
<1>1. Chained(file) /\ Formed(file) /\ Fits(file) /\ Indexed(file, entries)
  BY DEF ChainInv
<1>2. RowAt(o) /\ o \in DataStart .. Len(file)
  <2>1. RowAt(o)
    BY DEF RowAt
  <2>2. o \in Nat /\ o >= 1 /\ o + 5 <= Len(file)
    BY <2>1, RowIsRead
  <2> QED BY <2>1, <2>2, DiskLen DEF DataStart, FileStart
<1>3. Leads(final, es, o)
  <2>1. PICK found, c : /\ Searched(found, c)
                        /\ final = found[DataStart] /\ es = c[DataStart]
    BY Search DEF FileInv
  <2>2. DataStart \in 0 .. Len(file) /\ DataStart \in Boundary(file)
    BY DiskLen DEF DataStart, FileStart, Boundary
  <2>3. Leads(found[DataStart], c[DataStart], o)
    BY <2>1, <2>2, <1>1, <1>2, CollectedLeads
  <2> QED BY <2>1, <2>3
<1>4. Rebuilt = RebuiltOf(NextBlock, final)
  BY DEF Rebuilt, RebuiltFrom
<1>5. Placed(final, DataStart)
  <2>1. DataStart \in 0 .. Len(file) /\ {"packet", "cue"} \in SUBSET Types
    BY DiskLen DEF DataStart, FileStart, Types
  <2> QED BY <2>1, BlockPastScans
<1>6. PICK b : b = final
  OBVIOUS
<1>7. CASE b.type = "index"
  <2>1. ReadAt(b, b.offset) /\ b.offset \in Nat
    BY <1>5, <1>6, <1>7, DiskLen DEF Placed, DataStart, FileStart
  <2>2. b.offset \in Starts(file) /\ disk[b.offset + 3] = file[b.offset + 3]
    BY <2>1, HeaderIsStart DEF ReadAt
  <2>3. Tail(b.body) = entries
    <3>1. b.body = file[b.offset + 3].bodyCrc /\ file[b.offset + 3].type = "index"
      BY <2>1, <2>2, <1>7 DEF ReadAt, BodyOk
    <3> QED BY <3>1, <2>2, <1>1 DEF Indexed
  <2>4. Rebuilt.index = entries
    BY <2>3, <1>4, <1>6, <1>7 DEF RebuiltOf
  <2>5. PICK k \in 1 .. Len(log) : r = log[k]
    BY LenProperties DEF FileInv, MuxInv, MuxTyped, ToSet
  <2>6. k \in DOMAIN entries /\ entries[k].file_offset = o
    <3>1. k \in DOMAIN entries
      BY LenProperties DEF FileInv, MuxInv, MuxTyped
    <3>2. entries[k] = EntryFor(log[k])
      BY DEF FileInv, MuxLaid, RowsRight
    <3> QED BY <3>1, <3>2, <2>5 DEF EntryFor
  <2> QED BY <2>4, <2>6
<1>8. CASE b.type # "index"
  <2>1. Rebuilt.index = es
    BY <1>4, <1>6, <1>8 DEF RebuiltOf
  <2> QED BY <2>1, <1>3, <1>6, <1>8 DEF Leads
<1> QED BY <1>7, <1>8

\* The index leads to every packet of an undamaged file, or is empty.
IndexFull ==
    (damaged = {} /\ index # <<>>) =>
        \A r \in ToSet(log) : Intact(r) => \E i \in DOMAIN index : index[i].file_offset = r.offset

IndexInv == ChainInv /\ IndexFull

LEMMA DamagedIsNoCell == \A c \in Cell : c # Damaged
<1>1. \A c \in [crc : PreludeCell] : DOMAIN c = {"crc"}
  OBVIOUS
<1>2. \A c \in [start : {"SRS528"}] : DOMAIN c = {"start"}
  OBVIOUS
<1>3. DOMAIN Damaged = {"byte"}
  BY DEF Damaged
<1> QED BY <1>1, <1>2, <1>3, OnlyPreludesAreTyped DEF Cell

LEMMA InitIndex == DemuxInit => IndexInv
BY InitChain DEF DemuxInit, IndexInv, IndexFull

LEMMA IndexStep ==
    ASSUME FramesFit, EntriesFit, DemuxInv, IndexInv, [DemuxNext]_vars
    PROVE  IndexInv'
<1>1. ASSUME UNCHANGED <<muxVars, disk>>,
             index' = index \/ index' = Rebuilt.index
      PROVE  IndexInv'
  <2>1. /\ file' = file /\ log' = log /\ phase' = phase /\ disk' = disk
        /\ entries' = entries /\ \A r : Intact(r)' <=> Intact(r)
    BY <1>1, FileKept DEF muxVars
  <2>2. ChainInv'
    BY <2>1 DEF IndexInv, ChainInv, FramesFit, EntriesFit
  <2>3. damaged' = damaged
    BY <2>1 DEF damaged
  <2>4. CASE index' = index
    BY <1>1, <2>1, <2>2, <2>3, <2>4 DEF IndexInv, IndexFull
  <2>5. CASE index' = Rebuilt.index
    <3>1. ASSUME damaged = {}, NEW r \in ToSet(log), Intact(r)
          PROVE  \E i \in DOMAIN index' : index'[i].file_offset = r.offset
      BY <3>1, <2>5, RebuiltLeads DEF DemuxInv, IndexInv
    <3> QED BY <3>1, <2>1, <2>2, <2>3 DEF IndexInv, IndexFull
  <2> QED BY <1>1, <2>4, <2>5
<1>2. CASE UNCHANGED vars
  <2>1. UNCHANGED <<muxVars, disk>> /\ index' = index
    BY <1>2 DEF vars, demuxVars
  <2> QED BY <2>1, <1>1
<1>3. CASE Write
  <2>1. phase = "writing" /\ MuxInv /\ ChainInv
    BY <1>3 DEF Write, MuxNext, WritePacket, Finalize, Crash, DemuxInv, FileInv, IndexInv
  <2>2. ChainInv'
    BY <2>1, <1>3, ChainWritePacket, ChainEnd DEF Write, MuxNext
  <2>3. index' = <<>>
    BY <2>1, <1>3 DEF Write, DemuxInv, ReaderInv
  <2> QED BY <2>2, <2>3 DEF IndexInv, IndexFull
<1>4. CASE \E i \in DataStart + 1 .. Len(file) : Damage(i)
  <2>1. PICK i \in DataStart + 1 .. Len(file) : Damage(i)
    BY <1>4
  <2>2. UNCHANGED muxVars /\ file' = file /\ disk' = [disk EXCEPT ![i] = Damaged]
    BY <2>1 DEF Damage, muxVars
  <2>3. ChainInv'
    BY <2>2 DEF muxVars, IndexInv, ChainInv, FramesFit, EntriesFit
  <2>4. i \in damaged'
    <3>1. i \in DOMAIN disk /\ i \in DOMAIN file /\ file[i] \in Cell
      <4>1. FileInv /\ i \in 1 .. Len(file)
        BY DEF DemuxInv, DataStart, FileStart
      <4> QED BY <4>1, DiskLen, LenProperties, ElementOfSeq
    <3>2. file[i] # Damaged
      BY <3>1, DamagedIsNoCell
    <3> QED BY <3>1, <3>2, <2>2 DEF damaged
  <2> QED BY <2>3, <2>4 DEF IndexInv, IndexFull
<1>6. CASE Open \/ NextPacket \/ ResetToDataStart \/ RebuildIndex
  <2>1. UNCHANGED <<muxVars, disk>> /\ (index' = index \/ index' = Rebuilt.index)
    BY <1>6 DEF Open, NextPacket, ResetToDataStart, RebuildIndex
  <2> QED BY <2>1, <1>1
<1>7. CASE SeekStep
  <2>1. UNCHANGED <<muxVars, disk>> /\ (index' = index \/ index' = Rebuilt.index)
    BY <1>7 DEF SeekStep
  <2> QED BY <2>1, <1>1
<1> QED BY <1>2, <1>3, <1>4, <1>6, <1>7, SeekIs DEF DemuxNext

LEMMA IndexAlways ==
    ASSUME FramesFit, EntriesFit
    PROVE  DemuxSpec => []IndexInv
BY DemuxAlways, InitIndex, IndexStep, PTL DEF DemuxSpec

\* While nothing is damaged, whatever the writer left and wherever it was stopped,
\* the index a reader builds holds the packets that are whole and no others.
THEOREM IndexHoldsEveryPacket ==
    ASSUME FramesFit, EntriesFit
    PROVE  DemuxSpec => []IndexIsComplete
<1>1. DemuxInv /\ IndexInv => IndexIsComplete
  <2> SUFFICES ASSUME DemuxInv, IndexInv, Opened, damaged = {}, index # <<>>
               PROVE  {e.packet_number : e \in ToSet(index)}
                        = {r.packet.sequence : r \in {q \in ToSet(log) : Intact(q)}}
    BY DEF IndexIsComplete
  <2>1. /\ index \in Seq(EntriesBelow(Len(file), log)) /\ DOMAIN index = 1 .. Len(index)
        /\ log \in Seq(Row) /\ DOMAIN log = 1 .. Len(log) /\ Len(file) \in Nat
    BY LenProperties, DiskLen DEF DemuxInv, ReaderInv, FileInv, MuxInv, MuxTyped
  <2>2. ASSUME NEW e \in ToSet(index)
        PROVE  \E q \in ToSet(log) : /\ Intact(q) /\ q.offset = e.file_offset
                                     /\ q.packet.sequence = e.packet_number
    <3>1. e \in EntriesBelow(Len(file), log)
      BY <2>1, ElementOfSeq DEF ToSet
    <3>2. PICK k \in 1 .. Len(log) :
            /\ e = EntryFor(log[k])
            /\ e.file_offset + Len(PacketBlock(log[k].packet)) <= Len(file)
      BY <3>1 DEF EntriesBelow
    <3>3. log[k] \in ToSet(log) /\ log[k] \in Row
      BY <2>1, ElementOfSeq DEF ToSet
    <3>4. e.file_offset = log[k].offset /\ e.packet_number = log[k].packet.sequence
      BY <3>2 DEF EntryFor
    <3>5. Intact(log[k])
      <4>1. PICK l \in Nat : l = Len(PacketBlock(log[k].packet))
        <5>1. log[k].packet \in Packet BY <3>3 DEF Row
        <5> QED BY <5>1, PacketBlockType, LenProperties
      <4>2. log[k].offset \in Nat
        BY <3>3 DEF Row
      <4>3. log[k].offset + 1 .. log[k].offset + l \subseteq 1 .. Len(file)
        BY <4>1, <4>2, <3>2, <3>4, <2>1
      <4> QED BY <4>1, <4>3 DEF Intact, BlockCells
    <3> QED BY <3>3, <3>4, <3>5
  <2>3. ASSUME NEW r \in ToSet(log), Intact(r)
        PROVE  \E e \in ToSet(index) : e.packet_number = r.packet.sequence
    <3>1. PICK i \in DOMAIN index : index[i].file_offset = r.offset
      BY <2>3 DEF IndexInv, IndexFull
    <3>2. index[i] \in ToSet(index)
      BY DEF ToSet
    <3>3. PICK q \in ToSet(log) : /\ q.offset = index[i].file_offset
                                  /\ q.packet.sequence = index[i].packet_number
      BY <3>2, <2>2
    <3>4. q = r
      BY <3>1, <3>3, RowsApart DEF DemuxInv
    <3> QED BY <3>2, <3>3, <3>4
  <2> QED BY <2>2, <2>3
<1> QED BY <1>1, DemuxAlways, IndexAlways, PTL
-----------------------------------------------------------------------------
(* What the cues of an undamaged file repeat.                              *)

\* c[p] of the entries es are repeated by the cues before p, k by all of f, and
\* nothing follows an index block
CuesSoFar(c, f, es, k) ==
    /\ c \in [0 .. Len(f) -> 0 .. Len(es)]
    /\ c[DataStart] = 0 /\ c[Len(f)] = k
    /\ \A q \in Starts(f) : \A p \in {q + 4 + f[q + 3].bodyLen} :
          /\ f[q + 3].type = "cue" => c[q] <= c[p] /\ Repeats(Tail(f[q + 3].bodyCrc), es, c[q], c[p])
          /\ f[q + 3].type # "cue" => c[p] = c[q]
          /\ f[q + 3].type = "index" => p = Len(f)

\* A block behind the file continues the count.
LEMMA CuesAppend ==
    ASSUME NEW f \in Seq(Cell), Len(f) >= 1, Complete(f), Unindexed(f),
           NEW type \in {"packet", "cue", "index"}, NEW body \in Seq(BodyCell),
           NEW es \in Seq(Entry), NEW k \in 0 .. Len(es), NEW c, CuesSoFar(c, f, es, k),
           NEW more \in Seq(Entry), Len(es) <= Len(more),
           \A i \in 1 .. Len(es) : more[i] = es[i],
           NEW j \in k .. Len(more),
           type = "cue" => Repeats(Tail(body), more, k, j),
           type # "cue" => j = k
    PROVE  \E d : CuesSoFar(d, f \o Block(type, body), more, j)
<1>1. PICK g \in Seq(Cell) : Appended(g, f, type, body)
  BY StartsAppend
<1>2. PICK n \in Nat, m \in Nat, l \in Nat, e \in Nat :
        n = Len(f) /\ m = Len(body) /\ l = Len(more) /\ e = Len(es)
  BY LenProperties
<1>3. PICK x : x = Prelude(type, body)
  OBVIOUS
<1>4. /\ g = f \o Block(type, body) /\ Len(g) = n + 4 + m
      /\ \A q \in Starts(g) : \/ q \in Starts(f) /\ g[q + 3] = f[q + 3]
                              \/ q = n /\ g[q + 3] = x
  BY <1>1, <1>2, <1>3 DEF Appended
<1>5. x.type = type /\ x.bodyLen = m /\ x.bodyCrc = body
  BY <1>2, <1>3 DEF Prelude
<1>6. n >= 1 /\ e <= l /\ k \in 0 .. e /\ j \in k .. l /\ j \in 0 .. l
  BY <1>2
<1>7. /\ c \in [0 .. n -> 0 .. e] /\ c[1] = 0 /\ c[n] = k
      /\ \A q \in Starts(f) : \A p \in {q + 4 + f[q + 3].bodyLen} :
            /\ f[q + 3].type = "cue" => c[q] <= c[p] /\ Repeats(Tail(f[q + 3].bodyCrc), es, c[q], c[p])
            /\ f[q + 3].type # "cue" => c[p] = c[q]
  BY <1>2 DEF CuesSoFar, DataStart, FileStart
<1>8. PICK d : d = [p \in 0 .. n + 4 + m |-> IF p <= n THEN c[p] ELSE j]
  OBVIOUS
<1>9. /\ \A p \in 0 .. n : d[p] = c[p]
      /\ d[n + 4 + m] = j
  BY <1>8
<1>10. d \in [0 .. n + 4 + m -> 0 .. l]
  <2>1. \A p \in 0 .. n + 4 + m : p <= n => p \in 0 .. n
    OBVIOUS
  <2>2. \A p \in 0 .. n : c[p] \in 0 .. l
    BY <1>6, <1>7
  <2> QED BY <2>1, <2>2, <1>6, <1>8
<1>11. ASSUME NEW q \in Starts(g), NEW p, p = q + 4 + g[q + 3].bodyLen
       PROVE  /\ g[q + 3].type = "cue" => d[q] <= d[p] /\ Repeats(Tail(g[q + 3].bodyCrc), more, d[q], d[p])
              /\ g[q + 3].type # "cue" => d[p] = d[q]
              /\ g[q + 3].type = "index" => p = Len(g)
  <2>1. CASE q \in Starts(f) /\ g[q + 3] = f[q + 3]
    <3>1. q \in 0 .. n /\ p \in 0 .. n /\ g[q + 3].type # "index"
      <4>1. f[q + 3].bodyLen \in Nat /\ q \in Nat
        BY <2>1, <1>2 DEF Starts, PreludeCell
      <4>2. q + 4 + f[q + 3].bodyLen <= n /\ f[q + 3].type # "index"
        BY <2>1, <1>2 DEF Complete, Unindexed
      <4>3. p = q + 4 + f[q + 3].bodyLen
        BY <2>1, <1>11
      <4>4. q \in 0 .. n /\ p \in 0 .. n
        BY <4>1, <4>2, <4>3, SMTT(30)
      <4> QED BY <4>2, <4>4, <2>1
    <3>2. d[q] = c[q] /\ d[p] = c[p] /\ c[q] \in 0 .. e /\ c[p] \in 0 .. e
      BY <3>1, <1>7, <1>9
    <3>3. ASSUME Repeats(Tail(f[q + 3].bodyCrc), es, c[q], c[p])
          PROVE  Repeats(Tail(f[q + 3].bodyCrc), more, c[q], c[p])
      <4>1. ASSUME NEW i \in 1 .. c[p] - c[q] PROVE c[q] + i \in 1 .. e
        BY <3>2, SMTT(30)
      <4> QED BY <4>1, <3>3, <1>2 DEF Repeats
    <3> QED BY <3>1, <3>2, <3>3, <2>1, <1>7, <1>11
  <2>2. CASE q = n /\ g[q + 3] = x
    <3>1. p = n + 4 + m
      BY <2>2, <1>5, <1>11
    <3>2. d[q] = k /\ d[p] = j
      BY <3>1, <2>2, <1>7, <1>9
    <3> QED BY <3>1, <3>2, <2>2, <1>4, <1>5, <1>6
  <2> QED BY <2>1, <2>2, <1>4
<1>12. CuesSoFar(d, g, more, j)
  <2>1. d[DataStart] = 0 /\ d[Len(g)] = j
    <3>1. d[1] = 0
      BY <1>6, <1>7, <1>9
    <3> QED BY <3>1, <1>4, <1>9 DEF DataStart, FileStart
  <2> QED BY <2>1, <1>2, <1>4, <1>10, <1>11 DEF CuesSoFar
<1> QED BY <1>4, <1>12

Repeated == IF phase = "finalized" THEN Len(entries) ELSE pending_cue_start

\* The cues of a file that was not cut short count up to the last cue written.
CuesInv ==
    phase # "crashed" => Whole(file) /\ \E c : CuesSoFar(c, file, entries, Repeated)

LEMMA InitCues == MuxInit => CuesInv
<1> SUFFICES ASSUME MuxInit PROVE CuesInv
  OBVIOUS
<1>1. /\ Len(file) = 1 /\ entries = <<>> /\ Len(entries) = 0
      /\ pending_cue_start = 0 /\ phase = "writing"
  BY DEF MuxInit, FileStart
<1>2. Starts(file) = {}
  BY <1>1 DEF Starts
<1>3. Whole(file)
  BY <1>1, InitChain DEF ChainInv, Whole
<1>4. PICK c : c = [p \in 0 .. 1 |-> 0]
  OBVIOUS
<1>5. CuesSoFar(c, file, entries, 0)
  BY <1>1, <1>2, <1>4 DEF CuesSoFar, DataStart, FileStart
<1> QED BY <1>1, <1>3, <1>5 DEF CuesInv, Repeated

LEMMA CuesWritePacket ==
    ASSUME MuxInv, ChainInv, CuesInv, NEW frame \in Frames, WritePacket(frame)
    PROVE  CuesInv'
<1> DEFINE p == PacketOf(frame)
           e == EntryOf(frame)
           es == Append(entries, e)
           written == file \o PacketBlock(p)
<1>1. p \in Packet /\ e \in Entry
  BY FrameType DEF MuxInv
<1>2. /\ file \in Seq(Cell) /\ Len(file) \in Nat /\ Len(file) >= 1
      /\ entries \in Seq(Entry) /\ phase = "writing" /\ phase' = phase
      /\ cue_count \in Nat /\ packet_count \in Nat /\ pending_cue_start \in 0 .. Len(entries)
      /\ entries' = es
  BY LenProperties DEF MuxInv, MuxTyped, WritePacket, DataStart, FileStart
<1>3. Complete(file) /\ Gapless(file) /\ Formed(file) /\ Unindexed(file)
  BY <1>2 DEF ChainInv
<1>4. PICK c : CuesSoFar(c, file, entries, pending_cue_start)
  BY <1>2 DEF CuesInv, Repeated
<1>5. /\ es \in Seq(Entry) /\ Len(es) = Len(entries) + 1 /\ Len(entries) \in Nat
      /\ \A i \in 1 .. Len(entries) : es[i] = entries[i]
  BY <1>1, <1>2, AppendProperties, LenProperties
<1>6. PICK body \in Seq(BodyCell) : body = BodyOf(p)
  BY <1>1, BodyType
<1>7. PICK w \in Seq(Cell) : w = written /\ w = file \o Block("packet", body) /\ Len(w) >= 1
  <2>1. written = file \o Block("packet", body)
    BY <1>6 DEF PacketBlock, BodyOf
  <2>2. PICK w \in Seq(Cell) : Appended(w, file, "packet", body)
    BY <1>2, StartsAppend
  <2>3. Len(body) \in Nat /\ Len(w) = Len(file) + 4 + Len(body) /\ w = file \o Block("packet", body)
    BY <2>2, LenProperties DEF Appended
  <2>4. Len(w) >= 1
    BY <2>3, <1>2
  <2> HIDE DEF written
  <2> QED BY <2>1, <2>2, <2>3, <2>4
<1>8. Complete(w) /\ Gapless(w) /\ Formed(w) /\ Unindexed(w)
  BY <1>2, <1>3, <1>7, ChainAppend
<1> HIDE DEF es, written
<1>9. PICK d : CuesSoFar(d, w, es, pending_cue_start)
  <2>1. Len(entries) <= Len(es) /\ pending_cue_start \in pending_cue_start .. Len(es)
    BY <1>2, <1>5
  <2> QED BY <2>1, <1>2, <1>3, <1>4, <1>5, <1>7, CuesAppend
<1>10. CASE ~CueDue
  <2>1. file' = w /\ pending_cue_start' = pending_cue_start
    BY <1>7, <1>10 DEF WritePacket, written
  <2> QED BY <2>1, <1>2, <1>8, <1>9 DEF CuesInv, Repeated, Whole
<1>11. CASE CueDue
  <2>1. file' = w \o Cue(es) /\ pending_cue_start' = Len(es)
    BY <1>7, <1>11 DEF WritePacket, WriteCue, written, es
  <2>2. pending_cue_start \in 0 .. Len(es)
    BY <1>2, <1>5
  <2>3. PICK cue \in Seq(BodyCell) :
          Cue(es) = Block("cue", cue) /\ Repeats(Tail(cue), es, pending_cue_start, Len(es))
    BY <2>2, <1>2, <1>5, CueKnown
  <2>4. PICK g : g = w \o Block("cue", cue)
    OBVIOUS
  <2>5. Complete(g) /\ Gapless(g) /\ Formed(g)
    BY <2>4, <1>7, <1>8, ChainAppend
  <2>6. PICK r : CuesSoFar(r, g, es, Len(es))
    <3>1. Len(es) \in pending_cue_start .. Len(es) /\ Len(es) <= Len(es)
      BY <2>2, <1>5
    <3> QED BY <3>1, <2>2, <2>3, <2>4, <1>5, <1>7, <1>8, <1>9, CuesAppend
  <2>7. file' = g
    BY <2>1, <2>3, <2>4
  <2> QED BY <2>1, <2>5, <2>6, <2>7, <1>2 DEF CuesInv, Repeated, Whole
<1> QED BY <1>10, <1>11

LEMMA CuesFinalize ==
    ASSUME MuxInv, ChainInv, CuesInv, Finalize
    PROVE  CuesInv'
<1>1. /\ file \in Seq(Cell) /\ Len(file) \in Nat /\ Len(file) >= 1
      /\ entries \in Seq(Entry) /\ Len(entries) \in Nat /\ entries' = entries
      /\ phase = "writing" /\ phase' = "finalized" /\ file' = WithIndex
      /\ cue_count \in Nat /\ packet_count \in Nat /\ pending_cue_start \in 0 .. Len(entries)
  BY LenProperties DEF MuxInv, MuxTyped, Finalize, DataStart, FileStart
<1>2. Complete(file) /\ Gapless(file) /\ Formed(file) /\ Unindexed(file)
  BY <1>1 DEF ChainInv
<1>3. PICK c : CuesSoFar(c, file, entries, pending_cue_start)
  BY <1>1 DEF CuesInv, Repeated
<1>0. /\ Len(entries) <= Len(entries) /\ Len(entries) \in 0 .. Len(entries)
      /\ Len(entries) \in pending_cue_start .. Len(entries)
  BY <1>1
<1> DEFINE cued == file \o (IF pending_cue_start < Len(entries) THEN Cue(entries) ELSE <<>>)
<1>4. PICK f \in Seq(Cell) : /\ f = cued /\ Len(f) >= 1
                             /\ Complete(f) /\ Gapless(f) /\ Formed(f) /\ Unindexed(f)
                             /\ \E d : CuesSoFar(d, f, entries, Len(entries))
  <2>1. CASE pending_cue_start < Len(entries)
    <3>1. PICK cue \in Seq(BodyCell) : /\ Cue(entries) = Block("cue", cue)
                                       /\ Repeats(Tail(cue), entries, pending_cue_start, Len(entries))
      BY <1>1, CueKnown
    <3>2. PICK g \in Seq(Cell) : Appended(g, file, "cue", cue)
      BY <1>1, StartsAppend
    <3>3. g = file \o Block("cue", cue) /\ Len(g) >= 1
      <4>1. Len(cue) \in Nat
        BY LenProperties
      <4> QED BY <4>1, <3>2, <1>1 DEF Appended
    <3>4. Gapless(g) /\ Formed(g) /\ Complete(g) /\ Unindexed(g)
      BY <3>3, <1>1, <1>2, ChainAppend
    <3>5. PICK d : CuesSoFar(d, g, entries, Len(entries))
      BY <3>1, <3>3, <1>0, <1>1, <1>2, <1>3, CuesAppend
    <3>6. g = cued
      BY <2>1, <3>1, <3>3
    <3> HIDE DEF cued
    <3> QED BY <3>3, <3>4, <3>5, <3>6
  <2>2. CASE ~(pending_cue_start < Len(entries))
    <3>1. cued = file
      BY <2>2, <1>1, ConcatEmptySeq
    <3>2. pending_cue_start = Len(entries)
      BY <2>2, <1>1
    <3> HIDE DEF cued
    <3> QED BY <3>1, <3>2, <1>1, <1>2, <1>3
  <2> QED BY <2>1, <2>2
<1>5. PICK body \in Seq(BodyCell) : IndexBlock(entries) = Block("index", body)
  BY <1>1, IndexKnown
<1>6. PICK w : w = WithIndex /\ w = f \o Block("index", body)
  BY <1>4, <1>5 DEF WithIndex
<1>7. Gapless(w) /\ Formed(w) /\ Complete(w)
  BY <1>4, <1>6, ChainAppend
<1>8. PICK r : CuesSoFar(r, w, entries, Len(entries))
  <2>1. Len(entries) \in Len(entries) .. Len(entries)
    BY <1>1
  <2>2. PICK d : CuesSoFar(d, f, entries, Len(entries))
    BY <1>4
  <2> HIDE DEF cued
  <2> QED BY <2>1, <2>2, <1>0, <1>1, <1>4, <1>6, CuesAppend
<1> QED BY <1>1, <1>6, <1>7, <1>8 DEF CuesInv, Repeated, Whole

\* What next_block returns in an undamaged file that was not cut short: the very
\* block that starts there, or the end behind the last one.
LEMMA NextInWhole ==
    ASSUME FileInv, Whole(file), Fits(file), damaged = {}, NEW p \in 0 .. Len(file)
    PROVE  /\ p \in Starts(file) =>
                /\ NextBlock[p].type = file[p + 3].type
                /\ NextBlock[p].body = file[p + 3].bodyCrc
                /\ NextBlock[p].after = p + 4 + file[p + 3].bodyLen
                /\ NextBlock[p].type \in Types /\ NextBlock[p].after \in p + 1 .. Len(file)
           /\ p = Len(file) => NextBlock[p].type = "end"
<1>1. PICK n \in Nat : n = Len(file) /\ n = Len(disk) /\ p \in Nat /\ p <= n
  BY DiskLen
<1>2. PICK b : b = NextBlock[p] /\ b = BlockAt(p, NextBlock)
  BY NextBlockDefined
<1>3. CASE p = n
  <2>1. HeaderEof(disk, p)
    <3>1. Len(disk) = p /\ p < p + 3
      BY <1>1, <1>3
    <3> QED BY <3>1 DEF HeaderEof
  <2>2. b.type = "end"
    BY <2>1, <1>2 DEF BlockAt, EndOfFile
  <2>3. p \notin Starts(file)
    <3>1. ~(n <= n - 3)
      BY <1>1
    <3>2. Starts(file) \subseteq 0 .. n - 3
      BY <1>1 DEF Starts
    <3> QED BY <3>1, <3>2, <1>1, <1>3
  <2> QED BY <2>2, <2>3, <1>2
<1>4. CASE p \in Starts(file)
  <2>1. PICK l \in Nat : l = file[p + 3].bodyLen /\ p + 4 + l <= n
    BY <1>1, <1>4 DEF Whole, Complete, Starts, PreludeCell
  <2>2. p + 4 <= Len(file)
    BY <1>1, <2>1
  <2>3. disk = file /\ Formed(file)
    BY Undamaged DEF Whole
  <2>4. ~HeaderEof(disk, p) /\ ~BodyEof(disk, p)
    BY <1>1, <2>1, <2>3 DEF HeaderEof, BodyEof, HeaderLen
  <2>5. HeaderOk(disk, p) /\ BodyOk(disk, p)
    BY <2>2, <2>3, <2>4, <1>4, StartIsRead
  <2>6. b = [type |-> disk[p + 3].type, offset |-> p, body |-> BodyAt(disk, p),
             after |-> AfterBlock(disk, p)]
    BY <1>2, <2>4, <2>5 DEF BlockAt
  <2>7. /\ b.body = file[p + 3].bodyCrc /\ b.type = file[p + 3].type
        /\ b.after = p + 4 + file[p + 3].bodyLen
    BY <2>3, <2>5, <2>6 DEF BodyOk, AfterBlock, HeaderLen
  <2>8. b.type \in Types
    BY <1>4, <2>7 DEF Starts, PreludeCell, Types
  <2>9. b.after \in p + 1 .. Len(file)
    BY <2>8, <1>2, NextIsBeyond
  <2>10. p # Len(file)
    BY <2>2, <1>1
  <2> QED BY <2>7, <2>8, <2>9, <2>10, <1>2
<1> QED BY <1>1, <1>3, <1>4

LEMMA RepeatsOn ==
    ASSUME NEW T, NEW s \in Seq(T), NEW t \in Seq(T), NEW es,
           NEW a \in Nat, NEW b \in Nat, NEW k \in Nat, a <= b, b <= k,
           Repeats(s, es, a, b), Repeats(t, es, b, k)
    PROVE  Repeats(s \o t, es, a, k)
<1>1. Len(s) = b - a /\ Len(t) = k - b
  BY DEF Repeats
<1>2. PICK all : all = s \o t
  OBVIOUS
<1>3. /\ Len(all) = (b - a) + (k - b)
      /\ \A i \in 1 .. (b - a) + (k - b) : all[i] = IF i <= b - a THEN s[i] ELSE t[i - (b - a)]
  <2>1. /\ Len(all) = Len(s) + Len(t)
        /\ \A i \in 1 .. Len(s) + Len(t) : all[i] = IF i <= Len(s) THEN s[i] ELSE t[i - Len(s)]
    BY <1>2, ConcatProperties
  <2> QED BY <2>1, <1>1
<1>4. ASSUME NEW i \in 1 .. k - a PROVE all[i] = es[a + i]
  <2>1. i \in 1 .. (b - a) + (k - b)
    OBVIOUS
  <2>2. CASE i <= b - a
    <3>1. i \in 1 .. b - a
      BY <2>2
    <3> QED BY <3>1, <2>1, <2>2, <1>3 DEF Repeats
  <2>3. CASE ~(i <= b - a)
    <3>1. i - (b - a) \in 1 .. k - b /\ b + (i - (b - a)) = a + i
      BY <2>3
    <3>2. t[i - (b - a)] = es[b + (i - (b - a))]
      BY <3>1 DEF Repeats
    <3> QED BY <3>1, <3>2, <2>1, <2>3, <1>3
  <2> QED BY <2>2, <2>3
<1>5. Len(all) = k - a
  BY <1>3
<1> QED BY <1>2, <1>4, <1>5 DEF Repeats

\* A reader that collects cues in such a file collects what the count says.
LEMMA CollectedRepeats ==
    ASSUME FileInv, Whole(file), Fits(file), damaged = {}, NEW k \in 0 .. Len(entries),
           NEW c, CuesSoFar(c, file, entries, k)
    PROVE  /\ EntriesAlong(NextBlock, {"cue"}) \in Seq(Entry)
           /\ Repeats(EntriesAlong(NextBlock, {"cue"}), entries, 0, k)
<1> DEFINE n == Len(file)
           T == EntriesBelow(Len(file), log)
<1>1. n \in Nat /\ DataStart \in 0 .. n /\ entries \in Seq(Entry) /\ Len(entries) \in Nat
  BY DiskLen, LenProperties DEF DataStart, FileStart, FileInv, MuxInv, MuxTyped
<1>2. PICK s \in [0 .. n -> Seq(T)] :
          /\ EntriesAlong(NextBlock, {"cue"}) = s[DataStart]
          /\ \A p \in 0 .. n : s[p] = CollectedAt(p, {"cue"}, s)
  BY EntriesAlongDefined
<1>3. /\ c \in [0 .. n -> 0 .. Len(entries)] /\ c[DataStart] = 0 /\ c[n] = k
      /\ \A q \in Starts(file) : \A p \in {q + 4 + file[q + 3].bodyLen} :
            /\ file[q + 3].type = "cue" =>
                    c[q] <= c[p] /\ Repeats(Tail(file[q + 3].bodyCrc), entries, c[q], c[p])
            /\ file[q + 3].type # "cue" => c[p] = c[q]
            /\ file[q + 3].type = "index" => p = n
  BY DEF CuesSoFar
<1> DEFINE good == {p \in 0 .. n : p \in Boundary(file) =>
                        c[p] <= k /\ Repeats(s[p], entries, c[p], k)}
<1>4. ASSUME NEW p \in 0 .. n, \A q \in p + 1 .. n : q \in good PROVE p \in good
  <2> SUFFICES ASSUME p \in Boundary(file) PROVE c[p] <= k /\ Repeats(s[p], entries, c[p], k)
    OBVIOUS
  <2>1. PICK b : b = NextBlock[p]
    OBVIOUS
  <2>2. k \in Nat /\ c[p] \in Nat /\ \A q \in 0 .. n : c[q] \in Nat
    BY <1>1, <1>3
  <2>3. Repeats(<<>>, entries, k, k)
    BY <2>2 DEF Repeats
  <2>4. CASE p = n
    <3>1. b.type = "end"
      BY <2>1, <2>4, NextInWhole
    <3>2. s[p] = <<>>
      BY <3>1, <2>1, <1>2 DEF CollectedAt
    <3> QED BY <3>2, <2>2, <2>3, <2>4, <1>3
  <2>5. CASE p \in Starts(file)
    <3>1. /\ b.type = file[p + 3].type /\ b.body = file[p + 3].bodyCrc /\ b.type \in Types
          /\ b.after = p + 4 + file[p + 3].bodyLen /\ b.after \in p + 1 .. n
      BY <2>1, <2>5, NextInWhole
    <3>2. PICK a \in p + 1 .. n : a = b.after
      BY <3>1
    <3>3. a \in Boundary(file) /\ a \in good /\ a \in 0 .. n
      BY <3>1, <3>2, <2>5, <1>1, <1>4 DEF Boundary
    <3>4. c[a] <= k /\ Repeats(s[a], entries, c[a], k)
      BY <3>3
    <3>5. CASE b.type = "index"
      <4>1. s[p] = <<>>
        BY <3>5, <2>1, <1>2 DEF CollectedAt
      <4>2. c[p] = k
        BY <3>1, <3>2, <3>5, <2>5, <1>3
      <4> QED BY <4>1, <4>2, <2>2, <2>3
    <3>6. CASE b.type = "packet"
      <4>1. s[p] = <<>> \o s[a]
        BY <3>2, <3>6, <2>1, <1>2 DEF CollectedAt, Collects
      <4>2. s[a] \in Seq(T)
        BY <3>3
      <4>3. s[p] = s[a]
        <5> HIDE DEF T
        <5> QED BY <4>1, <4>2, ConcatEmptySeq
      <4>4. c[p] = c[a]
        BY <3>1, <3>2, <3>6, <2>5, <1>3
      <4> QED BY <4>3, <4>4, <3>4
    <3>7. CASE b.type = "cue"
      <4>1. s[p] = Tail(b.body) \o s[a]
        BY <3>2, <3>7, <2>1, <1>2 DEF CollectedAt, Collects, EntriesIn
      <4>2. c[p] <= c[a] /\ Repeats(Tail(b.body), entries, c[p], c[a])
        BY <3>1, <3>2, <3>7, <2>5, <1>3
      <4>3. Tail(b.body) \in Seq(T)
        <5>1. Collects(p, {"cue"}) \in Seq(T)
          BY CollectsType
        <5> QED BY <5>1, <3>7, <2>1 DEF Collects, EntriesIn
      <4>4. s[a] \in Seq(T)
        BY <3>3
      <4>5. c[a] \in Nat
        BY <3>3, <2>2
      <4> HIDE DEF T
      <4>6. Repeats(Tail(b.body) \o s[a], entries, c[p], k)
        BY <4>2, <4>3, <4>4, <4>5, <3>4, <2>2, RepeatsOn
      <4>7. c[p] <= k
        BY <4>2, <4>5, <3>4, <2>2
      <4> QED BY <4>1, <4>6, <4>7
    <3> QED BY <3>1, <3>5, <3>6, <3>7 DEF Types
  <2> QED BY <2>4, <2>5 DEF Whole, Gapless
<1> HIDE DEF good
<1>5. \A p \in 0 .. n : p \in good
  <2>1. good \in SUBSET (0 .. n)
    BY DEF good
  <2> HIDE DEF n
  <2> QED BY <2>1, <1>1, <1>4, Backwards
<1>6. Repeats(s[DataStart], entries, 0, k)
  <2>1. DataStart \in good /\ DataStart \in Boundary(file)
    BY <1>1, <1>5 DEF Boundary
  <2> QED BY <2>1, <1>3 DEF good
<1>7. s[DataStart] \in Seq(Entry)
  <2>1. T \subseteq Entry
    BY DEF EntriesBelow
  <2>2. s[DataStart] \in Seq(T)
    BY <1>1
  <2> HIDE DEF T
  <2> QED BY <2>1, <2>2, SeqMonotonic
<1> QED BY <1>2, <1>6, <1>7

LEMMA CuesStep ==
    ASSUME FramesFit, EntriesFit, DemuxInv, IndexInv, CuesInv, [DemuxNext]_vars
    PROVE  CuesInv'
<1>1. MuxInv /\ ChainInv
  BY DEF DemuxInv, FileInv, IndexInv
<1>2. CASE UNCHANGED muxVars
  BY <1>2 DEF muxVars, CuesInv, Repeated
<1>3. CASE MuxNext
  <2>1. CASE \E frame \in Frames : WritePacket(frame)
    BY <2>1, <1>1, CuesWritePacket
  <2>2. CASE Finalize
    BY <2>2, <1>1, CuesFinalize
  <2>3. CASE Crash
    BY <2>3 DEF Crash, CuesInv
  <2> QED BY <2>1, <2>2, <2>3, <1>3 DEF MuxNext
<1>4. UNCHANGED muxVars \/ MuxNext
  <2>1. SeekStep => UNCHANGED muxVars
    BY DEF SeekStep
  <2>2. UNCHANGED vars => UNCHANGED muxVars
    BY DEF vars
  <2>3. Open \/ NextPacket \/ ResetToDataStart \/ RebuildIndex => UNCHANGED muxVars
    BY DEF Open, NextPacket, ResetToDataStart, RebuildIndex
  <2>4. (\E i \in DataStart + 1 .. Len(file) : Damage(i)) => UNCHANGED muxVars
    BY DEF Damage
  <2> QED BY <2>1, <2>2, <2>3, <2>4, SeekIs DEF DemuxNext, Write
<1> QED BY <1>2, <1>3, <1>4

\* In an undamaged file that was not cut short the cues repeat each index entry
\* once and in order, up to the last cue written.
THEOREM CuesRepeatEveryEntry ==
    ASSUME FramesFit, EntriesFit
    PROVE  DemuxSpec => []CuesRepeatEntries
<1>1. DemuxInit => CuesInv
  BY InitCues DEF DemuxInit
<1>2. DemuxInv /\ IndexInv /\ CuesInv => CuesRepeatEntries
  <2> SUFFICES ASSUME DemuxInv, IndexInv, CuesInv, phase # "crashed", damaged = {}
               PROVE  EntriesAlong(NextBlock, {"cue"})
                        = IF phase = "finalized" THEN entries ELSE SubSeq(entries, 1, pending_cue_start)
    BY DEF CuesRepeatEntries
  <2>1. /\ entries \in Seq(Entry) /\ Len(entries) \in Nat
        /\ pending_cue_start \in 0 .. Len(entries) /\ FileInv /\ Fits(file)
    BY LenProperties DEF DemuxInv, FileInv, MuxInv, MuxTyped, IndexInv, ChainInv
  <2>2. PICK k \in 0 .. Len(entries) : k = Repeated
    BY <2>1 DEF Repeated
  <2>3. PICK c : Whole(file) /\ CuesSoFar(c, file, entries, k)
    BY <2>2 DEF CuesInv
  <2>4. PICK s : s = EntriesAlong(NextBlock, {"cue"})
    OBVIOUS
  <2>5. s \in Seq(Entry) /\ Repeats(s, entries, 0, k)
    BY <2>1, <2>3, <2>4, CollectedRepeats
  <2>6. PICK t : t = SubSeq(entries, 1, k)
    OBVIOUS
  <2>7. t \in Seq(Entry) /\ Len(t) = k /\ \A i \in 1 .. k : t[i] = entries[i]
    <3>1. \A i \in 1 .. k : entries[i] \in Entry
      BY <2>1, <2>2, ElementOfSeq
    <3>2. k \in Nat
      BY <2>1, <2>2
    <3> QED BY <3>1, <3>2, <2>6, SubSeqProperties
  <2>8. Len(s) = k /\ \A i \in 1 .. k : s[i] = entries[i]
    <3>1. k - 0 = k /\ \A i \in 1 .. k : 0 + i = i
      BY <2>1, <2>2
    <3> QED BY <3>1, <2>5 DEF Repeats
  <2>9. s = t
    BY <2>5, <2>7, <2>8, SeqEqual
  <2>10. CASE phase = "finalized"
    <3>1. t = entries
      BY <2>10, <2>1, <2>2, <2>6, SubSeqFull DEF Repeated
    <3> QED BY <3>1, <2>4, <2>9, <2>10
  <2>11. CASE phase # "finalized"
    BY <2>2, <2>4, <2>6, <2>9, <2>11 DEF Repeated
  <2> QED BY <2>10, <2>11
<1> QED BY <1>1, <1>2, CuesStep, DemuxAlways, IndexAlways, InitIndex, InitDemux, PTL DEF DemuxSpec
-----------------------------------------------------------------------------
(* Mux and demux implement the packet stream.                              *)

\* Each cue repeats entries of packets before it, up to the last of them.
CuesAt(f, es, rows) ==
    \A q \in Starts(f) : f[q + 3].type = "cue" =>
        \E a \in Nat, b \in Nat :
            /\ a <= b /\ b <= Len(es) /\ Repeats(Tail(f[q + 3].bodyCrc), es, a, b)
            /\ \A k \in 1 .. Len(rows) : k <= b <=> rows[k].offset < q

\* The packets lie one behind the other.
RowsInv ==
    /\ \A k \in 1 .. Len(log) : log[k].packet \in Packets
    /\ \A k, l \in 1 .. Len(log) :
            k < l => log[k].offset + Len(PacketBlock(log[k].packet)) <= log[l].offset
    /\ CuesAt(file, entries, log)

LEMMA CuesAtAppend ==
    ASSUME NEW f \in Seq(Cell), Len(f) >= 1,
           NEW type \in {"packet", "cue", "index"}, NEW body \in Seq(BodyCell),
           NEW es, NEW rows, CuesAt(f, es, rows),
           type = "cue" =>
                /\ \E a \in 0 .. Len(es) : Repeats(Tail(body), es, a, Len(es))
                /\ Len(es) = Len(rows) /\ \A k \in 1 .. Len(rows) : rows[k].offset < Len(f),
           Len(es) \in Nat
    PROVE  CuesAt(f \o Block(type, body), es, rows)
<1>1. PICK g \in Seq(Cell) : Appended(g, f, type, body)
  BY StartsAppend
<1>2. PICK x : x = Prelude(type, body)
  OBVIOUS
<1>3. /\ g = f \o Block(type, body)
      /\ \A q \in Starts(g) : \/ q \in Starts(f) /\ g[q + 3] = f[q + 3]
                              \/ q = Len(f) /\ g[q + 3] = x
      /\ x.type = type /\ x.bodyCrc = body
  BY <1>1, <1>2 DEF Appended, Prelude
<1>4. SUFFICES ASSUME NEW q \in Starts(g), g[q + 3].type = "cue"
               PROVE  \E a \in Nat, b \in Nat :
                        /\ a <= b /\ b <= Len(es) /\ Repeats(Tail(g[q + 3].bodyCrc), es, a, b)
                        /\ \A k \in 1 .. Len(rows) : k <= b <=> rows[k].offset < q
  BY <1>3 DEF CuesAt
<1>5. CASE q \in Starts(f) /\ g[q + 3] = f[q + 3]
  BY <1>4, <1>5 DEF CuesAt
<1>6. CASE q = Len(f) /\ g[q + 3] = x
  <2>1. type = "cue"
    BY <1>3, <1>4, <1>6
  <2>2. PICK n \in Nat : n = Len(es)
    OBVIOUS
  <2>3. PICK a \in 0 .. n : Repeats(Tail(body), es, a, n)
    BY <2>1, <2>2
  <2>4. \A k \in 1 .. Len(rows) : k <= n /\ rows[k].offset < q
    BY <2>1, <2>2, <1>6
  <2>5. a \in Nat /\ a <= n
    BY <2>3
  <2> QED BY <2>2, <2>3, <2>4, <2>5, <1>3, <1>6, SMTT(30)
<1> QED BY <1>3, <1>5, <1>6

LEMMA CuesAtMore ==
    ASSUME NEW f \in Seq(Cell), NEW es, NEW rows, CuesAt(f, es, rows),
           NEW es2, NEW rows2, Len(es) \in Nat, Len(es) = Len(rows),
           Len(es2) = Len(es) + 1, Len(rows2) = Len(rows) + 1,
           \A i \in 1 .. Len(es) : es2[i] = es[i] /\ rows2[i] = rows[i],
           rows2[Len(rows) + 1].offset = Len(f)
    PROVE  CuesAt(f, es2, rows2)
<1> SUFFICES ASSUME NEW q \in Starts(f), f[q + 3].type = "cue"
             PROVE  \E a \in Nat, b \in Nat :
                      /\ a <= b /\ b <= Len(es2) /\ Repeats(Tail(f[q + 3].bodyCrc), es2, a, b)
                      /\ \A k \in 1 .. Len(rows2) : k <= b <=> rows2[k].offset < q
  BY DEF CuesAt
<1>1. PICK n \in Nat : n = Len(es) /\ n = Len(rows) /\ Len(es2) = n + 1 /\ Len(rows2) = n + 1
  OBVIOUS
<1>2. PICK a \in Nat, b \in Nat :
        /\ a <= b /\ b <= n /\ Repeats(Tail(f[q + 3].bodyCrc), es, a, b)
        /\ \A k \in 1 .. n : k <= b <=> rows[k].offset < q
  BY <1>1 DEF CuesAt
<1>3. Repeats(Tail(f[q + 3].bodyCrc), es2, a, b)
  <2>1. ASSUME NEW i \in 1 .. b - a PROVE a + i \in 1 .. n
    BY <1>2
  <2> QED BY <2>1, <1>1, <1>2 DEF Repeats
<1>4. ASSUME NEW k \in 1 .. n + 1 PROVE k <= b <=> rows2[k].offset < q
  <2>1. CASE k \in 1 .. n
    BY <2>1, <1>1, <1>2
  <2>2. CASE k = n + 1
    <3>1. Len(f) \in Nat /\ q \in 0 .. Len(f) - 3
      BY LenProperties DEF Starts
    <3>2. ~(rows2[k].offset < q)
      BY <3>1, <2>2, <1>1
    <3>3. ~(k <= b)
      BY <2>2, <1>2
    <3> QED BY <3>2, <3>3
  <2> QED BY <2>1, <2>2
<1> QED BY <1>1, <1>2, <1>3, <1>4

LEMMA CuesAtPrefix ==
    ASSUME NEW f \in Seq(Cell), NEW es, NEW rows, CuesAt(f, es, rows), NEW m \in 0 .. Len(f)
    PROVE  CuesAt(SubSeq(f, 1, m), es, rows)
<1>1. \A i \in 1 .. m : f[i] \in Cell
  BY LenProperties, ElementOfSeq
<1>2. PICK h : h = SubSeq(f, 1, m)
  OBVIOUS
<1>3. h \in Seq(Cell) /\ Len(h) = m /\ \A i \in 1 .. m : h[i] = f[i]
  BY <1>1, <1>2, SubSeqProperties
<1>4. PICK n \in Nat : n = Len(f) /\ m \in Nat /\ m <= n
  BY LenProperties
<1>5. ASSUME NEW q \in Starts(h) PROVE q \in Starts(f) /\ h[q + 3] = f[q + 3]
  <2>1. q \in 0 .. m - 3 /\ q + 3 \in 1 .. m /\ q \in 0 .. Len(f) - 3
    BY <1>3, <1>4 DEF Starts
  <2>2. h[q + 3] \in PreludeCell
    BY DEF Starts
  <2> QED BY <2>1, <2>2, <1>3 DEF Starts
<1> QED BY <1>2, <1>5 DEF CuesAt

LEMMA InitRows == MuxInit => RowsInv
<1> SUFFICES ASSUME MuxInit PROVE RowsInv
  OBVIOUS
<1>1. Len(file) = 1 /\ log = <<>> /\ Len(log) = 0
  BY DEF MuxInit, FileStart
<1>2. Starts(file) = {}
  BY <1>1 DEF Starts
<1> QED BY <1>1, <1>2 DEF RowsInv, CuesAt

LEMMA RowsWritePacket ==
    ASSUME MuxInv, MuxLaid, RowsInv, NEW frame \in Frames, WritePacket(frame)
    PROVE  RowsInv'
<1> DEFINE p == PacketOf(frame)
           e == EntryOf(frame)
           es == Append(entries, e)
           row == [offset |-> Len(file), packet |-> p]
           rows == Append(log, row)
           written == file \o PacketBlock(p)
<1>1. p \in Packet /\ e \in Entry /\ row \in Row
  <2>1. p \in Packet /\ e \in Entry
    BY FrameType DEF MuxInv
  <2>2. Len(file) \in Nat
    BY LenProperties DEF MuxInv, MuxTyped
  <2> QED BY <2>1, <2>2 DEF Row
<1>2. /\ file \in Seq(Cell) /\ Len(file) \in Nat /\ Len(file) >= 1
      /\ entries \in Seq(Entry) /\ log \in Seq(Row) /\ Len(entries) = Len(log)
      /\ phase = "writing" /\ packet_count \in Nat /\ cue_count \in Nat
      /\ pending_cue_start \in 0 .. Len(entries) /\ entries' = es /\ log' = rows
      /\ sequence = Len(entries) /\ Len(entries) < MaxPackets
  BY LenProperties DEF MuxInv, MuxTyped, WritePacket, DataStart, FileStart
<1>3. PICK n \in Nat : n = Len(log) /\ n = Len(entries)
  BY <1>2, LenProperties
<1>4. /\ es \in Seq(Entry) /\ Len(es) = n + 1 /\ \A i \in 1 .. n : es[i] = entries[i]
      /\ rows \in Seq(Row) /\ Len(rows) = n + 1 /\ rows[n + 1] = row
      /\ \A i \in 1 .. n : rows[i] = log[i]
  <2>1. /\ es \in Seq(Entry) /\ Len(es) = n + 1 /\ \A i \in 1 .. n : es[i] = entries[i]
    BY <1>1, <1>2, <1>3, AppendProperties
  <2>2. /\ rows \in Seq(Row) /\ Len(rows) = n + 1 /\ rows[n + 1] = row
        /\ \A i \in 1 .. n : rows[i] = log[i]
    <3> HIDE DEF row
    <3> QED BY <1>1, <1>2, <1>3, AppendProperties
  <2> QED BY <2>1, <2>2
<1>5. p \in Packets
  <2>1. sequence \in 0 .. MaxPackets - 1
    BY <1>2, <1>3, MuxAssumption
  <2> QED BY <2>1 DEF Packets, PacketOf
<1> HIDE DEF es, rows, written
<1>6. ASSUME NEW k \in 1 .. n + 1 PROVE rows[k].packet \in Packets
  <2>1. CASE k \in 1 .. n
    BY <2>1, <1>3, <1>4 DEF RowsInv
  <2>2. CASE k = n + 1
    BY <2>2, <1>4, <1>5
  <2> QED BY <2>1, <2>2
<1>7. ASSUME NEW k \in 1 .. n
      PROVE  /\ log[k].offset \in Nat /\ Len(PacketBlock(log[k].packet)) \in Nat
             /\ log[k].offset + Len(PacketBlock(log[k].packet)) <= Len(file)
             /\ log[k].offset < Len(file)
  <2>1. log[k] \in Row
    BY <1>2, <1>3, ElementOfSeq
  <2>2. log[k].offset \in Nat /\ PacketBlock(log[k].packet) \in Seq(Cell)
    BY <2>1, PacketBlockType DEF Row
  <2>3. entries[k].file_offset = log[k].offset
    <3>1. entries[k] = EntryFor(log[k])
      BY <1>3 DEF MuxLaid, RowsRight
    <3> QED BY <3>1 DEF EntryFor
  <2>4. k \in DOMAIN entries
    BY <1>2, <1>3, LenProperties
  <2>5. entries[k].file_offset + Len(PacketBlock(log[k].packet)) <= Len(file)
    BY <2>4, <1>2, PointsAtIs DEF MuxInv
  <2>6. entries[k].file_offset < Len(file)
    BY <1>2, <1>3, LoggedInFile DEF MuxLaid, EntriesBelow
  <2> QED BY <2>2, <2>3, <2>5, <2>6, LenProperties
<1>8. ASSUME NEW k \in 1 .. n + 1, NEW l \in 1 .. n + 1, k < l
      PROVE  rows[k].offset + Len(PacketBlock(rows[k].packet)) <= rows[l].offset
  <2>1. k \in 1 .. n
    BY <1>8
  <2>2. CASE l \in 1 .. n
    BY <2>1, <2>2, <1>3, <1>4, <1>8 DEF RowsInv
  <2>3. CASE l = n + 1
    BY <2>1, <2>3, <1>4, <1>7
  <2> QED BY <2>2, <2>3
<1>9. PICK body \in Seq(BodyCell) : body = BodyOf(p)
  BY <1>1, BodyType
<1>10. PICK w \in Seq(Cell) : /\ w = written /\ w = file \o Block("packet", body)
                              /\ Len(w) >= 1 /\ Len(w) > Len(file)
  <2>1. written = file \o Block("packet", body)
    BY <1>9 DEF PacketBlock, BodyOf, written
  <2>2. PICK w \in Seq(Cell) : Appended(w, file, "packet", body)
    BY <1>2, StartsAppend
  <2>3. Len(body) \in Nat /\ Len(w) = Len(file) + 4 + Len(body) /\ w = file \o Block("packet", body)
    BY <2>2, LenProperties DEF Appended
  <2>4. Len(w) >= 1 /\ Len(w) > Len(file)
    BY <2>3, <1>2
  <2> QED BY <2>1, <2>2, <2>3, <2>4
<1>11. CuesAt(w, es, rows)
  <2>1. CuesAt(file, es, rows)
    <3>1. CuesAt(file, entries, log)
      BY DEF RowsInv
    <3>2. /\ Len(es) = Len(entries) + 1 /\ Len(rows) = Len(log) + 1
          /\ \A i \in 1 .. Len(entries) : es[i] = entries[i] /\ rows[i] = log[i]
          /\ rows[Len(log) + 1].offset = Len(file)
      BY <1>3, <1>4
    <3> QED BY <3>1, <3>2, <1>2, <1>3, CuesAtMore
  <2>2. Len(es) \in Nat
    BY <1>4
  <2> QED BY <2>1, <2>2, <1>2, <1>10, CuesAtAppend
<1>12. CASE ~CueDue
  <2>1. file' = w
    BY <1>10, <1>12 DEF WritePacket, written
  <2> QED BY <2>1, <1>2, <1>4, <1>6, <1>8, <1>11 DEF RowsInv, Packets
<1>13. CASE CueDue
  <2>1. file' = w \o Cue(es)
    BY <1>10, <1>13 DEF WritePacket, WriteCue, written, es
  <2>2. PICK cue \in Seq(BodyCell) :
          Cue(es) = Block("cue", cue) /\ Repeats(Tail(cue), es, pending_cue_start, Len(es))
    <3>1. pending_cue_start \in 0 .. Len(es)
      BY <1>2, <1>3, <1>4
    <3> QED BY <3>1, <1>2, <1>4, CueKnown
  <2>3. PICK g : g = w \o Block("cue", cue)
    OBVIOUS
  <2>4. CuesAt(g, es, rows)
    <3>1. \E a \in 0 .. Len(es) : Repeats(Tail(cue), es, a, Len(es))
      BY <2>2, <1>2, <1>3, <1>4
    <3>2. ASSUME NEW k \in 1 .. Len(rows) PROVE rows[k].offset < Len(w)
      <4>1. CASE k \in 1 .. n
        <5>1. log[k].offset < Len(file) /\ log[k].offset \in Nat /\ Len(w) \in Nat
          BY <4>1, <1>7, LenProperties
        <5> QED BY <5>1, <4>1, <1>2, <1>4, <1>10
      <4>2. CASE k = n + 1
        BY <4>2, <1>4, <1>10
      <4> QED BY <4>1, <4>2, <1>4, <3>2
    <3>3. Len(es) = Len(rows) /\ Len(es) \in Nat
      BY <1>4
    <3> QED BY <3>1, <3>2, <3>3, <2>3, <1>10, <1>11, CuesAtAppend
  <2>5. file' = g
    BY <2>1, <2>2, <2>3
  <2> QED BY <2>4, <2>5, <1>2, <1>4, <1>6, <1>8 DEF RowsInv, Packets
<1> QED BY <1>12, <1>13

LEMMA RowsEnd ==
    ASSUME MuxInv, MuxLaid, RowsInv, Finalize \/ Crash
    PROVE  RowsInv'
<1>1. /\ file \in Seq(Cell) /\ Len(file) \in Nat /\ Len(file) >= 1
      /\ entries \in Seq(Entry) /\ Len(entries) \in Nat /\ Len(entries) = Len(log)
      /\ entries' = entries /\ log' = log /\ phase = "writing"
      /\ cue_count \in Nat /\ packet_count \in Nat /\ pending_cue_start \in 0 .. Len(entries)
  BY LenProperties DEF MuxInv, MuxTyped, Finalize, Crash, DataStart, FileStart
<1>2. ASSUME NEW k \in 1 .. Len(log) PROVE log[k].offset < Len(file)
  <2>1. entries[k].file_offset < Len(file)
    BY <1>1, LoggedInFile DEF MuxLaid, EntriesBelow
  <2>2. entries[k].file_offset = log[k].offset
    <3>1. entries[k] = EntryFor(log[k])
      BY DEF MuxLaid, RowsRight
    <3> QED BY <3>1 DEF EntryFor
  <2> QED BY <2>1, <2>2
<1>3. CuesAt(file, entries, log)
  BY DEF RowsInv
<1> DEFINE cued == file \o (IF pending_cue_start < Len(entries) THEN Cue(entries) ELSE <<>>)
<1>4. PICK f \in Seq(Cell) : f = cued /\ Len(f) >= 1 /\ CuesAt(f, entries, log)
  <2>1. CASE pending_cue_start < Len(entries)
    <3>1. PICK cue \in Seq(BodyCell) : /\ Cue(entries) = Block("cue", cue)
                                       /\ Repeats(Tail(cue), entries, pending_cue_start, Len(entries))
      BY <1>1, CueKnown
    <3>2. PICK g \in Seq(Cell) : Appended(g, file, "cue", cue)
      BY <1>1, StartsAppend
    <3>3. g = file \o Block("cue", cue) /\ Len(g) >= 1
      <4>1. Len(cue) \in Nat
        BY LenProperties
      <4> QED BY <4>1, <3>2, <1>1 DEF Appended
    <3>4. CuesAt(g, entries, log)
      <4>1. \E a \in 0 .. Len(entries) : Repeats(Tail(cue), entries, a, Len(entries))
        BY <3>1, <1>1
      <4> QED BY <4>1, <3>3, <1>1, <1>2, <1>3, CuesAtAppend
    <3>5. g = cued
      BY <2>1, <3>1, <3>3
    <3> HIDE DEF cued
    <3> QED BY <3>3, <3>4, <3>5
  <2>2. CASE ~(pending_cue_start < Len(entries))
    <3>1. cued = file
      BY <2>2, <1>1, ConcatEmptySeq
    <3> HIDE DEF cued
    <3> QED BY <3>1, <1>1, <1>3
  <2> QED BY <2>1, <2>2
<1>5. PICK body \in Seq(BodyCell) : IndexBlock(entries) = Block("index", body)
  BY <1>1, IndexKnown
<1>6. PICK w \in Seq(Cell) : w = WithIndex /\ w = f \o Block("index", body)
  <2>1. WithIndex = f \o Block("index", body)
    BY <1>4, <1>5 DEF WithIndex
  <2>2. Block("index", body) \in Seq(Cell)
    BY CellsOfBlock
  <2> QED BY <2>1, <2>2, ConcatProperties
<1>7. CuesAt(w, entries, log)
  <2> HIDE DEF cued
  <2> QED BY <1>1, <1>4, <1>6, CuesAtAppend
<1>8. CuesAt(file', entries, log)
  <2>1. CASE Finalize
    BY <2>1, <1>6, <1>7 DEF Finalize
  <2>2. CASE Crash
    <3>1. PICK m \in DataStart .. Len(w) - 1 : file' = SubSeq(w, 1, m)
      BY <2>2, <1>6 DEF Crash
    <3>2. Len(w) \in Nat
      BY LenProperties
    <3>3. m \in 0 .. Len(w)
      BY <3>1, <3>2 DEF DataStart, FileStart
    <3> QED BY <3>1, <3>3, <1>7, CuesAtPrefix
  <2> QED BY <2>1, <2>2
<1> QED BY <1>1, <1>8 DEF RowsInv, Packets

LEMMA RowsStep ==
    ASSUME DemuxInv, RowsInv, [DemuxNext]_vars
    PROVE  RowsInv'
<1>1. MuxInv /\ MuxLaid
  BY DEF DemuxInv, FileInv
<1>2. CASE UNCHANGED muxVars
  BY <1>2 DEF muxVars, RowsInv, CuesAt, Packets
<1>3. CASE MuxNext
  <2>1. CASE \E frame \in Frames : WritePacket(frame)
    BY <2>1, <1>1, RowsWritePacket
  <2>2. CASE Finalize \/ Crash
    BY <2>2, <1>1, RowsEnd
  <2> QED BY <2>1, <2>2, <1>3 DEF MuxNext
<1>4. UNCHANGED muxVars \/ MuxNext
  <2>1. SeekStep => UNCHANGED muxVars
    BY DEF SeekStep
  <2>2. UNCHANGED vars => UNCHANGED muxVars
    BY DEF vars
  <2>3. Open \/ NextPacket \/ ResetToDataStart \/ RebuildIndex => UNCHANGED muxVars
    BY DEF Open, NextPacket, ResetToDataStart, RebuildIndex
  <2>4. (\E i \in DataStart + 1 .. Len(file) : Damage(i)) => UNCHANGED muxVars
    BY DEF Damage
  <2> QED BY <2>1, <2>2, <2>3, <2>4, SeekIs DEF DemuxNext, Write
<1> QED BY <1>2, <1>3, <1>4

\* Where a logged packet lies, and when it is whole in an undamaged file.
LEMMA RowIs ==
    ASSUME FileInv, NEW k \in 1 .. Len(log)
    PROVE  /\ log[k] \in ToSet(log) /\ log[k].packet \in Packet
           /\ log[k].offset \in Nat /\ log[k].offset >= 1
           /\ Len(PacketBlock(log[k].packet)) \in Nat /\ Len(PacketBlock(log[k].packet)) >= 5
           /\ entries[k] = EntryFor(log[k]) /\ log[k].packet.sequence = k - 1
           /\ damaged = {} =>
                (Intact(log[k]) <=> log[k].offset + Len(PacketBlock(log[k].packet)) <= Len(file))
<1>1. /\ log \in Seq(Row) /\ DOMAIN log = 1 .. Len(log) /\ Len(file) \in Nat
      /\ DOMAIN entries = 1 .. Len(log)
  BY LenProperties, DiskLen DEF FileInv, MuxInv, MuxTyped
<1>2. log[k] \in ToSet(log) /\ log[k] \in Row
  BY <1>1, ElementOfSeq DEF ToSet
<1>3. entries[k] = EntryFor(log[k]) /\ log[k].offset >= 1
  BY DEF FileInv, MuxLaid, RowsRight
<1>4. log[k].packet.sequence = k - 1
  BY <1>1 DEF FileInv, MuxInv, EntriesPointAtPackets
<1>5. PICK l \in Nat, o \in Nat : l = Len(PacketBlock(log[k].packet)) /\ o = log[k].offset /\ l >= 5
  <2>1. log[k].packet \in Packet /\ log[k].offset \in Nat
    BY <1>2 DEF Row
  <2>2. BodyOf(log[k].packet) \in Seq(BodyCell)
        /\ Len(BodyOf(log[k].packet)) = 1 + Len(log[k].packet.payload)
    BY <2>1, BodyType
  <2>3. Len(log[k].packet.payload) \in Nat
    BY <2>1, LenProperties DEF Packet
  <2>4. Len(PacketBlock(log[k].packet)) = 4 + Len(BodyOf(log[k].packet))
    BY <2>2, CellsOfBlock DEF PacketBlock, BodyOf
  <2> QED BY <2>1, <2>2, <2>3, <2>4
<1>6. ASSUME damaged = {} PROVE Intact(log[k]) <=> o + l <= Len(file)
  <2>1. Intact(log[k]) <=> (o + 1 .. o + l) \subseteq 1 .. Len(file)
    BY <1>5, <1>6 DEF Intact, BlockCells
  <2>2. o + l \in o + 1 .. o + l
    BY <1>5
  <2>3. (o + 1 .. o + l) \subseteq 1 .. Len(file) <=> o + l <= Len(file)
    BY <2>2, <1>1, <1>5
  <2> QED BY <2>1, <2>3
<1>7. log[k].packet \in Packet
  BY <1>2 DEF Row
<1> QED BY <1>2, <1>3, <1>4, <1>5, <1>6, <1>7

\* the first m packets are whole and no others
FirstWhole(m) == \A k \in 1 .. Len(log) : Intact(log[k]) <=> k <= m

\* the first c of the packets lie before the position p
Behind(p, c, m) == \A k \in 1 .. m : k <= c <=> log[k].offset < p

\* The packets that are whole in an undamaged file are the first ones.
LEMMA WholeAreFirst ==
    ASSUME FileInv, RowsInv, damaged = {}
    PROVE  \E m \in 0 .. Len(log) : FirstWhole(m)
<1>1. PICK n \in Nat : n = Len(log)
  BY LenProperties DEF FileInv, MuxInv, MuxTyped
<1> DEFINE whole == {0} \cup {k \in 1 .. n : Intact(log[k])}
<1>2. PICK m \in whole : \A k \in whole : k <= m
  <2>1. whole \in SUBSET (0 .. n) /\ whole # {}
    OBVIOUS
  <2> HIDE DEF whole
  <2> QED BY <2>1, GreatestExists
<1>3. m \in 0 .. n
  OBVIOUS
<1>4. ASSUME NEW k \in 1 .. n PROVE Intact(log[k]) <=> k <= m
  <2>1. Intact(log[k]) => k <= m
    BY <1>2
  <2>2. ASSUME k <= m PROVE Intact(log[k])
    <3>1. m \in 1 .. n /\ Intact(log[m])
      BY <2>2, <1>3
    <3>2. CASE k = m BY <3>1, <3>2
    <3>3. CASE k < m
      <4>1. log[k].offset + Len(PacketBlock(log[k].packet)) <= log[m].offset
        BY <3>1, <3>3, <1>1 DEF RowsInv
      <4>2. log[m].offset + Len(PacketBlock(log[m].packet)) <= Len(file)
        BY <3>1, <1>1, RowIs
      <4>3. /\ log[k].offset \in Nat /\ Len(PacketBlock(log[k].packet)) \in Nat
            /\ log[m].offset \in Nat /\ Len(PacketBlock(log[m].packet)) \in Nat
        BY <3>1, <1>1, RowIs
      <4>4. log[k].offset + Len(PacketBlock(log[k].packet)) <= Len(file)
        BY <4>1, <4>2, <4>3, DiskLen
      <4> QED BY <4>4, <1>1, RowIs
    <3> QED BY <3>2, <3>3, <3>1, <2>2
  <2> QED BY <2>1, <2>2
<1> QED BY <1>1, <1>3, <1>4 DEF FirstWhole

LEMMA BehindExists ==
    ASSUME FileInv, RowsInv, NEW m \in 0 .. Len(log), NEW p \in Nat
    PROVE  \E c \in 0 .. m : Behind(p, c, m)
<1>1. PICK n \in Nat : n = Len(log) /\ m \in 0 .. n
  BY LenProperties DEF FileInv, MuxInv, MuxTyped
<1> DEFINE past == {0} \cup {k \in 1 .. m : log[k].offset < p}
<1>2. PICK c \in past : \A k \in past : k <= c
  <2>1. past \in SUBSET (0 .. m) /\ past # {} /\ m \in Nat
    BY <1>1
  <2> HIDE DEF past
  <2> QED BY <2>1, GreatestExists
<1>3. c \in 0 .. m /\ m \in Nat
  BY <1>1
<1>4. ASSUME NEW k \in 1 .. m, k <= c PROVE log[k].offset < p
  <2>1. c \in 1 .. m /\ log[c].offset < p
    BY <1>3, <1>4
  <2>2. CASE k = c BY <2>1, <2>2
  <2>3. CASE k < c
    <3>1. k \in 1 .. Len(log) /\ c \in 1 .. Len(log)
      BY <2>1, <1>1
    <3>2. log[k].offset < log[c].offset
      BY <3>1, <2>3 DEF FileInv, MuxLaid, RowsRight
    <3>3. log[k].offset \in Nat /\ log[c].offset \in Nat
      BY <3>1, RowIs
    <3> QED BY <3>2, <3>3, <2>1
  <2> QED BY <2>2, <2>3, <2>1, <1>4
<1> QED BY <1>2, <1>3, <1>4 DEF Behind

LEMMA CountIs ==
    ASSUME NEW m \in Nat, NEW set, set = 1 .. m
    PROVE  Cardinality(set) = m
<1>1. Cardinality(1 .. m) = IF 1 > m THEN 0 ELSE m - 1 + 1
  BY FS_Interval
<1> QED BY <1>1

PassedAt(p) == Cardinality({k \in DOMAIN log : Intact(log[k]) /\ log[k].offset < p})

\* The mapping, in an undamaged file.
LEMMA MappedIs ==
    ASSUME FileInv, NEW m \in 0 .. Len(log), FirstWhole(m)
    PROVE  /\ WholePackets = [k \in 1 .. m |-> log[k].packet]
           /\ Len(WholePackets) = m
           /\ \A p : \A c \in 0 .. m : Behind(p, c, m) => PassedAt(p) = c
<1>1. PICK n \in Nat : n = Len(log) /\ DOMAIN log = 1 .. n /\ m \in 0 .. n /\ m \in Nat
  BY LenProperties DEF FileInv, MuxInv, MuxTyped
<1>2. {k \in DOMAIN log : Intact(log[k])} = 1 .. m
  BY <1>1 DEF FirstWhole
<1>3. Cardinality({k \in DOMAIN log : Intact(log[k])}) = m
  BY <1>1, <1>2, CountIs
<1>4. WholePackets = [k \in 1 .. m |-> log[k].packet]
  BY <1>3 DEF WholePackets
<1>5. Len(WholePackets) = m
  <2>1. PICK w : w = WholePackets
    OBVIOUS
  <2>2. w = [k \in 1 .. m |-> log[k].packet]
    BY <2>1, <1>4
  <2>3. Len(w) = m
    BY <2>2, <1>1
  <2> QED BY <2>1, <2>3
<1>6. ASSUME NEW p, NEW c \in 0 .. m, Behind(p, c, m) PROVE PassedAt(p) = c
  <2>1. {k \in DOMAIN log : Intact(log[k]) /\ log[k].offset < p} = 1 .. c
    <3>1. c \in Nat /\ c <= m
      BY <1>1
    <3>2. ASSUME NEW k \in 1 .. n
          PROVE  Intact(log[k]) /\ log[k].offset < p <=> k \in 1 .. c
      <4>1. CASE k <= m
        BY <4>1, <3>1, <1>1, <1>6 DEF FirstWhole, Behind
      <4>2. CASE ~(k <= m)
        BY <4>2, <3>1, <1>1 DEF FirstWhole
      <4> QED BY <4>1, <4>2
    <3>3. 1 .. c \subseteq 1 .. n
      BY <3>1, <1>1
    <3> QED BY <3>2, <3>3, <1>1
  <2>2. c \in Nat
    BY <1>1
  <2> QED BY <2>1, <2>2, CountIs DEF PassedAt
<1> QED BY <1>4, <1>5, <1>6

-----------------------------------------------------------------------------
\* Where a reader stands: where a block may start, or no packet comes any more.
NoRowFrom(p) == \A o \in p .. Len(file) : ~RowAt(o)
Standing(p) == p \in Boundary(file) \/ NoRowFrom(p)

\* A block starts where one may start.
LEMMA StartIsBoundary ==
    ASSUME FileInv, Chained(file), NEW q \in Starts(file)
    PROVE  q \in Boundary(file)
<1>1. PICK n \in Nat : n = Len(file) /\ n >= 1
  BY DiskLen
<1>2. q \in Nat /\ q >= 1 /\ q + 3 <= n
  <2>1. q \in 0 .. n - 3 /\ q >= 1
    BY <1>1 DEF Starts, FileInv, MuxLaid, Layout
  <2> QED BY <2>1, <1>1
<1> DEFINE before == {p \in 0 .. q : p \in Boundary(file)}
<1>3. PICK p \in before : \A x \in before : x <= p
  <2>1. DataStart \in before
    BY <1>2 DEF Boundary, DataStart, FileStart
  <2>2. before \in SUBSET (0 .. q) /\ before # {}
    BY <2>1
  <2> HIDE DEF before
  <2> QED BY <2>2, <1>2, GreatestExists
<1>4. p \in 0 .. q /\ p \in Boundary(file) /\ p \in Nat
  BY <1>2
<1>5. p \in Starts(file)
  <2>1. ~(p > n - 3)
    BY <1>1, <1>2, <1>4
  <2> QED BY <2>1, <1>1, <1>4 DEF Chained
<1>6. CASE p < q
  <2>1. p + 4 + file[p + 3].bodyLen <= q
    BY <1>5, <1>6 DEF FileInv, MuxLaid, Layout
  <2>2. file[p + 3].bodyLen \in Nat
    BY <1>5 DEF Starts, PreludeCell
  <2>3. PICK x : x = p + 4 + file[p + 3].bodyLen
    OBVIOUS
  <2>4. x \in Boundary(file)
    BY <2>3, <1>5 DEF Boundary
  <2>5. x \in 0 .. q /\ x > p
    BY <2>1, <2>2, <2>3, <1>2, <1>4
  <2>6. x \in before
    BY <2>4, <2>5
  <2> QED BY <2>5, <2>6, <1>3, <1>4
<1> QED BY <1>2, <1>4, <1>5, <1>6

\* Where a search over blocks ends in an undamaged file: at a block, with another
\* place behind it where one may start, or where no packet comes any more.
EndsAt(b, p, skipped) ==
    /\ b.type \notin skipped
    /\ \E q \in p .. Len(file) :
          /\ b.after \in q .. Len(file)
          /\ "packet" \notin skipped => \A o \in p .. q - 1 : ~RowAt(o)
          /\ \/ b.type \in Types /\ b.after \in Boundary(file)
             \/ b.type \in {"end", "error"} /\ NoRowFrom(q)

LEMMA SearchLands ==
    ASSUME FileInv, Chained(file), Formed(file), Fits(file), damaged = {},
           NEW skipped \in SUBSET Types
    PROVE  \A p \in 0 .. Len(file) : p \in Boundary(file) =>
                EndsAt(BlockPast(NextBlock, skipped, p), p, skipped)
<1> DEFINE n == Len(file)
<1>1. n \in Nat
  BY DiskLen
<1>2. PICK found : /\ \A p : BlockPast(NextBlock, skipped, p) = found[p]
                   /\ \A p \in 0 .. n : found[p] = PastAt(p, skipped, found)
  BY BlockPastDefined
<1> DEFINE good == {p \in 0 .. n : p \in Boundary(file) => EndsAt(found[p], p, skipped)}
<1>3. ASSUME NEW p \in 0 .. n, \A q \in p + 1 .. n : q \in good PROVE p \in good
  <2> SUFFICES ASSUME p \in Boundary(file) PROVE EndsAt(found[p], p, skipped)
    OBVIOUS
  <2>1. PICK b : b = NextBlock[p]
    OBVIOUS
  <2>2. Lands(b, p) /\ Placed(b, p)
    BY <2>1, NextAtBoundary, NextBlockScans DEF Scanned
  <2>3. CASE b.type \in skipped
    <3>1. b.after \in p + 1 .. n /\ b.after \in Boundary(file)
      BY <2>2, <2>3 DEF Lands, Types
    <3>2. PICK a \in p + 1 .. n : a = b.after
      BY <3>1
    <3>3. found[p] = found[a]
      BY <3>2, <2>1, <2>3, <1>2 DEF PastAt
    <3>4. EndsAt(found[a], a, skipped)
      BY <3>1, <3>2, <1>3
    <3>5. a .. n \subseteq p .. n
      BY <1>1
    <3>6. PICK q \in a .. n :
            /\ found[a].after \in q .. n
            /\ "packet" \notin skipped => \A o \in a .. q - 1 : ~RowAt(o)
            /\ \/ found[a].type \in Types /\ found[a].after \in Boundary(file)
               \/ found[a].type \in {"end", "error"} /\ NoRowFrom(q)
      BY <3>4 DEF EndsAt
    <3>7. ASSUME "packet" \notin skipped, NEW o \in p .. q - 1, RowAt(o) PROVE FALSE
      <4>1. p \in Nat /\ o \in Nat /\ a \in Nat /\ q \in Nat
        BY <1>1
      <4>2. o < a
        <5>1. ~(o \in a .. q - 1)
          BY <3>6, <3>7
        <5> QED BY <5>1, <4>1
      <4>3. ReadAt(b, p)
        BY <2>2, <2>3 DEF Lands, Types
      <4>4. o # p
        <5>1. b.type # "packet"
          BY <2>3, <3>7
        <5> QED BY <5>1, <4>3, <3>7, RowIsRead DEF ReadAt
      <4>5. p < o
        BY <4>1, <4>4
      <4>6. AfterBlock(disk, p) <= o
        BY <4>1, <4>3, <4>5, <3>7, NoRowInside DEF ReadAt
      <4> QED BY <4>1, <4>2, <4>3, <4>6, <3>2 DEF ReadAt
    <3>8. found[p].type \notin skipped
      BY <3>3, <3>4 DEF EndsAt
    <3>9. q \in p .. n
      BY <3>5
    <3> QED BY <3>3, <3>6, <3>7, <3>8, <3>9 DEF EndsAt
  <2>4. CASE b.type \notin skipped
    <3>1. found[p] = b
      BY <2>1, <2>4, <1>2 DEF PastAt
    <3>2. p \in p .. n /\ b.after \in p .. n
      BY <2>2, <1>1 DEF Placed
    <3>3. \/ b.type \in Types /\ b.after \in Boundary(file)
          \/ b.type \in {"end", "error"} /\ NoRowFrom(p)
      BY <2>2 DEF Lands, NoRowFrom
    <3>4. \A o \in p .. p - 1 : ~RowAt(o)
      BY <1>1
    <3> QED BY <3>1, <3>2, <3>3, <3>4, <2>4 DEF EndsAt
  <2> QED BY <2>3, <2>4
<1> HIDE DEF good
<1>4. \A p \in 0 .. n : p \in good
  <2>1. good \in SUBSET (0 .. n)
    BY DEF good
  <2> HIDE DEF n
  <2> QED BY <2>1, <1>1, <1>3, Backwards
<1> QED BY <1>2, <1>4 DEF good

\* Reading on from where a reader may stand, in an undamaged file.
LEMMA ReadOn ==
    ASSUME FileInv, Chained(file), Formed(file), Fits(file), damaged = {}, FramesFit,
           NEW p \in 0 .. Len(file), Standing(p), NEW b, b = NextPacketFrom(p)
    PROVE  /\ b.after \in p .. Len(file) /\ Standing(b.after)
           /\ \/ /\ b.type = "packet"
                 /\ \E r \in ToSet(log) : RowOf(b, r) /\ p <= r.offset
                 /\ \A o \in p .. b.offset - 1 : ~RowAt(o)
              \/ b.type \in {"end", "error"} /\ NoRowFrom(p)
<1> DEFINE skipped == {"cue", "index"}
<1>1. PICK n \in Nat : n = Len(file) /\ p \in Nat /\ p <= n
  BY DiskLen
<1>2. skipped \in SUBSET Types
  BY DEF Types
<1>3. Placed(b, p) /\ b.type \notin skipped /\ NonePassed(b, p)
  BY <1>2, BlockPastScans DEF NextPacketFrom
<1>4. b.offset \in Nat /\ b.after \in Nat /\ b.after \in p .. n /\ p <= b.offset
  BY <1>1, <1>3 DEF Placed
<1>5. CASE b.type = "packet"
  <2>1. PICK r \in ToSet(log) : RowOf(b, r)
    <3>1. ReadAt(b, b.offset)
      BY <1>3, <1>5 DEF Placed
    <3> QED BY <3>1, <1>4, <1>5, PacketRow
  <2>2. p <= r.offset
    BY <2>1, <1>4 DEF RowOf
  <2>3. \A o \in p .. b.offset - 1 : ~RowAt(o)
    BY <1>3, <1>5 DEF NonePassed
  <2>4. RowAt(r.offset) /\ r.offset \in p .. n
    <3>1. r.offset = b.offset /\ Intact(r)
      BY <2>1 DEF RowOf
    <3>2. b.offset \in p .. n
      BY <1>1, <1>3 DEF Placed
    <3> QED BY <3>1, <3>2 DEF RowAt
  <2>5. p \in Boundary(file)
    BY <2>4, <1>1 DEF Standing, NoRowFrom
  <2>6. EndsAt(b, p, skipped)
    BY <2>5, <1>2, SearchLands DEF NextPacketFrom
  <2>7. b.after \in Boundary(file)
    BY <2>6, <1>5 DEF EndsAt
  <2> QED BY <2>1, <2>2, <2>3, <2>7, <1>1, <1>4, <1>5 DEF Standing
<1>6. CASE b.type # "packet"
  <2>1. b.type \in {"end", "error"}
    BY <1>3, <1>6 DEF Placed
  <2>2. NoRowFrom(p)
    <3>1. CASE NoRowFrom(p) BY <3>1
    <3>2. CASE p \in Boundary(file)
      <4>1. EndsAt(b, p, skipped)
        BY <3>2, <1>2, SearchLands DEF NextPacketFrom
      <4>2. PICK q \in p .. n : NoRowFrom(q) /\ \A o \in p .. q - 1 : ~RowAt(o)
        BY <4>1, <2>1, <1>1 DEF EndsAt, Types
      <4>3. ASSUME NEW o \in p .. n, RowAt(o) PROVE FALSE
        <5>1. o \in q .. n \/ o \in p .. q - 1
          BY <1>1
        <5> QED BY <5>1, <4>2, <4>3, <1>1 DEF NoRowFrom
      <4> QED BY <4>3, <1>1 DEF NoRowFrom
    <3> QED BY <3>1, <3>2 DEF Standing
  <2>3. NoRowFrom(b.after)
    <3>1. b.after .. n \subseteq p .. n
      BY <1>1, <1>4
    <3> QED BY <3>1, <2>2, <1>1 DEF NoRowFrom
  <2> QED BY <2>1, <2>2, <2>3, <1>1, <1>4 DEF Standing
<1> QED BY <1>5, <1>6

-----------------------------------------------------------------------------
\* An entry is followed by entries of all packets behind its own.
Follow(es) ==
    \A x \in DOMAIN es : \A k \in 1 .. Len(log) :
        (Intact(log[k]) /\ es[x].file_offset < log[k].offset) =>
            \E y \in DOMAIN es : x < y /\ es[y].file_offset = log[k].offset

LEMMA FollowOn ==
    ASSUME NEW T, NEW head \in Seq(T), NEW es \in Seq(T), Follow(es),
           \A x \in 1 .. Len(head) : \A k \in 1 .. Len(log) :
                (Intact(log[k]) /\ head[x].file_offset < log[k].offset) =>
                    \/ \E y \in 1 .. Len(head) : x < y /\ head[y].file_offset = log[k].offset
                    \/ \E y \in DOMAIN es : es[y].file_offset = log[k].offset
    PROVE  Follow(head \o es)
<1>1. PICK m \in Nat, n \in Nat : m = Len(head) /\ n = Len(es) /\ DOMAIN es = 1 .. n
  BY LenProperties
<1>2. PICK all : all = head \o es
  OBVIOUS
<1>3. /\ all \in Seq(T) /\ Len(all) = m + n
      /\ \A i \in 1 .. m + n : all[i] = IF i <= m THEN head[i] ELSE es[i - m]
  BY <1>1, <1>2, ConcatProperties
<1>4. DOMAIN all = 1 .. m + n
  BY <1>3, LenProperties
<1>5. ASSUME NEW y \in 1 .. n PROVE m + y \in 1 .. m + n /\ all[m + y] = es[y]
  <2>1. m + y \in 1 .. m + n /\ ~(m + y <= m) /\ (m + y) - m = y
    BY <1>1
  <2> QED BY <2>1, <1>3
<1>6. ASSUME NEW x \in 1 .. m + n, NEW k \in 1 .. Len(log), Intact(log[k]),
             all[x].file_offset < log[k].offset
      PROVE  \E y \in 1 .. m + n : x < y /\ all[y].file_offset = log[k].offset
  <2>1. CASE x <= m
    <3>1. x \in 1 .. m /\ all[x] = head[x]
      BY <2>1, <1>3
    <3>2. \/ \E y \in 1 .. m : x < y /\ head[y].file_offset = log[k].offset
          \/ \E y \in 1 .. n : es[y].file_offset = log[k].offset
      BY <3>1, <1>1, <1>6
    <3>3. ASSUME NEW y \in 1 .. m, x < y, head[y].file_offset = log[k].offset
          PROVE  \E z \in 1 .. m + n : x < z /\ all[z].file_offset = log[k].offset
      <4>1. y \in 1 .. m + n /\ all[y] = head[y]
        BY <1>3
      <4> QED BY <4>1, <3>3
    <3>4. ASSUME NEW y \in 1 .. n, es[y].file_offset = log[k].offset
          PROVE  \E z \in 1 .. m + n : x < z /\ all[z].file_offset = log[k].offset
      <4>1. m + y \in 1 .. m + n /\ all[m + y] = es[y] /\ x < m + y
        BY <2>1, <1>5
      <4> QED BY <4>1, <3>4
    <3> QED BY <3>2, <3>3, <3>4
  <2>2. CASE ~(x <= m)
    <3>1. x - m \in 1 .. n /\ all[x] = es[x - m]
      BY <2>2, <1>3
    <3>2. PICK y \in 1 .. n : x - m < y /\ es[y].file_offset = log[k].offset
      BY <3>1, <1>1, <1>6 DEF Follow
    <3>3. m + y \in 1 .. m + n /\ all[m + y] = es[y] /\ x < m + y
      BY <3>2, <1>5
    <3> QED BY <3>2, <3>3
  <2> QED BY <2>1, <2>2
<1> QED BY <1>2, <1>4, <1>6 DEF Follow

\* What the reader's invariants say of the file.
Readable == Chained(file) /\ Formed(file) /\ Fits(file) /\ FramesFit /\ damaged = {}

\* What rebuild_index collects is in the order of the packets, cues included.
LEMMA CollectedFollows ==
    ASSUME FileInv, RowsInv, Readable, NEW found, NEW c, Searched(found, c)
    PROVE  \A p \in 0 .. Len(file) : p \in Boundary(file) =>
                found[p].type = "index" \/ Follow(c[p])
<1> DEFINE n == Len(file)
           both == {"packet", "cue"}
           T == EntriesBelow(Len(file), log)
<1>1. n \in Nat
  BY DiskLen
<1>2. /\ \A p \in 0 .. n : found[p] = PastAt(p, both, found)
      /\ \A p \in 0 .. n : c[p] = CollectedAt(p, both, c)
      /\ \A p \in 0 .. n : c[p] \in Seq(T)
  BY DEF Searched
<1>3. /\ Chained(file) /\ Formed(file) /\ Fits(file) /\ FramesFit /\ damaged = {}
  BY DEF Readable
<1> DEFINE good == {p \in 0 .. n : p \in Boundary(file) =>
                        found[p].type = "index" \/ Follow(c[p])}
<1>4. ASSUME NEW p \in 0 .. n, \A q \in p + 1 .. n : q \in good PROVE p \in good
  <2> SUFFICES ASSUME p \in Boundary(file) PROVE found[p].type = "index" \/ Follow(c[p])
    OBVIOUS
  <2>1. PICK b : b = NextBlock[p]
    OBVIOUS
  <2>2. Lands(b, p)
    BY <2>1, <1>3, NextAtBoundary
  <2>3. CASE b.type \notin both
    <3>1. c[p] = <<>>
      BY <2>1, <2>3, <1>2 DEF CollectedAt
    <3> QED BY <3>1 DEF Follow
  <2>4. CASE b.type \in both
    <3>1. /\ b.offset = p /\ ReadAt(b, p) /\ b.after \in p + 1 .. n /\ b.after \in Boundary(file)
      BY <2>2, <2>4 DEF Lands
    <3>2. PICK a \in p + 1 .. n : a = b.after
      BY <3>1
    <3>3. PICK t : t = Collects(p, both)
      OBVIOUS
    <3>4. found[p] = found[a] /\ c[p] = t \o c[a]
      BY <3>2, <3>3, <2>1, <2>4, <1>2 DEF PastAt, CollectedAt
    <3>5. t = EntriesIn(b) /\ t \in Seq(T) /\ c[a] \in Seq(T) /\ p \in Nat /\ a \in 0 .. n
      <4>1. both \in SUBSET {"packet", "cue"} /\ p \in Nat /\ a \in 0 .. n
        BY <1>1
      <4>2. t \in Seq(T)
        BY <4>1, <3>3, CollectsType
      <4>3. t = EntriesIn(b)
        BY <3>3, <2>1, <2>4 DEF Collects
      <4> QED BY <4>1, <4>2, <4>3, <1>2
    <3>6. CASE found[a].type = "index"
      BY <3>4, <3>6
    <3>7. CASE found[a].type # "index"
      <4>1. Follow(c[a])
        BY <3>1, <3>2, <3>7, <1>4
      <4>2. ASSUME NEW k \in 1 .. Len(log), Intact(log[k]), p < log[k].offset
            PROVE  \E y \in DOMAIN c[a] : c[a][y].file_offset = log[k].offset
        <5>1. RowAt(log[k].offset)
          BY <4>2, <1>3, RowIs DEF RowAt
        <5>2. log[k].offset \in Nat /\ log[k].offset + 5 <= n
          BY <5>1, RowIsRead
        <5>3. HeaderOk(disk, p) /\ a = AfterBlock(disk, p)
          BY <3>1, <3>2 DEF ReadAt
        <5>4. a <= log[k].offset
          BY <5>1, <5>3, <4>2, <3>5, NoRowInside
        <5>5. log[k].offset \in a .. n
          BY <5>2, <5>4, <1>1
        <5>6. Leads(found[a], c[a], log[k].offset)
          BY <5>1, <5>5, <3>1, <3>2, <3>5, <1>3, CollectedLeads
        <5> QED BY <5>6, <3>7 DEF Leads
      <4>3. ASSUME NEW x \in 1 .. Len(t), NEW k \in 1 .. Len(log), Intact(log[k]),
                   t[x].file_offset < log[k].offset
            PROVE  \/ \E y \in 1 .. Len(t) : x < y /\ t[y].file_offset = log[k].offset
                   \/ \E y \in DOMAIN c[a] : c[a][y].file_offset = log[k].offset
        <5>1. CASE b.type = "packet"
          <6>1. PICK q : q = PacketIn(b)
            OBVIOUS
          <6>2. PICK e : e = [packet_number |-> q.sequence, file_offset |-> b.offset,
                              track |-> q.track, key |-> q.key, pts |-> q.pts]
            OBVIOUS
          <6>3. t = <<e>>
            BY <5>1, <6>1, <6>2, <3>5 DEF EntriesIn
          <6>4. t[x].file_offset = p
            <7>1. x = 1 /\ t[1] = e
              BY <6>3
            <7> QED BY <7>1, <6>2, <3>1
          <6> QED BY <6>4, <4>2, <4>3
        <5>2. CASE b.type = "cue"
          <6>1. /\ p \in Starts(file) /\ file[p + 3].type = "cue" /\ t = Tail(file[p + 3].bodyCrc)
            <7>1. p \in Starts(file) /\ disk[p + 3] = file[p + 3]
              BY <3>1, <3>5, HeaderIsStart DEF ReadAt
            <7>2. b.type = disk[p + 3].type /\ b.body = disk[p + 3].bodyCrc
              BY <3>1 DEF ReadAt, BodyOk
            <7>3. t = Tail(b.body)
              BY <5>2, <3>5 DEF EntriesIn
            <7> QED BY <7>1, <7>2, <7>3, <5>2
          <6>2. PICK u \in Nat, v \in Nat :
                  /\ u <= v /\ v <= Len(entries) /\ Repeats(t, entries, u, v)
                  /\ \A j \in 1 .. Len(log) : j <= v <=> log[j].offset < p
            BY <6>1 DEF RowsInv, CuesAt
          <6>3. PICK l \in Nat : l = Len(log) /\ l = Len(entries)
            BY LenProperties DEF FileInv, MuxInv, MuxTyped
          <6>4. Len(t) = v - u /\ \A i \in 1 .. v - u : t[i] = entries[u + i]
            BY <6>2 DEF Repeats
          <6>5. x \in 1 .. v - u /\ u + x \in 1 .. l
            BY <6>2, <6>3, <6>4
          <6>6. t[x].file_offset = log[u + x].offset
            <7>1. entries[u + x] = EntryFor(log[u + x])
              BY <6>3, <6>5, RowIs
            <7> QED BY <7>1, <6>4, <6>5 DEF EntryFor
          <6>7. u + x < k
            <7>1. log[u + x].offset < log[k].offset
              BY <6>6, <4>3
            <7>2. log[u + x].offset \in Nat /\ log[k].offset \in Nat
              BY <6>3, <6>5, RowIs
            <7>3. u + x # k
              BY <7>1, <7>2
            <7>4. ~(k < u + x)
              <8>1. k < u + x => log[k].offset < log[u + x].offset
                BY <6>3, <6>5 DEF FileInv, MuxLaid, RowsRight
              <8> QED BY <8>1, <7>1, <7>2
            <7> QED BY <7>3, <7>4, <6>5, <6>3
          <6>8. CASE k <= v
            <7>1. k - u \in 1 .. v - u /\ u + (k - u) = k /\ x < k - u
              BY <6>3, <6>5, <6>7, <6>8
            <7>2. t[k - u] = entries[k]
              BY <7>1, <6>4
            <7>3. t[k - u].file_offset = log[k].offset
              <8>1. entries[k] = EntryFor(log[k])
                BY RowIs
              <8> QED BY <8>1, <7>2 DEF EntryFor
            <7> QED BY <7>1, <7>3, <6>4
          <6>9. CASE ~(k <= v)
            <7>1. ~(log[k].offset < p) /\ log[k].offset \in Nat
              BY <6>2, <6>9, RowIs
            <7>2. log[k].offset # p
              <8>1. RowAt(log[k].offset)
                BY <4>3, <1>3, RowIs DEF RowAt
              <8>2. disk[p + 3].type = "cue"
                BY <5>2, <3>1 DEF ReadAt
              <8> QED BY <8>1, <8>2, RowIsRead
            <7>3. p < log[k].offset
              BY <7>1, <7>2, <3>5
            <7> QED BY <7>3, <4>2, <4>3
          <6> QED BY <6>8, <6>9, <6>2, <6>3
        <5> QED BY <5>1, <5>2, <2>4
      <4> HIDE DEF T, both
      <4>4. Follow(t \o c[a])
        BY <4>1, <4>3, <3>5, FollowOn
      <4> QED BY <4>4, <3>4
    <3> QED BY <3>6, <3>7
  <2> QED BY <2>3, <2>4
<1> HIDE DEF good
<1>5. \A p \in 0 .. n : p \in good
  <2>1. good \in SUBSET (0 .. n)
    BY DEF good
  <2> HIDE DEF n
  <2> QED BY <2>1, <1>1, <1>4, Backwards
<1> QED BY <1>5 DEF good

\* The entries in the order they were written.
LEMMA EntriesFollow ==
    ASSUME FileInv
    PROVE  Follow(entries)
<1>1. PICK n \in Nat : n = Len(log) /\ DOMAIN entries = 1 .. n
  BY LenProperties DEF FileInv, MuxInv, MuxTyped
<1> SUFFICES ASSUME NEW x \in 1 .. n, NEW k \in 1 .. n, Intact(log[k]),
                    entries[x].file_offset < log[k].offset
             PROVE  \E y \in 1 .. n : x < y /\ entries[y].file_offset = log[k].offset
  BY <1>1 DEF Follow
<1>2. entries[x].file_offset = log[x].offset /\ entries[k].file_offset = log[k].offset
  <2>1. entries[x] = EntryFor(log[x]) /\ entries[k] = EntryFor(log[k])
    BY <1>1, RowIs
  <2> QED BY <2>1 DEF EntryFor
<1>3. log[x].offset \in Nat /\ log[k].offset \in Nat
  BY <1>1, RowIs
<1>4. ~(k < x) /\ k # x
  <2>1. k < x => log[k].offset < log[x].offset
    BY <1>1 DEF FileInv, MuxLaid, RowsRight
  <2> QED BY <2>1, <1>2, <1>3
<1> QED BY <1>2, <1>4

\* A rebuilt index is in that order, and the reader stands where it may after it.
LEMMA RebuiltFollows ==
    ASSUME FileInv, ChainInv, RowsInv, Readable
    PROVE  /\ Follow(Rebuilt.index) /\ Standing(Rebuilt.reader)
           /\ ~Rebuilt.ok => NoRowFrom(Rebuilt.reader)
<1> DEFINE final == BlockPast(NextBlock, {"packet", "cue"}, DataStart)
           es == EntriesAlong(NextBlock, {"packet", "cue"})
<1>1. Rebuilt = RebuiltOf(NextBlock, final)
  BY DEF Rebuilt, RebuiltFrom
<1>2. DataStart \in 0 .. Len(file) /\ DataStart \in Boundary(file) /\ Len(file) \in Nat
  BY DiskLen DEF DataStart, FileStart, Boundary
<1>3. Chained(file) /\ Formed(file) /\ Fits(file) /\ damaged = {}
  BY DEF Readable
<1>4. {"packet", "cue"} \in SUBSET Types
  BY DEF Types
<1>5. PICK b : b = final
  OBVIOUS
<1>6. Follow(Rebuilt.index)
  <2>1. CASE b.type = "index"
    <3>1. Placed(b, DataStart)
      BY <1>2, <1>4, <1>5, BlockPastScans
    <3>2. ReadAt(b, b.offset) /\ b.offset \in Nat
      BY <3>1, <2>1, <1>2 DEF Placed
    <3>3. b.offset \in Starts(file) /\ disk[b.offset + 3] = file[b.offset + 3]
      BY <3>2, HeaderIsStart DEF ReadAt
    <3>4. b.body = file[b.offset + 3].bodyCrc /\ file[b.offset + 3].type = "index"
      BY <3>2, <3>3, <2>1 DEF ReadAt, BodyOk
    <3>5. Tail(b.body) = entries
      BY <3>3, <3>4 DEF ChainInv, Indexed
    <3>6. Rebuilt.index = entries
      BY <3>5, <2>1, <1>1, <1>5 DEF RebuiltOf
    <3> QED BY <3>6, EntriesFollow
  <2>2. CASE b.type # "index"
    <3>1. PICK found, c : Searched(found, c) /\ final = found[DataStart] /\ es = c[DataStart]
      BY Search
    <3>2. found[DataStart].type = "index" \/ Follow(c[DataStart])
      BY <3>1, <1>2, CollectedFollows
    <3>3. Rebuilt.index = es
      BY <2>2, <1>1, <1>5 DEF RebuiltOf
    <3> QED BY <3>1, <3>2, <3>3, <2>2, <1>5
  <2> QED BY <2>1, <2>2
<1>7. EndsAt(b, DataStart, {"packet", "cue"})
  BY <1>2, <1>3, <1>4, <1>5, SearchLands
<1>8. PICK q \in DataStart .. Len(file) :
        /\ b.after \in q .. Len(file)
        /\ \/ b.type \in Types /\ b.after \in Boundary(file)
           \/ b.type \in {"end", "error"} /\ NoRowFrom(q)
  BY <1>7 DEF EndsAt
<1>9. ASSUME NoRowFrom(q) PROVE NoRowFrom(b.after)
  <2>1. b.after .. Len(file) \subseteq q .. Len(file)
    BY <1>2, <1>8
  <2> QED BY <2>1, <1>9 DEF NoRowFrom
<1>10. Rebuilt.reader = b.after /\ (Rebuilt.ok <=> b.type # "error")
  BY <1>1, <1>5 DEF RebuiltOf
<1>11. Standing(Rebuilt.reader)
  BY <1>8, <1>9, <1>10 DEF Standing
<1>12. ~Rebuilt.ok => NoRowFrom(Rebuilt.reader)
  BY <1>8, <1>9, <1>10 DEF Types
<1> QED BY <1>6, <1>11, <1>12

-----------------------------------------------------------------------------
\* What the reader of an undamaged file keeps besides: the order of its index and
\* a place it may stand at.
StreamInv ==
    /\ IndexInv /\ RowsInv
    /\ damaged = {} => Follow(index) /\ (Opened => Standing(reader))

LEMMA ReadableFile ==
    ASSUME FramesFit, EntriesFit, StreamInv, damaged = {}
    PROVE  Readable /\ ChainInv /\ RowsInv
BY DEF StreamInv, IndexInv, ChainInv, Readable

LEMMA InitStream == DemuxInit => StreamInv
<1> SUFFICES ASSUME DemuxInit PROVE StreamInv
  OBVIOUS
<1>1. IndexInv /\ RowsInv
  BY InitIndex, InitRows DEF DemuxInit
<1>2. index = <<>> /\ ~Opened
  BY DEF DemuxInit, Opened
<1>3. Follow(index)
  BY <1>2 DEF Follow
<1> QED BY <1>1, <1>2, <1>3 DEF StreamInv

LEMMA StandingKept ==
    ASSUME UNCHANGED <<muxVars, disk>>
    PROVE  /\ damaged' = damaged
           /\ \A p : Standing(p) => Standing(p)'
           /\ \A es : Follow(es) => Follow(es)'
<1>1. /\ file' = file /\ log' = log /\ disk' = disk /\ \A r : Intact(r)' <=> Intact(r)
  BY FileKept
<1>2. damaged' = damaged
  BY <1>1 DEF damaged
<1>3. ASSUME NEW p, Standing(p) PROVE Standing(p)'
  BY <1>1, <1>3 DEF Standing, Boundary, Starts, NoRowFrom, RowAt, FramesFit
<1>4. ASSUME NEW es, Follow(es) PROVE Follow(es)'
  BY <1>1, <1>4 DEF Follow, Intact, BlockCells, damaged
<1> QED BY <1>2, <1>3, <1>4

LEMMA DamageShows ==
    ASSUME DemuxInv, NEW i \in DataStart + 1 .. Len(file), Damage(i)
    PROVE  damaged' # {}
<1>1. file' = file /\ disk' = [disk EXCEPT ![i] = Damaged]
  BY DEF Damage, muxVars
<1>2. i \in DOMAIN disk /\ i \in DOMAIN file /\ file[i] \in Cell
  <2>1. FileInv /\ i \in 1 .. Len(file)
    BY DiskLen DEF DemuxInv, DataStart, FileStart
  <2> QED BY <2>1, DiskLen, LenProperties, ElementOfSeq
<1>3. file[i] # Damaged
  BY <1>2, DamagedIsNoCell
<1>4. i \in damaged'
  BY <1>1, <1>2, <1>3 DEF damaged
<1> QED BY <1>4

\* An entry of the index of an undamaged file leads to where a reader may stand.
LEMMA EntryStands ==
    ASSUME FileInv, Readable, NEW e \in EntriesBelow(Len(file), log)
    PROVE  Standing(e.file_offset)
<1>1. PICK k \in 1 .. Len(log) :
        e = EntryFor(log[k]) /\ e.file_offset + Len(PacketBlock(log[k].packet)) <= Len(file)
  BY DEF EntriesBelow
<1>2. log[k] \in ToSet(log) /\ e.file_offset = log[k].offset
  BY <1>1, RowIs DEF EntryFor
<1>3. Intact(log[k])
  BY <1>1, <1>2, RowIs DEF Readable
<1>4. log[k].offset \in Starts(file)
  BY <1>2, <1>3, IntactIsRead DEF Readable
<1> QED BY <1>2, <1>4, StartIsBoundary DEF Standing, Readable

LEMMA StreamStep ==
    ASSUME FramesFit, EntriesFit, DemuxInv, StreamInv, [DemuxNext]_vars
    PROVE  StreamInv'
<1>1. FileInv /\ IndexInv /\ RowsInv
  BY DEF DemuxInv, StreamInv
<1>2. IndexInv' /\ RowsInv'
  BY <1>1, IndexStep, RowsStep
<1>3. ASSUME UNCHANGED <<muxVars, disk>>,
             damaged = {} => /\ index' = index \/ index' = Rebuilt.index
                             /\ (reader' # 0 => Standing(reader'))
      PROVE  StreamInv'
  <2>1. /\ damaged' = damaged /\ \A p : Standing(p) => Standing(p)'
        /\ \A es : Follow(es) => Follow(es)'
    BY <1>3, StandingKept
  <2> SUFFICES ASSUME damaged = {} PROVE Follow(index)' /\ (Opened' => Standing(reader)')
    BY <2>1, <1>2 DEF StreamInv
  <2>2. Readable /\ ChainInv
    BY ReadableFile
  <2>3. Follow(index')
    BY <2>2, <1>1, <1>3, RebuiltFollows DEF StreamInv
  <2>4. ASSUME NEW es, es = index', Follow(es) PROVE Follow(index)'
    <3>1. Follow(es)'
      BY <2>1, <2>4
    <3> QED BY <3>1, <2>4 DEF Follow
  <2>5. ASSUME NEW p, p = reader', Standing(p) PROVE Standing(reader)'
    <3>1. Standing(p)'
      BY <2>1, <2>5
    <3> QED BY <3>1, <2>5 DEF Standing, NoRowFrom
  <2>6. Opened' => Standing(reader')
    BY <1>3 DEF Opened
  <2> QED BY <2>3, <2>4, <2>5, <2>6
<1>4. DataStart \in Boundary(file)
  BY DEF Boundary
<1>5. CASE UNCHANGED vars
  <2>1. UNCHANGED <<muxVars, disk>> /\ index' = index /\ reader' = reader
    BY <1>5 DEF vars, demuxVars
  <2> QED BY <2>1, <1>3 DEF StreamInv, Opened
<1>6. CASE Write
  <2>1. reader' = 0 /\ index' = <<>>
    BY <1>6 DEF Write, MuxNext, WritePacket, Finalize, Crash, DemuxInv, ReaderInv
  <2>2. Follow(index)' /\ ~Opened'
    BY <2>1 DEF Follow, Opened
  <2> QED BY <2>2, <1>2 DEF StreamInv
<1>7. CASE \E i \in DataStart + 1 .. Len(file) : Damage(i)
  BY <1>2, <1>7, DamageShows DEF StreamInv
<1>8. CASE Open \/ ResetToDataStart
  <2>1. UNCHANGED <<muxVars, disk>> /\ index' = index /\ reader' = DataStart
    BY <1>8 DEF Open, ResetToDataStart, MoveTo
  <2> QED BY <2>1, <1>3, <1>4 DEF Standing
<1>9. CASE NextPacket
  <2>1. /\ UNCHANGED <<muxVars, disk>> /\ index' = index
        /\ reader' = NextPacketFrom(reader).after /\ Opened
    BY <1>9 DEF NextPacket
  <2>2. ASSUME damaged = {} PROVE Standing(reader')
    <3>1. Standing(reader) /\ reader \in 0 .. Len(file) /\ Readable
      BY <2>1, <2>2, ReadableFile DEF StreamInv, DemuxInv, ReaderInv
    <3> QED BY <3>1, <2>1, <1>1, ReadOn DEF Readable
  <2> QED BY <2>1, <2>2, <1>3
<1>10. ASSUME UNCHANGED <<muxVars, disk>>, Opened,
              index' = index \/ index' = Rebuilt.index,
              \/ reader' = reader \/ reader' = Rebuilt.reader
              \/ \E i \in DOMAIN index' : reader' = index'[i].file_offset
       PROVE  StreamInv'
  <2>1. ASSUME damaged = {} PROVE Standing(reader')
    <3>1. Readable /\ ChainInv /\ Standing(reader)
      BY <1>10, <2>1, ReadableFile DEF StreamInv
    <3>2. CASE reader' = reader BY <3>1, <3>2
    <3>3. CASE reader' = Rebuilt.reader
      BY <3>1, <3>3, <1>1, RebuiltFollows
    <3>4. CASE \E i \in DOMAIN index' : reader' = index'[i].file_offset
      <4>1. PICK i \in DOMAIN index' : reader' = index'[i].file_offset
        BY <3>4
      <4>2. index' \in Seq(EntriesBelow(Len(file), log))
        BY <1>1, <1>10, RebuiltType DEF DemuxInv, ReaderInv
      <4>3. index'[i] \in EntriesBelow(Len(file), log)
        BY <4>2, ElementOfSeq, LenProperties
      <4> QED BY <4>1, <4>3, <3>1, <1>1, EntryStands
    <3> QED BY <3>2, <3>3, <3>4, <1>10
  <2> QED BY <2>1, <1>3, <1>10
<1>11. CASE RebuildIndex
  <2>1. /\ UNCHANGED <<muxVars, disk>> /\ Opened /\ index' = Rebuilt.index
        /\ reader' = reader \/ reader' = Rebuilt.reader
    BY <1>11 DEF RebuildIndex, Stay, MoveTo
  <2> QED BY <2>1, <1>10
<1>12. CASE SeekStep
  <2>1. /\ UNCHANGED <<muxVars, disk>> /\ Opened
        /\ index' = index \/ index' = Rebuilt.index
        /\ \/ reader' = reader \/ reader' = Rebuilt.reader
           \/ \E i \in DOMAIN index' : reader' = index'[i].file_offset
    BY <1>12 DEF SeekStep, Stay, MoveTo
  <2> QED BY <2>1, <1>10
<1> QED BY <1>5, <1>6, <1>7, <1>8, <1>9, <1>11, <1>12, SeekIs DEF DemuxNext

LEMMA StreamAlways ==
    ASSUME FramesFit, EntriesFit
    PROVE  DemuxSpec => [](DemuxInv /\ StreamInv)
BY InitDemux, InitStream, DemuxStep, StreamStep, PTL DEF DemuxSpec

-----------------------------------------------------------------------------
(* Step by step.                                                           *)

\* Nothing but a write can follow while the file is written, and nothing before
\* the reader.
LEMMA Mapped ==
    (FileInv /\ RowsInv /\ damaged = {}) =>
        \E m \in 0 .. Len(log) :
            /\ FirstWhole(m) /\ WholePackets = [k \in 1 .. m |-> log[k].packet]
            /\ Len(WholePackets) = m /\ (phase # "crashed" => m = Len(log))
            /\ (reader = 0 => Passed = 0)
<1> SUFFICES ASSUME FileInv, RowsInv, damaged = {}
             PROVE  \E m \in 0 .. Len(log) :
                        /\ FirstWhole(m) /\ WholePackets = [k \in 1 .. m |-> log[k].packet]
                        /\ Len(WholePackets) = m /\ (phase # "crashed" => m = Len(log))
                        /\ (reader = 0 => Passed = 0)
  OBVIOUS
<1>1. PICK m \in 0 .. Len(log) : FirstWhole(m)
  BY WholeAreFirst
<1>2. /\ WholePackets = [k \in 1 .. m |-> log[k].packet] /\ Len(WholePackets) = m
      /\ \A p : \A c \in 0 .. m : Behind(p, c, m) => PassedAt(p) = c
  BY <1>1, MappedIs
<1>3. PICK n \in Nat : n = Len(log) /\ DOMAIN entries = 1 .. n /\ m \in 0 .. n /\ m \in Nat
  BY LenProperties DEF FileInv, MuxInv, MuxTyped
<1>4. ASSUME phase # "crashed" PROVE m = n
  <2>1. ASSUME NEW k \in 1 .. n PROVE Intact(log[k])
    <3>1. entries[k].file_offset + Len(PacketBlock(log[k].packet)) <= Len(file)
      BY <1>3, <1>4, PointsAtIs DEF FileInv, MuxInv
    <3>2. entries[k].file_offset = log[k].offset
      <4>1. entries[k] = EntryFor(log[k])
        BY <1>3, RowIs
      <4> QED BY <4>1 DEF EntryFor
    <3> QED BY <3>1, <3>2, <1>3, RowIs
  <2>2. CASE n = 0 BY <2>2, <1>3
  <2>3. CASE n # 0
    <3>1. n \in 1 .. n
      BY <2>3, <1>3
    <3>2. n <= m
      BY <3>1, <2>1, <1>1, <1>3 DEF FirstWhole
    <3> QED BY <3>2, <1>3
  <2> QED BY <2>2, <2>3
<1>5. ASSUME reader = 0 PROVE Passed = 0
  <2>1. Behind(0, 0, m)
    <3>1. ASSUME NEW k \in 1 .. m PROVE ~(k <= 0) /\ ~(log[k].offset < 0)
      <4>1. k \in 1 .. Len(log)
        BY <1>3
      <4>2. log[k].offset \in Nat
        BY <4>1, RowIs
      <4> QED BY <4>2
    <3> QED BY <3>1 DEF Behind
  <2>2. PassedAt(0) = 0
    BY <2>1, <1>2, <1>3
  <2> QED BY <2>2, <1>5 DEF Passed, PassedAt
<1> QED BY <1>1, <1>2, <1>3, <1>4, <1>5

LEMMA WriteImplements ==
    ASSUME DemuxInv, StreamInv, Write, DemuxInv', StreamInv', damaged' = {}
    PROVE  Stream!StreamNext
<1>1. /\ phase = "writing" /\ reader = 0 /\ reader' = 0 /\ last = None /\ last' = None
      /\ disk = file
  BY DEF Write, MuxNext, WritePacket, Finalize, Crash, DemuxInv, ReaderInv
<1>2. damaged = {} /\ FileInv /\ RowsInv /\ FileInv' /\ RowsInv'
  BY <1>1 DEF damaged, DemuxInv, StreamInv
<1>3. /\ WholePackets = [k \in 1 .. Len(log) |-> log[k].packet] /\ Passed = 0
      /\ Len(WholePackets) = Len(log)
  BY <1>1, <1>2, Mapped
<1>4. PICK m \in 0 .. Len(log') :
        /\ WholePackets' = [k \in 1 .. m |-> log'[k].packet]
        /\ phase' # "crashed" => m = Len(log')
        /\ Passed' = 0
  <2>1. ((FileInv /\ RowsInv /\ damaged = {}) =>
            \E m \in 0 .. Len(log) :
                /\ FirstWhole(m) /\ WholePackets = [k \in 1 .. m |-> log[k].packet]
                /\ Len(WholePackets) = m /\ (phase # "crashed" => m = Len(log))
                /\ (reader = 0 => Passed = 0))'
    BY Mapped, PTL
  <2> QED BY <2>1, <1>1, <1>2
<1>5. Answer = None /\ Answer' = None
  BY <1>1 DEF Answer, None
<1>6. PICK n \in Nat : n = Len(log) /\ log \in Seq(Row)
  BY <1>2, LenProperties DEF FileInv, MuxInv, MuxTyped
<1>7. ASSUME NEW frame \in Frames, WritePacket(frame) PROVE \E p \in Packets : Stream!Put(p)
  <2>1. PICK row : /\ row = [offset |-> Len(file), packet |-> PacketOf(frame)]
                   /\ log' = Append(log, row) /\ phase' = phase
    BY <1>7 DEF WritePacket
  <2>2. /\ Len(log') = n + 1 /\ log'[n + 1] = row /\ \A k \in 1 .. n : log'[k] = log[k]
    <3>1. row \in Row
      <4>1. PacketOf(frame) \in Packet /\ Len(file) \in Nat
        BY <1>2, FrameType, DiskLen DEF FileInv, MuxInv
      <4> QED BY <4>1, <2>1 DEF Row
    <3> QED BY <3>1, <2>1, <1>6, AppendProperties
  <2>3. PICK p : p = log'[n + 1].packet
    OBVIOUS
  <2>4. p \in Packets
    <3>1. n + 1 \in 1 .. Len(log')
      BY <2>2, <1>6
    <3>2. \A k \in 1 .. Len(log') : log'[k].packet \in Packets
      BY <1>2 DEF RowsInv, Packets
    <3> QED BY <3>1, <3>2, <2>3
  <2>5. WholePackets' = [k \in 1 .. n + 1 |-> log'[k].packet]
    BY <2>1, <2>2, <1>1, <1>4
  <2>6. PICK s : s = WholePackets
    OBVIOUS
  <2>7. Append(s, p) = [k \in 1 .. n + 1 |-> log'[k].packet]
    <3>1. s = [k \in 1 .. n |-> log[k].packet] /\ Len(s) = n
      BY <2>6, <1>3, <1>6
    <3>2. Append(s, p) = [k \in 1 .. n + 1 |-> IF k = n + 1 THEN p ELSE s[k]]
      <4>1. Append(s, p) = [k \in 1 .. Len(s) + 1 |-> IF k = Len(s) + 1 THEN p ELSE s[k]]
        <5>1. s \in Seq(Packet)
          <6>1. \A k \in 1 .. n : log[k].packet \in Packet
            BY <1>2, <1>6, RowIs
          <6> QED BY <6>1, <3>1, <1>6
        <5>2. p \in Packet
          <6>1. PacketOf(frame) \in Packet
            BY <1>2, FrameType DEF FileInv, MuxInv
          <6>2. PICK q : q = PacketOf(frame)
            OBVIOUS
          <6>3. row = [offset |-> Len(file), packet |-> q]
            BY <2>1, <6>2
          <6>4. row.packet = q
            BY <6>3
          <6>5. p = row.packet
            BY <2>2, <2>3
          <6> QED BY <6>1, <6>2, <6>4, <6>5
        <5>3. PICK t : t = Append(s, p)
          OBVIOUS
        <5>4. /\ t \in Seq(Packet) /\ Len(t) = n + 1
              /\ \A i \in 1 .. n : t[i] = s[i]
              /\ t[n + 1] = p
          BY <5>1, <5>2, <5>3, <3>1, AppendProperties
        <5>5. PICK u : u = [k \in 1 .. n + 1 |-> IF k = n + 1 THEN p ELSE s[k]]
          OBVIOUS
        <5>6. u \in Seq(Packet) /\ Len(u) = n + 1
          <6>1. \A k \in 1 .. n + 1 : u[k] \in Packet
            <7>1. \A k \in 1 .. n : s[k] \in Packet
              BY <5>1, <3>1, ElementOfSeq
            <7>2. ASSUME NEW k \in 1 .. n + 1 PROVE u[k] \in Packet
              <8>1. k = n + 1 \/ k \in 1 .. n
                BY <1>6
              <8> QED BY <8>1, <7>1, <5>2, <5>5
            <7> QED BY <7>2
          <6> QED BY <6>1, <5>5, <1>6
        <5>7. \A k \in 1 .. n + 1 : t[k] = u[k]
          <6>1. ASSUME NEW k \in 1 .. n + 1 PROVE t[k] = u[k]
            <7>1. k = n + 1 \/ (k \in 1 .. n /\ k # n + 1)
              BY <1>6
            <7> QED BY <7>1, <5>4, <5>5
          <6> QED BY <6>1
        <5>8. t = u
          BY <5>4, <5>6, <5>7, SeqEqual
        <5> QED BY <5>3, <5>5, <5>8, <3>1
      <4> QED BY <4>1, <3>1
    <3>3. ASSUME NEW k \in 1 .. n + 1
          PROVE  (IF k = n + 1 THEN p ELSE s[k]) = log'[k].packet
      <4>1. k = n + 1 \/ (k \in 1 .. n /\ k # n + 1)
        BY <1>6
      <4> QED BY <4>1, <3>1, <2>2, <2>3
    <3> QED BY <3>2, <3>3
  <2>8. WholePackets' = Append(WholePackets, p)
    BY <2>5, <2>6, <2>7
  <2>9. Stream!Put(p)
    BY <2>1, <2>8, <1>1, <1>3, <1>4, <1>5 DEF Stream!Put
  <2> QED BY <2>4, <2>9
<1>8. ASSUME Finalize \/ Crash PROVE Stream!Close
  <2>1. log' = log /\ phase' # "writing"
    BY <1>8 DEF Finalize, Crash
  <2>2. m \in 0 .. n /\ m \in Nat
    BY <2>1, <1>6
  <2>3. PICK s : s = WholePackets /\ s = [k \in 1 .. n |-> log[k].packet]
    BY <1>3, <1>6
  <2>4. PICK t : t = SubSeq(s, 1, m)
    OBVIOUS
  <2>5. PICK u : u = [k \in 1 .. m |-> log[k].packet]
    OBVIOUS
  <2>6. \A k \in 1 .. n : log[k].packet \in Packet
    BY <1>2, <1>6, RowIs
  <2>7. t \in Seq(Packet) /\ Len(t) = m /\ \A k \in 1 .. m : t[k] = log[k].packet
    <3>1. \A k \in 1 .. m : k \in 1 .. n /\ s[k] \in Packet
      BY <2>2, <2>3, <2>6
    <3>2. /\ t \in Seq(Packet) /\ Len(t) = (IF 1 <= m THEN m - 1 + 1 ELSE 0)
          /\ \A k \in 1 .. m - 1 + 1 : t[k] = s[1 + k - 1]
      BY <3>1, <2>2, <2>4, SubSeqProperties
    <3>3. ASSUME NEW k \in 1 .. m PROVE t[k] = log[k].packet
      <4>1. k \in 1 .. m - 1 + 1 /\ 1 + k - 1 = k
        BY <2>2
      <4> QED BY <4>1, <3>1, <3>2, <2>3
    <3>4. Len(t) = m
      BY <3>2, <2>2
    <3> QED BY <3>2, <3>3, <3>4
  <2>8. u \in Seq(Packet) /\ Len(u) = m /\ \A k \in 1 .. m : u[k] = log[k].packet
    <3>1. \A k \in 1 .. m : log[k].packet \in Packet
      BY <2>2, <2>6
    <3> QED BY <3>1, <2>2, <2>5
  <2>9. t = u
    BY <2>7, <2>8, SeqEqual
  <2>10. WholePackets' = SubSeq(WholePackets, 1, m)
    BY <2>1, <2>3, <2>4, <2>5, <2>9, <1>4
  <2>11. m \in 0 .. Len(WholePackets)
    BY <2>2, <1>3, <1>6
  <2> QED BY <2>1, <2>10, <2>11, <1>1, <1>3, <1>4, <1>5 DEF Stream!Close
<1> QED BY <1>7, <1>8 DEF Write, MuxNext, Stream!StreamNext

\* The mapping over a call of the reader.
LEMMA CallMapped ==
    ASSUME UNCHANGED <<muxVars, disk>>
    PROVE  /\ WholePackets' = WholePackets /\ (phase' # "writing") = (phase # "writing")
           /\ Passed = PassedAt(reader) /\ Passed' = PassedAt(reader')
           /\ damaged' = damaged /\ log' = log /\ phase' = phase
<1>1. file' = file /\ log' = log /\ phase' = phase /\ disk' = disk
  BY FileKept
<1> QED BY <1>1 DEF WholePackets, Passed, PassedAt, Intact, BlockCells, damaged

\* The packets of an undamaged file as the stream has them.
MappedTo(m) ==
    /\ FirstWhole(m)
    /\ WholePackets = [k \in 1 .. m |-> log[k].packet] /\ Len(WholePackets) = m
    /\ \A p : \A c \in 0 .. m : Behind(p, c, m) => PassedAt(p) = c

\* What a call finds of an undamaged file.
Calling == FileInv /\ RowsInv /\ Readable /\ UNCHANGED <<muxVars, disk>> /\ phase # "writing"

LEMMA MappedToExists ==
    ASSUME FileInv, RowsInv, damaged = {}
    PROVE  \E m \in 0 .. Len(log) : MappedTo(m)
<1>1. PICK m \in 0 .. Len(log) : FirstWhole(m)
  BY WholeAreFirst
<1>2. MappedTo(m)
  BY <1>1, MappedIs DEF MappedTo
<1> QED BY <1>1, <1>2

LEMMA LogLength ==
    ASSUME FileInv
    PROVE  Len(log) \in Nat /\ DOMAIN log = 1 .. Len(log)
BY LenProperties DEF FileInv, MuxInv, MuxTyped

LEMMA NoneLeft ==
    ASSUME FileInv, RowsInv, Readable, NEW m \in 0 .. Len(log), MappedTo(m),
           NEW p \in Nat, NoRowFrom(p)
    PROVE  PassedAt(p) = m
<1>1. ASSUME NEW k \in 1 .. m PROVE log[k].offset < p
  <2>1. k \in 1 .. Len(log) /\ Intact(log[k])
    BY LogLength DEF MappedTo, FirstWhole
  <2>2. /\ log[k] \in ToSet(log) /\ log[k].offset \in Nat
        /\ log[k].offset + Len(PacketBlock(log[k].packet)) <= Len(file)
        /\ Len(PacketBlock(log[k].packet)) \in Nat /\ Len(PacketBlock(log[k].packet)) >= 5
    BY <2>1, RowIs, IntactCells
  <2>3. RowAt(log[k].offset)
    BY <2>1, <2>2 DEF RowAt, Readable
  <2>4. CASE log[k].offset >= p
    <3>1. log[k].offset \in p .. Len(file)
      BY <2>2, <2>4, DiskLen
    <3> QED BY <3>1, <2>3 DEF NoRowFrom
  <2> QED BY <2>2, <2>4
<1>2. Behind(p, m, m)
  BY <1>1, LogLength DEF Behind
<1> QED BY <1>2, LogLength DEF MappedTo

LEMMA StandsBefore ==
    ASSUME FileInv, RowsInv, Readable, NEW m \in 0 .. Len(log), MappedTo(m),
           NEW k \in 1 .. m, NEW p \in Nat,
           p <= log[k].offset, \A j \in 1 .. k - 1 : log[j].offset < p
    PROVE  PassedAt(p) = k - 1
<1>1. ASSUME NEW j \in 1 .. m PROVE j <= k - 1 <=> log[j].offset < p
  <2>1. j \in 1 .. Len(log) /\ k \in 1 .. Len(log) /\ m \in Nat
    BY LogLength
  <2>2. /\ log[j].offset \in Nat /\ log[k].offset \in Nat
        /\ Len(PacketBlock(log[k].packet)) \in Nat
    BY <2>1, RowIs
  <2>3. CASE j <= k - 1 BY <2>1, <2>3
  <2>4. CASE j = k BY <2>1, <2>2, <2>4
  <2>5. CASE k < j
    <3>1. log[k].offset + Len(PacketBlock(log[k].packet)) <= log[j].offset
      BY <2>1, <2>5 DEF RowsInv
    <3> QED BY <3>1, <2>1, <2>2, <2>5
  <2> QED BY <2>1, <2>3, <2>4, <2>5
<1>2. Behind(p, k - 1, m) /\ k - 1 \in 0 .. m
  BY <1>1, LogLength DEF Behind
<1> QED BY <1>2 DEF MappedTo

LEMMA PassedStart ==
    ASSUME FileInv, RowsInv, Readable, NEW m \in 0 .. Len(log), MappedTo(m)
    PROVE  PassedAt(DataStart) = 0
<1>1. ASSUME NEW k \in 1 .. m PROVE k <= 0 <=> log[k].offset < DataStart
  <2>1. k \in 1 .. Len(log)
    BY LogLength
  <2>2. log[k].offset \in Nat /\ log[k].offset >= 1
    BY <2>1, RowIs
  <2> QED BY <2>1, <2>2 DEF DataStart, FileStart
<1>2. Behind(DataStart, 0, m)
  BY <1>1 DEF Behind
<1> QED BY <1>2, LogLength DEF MappedTo

\* The calls that read.
LEMMA RewindImplements ==
    ASSUME DemuxInv, StreamInv, Calling, Open \/ ResetToDataStart
    PROVE  Stream!Rewind
<1>1. PICK m \in 0 .. Len(log) : MappedTo(m)
  BY MappedToExists DEF Calling, Readable
<1>2. reader' = DataStart /\ last' = last
  BY DEF Open, ResetToDataStart, MoveTo
<1>3. Passed' = 0
  BY <1>1, <1>2, PassedStart, CallMapped DEF Calling
<1>4. Answer' = Answer
  BY <1>2, CallMapped DEF Answer, Calling
<1> QED BY <1>3, <1>4, CallMapped DEF Stream!Rewind, Calling

LEMMA ReadImplements ==
    ASSUME DemuxInv, StreamInv, FramesFit, EntriesFit, Calling, NextPacket
    PROVE  Stream!Read
<1>1. PICK m \in 0 .. Len(log) : MappedTo(m)
  BY MappedToExists DEF Calling, Readable
<1>2. PICK b : b = NextPacketFrom(reader)
  OBVIOUS
<1>3. /\ FileInv /\ RowsInv /\ Readable /\ Standing(reader) /\ reader \in 0 .. Len(file)
      /\ damaged = {} /\ Len(file) \in Nat
  BY DiskLen DEF Calling, DemuxInv, ReaderInv, StreamInv, NextPacket, Readable
<1>4. /\ reader' = b.after
      /\ \/ b.type = "packet" /\ last' = Found(PacketIn(b))
         \/ b.type \in {"end", "error"} /\ last' \in {End, Error}
  BY <1>2 DEF NextPacket
<1>5. /\ b.after \in reader .. Len(file)
      /\ \/ /\ b.type = "packet"
            /\ \E r \in ToSet(log) : RowOf(b, r) /\ reader <= r.offset
            /\ \A o \in reader .. b.offset - 1 : ~RowAt(o)
         \/ b.type \in {"end", "error"} /\ NoRowFrom(reader)
  BY <1>2, <1>3, ReadOn DEF Readable
<1>6. /\ WholePackets' = WholePackets /\ (phase' # "writing") = (phase # "writing")
      /\ Passed = PassedAt(reader) /\ Passed' = PassedAt(reader') /\ phase # "writing"
  BY CallMapped DEF Calling
<1>7. CASE b.type = "packet"
  <2>1. PICK r \in ToSet(log) : RowOf(b, r) /\ reader <= r.offset
    BY <1>5, <1>7
  <2>2. PICK k \in 1 .. Len(log) : r = log[k]
    BY LogLength, <1>3 DEF ToSet
  <2>3. k \in 1 .. m /\ m \in Nat /\ Len(log) \in Nat
    BY <2>1, <2>2, <1>1, <1>3, LogLength DEF RowOf, MappedTo, FirstWhole
  <2>4. /\ log[k].offset \in Nat /\ b.offset = log[k].offset
        /\ Len(PacketBlock(log[k].packet)) \in Nat /\ Len(PacketBlock(log[k].packet)) >= 5
        /\ b.after = log[k].offset + Len(PacketBlock(log[k].packet))
        /\ PacketIn(b) = log[k].packet
    BY <2>1, <2>2, <1>3, RowIs DEF RowOf
  <2>5. ASSUME NEW j \in 1 .. k - 1 PROVE log[j].offset < reader
    <3>1. j \in 1 .. Len(log) /\ j \in 1 .. m /\ j < k
      BY <2>3
    <3>2. /\ log[j].offset + Len(PacketBlock(log[j].packet)) <= log[k].offset
          /\ log[j].offset \in Nat /\ log[j] \in ToSet(log)
          /\ Len(PacketBlock(log[j].packet)) \in Nat /\ Len(PacketBlock(log[j].packet)) >= 5
      BY <3>1, <1>3, RowIs DEF RowsInv
    <3>3. Intact(log[j])
      BY <3>1, <1>1 DEF MappedTo, FirstWhole
    <3>4. RowAt(log[j].offset)
      BY <3>2, <3>3, <1>3 DEF RowAt, Readable
    <3>5. CASE log[j].offset >= reader
      <4>1. log[j].offset < log[k].offset
        BY <3>2, <2>4
      <4>2. log[j].offset \in reader .. b.offset - 1
        BY <4>1, <3>2, <3>5, <2>4, <1>3
      <4>3. \A o \in reader .. b.offset - 1 : ~RowAt(o)
        BY <1>5, <1>7
      <4> QED BY <4>2, <4>3, <3>4
    <3> QED BY <3>2, <3>5, <1>3
  <2>6. Passed = k - 1
    <3>1. reader \in Nat /\ reader <= log[k].offset
      BY <2>1, <2>2, <1>3
    <3> QED BY <3>1, <2>3, <2>5, <1>1, <1>3, <1>6, StandsBefore
  <2>7. Passed' = k
    <3>1. ASSUME NEW j \in 1 .. m PROVE j <= k <=> log[j].offset < b.after
      <4>1. j \in 1 .. Len(log) /\ log[j].offset \in Nat /\ Len(PacketBlock(log[j].packet)) \in Nat
        BY <2>3, <1>3, RowIs
      <4>2. CASE j = k BY <4>2, <2>4, <2>3
      <4>3. CASE j < k
        <5>1. log[j].offset + Len(PacketBlock(log[j].packet)) <= log[k].offset
          BY <4>1, <4>3, <1>3 DEF RowsInv
        <5> QED BY <5>1, <4>1, <4>3, <2>4, <2>3
      <4>4. CASE k < j
        <5>1. log[k].offset + Len(PacketBlock(log[k].packet)) <= log[j].offset
          BY <4>1, <4>4, <1>3 DEF RowsInv
        <5> QED BY <5>1, <4>1, <4>4, <2>4, <2>3
      <4> QED BY <4>2, <4>3, <4>4, <2>3
    <3>2. Behind(b.after, k, m) /\ k \in 0 .. m
      BY <3>1, <2>3 DEF Behind
    <3> QED BY <3>2, <1>1, <1>4, <1>6 DEF MappedTo
  <2>8. Answer' = Found(log[k].packet)
    <3>1. last' = Found(log[k].packet)
      BY <2>4, <1>4, <1>7
    <3> QED BY <3>1 DEF Answer, Found
  <2>9. /\ Passed < Len(WholePackets) /\ Passed' = Passed + 1
        /\ WholePackets[Passed + 1] = log[k].packet
    <3>1. WholePackets[k] = log[k].packet /\ Len(WholePackets) = m
      BY <2>3, <1>1 DEF MappedTo
    <3>2. Passed + 1 = k
      BY <2>6, <2>3
    <3> QED BY <3>1, <3>2, <2>6, <2>7, <2>3
  <2> QED BY <2>8, <2>9, <1>6 DEF Stream!Read, Stream!Found, Found
<1>8. CASE b.type # "packet"
  <2>1. NoRowFrom(reader)
    BY <1>5, <1>8
  <2>2. NoRowFrom(b.after)
    BY <2>1, <1>5, <1>3 DEF NoRowFrom
  <2>3. Passed = m /\ Passed' = m
    <3>1. reader \in Nat /\ b.after \in Nat
      BY <1>3, <1>5
    <3> QED BY <3>1, <2>1, <2>2, <1>1, <1>3, <1>4, <1>6, NoneLeft
  <2>4. Len(WholePackets) = m
    BY <1>1 DEF MappedTo
  <2>5. Answer' \in {End, Error}
    BY <1>4, <1>8 DEF Answer, End, Error
  <2> QED BY <2>3, <2>4, <2>5, <1>6 DEF Stream!Read, Stream!End, Stream!Error, End, Error
<1> QED BY <1>7, <1>8

\* es leads to every packet of the first m, in their order.
Lists(es, m) ==
    /\ es \in Seq(EntriesBelow(Len(file), log)) /\ Follow(es)
    /\ \A k \in 1 .. m : \E x \in DOMAIN es : es[x].file_offset = log[k].offset

LEMMA IndexLists ==
    ASSUME DemuxInv, StreamInv, FramesFit, EntriesFit, Calling,
           NEW m \in 0 .. Len(log), MappedTo(m)
    PROVE  Lists(Rebuilt.index, m) /\ (index # <<>> => Lists(index, m))
<1>1. /\ FileInv /\ ChainInv /\ RowsInv /\ Readable /\ damaged = {} /\ Follow(index)
      /\ index \in Seq(EntriesBelow(Len(file), log)) /\ IndexFull
  BY DEF Calling, Readable, StreamInv, IndexInv, DemuxInv, ReaderInv
<1>2. ASSUME NEW k \in 1 .. m PROVE log[k] \in ToSet(log) /\ Intact(log[k])
  <2>1. k \in 1 .. Len(log)
    BY <1>1, LogLength
  <2> QED BY <2>1, <1>1, RowIs DEF MappedTo, FirstWhole
<1>3. Lists(Rebuilt.index, m)
  <2>1. ASSUME NEW k \in 1 .. m
        PROVE  \E x \in DOMAIN Rebuilt.index : Rebuilt.index[x].file_offset = log[k].offset
    BY <1>1, <1>2, RebuiltLeads
  <2> QED BY <2>1, <1>1, RebuiltType, RebuiltFollows DEF Lists
<1>4. ASSUME index # <<>> PROVE Lists(index, m)
  <2>1. ASSUME NEW k \in 1 .. m PROVE \E x \in DOMAIN index : index[x].file_offset = log[k].offset
    BY <1>1, <1>2, <1>4 DEF IndexFull
  <2> QED BY <2>1, <1>1 DEF Lists
<1> QED BY <1>3, <1>4

\* An entry is that of one packet.
LEMMA EntryIs ==
    ASSUME FileInv, Readable, NEW m \in 0 .. Len(log), MappedTo(m),
           NEW es, Lists(es, m), NEW x \in DOMAIN es
    PROVE  /\ \E k \in 1 .. m : es[x] = EntryFor(log[k])
           /\ \A k \in 1 .. m : es[x].file_offset = log[k].offset => es[x] = EntryFor(log[k])
<1>1. es[x] \in EntriesBelow(Len(file), log)
  BY LenProperties, ElementOfSeq DEF Lists
<1>2. PICK l \in 1 .. Len(log) :
        /\ es[x] = EntryFor(log[l])
        /\ es[x].file_offset + Len(PacketBlock(log[l].packet)) <= Len(file)
  BY <1>1 DEF EntriesBelow
<1>3. es[x].file_offset = log[l].offset
  BY <1>2 DEF EntryFor
<1>4. Intact(log[l])
  BY <1>2, <1>3, RowIs DEF Readable
<1>5. l \in 1 .. m
  BY <1>4, LogLength DEF MappedTo, FirstWhole
<1>6. ASSUME NEW k \in 1 .. m, es[x].file_offset = log[k].offset PROVE k = l
  <2>1. k \in 1 .. Len(log) /\ k \in Nat /\ l \in Nat
    BY LogLength
  <2>2. log[k].offset \in Nat /\ log[l].offset \in Nat
    BY <2>1, RowIs
  <2>3. ~(k < l) /\ ~(l < k)
    <3>1. \A i, j \in 1 .. Len(log) : i < j => log[i].offset < log[j].offset
      BY DEF FileInv, MuxLaid, RowsRight
    <3>2. k < l => log[k].offset < log[l].offset
      BY <3>1, <2>1
    <3>3. l < k => log[l].offset < log[k].offset
      BY <3>1, <2>1
    <3>4. log[k].offset = log[l].offset
      BY <1>3, <1>6
    <3> QED BY <3>2, <3>3, <3>4, <2>2
  <2> QED BY <2>1, <2>3
<1> QED BY <1>2, <1>5, <1>6

\* The candidates among the entries es are those of the packets good.
Names(es, candidates, good, m) ==
    /\ candidates \in SUBSET DOMAIN es /\ good \in SUBSET (1 .. m)
    /\ \A x \in DOMAIN es : \A k \in 1 .. m :
            es[x] = EntryFor(log[k]) => (x \in candidates <=> k \in good)

LatestOf(good) ==
    {k \in good : \A j \in good : \/ log[j].packet.pts < log[k].packet.pts
                                  \/ log[j].packet.pts = log[k].packet.pts /\ j <= k}

LEMMA LatestIsFound ==
    ASSUME FileInv, RowsInv, Readable, NEW m \in 0 .. Len(log), MappedTo(m),
           NEW es, Lists(es, m), NEW candidates, NEW good, Names(es, candidates, good, m)
    PROVE  /\ candidates = {} => good = {}
           /\ \A i \in Latest(es, candidates) :
                \E k \in LatestOf(good) : es[i] = EntryFor(log[k])
<1>0. /\ candidates \in SUBSET DOMAIN es /\ good \in SUBSET (1 .. m)
      /\ \A x \in DOMAIN es : \A k \in 1 .. m :
            es[x] = EntryFor(log[k]) => (x \in candidates <=> k \in good)
  BY DEF Names
<1>1. ASSUME NEW k \in good PROVE \E x \in candidates : es[x] = EntryFor(log[k])
  <2>0. k \in 1 .. m
    BY <1>0
  <2>1. PICK x \in DOMAIN es : es[x].file_offset = log[k].offset
    BY <2>0 DEF Lists
  <2>2. es[x] = EntryFor(log[k])
    BY <2>0, <2>1, EntryIs
  <2> QED BY <2>0, <2>2, <1>0
<1>2. ASSUME NEW i \in Latest(es, candidates)
      PROVE  \E k \in LatestOf(good) : es[i] = EntryFor(log[k])
  <2>1. /\ i \in candidates /\ i \in DOMAIN es
        /\ \A y \in candidates : es[y].pts < es[i].pts \/ (es[y].pts = es[i].pts /\ y <= i)
    BY <1>0 DEF Latest
  <2>2. PICK k \in 1 .. m : es[i] = EntryFor(log[k])
    BY <2>1, EntryIs
  <2>3. k \in good
    BY <1>0, <2>1, <2>2
  <2>4. es[i].pts = log[k].packet.pts /\ es[i].file_offset = log[k].offset
    BY <2>2 DEF EntryFor
  <2>5. ASSUME NEW j \in good
        PROVE  \/ log[j].packet.pts < log[k].packet.pts
               \/ log[j].packet.pts = log[k].packet.pts /\ j <= k
    <3>1. j \in 1 .. Len(log) /\ k \in 1 .. Len(log) /\ j \in Nat /\ k \in Nat
      BY <1>0, LogLength
    <3>2. CASE j <= k
      <4>1. PICK x \in candidates : es[x] = EntryFor(log[j])
        BY <1>1
      <4>2. es[x].pts = log[j].packet.pts
        BY <4>1 DEF EntryFor
      <4> QED BY <4>1, <4>2, <3>2, <2>1, <2>4
    <3>3. CASE k < j
      <4>1. Intact(log[j])
        BY <1>0, <3>1 DEF MappedTo, FirstWhole
      <4>2. es[i].file_offset < log[j].offset
        <5>1. log[k].offset < log[j].offset
          BY <3>1, <3>3 DEF FileInv, MuxLaid, RowsRight
        <5> QED BY <5>1, <2>4
      <4>3. PICK y \in DOMAIN es : i < y /\ es[y].file_offset = log[j].offset
        BY <4>1, <4>2, <3>1, <2>1 DEF Lists, Follow
      <4>4. es[y] = EntryFor(log[j])
        <5>1. /\ \A k1 \in 1 .. m : es[y].file_offset = log[k1].offset => es[y] = EntryFor(log[k1])
              /\ j \in 1 .. m
          BY <1>0, EntryIs
        <5> QED BY <5>1, <4>3
      <4>5. y \in candidates /\ es[y].pts = log[j].packet.pts
        <5>1. j \in 1 .. m
          BY <1>0
        <5> QED BY <5>1, <1>0, <4>3, <4>4 DEF EntryFor
      <4>6. i \in Nat /\ y \in Nat
        BY <2>1, LenProperties DEF Lists
      <4> QED BY <4>3, <4>5, <4>6, <2>1, <2>4
    <3> QED BY <3>1, <3>2, <3>3
  <2> QED BY <2>2, <2>3, <2>5 DEF LatestOf
<1> QED BY <1>1, <1>2

LEMMA ScanImplements ==
    ASSUME DemuxInv, StreamInv, FramesFit, EntriesFit, Calling,
           \/ reader' = reader /\ last' = None
           \/ ~Rebuilt.ok /\ reader' = Rebuilt.reader /\ last' = Error
    PROVE  /\ Stream!Scan
           /\ \/ Passed' = Passed /\ Answer' = None
              \/ Passed' = Len(WholePackets) /\ Answer' = Error
<1>1. PICK m \in 0 .. Len(log) : MappedTo(m)
  BY MappedToExists DEF Calling, Readable
<1>2. /\ WholePackets' = WholePackets /\ (phase' # "writing") = (phase # "writing")
      /\ Passed = PassedAt(reader) /\ Passed' = PassedAt(reader') /\ phase # "writing"
      /\ Len(WholePackets) = m
  BY <1>1, CallMapped DEF Calling, MappedTo
<1>3. CASE reader' = reader /\ last' = None
  <2>1. Passed' = Passed /\ Answer' = None
    BY <1>2, <1>3 DEF Answer, None, PassedAt, Passed, Calling
  <2> QED BY <2>1, <1>2 DEF Stream!Scan, Stream!None, None
<1>4. CASE ~Rebuilt.ok /\ reader' = Rebuilt.reader /\ last' = Error
  <2>1. NoRowFrom(Rebuilt.reader) /\ Rebuilt.reader \in Nat
    BY <1>4, RebuiltFollows, RebuiltType, DiskLen DEF Calling, StreamInv, IndexInv
  <2>2. Passed' = m
    BY <2>1, <1>1, <1>2, <1>4, NoneLeft DEF Calling
  <2>3. Answer' = Error
    BY <1>4 DEF Answer, Error
  <2> QED BY <2>2, <2>3, <1>2 DEF Stream!Scan, Stream!Error, Error
<1> QED BY <1>3, <1>4

\* What a seek among the entries es does, and what that is in the stream.
SeekEnds(es, ok, candidates) ==
    \/ ~ok /\ reader' = Rebuilt.reader /\ last' = Error
    \/ candidates = {} /\ reader' = reader /\ last' = None
    \/ \E i \in Latest(es, candidates) :
            reader' = es[i].file_offset /\ last' = [kind |-> "entry", entry |-> es[i]]

StreamEnds(good) ==
    \/ \E k \in LatestOf(good) : Passed' = k - 1 /\ Answer' = Found(log[k].packet)
    \/ good = {} /\ Passed' = Passed /\ Answer' = None
    \/ Passed' = Len(WholePackets) /\ Answer' = Error

LEMMA SeekFinds ==
    ASSUME DemuxInv, StreamInv, FramesFit, EntriesFit, Calling, NEW es, NEW ok,
           \/ es = Rebuilt.index /\ ok = Rebuilt.ok
           \/ index # <<>> /\ es = index /\ ok = TRUE,
           NEW m \in 0 .. Len(log), MappedTo(m), NEW candidates, NEW good,
           Names(es, candidates, good, m), SeekEnds(es, ok, candidates)
    PROVE  StreamEnds(good) /\ (good = {} => Stream!Scan)
<1>1. Lists(es, m)
  BY IndexLists
<1>2. FileInv /\ RowsInv /\ Readable
  BY DEF Calling
<1>3. /\ candidates = {} => good = {}
      /\ \A i \in Latest(es, candidates) :
            \E k \in LatestOf(good) : es[i] = EntryFor(log[k])
  BY <1>1, <1>2, LatestIsFound
<1>4. CASE ~ok /\ reader' = Rebuilt.reader /\ last' = Error
  <2>1. ~Rebuilt.ok
    BY <1>4
  <2>2. Stream!Scan /\ (\/ Passed' = Passed /\ Answer' = None
                        \/ Passed' = Len(WholePackets) /\ Answer' = Error)
    BY <2>1, <1>4, ScanImplements
  <2>3. Answer' = Error /\ Error # None
    BY <1>4 DEF Answer, Error, None
  <2> QED BY <2>2, <2>3 DEF StreamEnds
<1>5. CASE candidates = {} /\ reader' = reader /\ last' = None
  <2>1. Stream!Scan /\ (\/ Passed' = Passed /\ Answer' = None
                        \/ Passed' = Len(WholePackets) /\ Answer' = Error)
    BY <1>5, ScanImplements
  <2> QED BY <2>1, <1>3, <1>5 DEF StreamEnds
<1>6. ASSUME NEW i \in Latest(es, candidates), reader' = es[i].file_offset,
             last' = [kind |-> "entry", entry |-> es[i]]
      PROVE  StreamEnds(good) /\ good # {}
  <2>1. PICK k \in LatestOf(good) : es[i] = EntryFor(log[k])
    BY <1>3
  <2>2. /\ es[i].file_offset = log[k].offset
        /\ es[i].packet_number = log[k].packet.sequence
    BY <2>1 DEF EntryFor
  <2>3. /\ k \in good /\ k \in 1 .. Len(log) /\ k \in 1 .. m /\ k \in Nat /\ m \in Nat
        /\ Len(log) \in Nat
    <3>1. k \in good /\ good \in SUBSET (1 .. m)
      BY DEF LatestOf, Names
    <3>2. m \in 0 .. Len(log) /\ Len(log) \in Nat
      BY <1>2, LogLength
    <3> QED BY <3>1, <3>2
  <2>4. log[k].offset \in Nat /\ log[k].packet.sequence = k - 1
    BY <2>3, <1>2, RowIs
  <2>5. Passed' = k - 1
    <3>1. ASSUME NEW j \in 1 .. k - 1 PROVE log[j].offset < log[k].offset
      <4>1. j \in 1 .. Len(log) /\ j < k
        BY <2>3
      <4> QED BY <4>1, <2>3, <1>2 DEF FileInv, MuxLaid, RowsRight
    <3>2. PassedAt(log[k].offset) = k - 1
      BY <3>1, <2>3, <2>4, <1>2, StandsBefore
    <3>3. Passed' = PassedAt(reader')
      BY CallMapped DEF Calling
    <3> QED BY <3>2, <3>3, <1>6, <2>2
  <2>6. Answer' = Found(log[k].packet)
    <3>1. log' = log
      BY CallMapped DEF Calling
    <3>2. last'.kind = "entry" /\ last'.entry.packet_number + 1 = k
      BY <1>6, <2>2, <2>3, <2>4
    <3> QED BY <3>1, <3>2 DEF Answer
  <2> QED BY <2>3, <2>5, <2>6 DEF StreamEnds
<1> QED BY <1>4, <1>5, <1>6 DEF SeekEnds

LEMMA SeekNearestImplements ==
    ASSUME DemuxInv, StreamInv, FramesFit, EntriesFit, Calling,
           NEW pts \in Targets, SeekNearest(pts)
    PROVE  Stream!Seek(pts)
<1>1. PICK m \in 0 .. Len(log) : MappedTo(m)
  BY MappedToExists DEF Calling, Readable
<1>2. PICK es, ok :
        /\ \/ es = Rebuilt.index /\ ok = Rebuilt.ok
           \/ index # <<>> /\ es = index /\ ok = TRUE
        /\ SeekEnds(es, ok, {i \in DOMAIN es : TRUE /\ es[i].pts <= pts})
  <2>1. PICK searched : /\ searched = IF index = <<>> THEN Rebuilt ELSE [ok |-> TRUE, index |-> index]
                        /\ \/ ~searched.ok /\ MoveTo(searched.reader) /\ last' = Error
                           \/ /\ {i \in DOMAIN searched.index : TRUE /\ searched.index[i].pts <= pts} = {}
                              /\ Stay /\ last' = None
                           \/ \E i \in Latest(searched.index, {i \in DOMAIN searched.index : TRUE /\ searched.index[i].pts <= pts}) :
                                MoveTo(searched.index[i].file_offset) /\ last' = [kind |-> "entry", entry |-> searched.index[i]]
    BY DEF SeekNearest, SeekAmong
  <2>2. SeekEnds(searched.index, searched.ok, {i \in DOMAIN searched.index : TRUE /\ searched.index[i].pts <= pts})
    <3>1. CASE index = <<>> BY <3>1, <2>1 DEF SeekEnds, MoveTo, Stay
    <3>2. CASE index # <<>>
      <4>1. searched = [ok |-> TRUE, index |-> index]
        BY <3>2, <2>1
      <4>2. searched.ok
        BY <4>1
      <4> QED BY <4>2, <2>1 DEF SeekEnds, MoveTo, Stay
    <3> QED BY <3>1, <3>2
  <2>3. \/ searched.index = Rebuilt.index /\ searched.ok = Rebuilt.ok
        \/ index # <<>> /\ searched.index = index /\ searched.ok = TRUE
    BY <2>1
  <2> QED BY <2>2, <2>3
<1>3. PICK good : good = {k \in 1 .. m : log[k].packet.pts <= pts}
  OBVIOUS
<1>4. ASSUME NEW x \in DOMAIN es, NEW k \in 1 .. m, es[x] = EntryFor(log[k])
      PROVE  x \in {i \in DOMAIN es : TRUE /\ es[i].pts <= pts} <=> k \in good
  <2>1. es[x].pts = log[k].packet.pts
    BY <1>4 DEF EntryFor
  <2> QED BY <2>1, <1>3
<1>5. StreamEnds(good)
  <2>1. PICK candidates : candidates = {i \in DOMAIN es : TRUE /\ es[i].pts <= pts}
    OBVIOUS
  <2>2. Names(es, candidates, good, m)
    BY <2>1, <1>3, <1>4 DEF Names
  <2> QED BY <2>1, <2>2, <1>1, <1>2, SeekFinds
<1>6. PICK w : w = WholePackets
  OBVIOUS
<1>7. /\ w = [k \in 1 .. m |-> log[k].packet] /\ Len(w) = m
      /\ \A k \in 1 .. m : w[k] = log[k].packet
  BY <1>1, <1>6 DEF MappedTo
<1>8. {k \in 1 .. Len(w) : TRUE /\ w[k].pts <= pts} = good
  BY <1>7, <1>3
<1>9. /\ WholePackets' = WholePackets /\ (phase' # "writing") = (phase # "writing")
      /\ phase # "writing"
  BY CallMapped DEF Calling
<1>10. \A k \in good : w[k] = log[k].packet
  BY <1>3, <1>7
<1>11. \/ \E k \in {i \in good : \A j \in good : w[j].pts < w[i].pts \/ (w[j].pts = w[i].pts /\ j <= i)} :
              Passed' = k - 1 /\ Answer' = Found(w[k])
       \/ good = {} /\ Passed' = Passed /\ Answer' = None
       \/ Passed' = Len(w) /\ Answer' = Error
  BY <1>5, <1>6, <1>10 DEF StreamEnds, LatestOf
<1> QED BY <1>6, <1>8, <1>9, <1>11
        DEF Stream!Seek, Stream!SeekAmong, Stream!Found, Stream!None, Stream!Error, Found, None, Error

LEMMA SeekKeyframeImplements ==
    ASSUME DemuxInv, StreamInv, FramesFit, EntriesFit, Calling,
           NEW track \in Track, NEW pts \in Targets, SeekKeyframe(track, pts)
    PROVE  \/ Stream!Scan
           \/ track \in {p.track : p \in Packets} /\ Stream!SeekKeyframe(track, pts)
<1>1. PICK m \in 0 .. Len(log) : MappedTo(m)
  BY MappedToExists DEF Calling, Readable
<1>2. PICK es, ok :
        /\ \/ es = Rebuilt.index /\ ok = Rebuilt.ok
           \/ index # <<>> /\ es = index /\ ok = TRUE
        /\ SeekEnds(es, ok, {i \in DOMAIN es : (es[i].track = track /\ es[i].key) /\ es[i].pts <= pts})
  <2>1. PICK searched :
            /\ searched = IF index = <<>> THEN Rebuilt ELSE [ok |-> TRUE, index |-> index]
            /\ \E candidates : 
                /\ candidates = {i \in DOMAIN searched.index :
                                    (searched.index[i].track = track /\ searched.index[i].key)
                                        /\ searched.index[i].pts <= pts}
                /\ \/ ~searched.ok /\ MoveTo(searched.reader) /\ last' = Error
                   \/ candidates = {} /\ Stay /\ last' = None
                   \/ \E i \in Latest(searched.index, candidates) :
                         /\ MoveTo(searched.index[i].file_offset)
                         /\ last' = [kind |-> "entry", entry |-> searched.index[i]]
    BY DEF SeekKeyframe, SeekAmong
  <2>2. SeekEnds(searched.index, searched.ok,
                 {i \in DOMAIN searched.index :
                    (searched.index[i].track = track /\ searched.index[i].key)
                        /\ searched.index[i].pts <= pts})
    <3>1. CASE index = <<>> BY <3>1, <2>1 DEF SeekEnds, MoveTo, Stay
    <3>2. CASE index # <<>>
      <4>1. searched.ok
        BY <3>2, <2>1
      <4> QED BY <4>1, <2>1 DEF SeekEnds, MoveTo, Stay
    <3> QED BY <3>1, <3>2
  <2>3. \/ searched.index = Rebuilt.index /\ searched.ok = Rebuilt.ok
        \/ index # <<>> /\ searched.index = index /\ searched.ok = TRUE
    BY <2>1
  <2> QED BY <2>2, <2>3
<1>3. PICK good : good = {k \in 1 .. m : /\ log[k].packet.track = track /\ log[k].packet.key
                                         /\ log[k].packet.pts <= pts}
  OBVIOUS
<1>4. ASSUME NEW x \in DOMAIN es, NEW k \in 1 .. m, es[x] = EntryFor(log[k])
      PROVE  x \in {i \in DOMAIN es : (es[i].track = track /\ es[i].key) /\ es[i].pts <= pts}
                <=> k \in good
  <2>1. /\ es[x].track = log[k].packet.track /\ es[x].key = log[k].packet.key
        /\ es[x].pts = log[k].packet.pts
    BY <1>4 DEF EntryFor
  <2> QED BY <2>1, <1>3
<1>5. StreamEnds(good) /\ (good = {} => Stream!Scan)
  <2>1. PICK candidates :
          candidates = {i \in DOMAIN es : (es[i].track = track /\ es[i].key) /\ es[i].pts <= pts}
    OBVIOUS
  <2>2. Names(es, candidates, good, m)
    BY <2>1, <1>3, <1>4 DEF Names
  <2> QED BY <2>1, <2>2, <1>1, <1>2, SeekFinds
<1>6. PICK w : w = WholePackets
  OBVIOUS
<1>7. /\ w = [k \in 1 .. m |-> log[k].packet] /\ Len(w) = m
      /\ \A k \in 1 .. m : w[k] = log[k].packet
  BY <1>1, <1>6 DEF MappedTo
<1>8. {k \in 1 .. Len(w) : (w[k].track = track /\ w[k].key) /\ w[k].pts <= pts} = good
  BY <1>7, <1>3
<1>9. /\ WholePackets' = WholePackets /\ (phase' # "writing") = (phase # "writing")
      /\ phase # "writing"
  BY CallMapped DEF Calling
<1>10. \A k \in good : w[k] = log[k].packet
  BY <1>3, <1>7
<1>11. \/ \E k \in {i \in good : \A j \in good : w[j].pts < w[i].pts \/ (w[j].pts = w[i].pts /\ j <= i)} :
              Passed' = k - 1 /\ Answer' = Found(w[k])
       \/ good = {} /\ Passed' = Passed /\ Answer' = None
       \/ Passed' = Len(w) /\ Answer' = Error
  BY <1>5, <1>6, <1>10 DEF StreamEnds, LatestOf
<1>12. Stream!SeekKeyframe(track, pts)
  BY <1>6, <1>8, <1>9, <1>11
     DEF Stream!SeekKeyframe, Stream!SeekAmong, Stream!Found, Stream!None, Stream!Error, Found, None, Error
<1>13. ASSUME good # {} PROVE track \in {p.track : p \in Packets}
  <2>1. PICK k \in 1 .. m : log[k].packet.track = track
    BY <1>3, <1>13
  <2>2. k \in 1 .. Len(log)
    BY LogLength DEF Calling
  <2>3. log[k].packet \in Packets
    BY <2>2 DEF Calling, RowsInv
  <2> QED BY <2>1, <2>3
<1> QED BY <1>5, <1>12, <1>13

LEMMA CallImplements ==
    ASSUME DemuxInv, StreamInv, FramesFit, EntriesFit, Calling,
           \/ Open \/ NextPacket \/ ResetToDataStart \/ RebuildIndex
           \/ \E pts \in Targets : SeekNearest(pts)
           \/ \E track \in Track, pts \in Targets : SeekKeyframe(track, pts)
    PROVE  Stream!StreamNext
<1>1. CASE Open \/ ResetToDataStart
  BY <1>1, RewindImplements DEF Stream!StreamNext
<1>2. CASE NextPacket
  BY <1>2, ReadImplements DEF Stream!StreamNext
<1>3. CASE RebuildIndex
  <2>1. \/ reader' = reader /\ last' = None
        \/ ~Rebuilt.ok /\ reader' = Rebuilt.reader /\ last' = Error
    BY <1>3 DEF RebuildIndex, Stay, MoveTo
  <2> QED BY <2>1, ScanImplements DEF Stream!StreamNext
<1>4. ASSUME NEW pts \in Targets, SeekNearest(pts) PROVE Stream!StreamNext
  BY <1>4, SeekNearestImplements DEF Stream!StreamNext
<1>5. ASSUME NEW track \in Track, NEW pts \in Targets, SeekKeyframe(track, pts)
      PROVE  Stream!StreamNext
  BY <1>5, SeekKeyframeImplements DEF Stream!StreamNext
<1> QED BY <1>1, <1>2, <1>3, <1>4, <1>5

LEMMA CallsAreCalls ==
    ASSUME DemuxInv, StreamInv, FramesFit, EntriesFit, damaged = {},
           \/ Open \/ NextPacket \/ ResetToDataStart \/ RebuildIndex
           \/ \E pts \in Targets : SeekNearest(pts)
           \/ \E track \in Track, pts \in Targets : SeekKeyframe(track, pts)
    PROVE  Calling
<1>1. FileInv /\ RowsInv /\ Readable
  BY ReadableFile DEF DemuxInv, StreamInv
<1>2. UNCHANGED <<muxVars, disk>> /\ (Open \/ Opened)
  BY DEF Open, NextPacket, ResetToDataStart, RebuildIndex, SeekNearest, SeekKeyframe, SeekAmong
<1>3. phase # "writing"
  BY <1>2 DEF Open, Opened, DemuxInv, ReaderInv
<1> QED BY <1>1, <1>2, <1>3 DEF Calling

LEMMA StreamStutters ==
    ASSUME UNCHANGED vars
    PROVE  UNCHANGED Stream!streamVars
<1>1. /\ file' = file /\ log' = log /\ phase' = phase /\ disk' = disk
      /\ reader' = reader /\ last' = last
  BY DEF vars, muxVars, demuxVars
<1>2. WholePackets' = WholePackets /\ Passed' = Passed /\ Answer' = Answer /\ damaged' = damaged
  BY <1>1 DEF WholePackets, Passed, Answer, Intact, BlockCells, damaged
<1> QED BY <1>1, <1>2 DEF Stream!streamVars

\* Once something is damaged it stays so.
LEMMA StreamImplements ==
    ASSUME FramesFit, EntriesFit, DemuxInv, StreamInv, DemuxInv', StreamInv', [DemuxNext]_vars
    PROVE  [(damaged = {})' => Stream!StreamNext]_(Stream!streamVars)
<1> SUFFICES ASSUME DemuxNext, damaged' = {} PROVE Stream!StreamNext
  BY StreamStutters
<1>1. CASE Write
  BY <1>1, WriteImplements
<1>2. CASE \E i \in DataStart + 1 .. Len(file) : Damage(i)
  BY <1>2, DamageShows
<1>3. CASE \/ Open \/ NextPacket \/ ResetToDataStart \/ RebuildIndex
           \/ \E pts \in Targets : SeekNearest(pts)
           \/ \E track \in Track, pts \in Targets : SeekKeyframe(track, pts)
  <2>1. UNCHANGED <<muxVars, disk>>
    BY <1>3 DEF Open, NextPacket, ResetToDataStart, RebuildIndex, SeekNearest, SeekKeyframe, SeekAmong
  <2>2. damaged = {}
    BY <2>1, CallMapped
  <2> QED BY <2>2, <1>3, CallsAreCalls, CallImplements
<1> QED BY <1>1, <1>2, <1>3 DEF DemuxNext

LEMMA StreamStarts == DemuxInit => Stream!StreamInit
<1> SUFFICES ASSUME DemuxInit PROVE Stream!StreamInit
  OBVIOUS
<1>1. FileInv /\ RowsInv /\ damaged = {}
  BY InitDemux, InitRows DEF DemuxInit, DemuxInv, damaged
<1>2. log = <<>> /\ phase = "writing" /\ reader = 0 /\ last = None
  BY DEF DemuxInit, MuxInit
<1>3. Passed = 0 /\ Len(WholePackets) = 0 /\ WholePackets = [k \in 1 .. 0 |-> log[k].packet]
  BY <1>1, <1>2, Mapped
<1>4. WholePackets = <<>>
  BY <1>3
<1> QED BY <1>1, <1>2, <1>3, <1>4 DEF Stream!StreamInit, Stream!None, Answer, None

\* The writer and the reader of a file implement the packet stream: while nothing is
\* damaged, every packet written is appended, a crash loses the latest ones only, and
\* every call of the reader, in any order, does what it does on a list of packets
\* (write_packet, finalize, next_packet, rebuild_index, reset_to_data_start, the seeks).
THEOREM MuxAndDemuxImplementStream ==
    ASSUME FramesFit, EntriesFit
    PROVE  DemuxSpec => ImplementsStream
<1>1. DemuxInit => Stream!StreamInit
  BY StreamStarts
<1>2. DemuxInv /\ StreamInv /\ (DemuxInv /\ StreamInv)' /\ [DemuxNext]_vars
        => [(damaged = {})' => Stream!StreamNext]_(Stream!streamVars)
  BY StreamImplements
<1> QED BY <1>1, <1>2, StreamAlways, PTL DEF DemuxSpec, ImplementsStream, Stream!StreamSpec
=============================================================================
