------------------------------ MODULE Container ------------------------------
(***************************************************************************)
(* The block layer of a .528 file (crates/libsrs_container).  A file is a  *)
(* sequence of cells.  A block is written as                               *)
(*                                                                         *)
(*     S  B  prelude  crc  body cell ... body cell                         *)
(*                                                                         *)
(* S and B are the two halves of BLOCK_MAGIC, the prelude is the rest of   *)
(* the 16 bytes the header checksum covers, crc is that checksum.  A       *)
(* checksum stands for exactly what it was computed over: the prelude      *)
(* carries the body it was made for, the crc cell carries the prelude      *)
(* (collisions are left out).  A position is the number of cells before it. *)
(***************************************************************************)
EXTENDS Integers, Sequences

CONSTANTS
    Track,         \* the track ids of the header; a seek by keyframe names one
    MaxPayload,    \* MAX_PACKET_PAYLOAD_BYTES
    MaxBody,       \* MAX_BLOCK_BODY_BYTES
    MaxEntries,    \* MAX_INDEX_ENTRIES_PER_BLOCK
    Probe          \* length of the window try_resync_or_fail searches (8192)

ASSUME ContainerAssumption ==
    /\ MaxPayload \in Nat /\ MaxBody \in Nat /\ MaxEntries \in Nat
    /\ Probe \in Nat /\ Probe >= 2

-----------------------------------------------------------------------------
(* Cells.                                                                  *)

S == [byte |-> "S"]
B == [byte |-> "B"]
Plain == [byte |-> "-"]         \* any byte a block magic cannot start at
Damaged == [byte |-> "?"]       \* a byte that is not what was written

\* FileHeader and the track table, which this model does not look into
FileStart == <<[start |-> "SRS528"]>>
DataStart == Len(FileStart)

Prelude(type, body) == [type |-> type, bodyLen |-> Len(body), bodyCrc |-> body]
HeaderLen == 4

\* encode_block
Block(type, body) ==
    <<S, B, Prelude(type, body), [crc |-> Prelude(type, body)]>> \o body

\* encode_packet_block; the header is one cell.  A packet is
\* [track, key, sequence, pts, payload]; dts is passed on untouched and left out.
HeaderOf(packet) ==
    [track |-> packet.track, key |-> packet.key, sequence |-> packet.sequence,
     pts |-> packet.pts]
PacketBlock(packet) == Block("packet", <<HeaderOf(packet)>> \o packet.payload)

\* encode_cue_block and encode_index_block: one cell for the counts, one per entry
CueBlock(id, first, entries) == Block("cue", <<[cue |-> id, first |-> first]>> \o entries)
IndexBlock(entries) == Block("index", <<[count |-> Len(entries)]>> \o entries)

-----------------------------------------------------------------------------
(* Reading one block at position p of file f.                              *)

Cells(f, p, n) == SubSeq(f, p + 1, p + n)
HasMagic(f, p) == Cells(f, p, 2) = <<S, B>>

\* decode_block_header reads the prelude, looks at the magic, then reads the crc
HeaderEof(f, p) == Len(f) < p + 3 \/ (HasMagic(f, p) /\ Len(f) < p + HeaderLen)

HeaderOk(f, p) ==
    /\ Len(f) >= p + HeaderLen
    /\ HasMagic(f, p)
    /\ "type" \in DOMAIN f[p + 3]
    /\ f[p + 4] = [crc |-> f[p + 3]]
    /\ f[p + 3].bodyLen <= MaxBody

\* read_block_body: the checksum of the body
BodyAt(f, p) == Cells(f, p + HeaderLen, f[p + 3].bodyLen)
BodyOk(f, p) == BodyAt(f, p) = f[p + 3].bodyCrc

BodyEof(f, p) == Len(f) < p + HeaderLen + f[p + 3].bodyLen

AfterBlock(f, p) == p + HeaderLen + f[p + 3].bodyLen

\* what is left of the window try_resync_or_fail reads at p
Window(f, p) == IF Len(f) - p < Probe THEN Len(f) - p ELSE Probe

\* mutant: the search skips the header that was found bad
MagicsAfterHeader(f, p) ==
    {q \in (p + HeaderLen) .. (p + Window(f, p) - 2) : HasMagic(f, q)}

\* find_next_block_magic(probe, 1)
MagicsAfter(f, p) == {q \in (p + 1) .. (p + Window(f, p) - 2) : HasMagic(f, q)}
=============================================================================
