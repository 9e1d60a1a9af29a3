-------------------------------- MODULE Demux --------------------------------
(***************************************************************************)
(* DemuxReader (crates/libsrs_demux) over a file that MuxWriter has left,  *)
(* finalized or cut short, and that may have been damaged since.  Parsing  *)
(* is a function of the file and the position, so it is written as         *)
(* recursive functions from the end of the file backwards: resynchronising *)
(* always moves forward.                                                   *)
(***************************************************************************)
EXTENDS Mux, FiniteSets, SequencesExt, FiniteSetsExt

CONSTANTS
    Targets,       \* the pts callers seek to
    MaxDamage,     \* bound on the cells damaged
    MaxDamagedPackets   \* bound on the packets of a file that is damaged

ASSUME DemuxAssumption ==
    Targets \subseteq Nat /\ MaxDamage \in Nat /\ MaxDamagedPackets \in Nat

VARIABLES
    disk,          \* what is read where file was written
    reader,        \* position in the file; 0 before open
    index,         \* DemuxReader::index
    last,          \* what the last call returned
    origin,        \* history: where reading started, at open, a reset or a seek
    seen           \* history: the packets returned since

demuxVars == <<disk, reader, index, last, origin, seen>>
vars == <<muxVars, demuxVars>>

None == [kind |-> "none"]
End == [kind |-> "end"]
Error == [kind |-> "error"]
Found(p) == [kind |-> "packet", packet |-> p]

damaged == {i \in DOMAIN file : disk[i] # file[i]}

-----------------------------------------------------------------------------
(* next_block and the calls made of it.                                    *)

Failure(p) == [type |-> "error", offset |-> p, body |-> <<>>, after |-> p]
EndOfFile == [type |-> "end", offset |-> Len(file), body |-> <<>>, after |-> Len(file)]

\* next_block at p with try_resync_or_fail: a block whose header is not valid is
\* skipped to the next magic in the window, where block, next_block itself, takes
\* over; one whose body is not valid is an error
BlockAt(p, block) ==
    IF HeaderEof(disk, p) THEN EndOfFile
    ELSE IF ~HeaderOk(disk, p)
         THEN IF MagicsAfter(disk, p) = {} THEN Failure(p + Window(disk, p))
              ELSE block[Min(MagicsAfter(disk, p))]
    ELSE IF BodyEof(disk, p) THEN Failure(Len(disk))
    ELSE IF ~BodyOk(disk, p) THEN Failure(AfterBlock(disk, p))
    ELSE [type |-> disk[p + 3].type, offset |-> p, body |-> BodyAt(disk, p),
          after |-> AfterBlock(disk, p)]

NextBlock == LET block[p \in 0 .. Len(disk)] == BlockAt(p, block) IN block

\* decode_packet_block
PacketIn(block) ==
    [track |-> block.body[1].track, key |-> block.body[1].key,
     sequence |-> block.body[1].sequence, pts |-> block.body[1].pts,
     payload |-> Tail(block.body)]

\* the first block from a position on whose type is not among those skipped
BlockPast(next, skipped, from) ==
    LET found[p \in 0 .. Len(file)] ==
          IF next[p].type \in skipped THEN found[next[p].after] ELSE next[p]
    IN  found[from]

\* next_packet's loop: the first packet block, end or error from a position on
NextPacketFrom(from) == BlockPast(NextBlock, {"cue", "index"}, from)

EntriesIn(block) ==
    CASE block.type = "packet" ->
            LET p == PacketIn(block)
            IN  <<[packet_number |-> p.sequence, file_offset |-> block.offset,
                   track |-> p.track, key |-> p.key, pts |-> p.pts]>>
      [] block.type = "cue" -> Tail(block.body)
      [] OTHER -> <<>>

\* what rebuild_index collects of the blocks of the given types, up to an index
\* block, the end or an error
EntriesAlong(next, types) ==
    LET collected[p \in 0 .. Len(file)] ==
          IF next[p].type \in {"packet", "cue"}
          THEN (IF next[p].type \in types THEN EntriesIn(next[p]) ELSE <<>>)
                  \o collected[next[p].after]
          ELSE <<>>
    IN  collected[DataStart]

\* rebuild_index: the index block replaces what was collected
RebuiltOf(next, final) ==
    [ok |-> final.type # "error",
     reader |-> final.after,
     index |-> IF final.type = "index" THEN Tail(final.body)
               ELSE EntriesAlong(next, {"packet", "cue"})]
RebuiltFrom(next) == RebuiltOf(next, BlockPast(next, {"packet", "cue"}, DataStart))
Rebuilt == RebuiltFrom(NextBlock)

-----------------------------------------------------------------------------
DemuxInit ==
    /\ MuxInit
    /\ reader = 0 /\ index = <<>> /\ last = None
    /\ origin = 0 /\ seen = <<>> /\ disk = file

Write == MuxNext /\ disk' = file' /\ UNCHANGED <<reader, index, last, origin, seen>>

\* between writing and reading a cell is overwritten
Damage(i) ==
    /\ phase \in {"finalized", "crashed"} /\ reader = 0
    /\ i \notin damaged /\ Cardinality(damaged) < MaxDamage /\ Len(log) <= MaxDamagedPackets
    /\ disk' = [disk EXCEPT ![i] = Damaged]
    /\ UNCHANGED <<muxVars, reader, index, last, origin, seen>>

\* the reader goes to p without reading packets on the way
MoveTo(p) == reader' = p /\ origin' = p /\ seen' = <<>>
Stay == UNCHANGED <<reader, origin, seen>>

Open ==
    /\ phase \in {"finalized", "crashed"} /\ reader = 0
    /\ MoveTo(DataStart)
    /\ UNCHANGED <<muxVars, disk, index, last>>

Opened == reader # 0

NextPacket ==
    /\ Opened
    /\ \E block \in {NextPacketFrom(reader)} :
           /\ reader' = block.after
           /\ \/ /\ block.type = "packet"
                 /\ last' = Found(PacketIn(block))
                 /\ seen' = Append(seen, [offset |-> block.offset, packet |-> PacketIn(block)])
              \/ block.type = "end" /\ last' = End /\ UNCHANGED seen
              \/ block.type = "error" /\ last' = Error /\ UNCHANGED seen
    /\ UNCHANGED <<muxVars, disk, index, origin>>

ResetToDataStart ==
    /\ Opened
    /\ MoveTo(DataStart)
    /\ UNCHANGED <<muxVars, disk, index, last>>

\* mutant: the position is not restored
RebuildIndexAndStay ==
    /\ Opened
    /\ index' = Rebuilt.index
    /\ MoveTo(Rebuilt.reader) /\ last' = IF Rebuilt.ok THEN None ELSE Error
    /\ UNCHANGED <<muxVars, disk>>

\* an error leaves what was collected so far and the reader where it struck
RebuildIndex ==
    /\ Opened
    /\ \E rebuilt \in {Rebuilt} :
          /\ index' = rebuilt.index
          /\ \/ rebuilt.ok /\ Stay /\ last' = None
             \/ ~rebuilt.ok /\ MoveTo(rebuilt.reader) /\ last' = Error
    /\ UNCHANGED <<muxVars, disk>>

\* max_by_key: the last of those with the largest pts
Latest(es, candidates) ==
    {i \in candidates : \A j \in candidates :
        es[j].pts < es[i].pts \/ (es[j].pts = es[i].pts /\ j <= i)}

\* a seek among the entries Eligible names: an empty index is rebuilt first
SeekAmong(Eligible(_), pts) ==
    /\ Opened
    /\ \E searched \in {IF index = <<>> THEN Rebuilt ELSE [ok |-> TRUE, index |-> index]} :
       LET es == searched.index
           candidates == {i \in DOMAIN es : Eligible(es[i]) /\ es[i].pts <= pts}
       IN /\ index' = es
          /\ \/ ~searched.ok /\ MoveTo(searched.reader) /\ last' = Error
             \/ searched.ok /\ candidates = {} /\ Stay /\ last' = None
             \/ /\ searched.ok
                /\ \E i \in Latest(es, candidates) :
                      MoveTo(es[i].file_offset) /\ last' = [kind |-> "entry", entry |-> es[i]]
    /\ UNCHANGED <<muxVars, disk>>

SeekNearest(pts) == SeekAmong(LAMBDA e : TRUE, pts)

\* seek_nearest_video_keyframe_before_or_at
SeekKeyframe(track, pts) == SeekAmong(LAMBDA e : e.track = track /\ e.key, pts)

DemuxNext ==
    \/ Write
    \/ \E i \in DataStart + 1 .. Len(file) : Damage(i)
    \/ Open \/ NextPacket \/ ResetToDataStart
    \/ \E pts \in Targets : SeekNearest(pts)
    \/ \E track \in Track, pts \in Targets : SeekKeyframe(track, pts)
    \/ RebuildIndex

DemuxSpec == DemuxInit /\ [][DemuxNext]_vars
-----------------------------------------------------------------------------
DemuxTypeOK ==
    /\ MuxTypeOK
    /\ reader \in 0 .. Len(file) /\ origin \in 0 .. Len(file)
    /\ index \in Seq(Entry)
    /\ last.kind \in {"none", "end", "error", "packet", "entry"}
    /\ Len(disk) = Len(file) /\ \A i \in DOMAIN file : disk[i] \in {file[i], Damaged}

BlockCells(r) == r.offset + 1 .. r.offset + Len(PacketBlock(r.packet))
Intact(r) == BlockCells(r) \subseteq 1 .. Len(file) /\ BlockCells(r) \cap damaged = {}

\* the window searched from damage may end between the two cells of the magic at o
Hidden(o) == Probe <= o + 1 /\ \A q \in o - Probe + 2 .. o - 1 : ~HasMagic(disk, q)

\* Reading on from an open, a reset or a seek hands out exactly the packets that
\* are whole and undamaged, in order and once, whatever lies damaged or torn
\* between them, except one that such a window hides (next_packet,
\* try_resync_or_fail and the checksums).
ReadsIntactPackets ==
    Opened =>
        /\ \A r \in ToSet(log) : (Intact(r) /\ origin <= r.offset /\ r.offset < reader)
                                    => r \in ToSet(seen) \/ Hidden(r.offset)
        /\ \A r \in ToSet(seen) : /\ r \in ToSet(log) /\ Intact(r)
                                   /\ origin <= r.offset /\ r.offset < reader
        /\ \A i, j \in DOMAIN seen : i < j => seen[i].offset < seen[j].offset

\* A packet found by a seek is the next one read, unless it is damaged.
SeekLands ==
    [][(NextPacket /\ last.kind = "entry" /\ reader = last.entry.file_offset) =>
        LET r == log[last.entry.packet_number + 1]
        IN  /\ r.offset = reader
            /\ Intact(r) => last' = Found(r.packet)]_vars

\* While nothing is damaged, whatever the writer left, the index holds the
\* packets that are whole in the file and no others (the merge of packets and
\* cues in rebuild_index, the cues of write_periodic_cue and the final index).
IndexIsComplete ==
    (Opened /\ damaged = {} /\ index # <<>>) =>
        {e.packet_number : e \in ToSet(index)} = {r.packet.sequence : r \in {q \in ToSet(log) : Intact(q)}}

\* The cues in the file, one after the other, repeat each index entry once and
\* in order up to the last cue written (pending_cue_start in write_periodic_cue).
CuesRepeatEntries ==
    (phase # "crashed" /\ damaged = {}) =>
        EntriesAlong(NextBlock, {"cue"}) = IF phase = "finalized" THEN entries ELSE SubSeq(entries, 1, pending_cue_start)

(* The promise of the two crates together, while nothing is damaged.       *)

\* a file that was cut short is the beginning of the file: the packets that are
\* whole in it are the first ones
WholePackets ==
    [i \in 1 .. Cardinality({k \in DOMAIN log : Intact(log[k])}) |-> log[i].packet]
Passed == Cardinality({k \in DOMAIN log : Intact(log[k]) /\ log[k].offset < reader})
Answer == IF last.kind = "entry" THEN Found(log[last.entry.packet_number + 1].packet) ELSE last
Packets == {[track |-> f.track, key |-> f.key, sequence |-> n, pts |-> f.pts, payload |-> f.payload] :
                f \in Frames, n \in 0 .. MaxPackets - 1}

Stream == INSTANCE PacketStream WITH
    Packet <- Packets, Target <- Targets, packets <- WholePackets, closed <- phase # "writing",
    cursor <- Passed, answer <- Answer, whole <- damaged = {}

\* Mux and demux implement the packet stream, over any interleaving of seeks
\* and reads on a finalized file or on one cut short by a crash, as long as
\* nothing is damaged.
ImplementsStream == Stream!StreamSpec

(* A statement of the repository that the code does not keep.              *)

IndexBodyCells == Len(file) - Len(entries) .. Len(file)
CorruptIndex == phase = "finalized" /\ damaged # {} /\ damaged \subseteq IndexBodyCells
HasTarget(pts) == \E r \in ToSet(log) : r.packet.pts <= pts

\* docs/specs/timing_and_sync.md:31, "Fallback seek source: merged cue entries
\* when final index is missing/corrupt": in a finalized file, with damage in the
\* body of its index only and with packets at or before the target, and so a cue
\* that names them, a seek does not fail.
CorruptIndexFallsBack ==
    [][\A pts \in Targets : (CorruptIndex /\ HasTarget(pts) /\ SeekNearest(pts)) => last' # Error]_vars
=============================================================================
