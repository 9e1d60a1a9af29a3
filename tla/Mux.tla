--------------------------------- MODULE Mux ---------------------------------
(***************************************************************************)
(* MuxWriter (crates/libsrs_mux): packets are appended to the file, every  *)
(* cue_interval_packets of them a cue block repeats their index entries,   *)
(* finalize writes the last cue and the index of all packets.  The process *)
(* may stop at any time, which leaves a prefix of the file.                *)
(***************************************************************************)
EXTENDS Container

CONSTANTS
    Frames,        \* what callers pass to write_packet: [track, key, pts, payload]
    CueInterval,   \* cue_interval_packets of the file header
    MaxPackets     \* bound on the packets written

ASSUME MuxAssumption ==
    /\ \A f \in Frames : /\ f.track \in Track /\ f.key \in BOOLEAN
                         /\ f.pts \in Nat /\ f.payload \in Seq({S, B, Plain})
    /\ CueInterval \in Nat /\ MaxPackets \in Nat

VARIABLES
    file,              \* the bytes behind writer
    packet_count,
    cue_count,
    sequence,
    entries,           \* index entries of the packets written
    pending_cue_start,
    phase,
    log                \* history: the packets written, each with its offset

muxVars == <<file, packet_count, cue_count, sequence, entries, pending_cue_start, phase, log>>

Entry == [packet_number : Nat, file_offset : Nat, track : Track,
          key : BOOLEAN, pts : Nat]

MuxTypeOK ==
    /\ Len(file) >= DataStart
    /\ packet_count \in Nat /\ cue_count \in Nat /\ sequence \in Nat
    /\ entries \in Seq(Entry)
    /\ pending_cue_start \in 0 .. Len(entries)
    /\ phase \in {"writing", "finalized", "crashed"}
    /\ Len(log) = Len(entries)

\* MuxWriter::new
MuxInit ==
    /\ file = FileStart
    /\ packet_count = 0 /\ cue_count = 0 /\ sequence = 0
    /\ entries = <<>>
    /\ pending_cue_start = 0
    /\ phase = "writing"
    /\ log = <<>>

-----------------------------------------------------------------------------
PacketOf(frame) ==
    [track |-> frame.track, key |-> frame.key, sequence |-> sequence, pts |-> frame.pts,
     payload |-> frame.payload]

\* mutant: the position is taken after the block was written
EntryAfter(frame) ==
    [packet_number |-> packet_count, file_offset |-> Len(file \o PacketBlock(PacketOf(frame))),
     track |-> frame.track, key |-> frame.key, pts |-> frame.pts]

EntryOf(frame) ==
    [packet_number |-> packet_count, file_offset |-> Len(file), track |-> frame.track,
     key |-> frame.key, pts |-> frame.pts]

\* mutant: pending_cue_start counts from the entry before
CueSince(es) ==
    LET new == SubSeq(es, pending_cue_start + 2, Len(es))
    IN  CueBlock(cue_count, IF new = <<>> THEN packet_count ELSE new[1].packet_number, new)

\* the cue block write_periodic_cue makes of the entries es
Cue(es) ==
    LET new == SubSeq(es, pending_cue_start + 1, Len(es))
    IN  CueBlock(cue_count, IF new = <<>> THEN packet_count ELSE new[1].packet_number, new)

\* a cue of too many entries is refused (encode_cue_block) when the packet is written
\* already: the caller gets an error, the entries stay pending
CueDue ==
    /\ CueInterval > 0 /\ (packet_count + 1) % CueInterval = 0
    /\ Len(entries) + 1 - pending_cue_start <= MaxEntries

\* mutant: pending_cue_start is one too far
WriteCueAndSkip(es, written) ==
    /\ file' = written \o Cue(es)
    /\ cue_count' = cue_count + 1
    /\ pending_cue_start' = Len(es) + 1

\* write_periodic_cue behind what was written before
WriteCue(es, written) ==
    /\ file' = written \o Cue(es)
    /\ cue_count' = cue_count + 1
    /\ pending_cue_start' = Len(es)

WritePacket(frame) ==
    LET es == Append(entries, EntryOf(frame))
        written == file \o PacketBlock(PacketOf(frame))
    IN  /\ phase = "writing" /\ packet_count < MaxPackets
        /\ Len(frame.payload) <= MaxPayload
        /\ entries' = es
        /\ packet_count' = packet_count + 1
        /\ sequence' = sequence + 1
        /\ log' = Append(log, [offset |-> Len(file), packet |-> PacketOf(frame)])
        /\ \/ CueDue /\ WriteCue(es, written)
           \/ /\ ~CueDue
              /\ file' = written
              /\ UNCHANGED <<cue_count, pending_cue_start>>
        /\ UNCHANGED phase

\* mutant: the index holds what no cue has repeated yet
WithPendingIndex ==
    file \o (IF pending_cue_start < Len(entries) THEN Cue(entries) ELSE <<>>)
         \o IndexBlock(SubSeq(entries, pending_cue_start + 1, Len(entries)))

\* the file finalize leaves
WithIndex ==
    file \o (IF pending_cue_start < Len(entries) THEN Cue(entries) ELSE <<>>)
         \o IndexBlock(entries)

\* neither the last cue nor the index may hold too many entries
Finalize ==
    /\ phase = "writing" /\ Len(entries) <= MaxEntries
    /\ file' = WithIndex
    /\ phase' = "finalized"
    /\ UNCHANGED <<packet_count, cue_count, sequence, entries, pending_cue_start, log>>

\* the process stops, or a write fails and the caller drops the writer: what is
\* on disk is the file up to some cell, a torn finalize included
Crash ==
    /\ phase = "writing"
    /\ \E n \in DataStart .. Len(WithIndex) - 1 : file' = SubSeq(WithIndex, 1, n)
    /\ phase' = "crashed"
    /\ UNCHANGED <<packet_count, cue_count, sequence, entries, pending_cue_start, log>>

MuxNext == (\E frame \in Frames : WritePacket(frame)) \/ Finalize \/ Crash

MuxSpec == MuxInit /\ [][MuxNext]_muxVars
-----------------------------------------------------------------------------
\* Each index entry leads to the block of the very packet it describes, however
\* packets, cues and tracks are interleaved, and still does in what a crash leaves
\* of the file, if it left that block (packet_offset in write_packet).
EntriesPointAtPackets ==
    \A i \in DOMAIN entries :
        LET e == entries[i]
            p == log[i].packet
            whole == e.file_offset + Len(PacketBlock(p)) <= Len(file)
        IN  /\ e.packet_number = i - 1 /\ p.sequence = e.packet_number
            /\ <<e.track, e.key, e.pts>> = <<p.track, p.key, p.pts>>
            /\ phase # "crashed" => whole
            /\ whole => Cells(file, e.file_offset, Len(PacketBlock(p))) = PacketBlock(p)
=============================================================================
