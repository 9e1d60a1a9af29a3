---------------------------- MODULE PacketStream ----------------------------
(***************************************************************************)
(* What libsrs_mux and libsrs_demux promise together: packets are appended *)
(* to a stream; a writer that stops early loses the latest ones; a reader  *)
(* moves a cursor over what is left and is handed the packets in order.    *)
(***************************************************************************)
EXTENDS Integers, Sequences

CONSTANTS
    Packet,    \* a packet has at least [track, key, pts]
    Target     \* the pts a reader may seek to

VARIABLES
    packets,   \* the packets in the stream
    closed,    \* the writer is done
    cursor,    \* how many of them lie behind the reader
    answer,    \* what the reader's last call returned
    whole      \* the stream is kept as it was put; nothing is promised otherwise

streamVars == <<packets, closed, cursor, answer, whole>>

End == [kind |-> "end"]
Error == [kind |-> "error"]
None == [kind |-> "none"]
Found(p) == [kind |-> "packet", packet |-> p]

StreamInit == packets = <<>> /\ closed = FALSE /\ cursor = 0 /\ answer = None /\ whole = TRUE

Put(p) ==
    /\ ~closed
    /\ packets' = Append(packets, p)
    /\ UNCHANGED <<closed, cursor, answer>>

Close ==
    /\ ~closed /\ closed' = TRUE
    /\ \E n \in 0 .. Len(packets) : packets' = SubSeq(packets, 1, n)
    /\ UNCHANGED <<cursor, answer>>

\* the next packet; after the last one the end, or an error if one was torn
Read ==
    /\ closed
    /\ \/ /\ cursor < Len(packets)
          /\ answer' = Found(packets[cursor + 1]) /\ cursor' = cursor + 1
       \/ /\ cursor = Len(packets)
          /\ answer' \in {End, Error} /\ UNCHANGED cursor
    /\ UNCHANGED <<packets, closed>>

\* the stream is looked over for an index, without or with an error
Scan ==
    /\ closed
    /\ \/ answer' = None /\ UNCHANGED cursor
       \/ answer' = Error /\ cursor' = Len(packets)
    /\ UNCHANGED <<packets, closed>>

Rewind ==
    /\ closed /\ cursor' = 0
    /\ UNCHANGED <<packets, closed, answer>>

\* to the latest packet up to pts of those Eligible names, the last of several;
\* if there is none the cursor stays; a failed seek leaves it at the end
SeekAmong(Eligible(_), pts) ==
    LET candidates == {i \in 1 .. Len(packets) : Eligible(packets[i]) /\ packets[i].pts <= pts}
        latest == {i \in candidates : \A j \in candidates :
            packets[j].pts < packets[i].pts \/ (packets[j].pts = packets[i].pts /\ j <= i)}
    IN  \/ \E i \in latest : cursor' = i - 1 /\ answer' = Found(packets[i])
        \/ candidates = {} /\ UNCHANGED cursor /\ answer' = None
        \/ cursor' = Len(packets) /\ answer' = Error

Seek(pts) ==
    /\ closed /\ SeekAmong(LAMBDA p : TRUE, pts)
    /\ UNCHANGED <<packets, closed>>

SeekKeyframe(track, pts) ==
    /\ closed /\ SeekAmong(LAMBDA p : p.track = track /\ p.key, pts)
    /\ UNCHANGED <<packets, closed>>

StreamNext ==
    \/ \E p \in Packet : Put(p)
    \/ Close \/ Read \/ Scan \/ Rewind
    \/ \E pts \in Target : Seek(pts)
    \/ \E track \in {p.track : p \in Packet}, pts \in Target : SeekKeyframe(track, pts)

StreamSpec == StreamInit /\ [][whole' => StreamNext]_streamVars
=============================================================================
