------------------------------ MODULE Playback ------------------------------
(***************************************************************************)
(* PlaybackSession over a finished file: its decode calls, its commands    *)
(* and its seek, one step per packet taken from the demuxer.  A packet is  *)
(* known by its position in the file.  The demuxer hands out the readable  *)
(* packets in order, as Demux is checked to do, and its index may still    *)
(* list packets that can no longer be read.                                *)
(*                                                                         *)
(* A caller uses either decode_next_step (srs_player, srs_cli play) or the *)
(* calls for one track (srs_cli play --no-audio and --no-video); nothing   *)
(* calls both on one session.  The video is SRSV2; the step budgets of     *)
(* 65,536 and 8,192 packets are taken as never reached.                    *)
(***************************************************************************)
EXTENDS Encoder

CONSTANTS
    Timescale,     \* [video |-> .., audio |-> ..]: ticks per unit of Target
    Target,        \* the times a caller seeks to
    MaxStash,      \* MAX_STASH_PACKETS
    MaxLost,       \* bound on the packets damaged in a file
    MaxSeeks       \* bound on the seeks and stops of a session

ASSUME PlaybackAssumption ==
    /\ Timescale \in [{"video", "audio"} -> Nat \ {0}]
    /\ Target \subseteq Nat /\ MaxStash \in Nat /\ MaxLost \in Nat /\ MaxSeeks \in Nat

VARIABLES
    lost,          \* packets whose checksum fails: the demuxer skips them
    index,         \* the packets in the demuxer's index
    torn,          \* the file ends inside a block
    state,         \* "unopened", or PlaybackState
    caller,        \* "steps" or "pulls"
    cursor,        \* how many packets lie behind the demuxer's position
    position, refs, video_stash, audio_stash, decoded,
    call,          \* the call under way, between two packets
    result,        \* what the last call returned
    restarts,      \* how many seeks and stops there were
    handed,        \* video frames returned to the caller since open or stop
    miscounted,    \* a recovery failed since
    mark,          \* the last video packet decoded, or the cursor of a restart
    dropped        \* packets read since the last restart and not kept, or lost to
                   \* the decoder with its references

fileVars == <<lost, index, torn>>
sessionVars == <<state, caller, cursor, position, refs, video_stash, audio_stash, decoded,
                 call, result>>
historyVars == <<restarts, handed, miscounted, mark, dropped>>
playbackVars == <<encoderVars, fileVars, sessionVars, historyVars>>

Failure(why) == [kind |-> "error", why |-> why]
End == [kind |-> "end"]
Nothing == [kind |-> "none"]
Frame(picture) == [kind |-> "video", picture |-> picture]
Chunk(i) == [kind |-> "audio", id |-> i]

At(i) == [pts |-> log[i].pts, timescale |-> Timescale[log[i].track]]
Readable == {i \in DOMAIN log : i \notin lost}

PlaybackInit ==
    /\ EncoderInit
    /\ lost = {} /\ index = {} /\ torn = FALSE
    /\ state = "unopened" /\ caller = "steps" /\ cursor = 0
    /\ position = [pts |-> 0, timescale |-> Timescale["video"]]
    /\ refs = NoRefs /\ video_stash = <<>> /\ audio_stash = <<>>
    /\ decoded = [video |-> 0, audio |-> 0] /\ call = None /\ result = Nothing
    /\ restarts = 0 /\ handed = 0 /\ miscounted = FALSE /\ mark = 0 /\ dropped = {}

\* The file as it comes to be opened: finalized or cut short, some packets
\* damaged; the final index and the cues may list those too.
FinishFile ==
    /\ encoder \in {"import", "bgop"} /\ encoder' = "done"
    /\ \E n \in 0 .. Len(log) :
        /\ log' = SubSeq(log, 1, n)
        /\ lost' \in {l \in SUBSET (1 .. n) : Cardinality(l) <= MaxLost}
        /\ index' \in {1 .. n, (1 .. n) \ lost'}
        /\ torn' \in IF n < Len(log) THEN BOOLEAN ELSE {FALSE}
    /\ encoded' = {} /\ reference' = None /\ anchors' = NoRefs
    /\ UNCHANGED <<sessionVars, historyVars>>

Open ==
    /\ encoder = "done" /\ state = "unopened"
    /\ state' = "Stopped" /\ caller' \in {"steps", "pulls"}
    /\ UNCHANGED <<encoderVars, fileVars, cursor, position, refs, video_stash, audio_stash,
                   decoded, call, result, historyVars>>
-----------------------------------------------------------------------------
(* Decoding one packet.                                                    *)

\* decode_video_packet, decode_audio_packet
Outcome(i) ==
    CASE log[i].track = "audio" -> Chunk(i)
      [] log[i].track = "video" /\ ~Decodable(log[i].payload, refs) -> Failure("decode")
      [] OTHER -> IF log[i].payload.kind = "alt" THEN Nothing
                  ELSE Frame(DecodedPicture(log[i].payload, refs))

Counted(r) ==
    [video |-> decoded.video + IF r.kind = "video" THEN 1 ELSE 0,
     audio |-> decoded.audio + IF r.kind = "audio" THEN 1 ELSE 0]

Finish(r) ==
    /\ call' = None /\ result' = r
    /\ handed' = IF r.kind = "video" THEN handed + 1 ELSE handed

Continue == UNCHANGED <<call, result, handed>>

\* mutant: a recovery leaves the counters as its frames moved them
DeliverCounting(r) ==
    /\ decoded' = Counted(r)
    /\ IF call # None /\ call.kind = "recover" /\ r.kind \in {"video", "audio"}
       THEN IF position'.pts >= call.target THEN Finish(Nothing) ELSE Continue
       ELSE IF call # None /\ call.kind \in {"step", "recover"} /\ r = Nothing
            THEN Continue ELSE Finish(r)

\* what the call makes of a packet's outcome; a recovery looks at the position
\* the packet left, whatever its track, and puts the counters back
Deliver(r) ==
    IF call # None /\ call.kind = "recover" /\ r.kind \in {"video", "audio"}
    THEN IF position'.pts >= call.target
         THEN Finish(Nothing) /\ decoded' = call.saved
         ELSE Continue /\ decoded' = Counted(r)
    ELSE /\ decoded' = Counted(r)
         /\ IF call # None /\ call.kind \in {"step", "recover"} /\ r = Nothing
            THEN Continue ELSE Finish(r)

Decode(i) ==
    LET r == Outcome(i)
        ok == r.kind # "error"
        video == log[i].track = "video"
    IN  /\ refs' = IF ok /\ video THEN SlotsAfter(log[i].payload, refs) ELSE refs
        /\ position' = IF ok THEN At(i) ELSE position
        /\ mark' = IF video THEN i ELSE mark
        /\ miscounted' = (miscounted \/ (~ok /\ call # None /\ call.kind = "recover"))
        /\ Deliver(r)
-----------------------------------------------------------------------------
(* The calls.                                                              *)

Idle == state # "unopened" /\ call = None
Begin(c) == call' = c /\ result' = Nothing

\* decode_next_step, decode_next_video_frame, decode_next_audio_chunk: the
\* packets of a stash come first
NextStep ==
    /\ Idle /\ caller = "steps"
    /\ Begin([kind |-> "step"])
    /\ UNCHANGED <<encoderVars, fileVars, state, caller, cursor, position, refs, video_stash,
                   audio_stash, decoded, historyVars>>

NextOf(track, stash) ==
    /\ Idle /\ caller = "pulls" /\ stash = <<>>
    /\ Begin([kind |-> track])
    /\ UNCHANGED <<encoderVars, fileVars, state, caller, cursor, position, refs, video_stash,
                   audio_stash, decoded, historyVars>>

NextStashedVideo ==
    /\ Idle /\ caller = "pulls" /\ video_stash # <<>>
    /\ video_stash' = Tail(video_stash) /\ Decode(Head(video_stash))
    /\ UNCHANGED <<encoderVars, fileVars, state, caller, cursor, audio_stash, restarts, dropped>>

NextStashedAudio ==
    /\ Idle /\ caller = "pulls" /\ audio_stash # <<>>
    /\ audio_stash' = Tail(audio_stash) /\ Decode(Head(audio_stash))
    /\ UNCHANGED <<encoderVars, fileVars, state, caller, cursor, video_stash, restarts, dropped>>

\* mutant: a full stash passes over the packet without an error
StashOrSkip(i) ==
    /\ IF Len(video_stash) + Len(audio_stash) >= MaxStash
       THEN UNCHANGED <<video_stash, audio_stash>>
       ELSE IF log[i].track = "video"
            THEN video_stash' = Append(video_stash, i) /\ UNCHANGED audio_stash
            ELSE audio_stash' = Append(audio_stash, i) /\ UNCHANGED video_stash
    /\ UNCHANGED <<position, refs, decoded, call, result, handed, miscounted, mark, dropped>>

\* the next packet goes to the decoder or, in a call for the other track, to
\* that track's stash; there it is lost when the stashes are full
Stash(i) ==
    IF Len(video_stash) + Len(audio_stash) >= MaxStash
    THEN /\ Finish(Failure("backpressure")) /\ dropped' = dropped \cup {i}
         /\ UNCHANGED <<position, refs, video_stash, audio_stash, decoded, miscounted, mark>>
    ELSE /\ IF log[i].track = "video"
            THEN video_stash' = Append(video_stash, i) /\ UNCHANGED audio_stash
            ELSE audio_stash' = Append(audio_stash, i) /\ UNCHANGED video_stash
         /\ UNCHANGED <<position, refs, decoded, call, result, handed, miscounted, mark, dropped>>

TakePacket ==
    LET ahead == {i \in Readable : i > cursor} IN
    /\ call # None /\ ahead # {}
    /\ cursor' = Min(ahead)
    /\ IF call.kind \in {"video", "audio"} /\ log[Min(ahead)].track # call.kind
       THEN Stash(Min(ahead))
       ELSE Decode(Min(ahead)) /\ UNCHANGED <<video_stash, audio_stash, dropped>>
    /\ UNCHANGED <<encoderVars, fileVars, state, caller, restarts>>

\* No packet is left.  A recovery that ends here has failed unless an alt-ref,
\* which is not returned, brought the position to the target.
ReachEnd ==
    /\ call # None /\ \A i \in Readable : i <= cursor
    /\ decoded' = IF call.kind = "recover" /\ ~torn THEN call.saved ELSE decoded
    /\ miscounted' = (miscounted \/ (call.kind = "recover" /\ torn))
    /\ CASE torn -> Finish(Failure("io"))
         [] ~torn /\ call.kind # "recover" -> Finish(End)
         [] OTHER -> Finish(IF position.pts >= call.target THEN Nothing ELSE Failure("recovery"))
    /\ state' = IF call.kind \in {"step", "recover"} /\ ~torn THEN "EndOfStream" ELSE state
    /\ UNCHANGED <<encoderVars, fileVars, caller, cursor, position, refs, video_stash,
                   audio_stash, restarts, mark, dropped>>
-----------------------------------------------------------------------------
(* Commands.                                                               *)

Play ==
    /\ Idle /\ state # "EndOfStream" /\ state' = "Playing"
    /\ UNCHANGED <<encoderVars, fileVars, caller, cursor, position, refs, video_stash, audio_stash,
                   decoded, call, result, historyVars>>

Pause ==
    /\ Idle /\ state = "Playing" /\ state' = "Paused"
    /\ UNCHANGED <<encoderVars, fileVars, caller, cursor, position, refs, video_stash, audio_stash,
                   decoded, call, result, historyVars>>

Restart == restarts < MaxSeeks /\ restarts' = restarts + 1

\* mutant: the demuxer is not sent back to the start
StopInPlace ==
    /\ Idle /\ Restart
    /\ state' = "Stopped" /\ cursor' = cursor /\ position' = [position EXCEPT !.pts = 0]
    /\ refs' = NoRefs /\ video_stash' = <<>> /\ audio_stash' = <<>>
    /\ decoded' = [video |-> 0, audio |-> 0] /\ result' = Nothing
    /\ handed' = 0 /\ miscounted' = FALSE /\ mark' = 0 /\ dropped' = {}
    /\ UNCHANGED <<encoderVars, fileVars, caller, call>>

Stop ==
    /\ Idle /\ Restart
    /\ state' = "Stopped" /\ cursor' = 0 /\ position' = [position EXCEPT !.pts = 0]
    /\ refs' = NoRefs /\ video_stash' = <<>> /\ audio_stash' = <<>>
    /\ decoded' = [video |-> 0, audio |-> 0] /\ result' = Nothing
    /\ handed' = 0 /\ miscounted' = FALSE /\ mark' = 0 /\ dropped' = {}
    /\ UNCHANGED <<encoderVars, fileVars, caller, call>>

\* seek_nearest_video_keyframe_before_or_at: the latest by pts
KeyframesUpTo(pts) == {i \in index : log[i].track = "video" /\ log[i].key /\ log[i].pts <= pts}

\* seek_ms up to the recovery, which TakePacket and ReachEnd carry out: the
\* target is taken in ticks of the clock the position is on
SeekMs(target) ==
    LET pts == target * position.timescale
        entry == Max(KeyframesUpTo(pts))
    IN  /\ Idle /\ Restart /\ index # {}
        /\ video_stash' = <<>> /\ audio_stash' = <<>> /\ refs' = NoRefs
        /\ IF KeyframesUpTo(pts) = {}
           THEN /\ call' = None /\ result' = Failure("seek") /\ dropped' = 1 .. cursor
                /\ UNCHANGED <<cursor, position, mark>>
           ELSE /\ cursor' = entry - 1 /\ mark' = entry - 1 /\ dropped' = {}
                /\ position' = [position EXCEPT !.pts = log[entry].pts]
                /\ call' = IF log[entry].pts >= pts THEN None
                           ELSE [kind |-> "recover", target |-> pts, saved |-> decoded]
                /\ result' = Nothing
        /\ UNCHANGED <<encoderVars, fileVars, state, caller, decoded, handed, miscounted>>

SessionNext ==
    \/ Open \/ NextStep \/ NextOf("video", video_stash) \/ NextOf("audio", audio_stash)
    \/ NextStashedVideo \/ NextStashedAudio \/ TakePacket \/ ReachEnd
    \/ Play \/ Pause \/ Stop \/ \E target \in Target : SeekMs(target)

PlaybackNext ==
    \/ EncoderNext /\ UNCHANGED <<fileVars, sessionVars, historyVars>>
    \/ FinishFile
    \/ SessionNext

PlaybackSpec == PlaybackInit /\ [][PlaybackNext]_playbackVars
-----------------------------------------------------------------------------
\* everything from a keyframe up to packet i reached the decoder
GopIntact(i) ==
    \E k \in 1 .. i : /\ log[k].track = "video" /\ log[k].key
                     /\ \A j \in k .. i : log[j].track = "video" => j \notin lost \cup dropped

\* A frame returned to a caller is the picture the encoder made, bit for bit,
\* unless a packet of its group of pictures was damaged or dropped: over seeks,
\* stops and failed calls no older picture is ever taken for a reference (the
\* managed decoder, the stashes, and clear in stop and in the seek).
FramesAreExact ==
    (result.kind = "video" /\ GopIntact(result.picture.id)) => result.picture.exact

\* Nor is a picture of an intact group ever refused (PFrameWithoutReference, the
\* order check of decode_yuv420_b_payload): a keyframe is enough to start from.
IntactIsDecoded ==
    [][(mark' # mark /\ result' = Failure("decode")) => ~GopIntact(mark')]_playbackVars

\* Between two restarts the video packets are decoded in file order, none of
\* them twice and none left out except damaged and dropped ones, whichever of
\* them went through the stash.
DecodedInOrder ==
    [][(mark' # mark /\ restarts' = restarts) =>
        /\ mark' > mark
        /\ \A j \in mark + 1 .. mark' - 1 : log[j].track = "video" => j \in lost \cup dropped]_playbackVars

\* "Seeking/recovery should not permanently affect counters": between calls the
\* frame counter is the number of frames returned, unless a recovery failed
\* (recover_decode_to_pts leaves early then, without restoring it).
CountsReturnedFrames == (call = None /\ ~miscounted) => decoded.video = handed

(* A statement of the repository that the code does not keep.              *)

\* playback.rs:759, of seek_ms: "the demux cursor is placed at the latest keyframe
\* on that track with pts at or before the requested time".
SeekFindsKeyframe ==
    [][\A target \in Target : (SeekMs(target) /\ result' # Failure("seek")) =>
        \A k \in KeyframesUpTo(target * Timescale["video"]) : k <= cursor' + 1]_playbackVars
=============================================================================
