------------------------------- MODULE Player -------------------------------
(***************************************************************************)
(* PlayerApp (apps/srs_player main.rs): what its buttons and its frame     *)
(* tick do to the open file, the playback session, the license snapshot    *)
(* and the notices, while the command line converts files.  The UI is one  *)
(* thread: a conversion the player starts itself stops everything else of  *)
(* it until it has ended.                                                  *)
(*                                                                         *)
(* Which packet a session reads, and where a seek lands, is Playback's; a  *)
(* session over a file that was rewritten under it reads anything.         *)
(***************************************************************************)
EXTENDS Conversion

CONSTANTS
    Notices,        \* ids of server notifications
    MaxSeen,        \* 200, entries of seen_server_notifications
    MaxPresses,     \* bound: buttons are pressed while fewer acts than this were done
    MaxStale        \* bound: frames a rewritten file may still yield

ASSUME PlayerAssumption == MaxSeen \in Nat \ {0} /\ MaxPresses \in Nat /\ MaxStale \in Nat

VARIABLES
    media,          \* current_media: <<>> or <<[path, supported]>>
    session,        \* <<>> or <<[path, at, state, stale]>>
    playing,
    position,       \* position_ms, as a number of frames
    editor,         \* whether the snapshot allows the editor
    seen,           \* seen_server_notifications
    shown           \* history: the server notifications pushed

playbackVars == <<media, session, playing, position>>
noticeVars == <<editor, seen, shown>>
playerVars == <<playbackVars, noticeVars>>
vars == <<conversionVars, playerVars>>

Session(path, at, state) == [path |-> path, at |-> at, state |-> state, stale |-> FALSE]

Init ==
    /\ ConversionInit
    /\ media = <<>> /\ session = <<>> /\ playing = FALSE /\ position = 0
    /\ editor \in BOOLEAN /\ seen = <<>> /\ shown = <<>>

\* the UI thread is not in a conversion
Free == ~(Running /\ job[1].by = "player")
Press == Free /\ acts < MaxPresses /\ acts' = acts + 1 /\ UNCHANGED <<disk, job, answer, sources>>

-------------------------------------------------------------------------------
(* Files.                                                                  *)

\* mutant: the session of the file before is dropped, the clock goes on
OpenMediaPlayingOn(path) ==
    /\ Press /\ UNCHANGED noticeVars
    /\ IF Inspected(path)
       THEN /\ media' = <<[path |-> path, supported |-> SupportedTracks(path)]>>
            /\ session' = <<>> /\ position' = 0 /\ UNCHANGED playing
       ELSE UNCHANGED playbackVars
\* open_media: all packets are read once
OpenMedia(path) ==
    /\ Press /\ UNCHANGED noticeVars
    /\ IF Inspected(path)
       THEN /\ media' = <<[path |-> path, supported |-> SupportedTracks(path)]>>
            /\ session' = <<>> /\ playing' = FALSE /\ position' = 0
       ELSE UNCHANGED playbackVars

CloseMedia ==
    /\ Press /\ media' = <<>> /\ session' = <<>> /\ playing' = FALSE /\ position' = 0
    /\ UNCHANGED noticeVars

\* how far decode_next_step reads: alt-refs are passed over
Reads(open) ==
    LET frames == disk[open.path].frames
    IN  IF open.stale \/ open.at >= Len(frames) THEN {open.at + 1}
        ELSE {k \in open.at + 1 .. Len(frames) + 1 :
                /\ \A j \in open.at + 1 .. k - 1 : frames[j].kind = "altref"
                /\ k <= Len(frames) => frames[k].kind # "altref"}
\* nobody knows the frame's revision, or it is predicted and nothing came to predict it from
Undecodable(frames, k) ==
    \/ frames[k].kind = "unknown"
    \/ frames[k].kind = "predicted" /\ ~HasReference(frames, k - 1)
\* what it comes to there
Outcomes(open, k) ==
    IF open.stale THEN {"end", "error"} \cup IF open.at < MaxStale THEN {"frame"} ELSE {}
    ELSE IF k > Len(disk[open.path].frames) THEN {"end"}
    ELSE IF Undecodable(disk[open.path].frames, k) THEN {"error"} ELSE {"frame"}

\* the session after pause(), after stop()
Paused(open) == [open EXCEPT !.state = IF @ = "Playing" THEN "Paused" ELSE @]
Stopped(open) == [open EXCEPT !.state = "Stopped", !.at = 0]

\* play with a session: from the start, if it was at its end
Resume ==
    /\ session' = <<[(IF session[1].state = "EndOfStream" THEN Stopped(session[1]) ELSE session[1])
                        EXCEPT !.state = "Playing"]>>
    /\ playing' = TRUE /\ UNCHANGED position

\* play without one: the path is the input field's, and the first packet is decoded
\* at once; after an error there is no session
Start(path) ==
    \E open \in {Session(path, 0, "Playing")} : \E k \in Reads(open) : \E outcome \in Outcomes(open, k) :
        CASE outcome = "frame" ->
                session' = <<[open EXCEPT !.at = k]>> /\ playing' = TRUE /\ position' = k
          [] outcome = "end" ->
                session' = <<[open EXCEPT !.state = "EndOfStream"]>> /\ playing' = FALSE /\ position' = 0
          [] outcome = "error" -> playing' = FALSE /\ UNCHANGED <<session, position>>

Play(path) ==
    /\ Press /\ UNCHANGED <<media, noticeVars>>
    /\ IF media = <<>> THEN UNCHANGED <<session, playing, position>>
       ELSE IF ~media[1].supported THEN playing' = FALSE /\ UNCHANGED <<session, position>>
       ELSE IF session # <<>> THEN Resume
       ELSE IF Supported(path) THEN Start(path)
       ELSE playing' = FALSE /\ UNCHANGED <<session, position>>

Pause ==
    /\ Press /\ playing' = FALSE
    /\ session' = [i \in DOMAIN session |-> Paused(session[i])]
    /\ UNCHANGED <<media, position, noticeVars>>

Stop ==
    /\ Press /\ playing' = FALSE /\ position' = 0
    /\ session' = [i \in DOMAIN session |-> Stopped(session[i])]
    /\ UNCHANGED <<media, noticeVars>>

\* seek_session_ms, by skip_by or by the slider, which has moved the position already;
\* the session's recovery may run into the end
Seek(target) ==
    /\ Press /\ UNCHANGED <<media, playing, noticeVars>>
    /\ IF session = <<>> THEN position' = target /\ UNCHANGED session
       ELSE \/ position' \in {position, target} /\ UNCHANGED session
            \/ session' = <<[session[1] EXCEPT !.at = target]>> /\ position' = target
            \/ session' = <<[session[1] EXCEPT !.state = "EndOfStream"]>> /\ position' \in {position, target}

\* mutant: at the end the clock goes on
TickPlayingOn ==
    /\ Free /\ playing /\ session # <<>> /\ UNCHANGED <<conversionVars, media, noticeVars>>
    /\ \E k \in Reads(session[1]) : \E outcome \in Outcomes(session[1], k) :
        CASE outcome = "frame" ->
                session' = <<[session[1] EXCEPT !.at = k]>> /\ position' = k /\ UNCHANGED playing
          [] outcome = "end" ->
                session' = <<[session[1] EXCEPT !.state = "EndOfStream"]>> /\ UNCHANGED <<playing, position>>
          [] outcome = "error" ->
                session' = <<[Paused(session[1]) EXCEPT !.at = k]>> /\ playing' = FALSE /\ UNCHANGED position

\* update_playback_tick, every 33 ms while playing; a packet that is not decoded has been read
Tick ==
    /\ Free /\ playing /\ session # <<>> /\ UNCHANGED <<conversionVars, media, noticeVars>>
    /\ \E k \in Reads(session[1]) : \E outcome \in Outcomes(session[1], k) :
        CASE outcome = "frame" ->
                session' = <<[session[1] EXCEPT !.at = k]>> /\ position' = k /\ UNCHANGED playing
          [] outcome = "end" ->
                session' = <<[session[1] EXCEPT !.state = "EndOfStream"]>> /\ playing' = FALSE /\ UNCHANGED position
          [] outcome = "error" ->
                session' = <<[Paused(session[1]) EXCEPT !.at = k]>> /\ playing' = FALSE /\ UNCHANGED position

-------------------------------------------------------------------------------
(* The license.                                                            *)

\* mutant: the list of those seen forgets the newest
WithSeenDroppingNew(list, notice) == SubSeq(Append(list, notice), 1, MaxSeen)
\* seen_server_notifications after one more
WithSeen(list, notice) ==
    LET more == Append(list, notice)
    IN  IF Len(more) > MaxSeen THEN Tail(more) ELSE more

\* push_server_notification, of a notice that the server hands out, perhaps again
ShowNotice(notice) ==
    IF \E i \in DOMAIN seen : seen[i] = notice THEN UNCHANGED <<seen, shown>>
    ELSE seen' = WithSeen(seen, notice) /\ shown' = Append(shown, notice)

\* refresh_license, by the button or by the clock, and apply_license_snapshot
RefreshLicense ==
    /\ Press /\ editor' \in BOOLEAN /\ UNCHANGED playbackVars
    /\ \/ UNCHANGED <<seen, shown>>
       \/ \E notice \in Notices : ShowNotice(notice)

\* run_editor_action; without the editor there is a notice and no more
EditorAction == Free /\ editor /\ StartJob("player") /\ UNCHANGED playerVars

-------------------------------------------------------------------------------
\* the session reads the file that is on the disk, which may be another one by now
Rewritten(path) == path \in DOMAIN disk /\ (path \notin DOMAIN disk' \/ disk'[path] # disk[path])
OthersAct ==
    /\ (Free /\ Command) \/ Step \/ FinishJob \/ Interrupt \/ Environment
    /\ session' = [i \in DOMAIN session |->
                      [session[i] EXCEPT !.stale = @ \/ Rewritten(session[i].path)]]
    /\ UNCHANGED <<media, playing, position, noticeVars>>

Next ==
    \/ \E path \in Containers : OpenMedia(path) \/ Play(path)
    \/ CloseMedia \/ Pause \/ Stop \/ (\E target \in 0 .. 2 : Seek(target)) \/ Tick
    \/ RefreshLicense \/ EditorAction \/ OthersAct

\* the UI repaints as long as it plays, and a conversion runs to its end
Fairness == WF_vars(Tick) /\ WF_vars(Step /\ OthersAct) /\ WF_vars(FinishJob /\ OthersAct)
Spec == Init /\ [][Next]_vars /\ Fairness

-------------------------------------------------------------------------------
MediaInfo == [path : Containers, supported : BOOLEAN]
OpenSession == [path : Containers, at : Nat, stale : BOOLEAN,
                state : {"Playing", "Paused", "Stopped", "EndOfStream"}]

\* the flag `playing`, the open file and the state of the session belong together:
\* only a file whose codecs are supported has a session, a session that plays is
\* ticked, and the tick has a session that plays or is at its end
PlayerTypeOK ==
    /\ job = <<>> \/ Len(job) = 1
    /\ acts \in Nat /\ answer \in {"none", "done", "nothing", "failed", "stopped"}
    /\ media \in Seq(MediaInfo) /\ Len(media) <= 1
    /\ session \in Seq(OpenSession) /\ Len(session) <= 1
    /\ playing \in BOOLEAN /\ position \in Nat /\ editor \in BOOLEAN
    /\ session # <<>> => media # <<>> /\ media[1].supported /\ (session[1].state = "Playing" => playing)
    /\ playing => session # <<>> /\ session[1].state \in {"Playing", "EndOfStream"}
    /\ Len(seen) <= MaxSeen

\* Whatever is played comes to an end, of the file or by an error, unless the user
\* goes on; no state of the session, of its file or of the editor leaves the
\* player playing nothing for ever (update_playback_tick, play, open_media).
PlaybackEnds == playing ~> ~playing

\* A notice the server hands out again is not shown again, as long as fewer than
\* MaxSeen others were shown in between (push_server_notification).
NoticesShownOnce ==
    \A i, j \in DOMAIN shown :
        (i < j /\ shown[i] = shown[j]) => Cardinality({shown[k] : k \in i + 1 .. j - 1}) >= MaxSeen
=============================================================================
