----------------------------- MODULE PlayerProofs -----------------------------
(***************************************************************************)
(* What holds of the player for every set of files, every number of        *)
(* conversions and of notices: its parts belong together, a notice is not  *)
(* shown again while it is remembered, whatever became of the jobs that    *)
(* wrote them, the files hold beginnings of the inputs' streams, and a job *)
(* that reports success has carried over all that it read.                 *)
(***************************************************************************)
EXTENDS Player, TLAPS, FiniteSetTheorems, SequenceTheorems, WellFoundedInduction

-----------------------------------------------------------------------------
(* Jobs.                                                                   *)

Answers == {"none", "done", "nothing", "failed", "stopped"}
JobOK == (job = <<>> \/ Len(job) = 1) /\ acts \in Nat /\ answer \in Answers

\* What a conversion does to the job and the answer.
Replies == \/ answer' = answer /\ \E record : job' = <<record>>
           \/ answer' \in Answers /\ job' \in {job, <<>>}

LEMMA RepliesTyped ==
    ASSUME JobOK, Replies, acts' \in {acts, acts + 1}
    PROVE  JobOK'
  BY DEF JobOK, Replies

LEMMA MuxReplies ==
    ASSUME NEW by, StartMux(by)
    PROVE  Replies
  BY DEF StartMux, Begin, Refuse, Replies, Answers

LEMMA StartReplies ==
    ASSUME NEW by, StartJob(by)
    PROVE  Replies /\ acts' = acts + 1
<1>1. ASSUME NEW path, NEW policy, EncodeElementary(by, path, policy) PROVE Replies /\ acts' = acts + 1
  BY <1>1 DEF EncodeElementary, MayAct, Begin, Refuse, Replies, Answers
<1>2. ASSUME NEW policy, EncodeContainer(by, policy) PROVE Replies /\ acts' = acts + 1
  <2>1. acts' = acts + 1
    BY <1>2 DEF EncodeContainer, MayAct
  <2>2. CASE StartMux(by)
    BY <2>1, <2>2, MuxReplies
  <2>3. CASE Refuse("failed")
    BY <2>1, <2>3 DEF Refuse, Replies, Answers
  <2>4. CASE Begin("encode", by, "picture", EncodeSteps(IF policy = "Srsv2" THEN "srsv2" ELSE "srsv"), FALSE, "mux")
    BY <2>1, <2>4 DEF Begin, Replies
  <2> QED
    BY <1>2, <2>2, <2>3, <2>4 DEF EncodeContainer
<1>3. ASSUME NEW path, NEW policy, Import(by, path, policy) PROVE Replies /\ acts' = acts + 1
  BY <1>3 DEF Import, MayAct, Begin, Refuse, Replies, Answers
<1>4. CASE Mux(by)
  BY <1>4, MuxReplies DEF Mux, MayAct
<1>5. ASSUME NEW path, Demux(by, path) PROVE Replies /\ acts' = acts + 1
  BY <1>5 DEF Demux, MayAct, Begin, Refuse, Replies, Answers
<1>6. ASSUME NEW path, DecodeElementary(by, path) PROVE Replies /\ acts' = acts + 1
  BY <1>6 DEF DecodeElementary, MayAct, Begin, Refuse, Replies, Answers
<1> QED
  BY <1>1, <1>2, <1>3, <1>4, <1>5, <1>6 DEF StartJob

LEMMA CommandReplies ==
    ASSUME Command
    PROVE  Replies /\ acts' = acts + 1
<1>1. CASE StartJob("cli")
  BY <1>1, StartReplies
<1>2. ASSUME NEW target, EncodeRgb(target) PROVE Replies /\ acts' = acts + 1
  BY <1>2 DEF EncodeRgb, MayAct, Begin, Refuse, Replies, Answers
<1>3. CASE MayAct /\ Refuse("failed")
  BY <1>3 DEF MayAct, Refuse, Replies, Answers
<1>4. ASSUME NEW path, Analyze(path) PROVE Replies /\ acts' = acts + 1
  BY <1>4 DEF Analyze, MayAct, Refuse, Replies, Answers
<1>5. ASSUME NEW path, NEW only, NEW limit, NEW at, CliPlay(path, only, limit, at)
      PROVE  Replies /\ acts' = acts + 1
  BY <1>5 DEF CliPlay, MayAct, Refuse, Replies, Answers
<1> QED
  BY <1>1, <1>2, <1>3, <1>4, <1>5 DEF Command

LEMMA EnvironmentReplies ==
    ASSUME Environment
    PROVE  UNCHANGED <<job, answer>> /\ acts' = acts + 1
  BY DEF Environment, ReplaceInput, Supply, NewSource, RemoveFile, Truncate, LoseBlock, MayAct

LEMMA JobStep ==
    ASSUME JobOK, [Next]_vars
    PROVE  JobOK'
<1>1. CASE UNCHANGED <<job, answer>> /\ acts' \in {acts, acts + 1}
  BY <1>1 DEF JobOK
<1>2. CASE Press
  BY <1>1, <1>2 DEF Press
<1>3. CASE EditorAction
  BY <1>3, StartReplies, RepliesTyped DEF EditorAction
<1>4. CASE Command
  BY <1>4, CommandReplies, RepliesTyped
<1>5. CASE Step
  BY <1>5 DEF Step, JobOK
<1>6. CASE FinishJob
  BY <1>6, MuxReplies, RepliesTyped DEF FinishJob, Replies, Answers
<1>7. CASE Interrupt
  BY <1>7 DEF Interrupt, JobOK, Answers
<1>8. CASE Environment
  BY <1>1, <1>8, EnvironmentReplies
<1>9. CASE Tick \/ UNCHANGED vars
  BY <1>1, <1>9 DEF Tick, vars, conversionVars
<1> QED
  BY <1>2, <1>3, <1>4, <1>5, <1>6, <1>7, <1>8, <1>9
  DEF Next, OpenMedia, Play, CloseMedia, Pause, Stop, Seek, RefreshLicense, OthersAct

-----------------------------------------------------------------------------
(* The open file, its session and the flag.                                *)

\* the session that is open, or none
OneMedia == media = <<>> \/ \E info \in MediaInfo : media = <<info>>
OneSession == session = <<>> \/ \E open \in OpenSession : session = <<open>>
Agreed ==
    /\ session # <<>> => media # <<>> /\ media[1].supported /\ (session[1].state = "Playing" => playing)
    /\ playing => session # <<>> /\ session[1].state \in {"Playing", "EndOfStream"}
UiOK == OneMedia /\ OneSession /\ playing \in BOOLEAN /\ position \in Nat /\ Agreed

LEMMA OneOrNone ==
    ASSUME NEW S, NEW s
    PROVE  (s \in Seq(S) /\ Len(s) <= 1) <=> (s = <<>> \/ \E e \in S : s = <<e>>)
<1>1. ASSUME s \in Seq(S), Len(s) <= 1 PROVE s = <<>> \/ \E e \in S : s = <<e>>
  <2>1. CASE Len(s) = 0
    BY <1>1, <2>1
  <2>2. CASE Len(s) = 1
    <3>1. s[1] \in S /\ <<s[1]>> \in Seq(S) /\ Len(<<s[1]>>) = 1
      BY <1>1, <2>2, ElementOfSeq
    <3>2. <<s[1]>> = s
      BY <1>1, <2>2, <3>1, SeqEqual
    <3> QED
      BY <3>1, <3>2
  <2>3. Len(s) \in Nat
    BY <1>1, LenProperties
  <2>4. \A n \in Nat : n <= 1 => n = 0 \/ n = 1
    OBVIOUS
  <2>5. Len(s) = 0 \/ Len(s) = 1
    BY <1>1, <2>3, <2>4
  <2> QED
    BY <2>1, <2>2, <2>5
<1>2. ASSUME s = <<>> \/ \E e \in S : s = <<e>> PROVE s \in Seq(S) /\ Len(s) <= 1
  <2>1. <<>> \in Seq(S) /\ Len(<<>>) = 0
    OBVIOUS
  <2>2. ASSUME NEW e \in S PROVE <<e>> \in Seq(S) /\ Len(<<e>>) = 1
    OBVIOUS
  <2>3. CASE s = <<>>
    BY <2>1, <2>3
  <2>4. CASE \E e \in S : s = <<e>>
    BY <2>2, <2>4
  <2> QED
    BY <1>2, <2>3, <2>4
<1> QED
  BY <1>1, <1>2

\* A session that is open stays what it is, but for its place, its state and its file.
LEMMA SessionMoves ==
    ASSUME UiOK, UNCHANGED media, NEW open \in OpenSession, session' = <<open>>, session # <<>>,
           playing' \in BOOLEAN, position' \in Nat,
           open.state = "Playing" => playing', playing' => open.state \in {"Playing", "EndOfStream"}
    PROVE  UiOK'
<1>1. OneMedia' /\ OneSession'
  BY DEF UiOK, OneMedia, OneSession
<1>2. session'[1] = open /\ session' # <<>>
  OBVIOUS
<1>3. Agreed'
  BY <1>2 DEF UiOK, Agreed
<1> QED
  BY <1>1, <1>3 DEF UiOK

LEMMA Closed ==
    ASSUME OneMedia', session' = <<>>, playing' = FALSE, position' \in Nat
    PROVE  UiOK'
  BY DEF UiOK, OneSession, Agreed

\* What a session reads is a place in its file, and comes to one of three ends.
LEMMA ReadsForward ==
    ASSUME NEW open \in OpenSession, NEW k \in Reads(open)
    PROVE  k \in Nat
<1>1. open.at \in Nat
  BY DEF OpenSession
<1>2. \A n : \A j \in open.at + 1 .. n : j \in Nat
  BY <1>1
<1> QED
  BY <1>1, <1>2 DEF Reads

LEMMA ThreeOutcomes ==
    ASSUME NEW open, NEW k, NEW outcome \in Outcomes(open, k)
    PROVE  outcome \in {"frame", "end", "error"}
  BY DEF Outcomes

LEMMA PlayTyped ==
    ASSUME UiOK, NEW path \in Containers, Play(path)
    PROVE  UiOK'
<1>0. OneMedia' /\ UNCHANGED media
  BY DEF Play, UiOK, OneMedia
<1>1. CASE media = <<>>
  BY <1>1 DEF Play, UiOK, OneMedia, OneSession, Agreed
<1>2. CASE media # <<>> /\ ~media[1].supported
  BY <1>0, <1>2, Closed DEF Play, UiOK, Agreed
<1>3. CASE media # <<>> /\ media[1].supported /\ session # <<>>
  <2>1. Resume
    BY <1>3 DEF Play
  <2>2. PICK open \in OpenSession : session = <<open>>
    BY <1>3 DEF UiOK, OneSession
  <2> DEFINE from == IF open.state = "EndOfStream" THEN Stopped(open) ELSE open
  <2>3. session' = <<[from EXCEPT !.state = "Playing"]>> /\ playing' = TRUE /\ position' = position
    BY <2>1, <2>2 DEF Resume
  <2>4. [from EXCEPT !.state = "Playing"] \in OpenSession /\ [from EXCEPT !.state = "Playing"].state = "Playing"
    BY DEF OpenSession, Stopped
  <2> QED
    BY <1>0, <1>3, <2>3, <2>4, SessionMoves DEF UiOK
<1>4. CASE media # <<>> /\ media[1].supported /\ session = <<>>
  <2>1. \/ playing' = FALSE /\ UNCHANGED <<session, position>>
        \/ Start(path)
    BY <1>4 DEF Play
  <2>2. CASE playing' = FALSE /\ UNCHANGED <<session, position>>
    BY <1>0, <1>4, <2>2, Closed DEF UiOK
  <2>3. CASE Start(path)
    <3> DEFINE open == Session(path, 0, "Playing")
    <3>1. open \in OpenSession /\ open.state = "Playing"
      BY DEF Session, OpenSession
    <3>2. \A n \in Nat : [open EXCEPT !.at = n] \in OpenSession /\ [open EXCEPT !.at = n].state = "Playing"
      BY DEF Session, OpenSession
    <3>3. /\ [open EXCEPT !.state = "EndOfStream"] \in OpenSession
          /\ [open EXCEPT !.state = "EndOfStream"].state = "EndOfStream"
      BY DEF Session, OpenSession
    <3> HIDE DEF open
    <3>4. PICK k \in Reads(open) : \E outcome \in Outcomes(open, k) :
            CASE outcome = "frame" ->
                    session' = <<[open EXCEPT !.at = k]>> /\ playing' = TRUE /\ position' = k
              [] outcome = "end" ->
                    session' = <<[open EXCEPT !.state = "EndOfStream"]>> /\ playing' = FALSE /\ position' = 0
              [] outcome = "error" -> playing' = FALSE /\ UNCHANGED <<session, position>>
      BY <2>3 DEF Start, open
    <3>5. k \in Nat
      BY <3>1, ReadsForward
    <3>6. PICK outcome \in Outcomes(open, k) :
            CASE outcome = "frame" ->
                    session' = <<[open EXCEPT !.at = k]>> /\ playing' = TRUE /\ position' = k
              [] outcome = "end" ->
                    session' = <<[open EXCEPT !.state = "EndOfStream"]>> /\ playing' = FALSE /\ position' = 0
              [] outcome = "error" -> playing' = FALSE /\ UNCHANGED <<session, position>>
      BY <3>4
    <3>7. outcome \in {"frame", "end", "error"}
      BY ThreeOutcomes
    <3>8. CASE outcome = "frame"
      <4>1. session' = <<[open EXCEPT !.at = k]>> /\ playing' = TRUE /\ position' = k
        BY <3>6, <3>8
      <4> QED
        BY <1>0, <1>4, <3>2, <3>5, <4>1 DEF UiOK, OneSession, Agreed
    <3>9. CASE outcome = "end"
      <4>1. session' = <<[open EXCEPT !.state = "EndOfStream"]>> /\ playing' = FALSE /\ position' = 0
        BY <3>6, <3>9
      <4> QED
        BY <1>0, <1>4, <3>3, <4>1 DEF UiOK, OneSession, Agreed
    <3>10. CASE outcome = "error"
      <4>1. playing' = FALSE /\ UNCHANGED <<session, position>>
        BY <3>6, <3>10
      <4> QED
        BY <1>0, <1>4, <4>1, Closed DEF UiOK
    <3> QED
      BY <3>7, <3>8, <3>9, <3>10
  <2> QED
    BY <2>1, <2>2, <2>3
<1> QED
  BY <1>1, <1>2, <1>3, <1>4 DEF UiOK, OneMedia

LEMMA PressedTyped ==
    ASSUME UiOK,
           \/ \E path \in Containers : OpenMedia(path)
           \/ CloseMedia \/ Pause \/ Stop \/ \E target \in 0 .. 2 : Seek(target)
    PROVE  UiOK'
<1>1. ASSUME NEW path \in Containers, OpenMedia(path) PROVE UiOK'
  <2>1. CASE Inspected(path)
    <3>1. SupportedTracks(path) \in BOOLEAN
      BY DEF SupportedTracks
    <3>2. OneMedia'
      BY <1>1, <2>1, <3>1 DEF OpenMedia, OneMedia, MediaInfo
    <3>3. session' = <<>> /\ playing' = FALSE /\ position' = 0
      BY <1>1, <2>1 DEF OpenMedia
    <3> QED
      BY <3>2, <3>3, Closed
  <2>2. CASE ~Inspected(path)
    BY <1>1, <2>2 DEF OpenMedia, playbackVars, UiOK, OneMedia, OneSession, Agreed
  <2> QED
    BY <2>1, <2>2
<1>2. CASE CloseMedia
  BY <1>2, Closed DEF CloseMedia, OneMedia
<1>3. CASE session = <<>> /\ (Pause \/ Stop)
  <2>1. session' = <<>>
    BY <1>3 DEF Pause, Stop
  <2>2. playing' = FALSE /\ position' \in {position, 0} /\ UNCHANGED media
    BY <1>3 DEF Pause, Stop
  <2>3. OneMedia' /\ position' \in Nat
    BY <2>2 DEF UiOK, OneMedia
  <2> QED
    BY <2>1, <2>2, <2>3, Closed
<1>4. ASSUME NEW open \in OpenSession, session = <<open>>, Pause \/ Stop PROVE UiOK'
  <2>1. CASE Pause
    <3>1. session' = <<Paused(open)>> /\ playing' = FALSE /\ UNCHANGED <<media, position>>
      BY <1>4, <2>1 DEF Pause
    <3>2. Paused(open) \in OpenSession /\ Paused(open).state # "Playing"
      BY DEF OpenSession, Paused
    <3> QED
      BY <1>4, <3>1, <3>2, SessionMoves DEF UiOK
  <2>2. CASE Stop
    <3>1. session' = <<Stopped(open)>> /\ playing' = FALSE /\ position' = 0 /\ UNCHANGED media
      BY <1>4, <2>2 DEF Stop
    <3>2. Stopped(open) \in OpenSession /\ Stopped(open).state # "Playing"
      BY DEF OpenSession, Stopped
    <3> QED
      BY <1>4, <3>1, <3>2, SessionMoves DEF UiOK
  <2> QED
    BY <1>4, <2>1, <2>2
<1>5. ASSUME NEW target \in 0 .. 2, Seek(target) PROVE UiOK'
  <2>1. UNCHANGED <<media, playing>> /\ position' \in {position, target} /\ position' \in Nat
    BY <1>5 DEF Seek, UiOK
  <2>2. CASE session' = session
    BY <2>1, <2>2 DEF UiOK, OneMedia, OneSession, Agreed
  <2>3. CASE session' # session
    <3>1. PICK open \in OpenSession : session = <<open>>
      BY <1>5, <2>3 DEF Seek, UiOK, OneSession
    <3>2. session' = <<[open EXCEPT !.at = target]>> \/ session' = <<[open EXCEPT !.state = "EndOfStream"]>>
      BY <1>5, <2>3, <3>1 DEF Seek
    <3>3. [open EXCEPT !.at = target] \in OpenSession /\ [open EXCEPT !.at = target].state = open.state
      BY DEF OpenSession
    <3>4. /\ [open EXCEPT !.state = "EndOfStream"] \in OpenSession
          /\ [open EXCEPT !.state = "EndOfStream"].state = "EndOfStream"
      BY DEF OpenSession
    <3>5. (open.state = "Playing" => playing) /\ (playing => open.state \in {"Playing", "EndOfStream"})
      BY <3>1 DEF UiOK, Agreed
    <3> QED
      BY <2>1, <3>1, <3>2, <3>3, <3>4, <3>5, SessionMoves DEF UiOK
  <2> QED
    BY <2>2, <2>3
<1> QED
  BY <1>1, <1>2, <1>3, <1>4, <1>5 DEF UiOK, OneSession

LEMMA TickTyped ==
    ASSUME UiOK, Tick
    PROVE  UiOK'
<1> DEFINE open == session[1]
<1>1. open \in OpenSession /\ session = <<open>>
  BY DEF Tick, UiOK, OneSession
<1>2. playing = TRUE /\ UNCHANGED media /\ open.state \in {"Playing", "EndOfStream"}
  BY <1>1 DEF Tick, UiOK, Agreed
<1>3. PICK k \in Reads(open) : \E outcome \in Outcomes(open, k) :
        CASE outcome = "frame" ->
                session' = <<[open EXCEPT !.at = k]>> /\ position' = k /\ UNCHANGED playing
          [] outcome = "end" ->
                session' = <<[open EXCEPT !.state = "EndOfStream"]>> /\ playing' = FALSE /\ UNCHANGED position
          [] outcome = "error" ->
                session' = <<[Paused(open) EXCEPT !.at = k]>> /\ playing' = FALSE /\ UNCHANGED position
  BY DEF Tick
<1> HIDE DEF open
<1>4. k \in Nat
  BY <1>1, ReadsForward
<1>5. PICK outcome \in Outcomes(open, k) :
        CASE outcome = "frame" ->
                session' = <<[open EXCEPT !.at = k]>> /\ position' = k /\ UNCHANGED playing
          [] outcome = "end" ->
                session' = <<[open EXCEPT !.state = "EndOfStream"]>> /\ playing' = FALSE /\ UNCHANGED position
          [] outcome = "error" ->
                session' = <<[Paused(open) EXCEPT !.at = k]>> /\ playing' = FALSE /\ UNCHANGED position
  BY <1>3
<1>6. outcome \in {"frame", "end", "error"}
  BY ThreeOutcomes
<1>7. CASE outcome = "frame"
  <2>1. [open EXCEPT !.at = k] \in OpenSession /\ [open EXCEPT !.at = k].state = open.state
    BY <1>1, <1>4 DEF OpenSession
  <2>2. session' = <<[open EXCEPT !.at = k]>> /\ position' = k /\ playing' = TRUE
    BY <1>2, <1>5, <1>7
  <2> QED
    BY <1>1, <1>2, <1>4, <2>1, <2>2, SessionMoves
<1>8. CASE outcome = "end"
  <2>1. /\ [open EXCEPT !.state = "EndOfStream"] \in OpenSession
        /\ [open EXCEPT !.state = "EndOfStream"].state = "EndOfStream"
    BY <1>1 DEF OpenSession
  <2>2. session' = <<[open EXCEPT !.state = "EndOfStream"]>> /\ playing' = FALSE /\ position' = position
    BY <1>5, <1>8
  <2> QED
    BY <1>1, <1>2, <2>1, <2>2, SessionMoves DEF UiOK
<1>9. CASE outcome = "error"
  <2>1. [Paused(open) EXCEPT !.at = k] \in OpenSession /\ [Paused(open) EXCEPT !.at = k].state # "Playing"
    <3>1. Paused(open) \in OpenSession /\ Paused(open).state # "Playing"
      BY <1>1 DEF OpenSession, Paused
    <3> HIDE DEF Paused
    <3> QED
      BY <1>4, <3>1 DEF OpenSession
  <2>2. session' = <<[Paused(open) EXCEPT !.at = k]>> /\ playing' = FALSE /\ position' = position
    BY <1>5, <1>9
  <2> QED
    BY <1>1, <1>2, <2>1, <2>2, SessionMoves DEF UiOK
<1> QED
  BY <1>6, <1>7, <1>8, <1>9

LEMMA OthersTyped ==
    ASSUME UiOK, OthersAct
    PROVE  UiOK'
<1>1. UNCHANGED <<media, playing, position>>
  BY DEF OthersAct
<1>2. CASE session = <<>>
  <2>1. session' = <<>>
    BY <1>2 DEF OthersAct
  <2> QED
    BY <1>1, <1>2, <2>1 DEF UiOK, OneMedia, OneSession, Agreed
<1>3. ASSUME NEW open \in OpenSession, session = <<open>> PROVE UiOK'
  <2> DEFINE rewritten == Rewritten(open.path)
             later == [open EXCEPT !.stale = @ \/ rewritten]
  <2>1. session' = <<later>>
    BY <1>3 DEF OthersAct
  <2>2. (open.stale \/ rewritten) \in BOOLEAN
    OBVIOUS
  <2> HIDE DEF rewritten
  <2>3. later \in OpenSession /\ later.state = open.state
    BY <2>2 DEF OpenSession
  <2>4. (open.state = "Playing" => playing) /\ (playing => open.state \in {"Playing", "EndOfStream"})
    BY <1>3 DEF UiOK, Agreed
  <2> HIDE DEF later
  <2> QED
    BY <1>1, <1>3, <2>1, <2>3, <2>4, SessionMoves DEF UiOK
<1> QED
  BY <1>2, <1>3 DEF UiOK, OneSession

LEMMA UiStep ==
    ASSUME UiOK, [Next]_vars
    PROVE  UiOK'
<1>1. CASE UNCHANGED playbackVars
  BY <1>1 DEF playbackVars, UiOK, OneMedia, OneSession, Agreed
<1>2. CASE RefreshLicense \/ EditorAction \/ UNCHANGED vars
  BY <1>1, <1>2 DEF RefreshLicense, EditorAction, playerVars, vars
<1> QED
  BY <1>2, PressedTyped, PlayTyped, TickTyped, OthersTyped DEF Next

-----------------------------------------------------------------------------
(* The notices.                                                            *)

\* the list of those seen is the end of what was shown, all of it until it is full
Remembered ==
    /\ seen \in Seq(Notices) /\ shown \in Seq(Notices)
    /\ Len(seen) <= MaxSeen /\ Len(seen) <= Len(shown)
    /\ Len(seen) < MaxSeen => Len(seen) = Len(shown)
    /\ \A k \in 1 .. Len(seen) : seen[k] = shown[Len(shown) - Len(seen) + k]
    /\ \A i, j \in 1 .. Len(seen) : seen[i] = seen[j] => i = j
NoticeInv == Remembered /\ NoticesShownOnce
EditorOK == editor \in BOOLEAN

\* Many different values are many.
Values(s, first, last) == {s[k] : k \in first .. last}
LEMMA ManyDifferent ==
    ASSUME NEW s, NEW first \in Nat, NEW last \in Nat, NEW n \in Nat, first + n <= last + 1,
           \A i, j \in last - n + 1 .. last : s[i] = s[j] => i = j
    PROVE  Cardinality(Values(s, first, last)) >= n
<1> USE DEF Values
<1> DEFINE values == Values(s, first, last)
           onto == [k \in first .. last |-> s[k]]
           into == [k \in 1 .. n |-> s[last - n + k]]
<1>1. IsFiniteSet(values)
  <2>1. onto \in Surjection(first .. last, values)
    BY DEF Surjection
  <2>2. IsFiniteSet(first .. last)
    BY FS_Interval
  <2> DEFINE places == first .. last
  <2> HIDE DEF onto, values, places
  <2>3. onto \in Surjection(places, values) /\ IsFiniteSet(places)
    BY <2>1, <2>2 DEF places
  <2> QED
    BY <2>3, FS_Surjection
<1>2. into \in Injection(1 .. n, values)
  <2>1. \A k \in 1 .. n : last - n + k \in first .. last /\ last - n + k \in last - n + 1 .. last
    OBVIOUS
  <2>2. into \in [1 .. n -> values]
    BY <2>1
  <2>3. \A i, j \in 1 .. n : into[i] = into[j] => i = j
    <3> SUFFICES ASSUME NEW i \in 1 .. n, NEW j \in 1 .. n, into[i] = into[j] PROVE i = j
      OBVIOUS
    <3>1. last - n + i = last - n + j
      BY <2>1
    <3> QED
      BY <3>1
  <2> HIDE DEF into, values
  <2> QED
    BY <2>2, <2>3 DEF Injection, IsInjective
<1>3. Cardinality(1 .. n) = n
  BY FS_Interval
<1>4. Cardinality(values) \in Nat /\ Cardinality(1 .. n) <= Cardinality(values)
  <2> DEFINE places == 1 .. n
  <2> HIDE DEF into, values, places
  <2>1. into \in Injection(places, values)
    BY <1>2 DEF places
  <2>2. Cardinality(places) <= Cardinality(values)
    BY <1>1, <2>1, FS_Injection
  <2> QED
    BY <1>1, <2>2, FS_CardinalityType DEF places
<1> QED
  BY <1>3, <1>4

LEMMA NoticeShown ==
    ASSUME NoticeInv, NEW notice \in Notices, ShowNotice(notice)
    PROVE  NoticeInv'
<1>1. CASE \E i \in DOMAIN seen : seen[i] = notice
  <2>1. UNCHANGED <<seen, shown>>
    BY <1>1 DEF ShowNotice
  <2>2. seen' = seen /\ shown' = shown
    BY <2>1
  <2>3. Remembered'
    BY <2>2 DEF NoticeInv, Remembered
  <2>4. NoticesShownOnce'
    BY <2>2 DEF NoticeInv, NoticesShownOnce
  <2> QED
    BY <2>3, <2>4 DEF NoticeInv
<1>2. CASE \A i \in DOMAIN seen : seen[i] # notice
  <2> DEFINE n == Len(shown)
             m == Len(seen)
  <2>1. /\ seen' = WithSeen(seen, notice) /\ shown' = Append(shown, notice)
        /\ n \in Nat /\ m \in Nat /\ m <= n /\ m <= MaxSeen /\ (m < MaxSeen => m = n)
        /\ seen \in Seq(Notices) /\ shown \in Seq(Notices)
        /\ MaxSeen \in Nat \ {0}
    BY <1>2, PlayerAssumption DEF ShowNotice, NoticeInv, Remembered
  <2>2. /\ shown' \in Seq(Notices) /\ Len(shown') = n + 1
        /\ \A k \in 1 .. n : shown'[k] = shown[k]
        /\ shown'[n + 1] = notice
    BY <2>1
  <2>3. \A k \in 1 .. m : seen[k] = shown[n - m + k] /\ seen[k] # notice
    BY <1>2, <2>1 DEF NoticeInv, Remembered
  <2>4. \A i, j \in 1 .. m : seen[i] = seen[j] => i = j
    BY DEF NoticeInv, Remembered
  <2> HIDE DEF n, m
  <2>5. /\ seen' \in Seq(Notices)
        /\ Len(seen') = IF m + 1 > MaxSeen THEN m ELSE m + 1
        /\ \A k \in 1 .. Len(seen') :
              seen'[k] = IF m + 1 > MaxSeen THEN Append(seen, notice)[k + 1] ELSE Append(seen, notice)[k]
    <3> DEFINE more == Append(seen, notice)
    <3>1. more \in Seq(Notices) /\ Len(more) = m + 1 /\ more # <<>>
      BY <2>1 DEF m
    <3>2. /\ Tail(more) \in Seq(Notices) /\ Len(Tail(more)) = m
          /\ \A k \in 1 .. m : Tail(more)[k] = more[k + 1]
      <4> HIDE DEF more
      <4> QED
        BY <2>1, <3>1
    <3>3. seen' = IF m + 1 > MaxSeen THEN Tail(more) ELSE more
      BY <2>1, <3>1 DEF WithSeen
    <3> HIDE DEF more
    <3>4. CASE m + 1 > MaxSeen
      BY <2>1, <3>2, <3>3, <3>4 DEF more
    <3>5. CASE ~(m + 1 > MaxSeen)
      BY <2>1, <3>1, <3>3, <3>5 DEF more
    <3> QED
      BY <3>4, <3>5
  <2>6. \A k \in 1 .. m + 1 : Append(seen, notice)[k] = IF k = m + 1 THEN notice ELSE seen[k]
    BY <2>1 DEF m
  <2>7. Remembered'
    <3>1. CASE m + 1 > MaxSeen
      <4>1. Len(seen') = m /\ m = MaxSeen
        BY <2>1, <2>5, <3>1
      <4>2. ASSUME NEW k \in 1 .. m PROVE seen'[k] = IF k = m THEN notice ELSE seen[k + 1]
        <5>1. k \in 1 .. Len(seen') /\ k + 1 \in 1 .. m + 1 /\ (k + 1 = m + 1 <=> k = m)
          BY <2>1, <4>1
        <5> QED
          BY <2>5, <2>6, <3>1, <5>1
      <4>3. ASSUME NEW k \in 1 .. m PROVE seen'[k] = shown'[n + 1 - m + k]
        <5>1. CASE k = m
          <6>1. n + 1 - m + k = n + 1
            BY <2>1, <5>1
          <6> QED
            BY <2>2, <4>2, <5>1, <6>1
        <5>2. CASE k # m
          <6>1. k + 1 \in 1 .. m /\ n - m + (k + 1) = n + 1 - m + k /\ n + 1 - m + k \in 1 .. n
            BY <2>1, <5>2
          <6> QED
            BY <2>2, <2>3, <4>2, <5>2, <6>1
        <5> QED
          BY <5>1, <5>2
      <4>4. ASSUME NEW i \in 1 .. m, NEW j \in 1 .. m, seen'[i] = seen'[j] PROVE i = j
        <5>1. /\ i # m => i + 1 \in 1 .. m
              /\ j # m => j + 1 \in 1 .. m
              /\ i + 1 = j + 1 => i = j
          BY <2>1
        <5> QED
          BY <2>3, <2>4, <4>2, <4>4, <5>1
      <4> QED
        <5>1. Len(shown') - Len(seen') = n + 1 - m /\ m <= n + 1 /\ ~(m < MaxSeen)
          BY <2>1, <2>2, <4>1
        <5> QED
          BY <2>1, <2>2, <2>5, <4>1, <4>3, <4>4, <5>1 DEF Remembered
    <3>2. CASE m + 1 <= MaxSeen
      <4>1. Len(seen') = m + 1 /\ m = n
        BY <2>1, <2>5, <3>2
      <4>2. ASSUME NEW k \in 1 .. m + 1 PROVE seen'[k] = IF k = m + 1 THEN notice ELSE seen[k]
        <5>1. k \in 1 .. Len(seen') /\ ~(m + 1 > MaxSeen)
          BY <2>1, <3>2, <4>1
        <5> QED
          BY <2>5, <2>6, <5>1
      <4>3. \A k \in 1 .. m + 1 : seen'[k] = shown'[k]
        BY <2>1, <2>2, <2>3, <4>1, <4>2
      <4>4. \A i, j \in 1 .. m + 1 : seen'[i] = seen'[j] => i = j
        BY <2>1, <2>3, <2>4, <4>2
      <4> QED
        <5>1. /\ Len(shown') = m + 1 /\ m + 1 <= MaxSeen
              /\ \A k \in 1 .. m + 1 : Len(shown') - Len(seen') + k = k
          BY <2>1, <2>2, <3>2, <4>1
        <5>2. ASSUME NEW k \in 1 .. Len(seen') PROVE seen'[k] = shown'[Len(shown') - Len(seen') + k]
          <6>1. k \in 1 .. m + 1
            BY <4>1
          <6>2. Len(shown') - Len(seen') + k = k
            BY <5>1, <6>1
          <6> QED
            BY <4>3, <6>1, <6>2
        <5>3. Len(seen') = Len(shown') /\ Len(seen') <= MaxSeen
          BY <2>1, <2>2, <4>1, <5>1
        <5>4. \A i, j \in 1 .. Len(seen') : seen'[i] = seen'[j] => i = j
          BY <4>1, <4>4
        <5>5. Len(seen') <= Len(shown')
          BY <2>2, <2>1, <5>3
        <5> QED
          BY <2>2, <2>5, <5>2, <5>3, <5>4, <5>5 DEF Remembered
    <3> QED
      BY <2>1, <3>1, <3>2
  <2>8. NoticesShownOnce'
    <3> SUFFICES ASSUME NEW i \in 1 .. n + 1, NEW j \in 1 .. n + 1, i < j, shown'[i] = shown'[j]
                 PROVE  Cardinality({shown'[k] : k \in i + 1 .. j - 1}) >= MaxSeen
      BY SMTT(30), <2>2 DEF NoticesShownOnce
    <3>1. CASE j <= n
      <4>1. i \in DOMAIN shown /\ j \in DOMAIN shown /\ shown[i] = shown[j]
        BY <2>1, <2>2, <3>1 DEF n
      <4>2. {shown'[k] : k \in i + 1 .. j - 1} = {shown[k] : k \in i + 1 .. j - 1}
        BY <2>1, <2>2, <3>1
      <4> QED
        BY <4>1, <4>2 DEF NoticeInv, NoticesShownOnce
    <3>2. CASE j = n + 1
      <4>1. i \in 1 .. n /\ shown[i] = notice
        BY <2>1, <2>2, <3>2
      <4>2. i <= n - m
        <5> SUFFICES ASSUME i > n - m PROVE FALSE
          BY <2>1
        <5>1. i - (n - m) \in 1 .. m /\ n - m + (i - (n - m)) = i
          BY <2>1
        <5> QED
          BY <2>3, <4>1, <5>1
      <4>3. m = MaxSeen
        BY <2>1, <4>1, <4>2
      <4>4. \A a, b \in n - m + 1 .. n : shown'[a] = shown'[b] => a = b
        <5> SUFFICES ASSUME NEW a \in n - m + 1 .. n, NEW b \in n - m + 1 .. n, shown'[a] = shown'[b]
                     PROVE  a = b
          OBVIOUS
        <5>1. a - (n - m) \in 1 .. m /\ b - (n - m) \in 1 .. m /\ a \in 1 .. n /\ b \in 1 .. n
          BY <2>1
        <5>2. seen[a - (n - m)] = shown[a] /\ seen[b - (n - m)] = shown[b]
          BY SMTT(30), <2>1, <2>3, <5>1
        <5>3. shown[a] = shown[b]
          BY <2>2, <5>1
        <5> QED
          BY <2>1, <2>4, <5>1, <5>2, <5>3
      <4>5. i + 1 \in Nat /\ i + 1 + m <= n + 1 /\ j - 1 = n
        BY <2>1, <3>2, <4>1, <4>2
      <4>6. Cardinality(Values(shown', i + 1, n)) >= m
        BY <2>1, <4>4, <4>5, ManyDifferent
      <4> QED
        BY <4>3, <4>5, <4>6 DEF Values
    <3>3. j <= n \/ j = n + 1
      BY <2>1
    <3> QED
      BY <3>1, <3>2, <3>3
  <2> QED
    BY <2>7, <2>8 DEF NoticeInv
<1> QED
  BY <1>1, <1>2

LEMMA NoticeStep ==
    ASSUME NoticeInv, [Next]_vars
    PROVE  NoticeInv'
<1>1. CASE UNCHANGED <<seen, shown>>
  BY <1>1 DEF NoticeInv, Remembered, NoticesShownOnce
<1>2. CASE RefreshLicense
  BY <1>1, <1>2, NoticeShown DEF RefreshLicense
<1> QED
  BY <1>1, <1>2
  DEF Next, OpenMedia, Play, CloseMedia, Pause, Stop, Seek, Tick, EditorAction, OthersAct, noticeVars, playerVars, vars

-----------------------------------------------------------------------------
(* Files.                                                                  *)

Codecs == {"v1", "v2", "audio", "other"}
FrameSet == [id : Nat, codec : Codecs \cup {"raw"}, source : Nat, at : Nat, kind : FrameKinds, gap : BOOLEAN]
TrackSet == [id : Nat, codec : Codecs]
FileSet == [head : BOOLEAN, tracks : Seq(TrackSet), frames : Seq(FrameSet), torn : BOOLEAN, sealed : BOOLEAN]

TrackCodecs(file) == {file.tracks[i].codec : i \in DOMAIN file.tracks}
FrameCodecs(file) == {file.frames[i].codec : i \in DOMAIN file.frames}
Streamed == Elementary \cup Containers

\* the frames are in order, and of the codecs the tracks are of: one for video
AllInOrder(frames) == \A k \in DOMAIN frames : InOrder(frames, k)
OneVideo(file) == \A a, b \in TrackCodecs(file) : IsVideo(a) /\ IsVideo(b) => a = b
FileOk(path, file) ==
    /\ file \in FileSet
    /\ AllInOrder(file.frames)
    /\ path \in Streamed => FrameCodecs(file) \subseteq TrackCodecs(file)
    /\ path \in Elementary => TrackCodecs(file) \subseteq {Codec[path]}
    /\ OneVideo(file)
    /\ path \in {"picture", "sound"} => Len(file.frames) = 1
FilesOk(files) == \A path \in DOMAIN files : path \in Paths /\ FileOk(path, files[path])

\* a frame may come after these
NextOf(frames, frame) ==
    \/ StartsStream(frame) /\ \A j \in 1 .. Len(frames) : frames[j].codec # frame.codec
    \/ \E j \in 1 .. Len(frames) :
          /\ Follows(frame, frames[j])
          /\ \A h \in j + 1 .. Len(frames) : frames[h].codec # frame.codec

LEMMA FieldsOf ==
    ASSUME NEW file \in FileSet
    PROVE  /\ file.frames \in Seq(FrameSet) /\ file.tracks \in Seq(TrackSet)
           /\ file.head \in BOOLEAN /\ file.torn \in BOOLEAN /\ file.sealed \in BOOLEAN
  BY DEF FileSet

\* A frame that may come next keeps the order.
LEMMA AppendInOrder ==
    ASSUME NEW frames \in Seq(FrameSet), AllInOrder(frames), NEW frame \in FrameSet, NextOf(frames, frame)
    PROVE  /\ Append(frames, frame) \in Seq(FrameSet) /\ AllInOrder(Append(frames, frame))
           /\ Len(Append(frames, frame)) = Len(frames) + 1
           /\ Append(frames, frame)[Len(frames) + 1] = frame
           /\ \A i \in 1 .. Len(frames) : Append(frames, frame)[i] = frames[i]
<1> DEFINE more == Append(frames, frame)
<1>1. PICK n \in Nat : n = Len(frames)
  BY LenProperties
<1>2. more \in Seq(FrameSet) /\ Len(more) = n + 1 /\ more[n + 1] = frame /\ \A i \in 1 .. n : more[i] = frames[i]
  BY <1>1, AppendProperties
<1>3. DOMAIN frames = 1 .. n /\ DOMAIN more = 1 .. n + 1
  BY <1>1, <1>2, LenProperties
<1> HIDE DEF more
<1>4. ASSUME NEW k \in 1 .. n PROVE InOrder(more, k)
  <2>1. InOrder(frames, k)
    BY <1>3 DEF AllInOrder
  <2>2. \A j \in 1 .. k : more[j] = frames[j]
    BY <1>2
  <2> QED BY <2>1, <2>2 DEF InOrder
<1>5. InOrder(more, n + 1)
  <2>1. n + 1 - 1 = n
    OBVIOUS
  <2> QED BY <1>1, <1>2, <2>1 DEF InOrder, NextOf
<1>6. AllInOrder(more)
  <2>1. \A k \in 1 .. n + 1 : k \in 1 .. n \/ k = n + 1
    OBVIOUS
  <2> QED BY <1>3, <1>4, <1>5, <2>1 DEF AllInOrder
<1> QED BY <1>1, <1>2, <1>6 DEF more

\* A beginning of frames in order is in order.
LEMMA PrefixInOrder ==
    ASSUME NEW frames \in Seq(FrameSet), AllInOrder(frames), NEW n \in 0 .. Len(frames)
    PROVE  /\ SubSeq(frames, 1, n) \in Seq(FrameSet) /\ AllInOrder(SubSeq(frames, 1, n))
           /\ Len(SubSeq(frames, 1, n)) = n /\ \A i \in 1 .. n : SubSeq(frames, 1, n)[i] = frames[i]
<1> DEFINE less == SubSeq(frames, 1, n)
<1>1. Len(frames) \in Nat /\ DOMAIN frames = 1 .. Len(frames)
  BY LenProperties
<1>2. less \in Seq(FrameSet) /\ Len(less) = n /\ \A i \in 1 .. n : less[i] = frames[i]
  BY <1>1, SMT
<1>3. DOMAIN less = 1 .. n
  BY <1>2, LenProperties
<1> HIDE DEF less
<1>4. ASSUME NEW k \in 1 .. n PROVE InOrder(less, k)
  <2>1. InOrder(frames, k)
    BY <1>1 DEF AllInOrder
  <2>2. \A j \in 1 .. k : less[j] = frames[j]
    BY <1>1, <1>2
  <2> QED BY <2>1, <2>2 DEF InOrder
<1> QED BY <1>2, <1>3, <1>4 DEF AllInOrder, less

-----------------------------------------------------------------------------
(* The steps a job has left.                                               *)

StepSet ==
    [does : {"create"}, to : Streamed \cup {"raw"}, file : FileSet]
    \cup [does : {"append"}, to : Streamed, frame : FrameSet]
    \cup [does : {"seal"}, to : Streamed] \cup {PassOver}

Creates(step, path) == step.does = "create" /\ step.to = path
Appends(step, path, codec) == step.does = "append" /\ step.to = path /\ step.frame.codec = codec

\* A file is created before anything is appended, and empty, unless nothing is
\* appended to it.
CreateOk(steps, k) ==
    steps[k].does = "create" =>
        /\ FileOk(steps[k].to, steps[k].file)
        /\ \A j \in 1 .. k - 1 : steps[j].does # "append"
        /\ steps[k].to \in Streamed => steps[k].file.frames = <<>>

\* What is appended is of a codec of the file's, ...
CodecOk(files, steps, k) ==
    steps[k].does = "append" =>
        /\ \A h \in 1 .. k - 1 : Creates(steps[h], steps[k].to) => steps[k].frame.codec \in TrackCodecs(steps[h].file)
        /\ (\A h \in 1 .. k - 1 : ~Creates(steps[h], steps[k].to)) =>
              steps[k].to \in DOMAIN files /\ steps[k].frame.codec \in TrackCodecs(files[steps[k].to])

\* ... and goes on where an earlier step, or else the file, has ended.
GoesOn(steps, k) ==
    \E j \in 1 .. k - 1 :
        /\ Appends(steps[j], steps[k].to, steps[k].frame.codec) /\ Follows(steps[k].frame, steps[j].frame)
        /\ \A h \in j + 1 .. k - 1 : ~Appends(steps[h], steps[k].to, steps[k].frame.codec)
Begins(files, steps, k) ==
    /\ \A h \in 1 .. k - 1 : ~Appends(steps[h], steps[k].to, steps[k].frame.codec)
    /\ (\E h \in 1 .. k - 1 : Creates(steps[h], steps[k].to)) => StartsStream(steps[k].frame)
    /\ (\A h \in 1 .. k - 1 : ~Creates(steps[h], steps[k].to)) => NextOf(files[steps[k].to].frames, steps[k].frame)
OrderOk(files, steps, k) == steps[k].does = "append" => GoesOn(steps, k) \/ Begins(files, steps, k)

StepsOk(files, steps) ==
    /\ steps \in Seq(StepSet)
    /\ \A k \in 1 .. Len(steps) : CreateOk(steps, k) /\ CodecOk(files, steps, k) /\ OrderOk(files, steps, k)

LEMMA KindsOfSteps ==
    ASSUME NEW step \in StepSet
    PROVE  /\ step.does \in {"create", "append", "seal", "pass"}
           /\ step.does = "create" => step.to \in Streamed \cup {"raw"} /\ step.file \in FileSet
           /\ step.does = "append" => step.to \in Streamed /\ step.frame \in FrameSet
           /\ step.does = "seal" => step.to \in Streamed
  BY DEF StepSet, PassOver

LEMMA LaterSteps ==
    ASSUME NEW steps \in Seq(StepSet), steps # <<>>
    PROVE  /\ Head(steps) = steps[1] /\ steps[1] \in StepSet /\ Len(steps) \in Nat \ {0}
           /\ Tail(steps) \in Seq(StepSet) /\ Len(Tail(steps)) = Len(steps) - 1
           /\ \A k \in 1 .. Len(steps) - 1 : Tail(steps)[k] = steps[k + 1] /\ k + 1 \in 1 .. Len(steps)
  BY HeadTailProperties, EmptySeq, LenProperties, ElementOfSeq

\* Of the steps left, one that does not begin a stream of its own goes on as it did.
LEMMA LaterGoesOn ==
    ASSUME NEW steps \in Seq(StepSet), steps # <<>>, NEW k \in 1 .. Len(steps) - 1, GoesOn(steps, k + 1)
    PROVE  \/ GoesOn(Tail(steps), k)
           \/ /\ Appends(steps[1], steps[k + 1].to, steps[k + 1].frame.codec)
              /\ Follows(steps[k + 1].frame, steps[1].frame)
              /\ \A h \in 1 .. k - 1 : ~Appends(Tail(steps)[h], steps[k + 1].to, steps[k + 1].frame.codec)
<1> DEFINE rest == Tail(steps)
<1>1. PICK n \in Nat \ {0} : n = Len(steps) /\ k \in 1 .. n - 1
  BY LaterSteps
<1>2. \A i \in 1 .. n - 1 : rest[i] = steps[i + 1]
  BY <1>1, LaterSteps
<1> HIDE DEF rest
<1>3. PICK j \in 1 .. k + 1 - 1 :
        /\ Appends(steps[j], steps[k + 1].to, steps[k + 1].frame.codec)
        /\ Follows(steps[k + 1].frame, steps[j].frame)
        /\ \A h \in j + 1 .. k + 1 - 1 : ~Appends(steps[h], steps[k + 1].to, steps[k + 1].frame.codec)
  BY DEF GoesOn
<1>4. rest[k] = steps[k + 1] /\ k \in Nat /\ j \in Nat /\ j <= k /\ k <= n - 1
  BY <1>1, <1>2, <1>3
<1>5. \A h \in j .. k - 1 : ~Appends(rest[h], steps[k + 1].to, steps[k + 1].frame.codec)
  <2> TAKE h \in j .. k - 1
  <2>1. h \in 1 .. n - 1 /\ h + 1 \in j + 1 .. k + 1 - 1
    BY <1>3, <1>4
  <2> QED BY <2>1, <1>2, <1>3
<1>6. CASE j = 1
  BY <1>3, <1>5, <1>6 DEF rest
<1>7. CASE j # 1
  <2>1. j - 1 \in 1 .. k - 1 /\ j - 1 \in 1 .. n - 1 /\ j - 1 + 1 = j
    BY <1>3, <1>4, <1>7
  <2>2. rest[j - 1] = steps[j]
    BY <2>1, <1>2
  <2>3. \A h \in j - 1 + 1 .. k - 1 : ~Appends(rest[h], steps[k + 1].to, steps[k + 1].frame.codec)
    BY <2>1, <1>5
  <2>4. GoesOn(rest, k)
    BY <2>1, <2>2, <2>3, <1>3, <1>4 DEF GoesOn
  <2> QED BY <2>4 DEF rest
<1> QED BY <1>6, <1>7

\* A file in place of another, or a new one.
Puts(files, more, path, file) ==
    /\ DOMAIN more = DOMAIN files \cup {path} /\ more[path] = file
    /\ \A other \in DOMAIN files \ {path} : more[other] = files[other]

LEMMA PutKeeps ==
    ASSUME NEW files, FilesOk(files), NEW more, NEW path \in Paths, NEW file, FileOk(path, file),
           Puts(files, more, path, file)
    PROVE  FilesOk(more)
  BY DEF FilesOk, Puts

LEMMA LaterCreateOk ==
    ASSUME NEW steps \in Seq(StepSet), steps # <<>>, NEW k \in 1 .. Len(steps) - 1, CreateOk(steps, k + 1)
    PROVE  CreateOk(Tail(steps), k)
<1> DEFINE rest == Tail(steps)
<1>1. PICK n \in Nat \ {0} : n = Len(steps) /\ k \in 1 .. n - 1
  BY LaterSteps
<1>2. \A i \in 1 .. n - 1 : rest[i] = steps[i + 1]
  BY <1>1, LaterSteps
<1> HIDE DEF rest
<1>3. \A j \in 1 .. k - 1 : j \in 1 .. n - 1 /\ j + 1 \in 1 .. k + 1 - 1
  BY <1>1
<1>4. rest[k] = steps[k + 1]
  BY <1>1, <1>2
<1>5. \A j \in 1 .. k - 1 : j + 1 \in 1 .. k + 1 - 1 /\ rest[j] = steps[j + 1]
  BY <1>2, <1>3
<1>6. CASE rest[k].does = "create"
  <2>1. /\ FileOk(rest[k].to, rest[k].file)
        /\ \A i \in 1 .. k + 1 - 1 : steps[i].does # "append"
        /\ rest[k].to \in Streamed => rest[k].file.frames = <<>>
    BY <1>4, <1>6 DEF CreateOk
  <2>2. \A j \in 1 .. k - 1 : rest[j].does # "append"
    BY <1>5, <2>1
  <2> QED BY <2>1, <2>2 DEF CreateOk
<1>7. CASE rest[k].does # "create"
  BY <1>7 DEF CreateOk
<1> QED BY <1>6, <1>7 DEF rest

LEMMA CreateKeeps ==
    ASSUME NEW files, FilesOk(files), NEW steps, StepsOk(files, steps), steps # <<>>, steps[1].does = "create",
           NEW more, Puts(files, more, steps[1].to, steps[1].file)
    PROVE  FilesOk(more) /\ StepsOk(more, Tail(steps))
<1> DEFINE rest == Tail(steps)
<1>1. PICK n \in Nat \ {0} : n = Len(steps)
  BY LaterSteps DEF StepsOk
<1>2. /\ steps \in Seq(StepSet) /\ rest \in Seq(StepSet) /\ Len(rest) = n - 1 /\ steps[1] \in StepSet
      /\ \A i \in 1 .. n - 1 : rest[i] = steps[i + 1] /\ i + 1 \in 1 .. n
  BY <1>1, LaterSteps DEF StepsOk
<1>3. steps[1].to \in Streamed \cup {"raw"} /\ steps[1].file \in FileSet
  BY <1>2, KindsOfSteps
<1>4. FileOk(steps[1].to, steps[1].file) /\ (steps[1].to \in Streamed => steps[1].file.frames = <<>>)
  BY <1>1 DEF StepsOk, CreateOk
<1>5. FilesOk(more)
  BY <1>3, <1>4, PutKeeps DEF Paths, Streamed
<1>6. ASSUME NEW k \in 1 .. n - 1 PROVE CreateOk(rest, k) /\ CodecOk(more, rest, k) /\ OrderOk(more, rest, k)
  <2> HIDE DEF rest
  <2>1. rest[k] = steps[k + 1] /\ k + 1 \in 1 .. n /\ rest[k] \in StepSet
    BY <1>2, ElementOfSeq
  <2>2. CreateOk(steps, k + 1) /\ CodecOk(files, steps, k + 1) /\ OrderOk(files, steps, k + 1)
    BY <1>1, <2>1 DEF StepsOk
  <2>3. \A j \in 1 .. k - 1 : j \in 1 .. n - 1 /\ j + 1 \in 1 .. k + 1 - 1
    BY <1>1
  <2>4. \A h \in 1 .. k + 1 - 1 : h = 1 \/ (h - 1 \in 1 .. k - 1 /\ h - 1 \in 1 .. n - 1 /\ h - 1 + 1 = h)
    BY <1>1
  <2>5. CreateOk(rest, k)
    BY <1>1, <1>2, <2>2, LaterCreateOk DEF rest
  <2>6. 1 \in 1 .. k + 1 - 1
    BY <1>1
  <2>7. CASE rest[k].does # "append"
    BY <2>5, <2>7 DEF CodecOk, OrderOk
  <2>8. CASE rest[k].does = "append"
    <3> DEFINE to == rest[k].to
               frame == rest[k].frame
    <3>1. to \in Streamed /\ frame \in FrameSet /\ steps[k + 1].does = "append"
      BY <2>1, <2>8, KindsOfSteps
    <3>2. \A h \in 1 .. k - 1 : rest[h] = steps[h + 1]
      BY <1>2, <2>3
    <3>3. (\A h \in 1 .. k - 1 : ~Creates(rest[h], to)) /\ ~Creates(steps[1], to)
             => \A h \in 1 .. k + 1 - 1 : ~Creates(steps[h], to)
      <4> SUFFICES ASSUME \A h \in 1 .. k - 1 : ~Creates(rest[h], to), ~Creates(steps[1], to),
                          NEW h \in 1 .. k + 1 - 1
                   PROVE  ~Creates(steps[h], to)
        OBVIOUS
      <4>1. CASE h = 1
        BY <4>1
      <4>2. CASE h # 1
        <5>1. rest[h - 1] = steps[h] /\ h - 1 \in 1 .. k - 1
          BY <4>2, <2>4, <1>2
        <5> QED BY <5>1
      <4> QED BY <4>1, <4>2
    <3>4. Creates(steps[1], to) => more[to] = steps[1].file /\ to \in DOMAIN more /\ more[to].frames = <<>>
      BY <1>4, <3>1 DEF Creates, Puts
    <3>5. ~Creates(steps[1], to) /\ to \in DOMAIN files => to \in DOMAIN more /\ more[to] = files[to]
      BY DEF Creates, Puts
    <3>6. CodecOk(more, rest, k)
      <4>1. \A h \in 1 .. k - 1 : Creates(rest[h], to) => frame.codec \in TrackCodecs(rest[h].file)
        BY <2>1, <2>2, <2>3, <3>1, <3>2 DEF CodecOk
      <4>2. ASSUME \A h \in 1 .. k - 1 : ~Creates(rest[h], to)
            PROVE  to \in DOMAIN more /\ frame.codec \in TrackCodecs(more[to])
        <5>1. CASE Creates(steps[1], to)
          BY <5>1, <2>1, <2>2, <2>6, <3>1, <3>4 DEF CodecOk
        <5>2. CASE ~Creates(steps[1], to)
          BY <5>2, <4>2, <2>1, <2>2, <3>1, <3>3, <3>5 DEF CodecOk
        <5> QED BY <5>1, <5>2
      <4> QED BY <4>1, <4>2 DEF CodecOk
    <3>7. CASE GoesOn(steps, k + 1)
      <4>1. ~Appends(steps[1], to, frame.codec)
        BY DEF Appends
      <4>2. GoesOn(rest, k)
        BY <3>7, <4>1, <1>1, <1>2, <2>1, LaterGoesOn DEF rest
      <4> QED BY <4>2, <2>5, <3>6 DEF OrderOk
    <3>8. CASE Begins(files, steps, k + 1)
      <4>1. \A h \in 1 .. k - 1 : ~Appends(rest[h], to, frame.codec)
        BY <3>8, <2>1, <2>3, <3>2 DEF Begins
      <4>2. (\E h \in 1 .. k - 1 : Creates(rest[h], to)) => StartsStream(frame)
        BY <3>8, <2>1, <2>3, <3>2 DEF Begins
      <4>3. ASSUME \A h \in 1 .. k - 1 : ~Creates(rest[h], to) PROVE NextOf(more[to].frames, frame)
        <5>1. CASE Creates(steps[1], to)
          <6>1. StartsStream(frame)
            BY <5>1, <3>8, <2>1, <2>6 DEF Begins
          <6> QED BY <6>1, <3>4, <5>1, SMT DEF NextOf
        <5>2. CASE ~Creates(steps[1], to)
          <6>1. to \in DOMAIN files
            BY <5>2, <4>3, <2>1, <2>2, <3>1, <3>3 DEF CodecOk
          <6> QED BY <6>1, <5>2, <4>3, <2>1, <3>3, <3>5, <3>8 DEF Begins
        <5> QED BY <5>1, <5>2
      <4>4. Begins(more, rest, k)
        BY <4>1, <4>2, <4>3 DEF Begins
      <4> QED BY <4>4, <2>5, <3>6 DEF OrderOk
    <3> QED BY <3>7, <3>8, <2>1, <2>2, <3>1 DEF OrderOk
  <2> QED BY <2>7, <2>8
<1> QED BY <1>2, <1>5, <1>6 DEF StepsOk

\* A file that gets a frame more.
Grows(files, more, path, frame) ==
    /\ DOMAIN more = DOMAIN files
    /\ path \in DOMAIN files => more[path] = [files[path] EXCEPT !.frames = Append(@, frame)]
    /\ \A other \in DOMAIN files \ {path} : more[other] = files[other]

LEMMA LongerFile ==
    ASSUME NEW path \in Streamed, NEW file, FileOk(path, file), NEW frame \in FrameSet,
           frame.codec \in TrackCodecs(file), NextOf(file.frames, frame),
           NEW longer, longer = [file EXCEPT !.frames = Append(@, frame)]
    PROVE  FileOk(path, longer) /\ longer.frames = Append(file.frames, frame) /\ TrackCodecs(longer) = TrackCodecs(file)
<1>1. file \in FileSet /\ file.frames \in Seq(FrameSet) /\ AllInOrder(file.frames)
  BY FieldsOf DEF FileOk
<1>2. PICK frames \in Seq(FrameSet) : frames = Append(file.frames, frame)
  BY <1>1, AppendInOrder
<1>3. /\ AllInOrder(frames) /\ Len(frames) = Len(file.frames) + 1 /\ frames[Len(file.frames) + 1] = frame
      /\ \A i \in 1 .. Len(file.frames) : frames[i] = file.frames[i]
  BY <1>1, <1>2, AppendInOrder
<1>4. longer = [file EXCEPT !.frames = frames]
  BY <1>1, <1>2 DEF FileSet
<1>5. longer \in FileSet /\ longer.frames = frames /\ longer.tracks = file.tracks
  BY <1>1, <1>4 DEF FileSet
<1>6. TrackCodecs(longer) = TrackCodecs(file)
  BY <1>5 DEF TrackCodecs
<1>7. PICK n \in Nat : n = Len(file.frames) /\ DOMAIN file.frames = 1 .. n /\ DOMAIN frames = 1 .. n + 1
  BY <1>1, <1>2, <1>3, LenProperties
<1>8. FrameCodecs(longer) \subseteq FrameCodecs(file) \cup {frame.codec}
  <2> SUFFICES ASSUME NEW i \in 1 .. n + 1 PROVE frames[i].codec \in FrameCodecs(file) \cup {frame.codec}
    BY <1>5, <1>7 DEF FrameCodecs
  <2>1. CASE i = n + 1
    BY <2>1, <1>3, <1>7
  <2>2. CASE i # n + 1
    <3>1. i \in 1 .. n
      BY <2>2
    <3> QED BY <3>1, <1>3, <1>7 DEF FrameCodecs
  <2> QED BY <2>1, <2>2
<1>9. path \notin {"picture", "sound"}
  BY DEF Streamed, Elementary, Containers
<1>10. AllInOrder(longer.frames) /\ OneVideo(longer)
  BY <1>3, <1>5, <1>6 DEF FileOk, OneVideo
<1>11. FrameCodecs(longer) \subseteq TrackCodecs(longer)
  BY <1>6, <1>8 DEF FileOk
<1>12. path \in Elementary => TrackCodecs(longer) \subseteq {Codec[path]}
  BY <1>6 DEF FileOk
<1>13. FileOk(path, longer)
  BY <1>5, <1>9, <1>10, <1>11, <1>12 DEF FileOk
<1> QED BY <1>2, <1>5, <1>6, <1>13

LEMMA AppendKeeps ==
    ASSUME NEW files, FilesOk(files), NEW steps, StepsOk(files, steps), steps # <<>>, steps[1].does = "append",
           NEW more, Grows(files, more, steps[1].to, steps[1].frame)
    PROVE  FilesOk(more) /\ StepsOk(more, Tail(steps))
<1> DEFINE rest == Tail(steps)
           first == steps[1].frame
           path == steps[1].to
<1>1. PICK n \in Nat \ {0} : n = Len(steps)
  BY LaterSteps DEF StepsOk
<1>2. /\ steps \in Seq(StepSet) /\ rest \in Seq(StepSet) /\ Len(rest) = n - 1 /\ steps[1] \in StepSet
      /\ \A i \in 1 .. n - 1 : rest[i] = steps[i + 1] /\ i + 1 \in 1 .. n
  BY <1>1, LaterSteps DEF StepsOk
<1>3. path \in Streamed /\ first \in FrameSet
  BY <1>2, KindsOfSteps
<1>4. CodecOk(files, steps, 1) /\ OrderOk(files, steps, 1)
  BY <1>1 DEF StepsOk
<1>5. \A h : h \notin 1 .. 1 - 1
  OBVIOUS
<1>6. path \in DOMAIN files /\ first.codec \in TrackCodecs(files[path])
  BY <1>4, <1>5 DEF CodecOk
<1>7. NextOf(files[path].frames, first)
  <2>1. ~GoesOn(steps, 1)
    BY <1>5 DEF GoesOn
  <2> QED BY <2>1, <1>4, <1>5 DEF OrderOk, Begins
<1>8. FileOk(path, files[path])
  BY <1>6 DEF FilesOk
<1>9. more[path] = [files[path] EXCEPT !.frames = Append(@, first)] /\ DOMAIN more = DOMAIN files
  BY <1>6 DEF Grows
<1>10. /\ FileOk(path, more[path]) /\ more[path].frames = Append(files[path].frames, first)
       /\ TrackCodecs(more[path]) = TrackCodecs(files[path])
  <2> HIDE DEF path, first
  <2> QED BY <1>3, <1>6, <1>7, <1>8, <1>9, LongerFile
<1>11. FilesOk(more)
  BY <1>9, <1>10 DEF FilesOk, Grows
<1>12. \A to \in DOMAIN files : TrackCodecs(more[to]) = TrackCodecs(files[to])
  BY <1>10 DEF Grows
<1>13. ASSUME NEW to \in DOMAIN files, NEW frame, NextOf(files[to].frames, frame), ~Appends(steps[1], to, frame.codec)
       PROVE  NextOf(more[to].frames, frame)
  <2>1. CASE to # path
    BY <2>1, <1>13 DEF Grows
  <2>2. CASE to = path
    <3>1. first.codec # frame.codec
      BY <1>13, <2>2 DEF Appends
    <3>2. PICK m \in Nat : m = Len(files[path].frames) /\ files[path].frames \in Seq(FrameSet)
      BY <1>8, FieldsOf, LenProperties DEF FileOk
    <3>3. /\ Len(more[path].frames) = m + 1 /\ more[path].frames[m + 1] = first
          /\ \A i \in 1 .. m : more[path].frames[i] = files[path].frames[i]
      <4> HIDE DEF path, first
      <4> QED BY <1>3, <1>10, <3>2, AppendProperties
    <3>4. \A i \in 1 .. m + 1 : i \in 1 .. m \/ i = m + 1
      OBVIOUS
    <3>5. CASE StartsStream(frame) /\ \A j \in 1 .. m : files[path].frames[j].codec # frame.codec
      <4>1. \A j \in 1 .. m + 1 : more[path].frames[j].codec # frame.codec
        BY <3>1, <3>3, <3>4, <3>5
      <4> QED BY <4>1, <3>3, <3>5, <2>2 DEF NextOf
    <3>6. CASE \E j \in 1 .. m : /\ Follows(frame, files[path].frames[j])
                                 /\ \A h \in j + 1 .. m : files[path].frames[h].codec # frame.codec
      <4>1. PICK j \in 1 .. m : /\ Follows(frame, files[path].frames[j])
                                /\ \A h \in j + 1 .. m : files[path].frames[h].codec # frame.codec
        BY <3>6
      <4>2. \A h \in j + 1 .. m + 1 : (h \in 1 .. m /\ h \in j + 1 .. m) \/ h = m + 1
        BY <4>1
      <4>3. \A h \in j + 1 .. m + 1 : more[path].frames[h].codec # frame.codec
        BY <3>1, <3>3, <4>1, <4>2
      <4>4. j \in 1 .. m + 1 /\ Follows(frame, more[path].frames[j])
        BY <3>3, <4>1, SMTT(30)
      <4> QED BY <2>2, <3>3, <4>3, <4>4 DEF NextOf
    <3> QED BY <3>2, <3>5, <3>6, <2>2, <1>13 DEF NextOf
  <2> QED BY <2>1, <2>2
<1>14. ASSUME NEW k \in 1 .. n - 1 PROVE CreateOk(rest, k) /\ CodecOk(more, rest, k) /\ OrderOk(more, rest, k)
  <2> HIDE DEF rest
  <2>1. rest[k] = steps[k + 1] /\ k + 1 \in 1 .. n /\ rest[k] \in StepSet
    BY <1>2, ElementOfSeq
  <2>2. CreateOk(steps, k + 1) /\ CodecOk(files, steps, k + 1) /\ OrderOk(files, steps, k + 1)
    BY <1>1, <2>1 DEF StepsOk
  <2>3. \A j \in 1 .. k - 1 : j \in 1 .. n - 1 /\ j + 1 \in 1 .. k + 1 - 1
    BY <1>1
  <2>4. CreateOk(rest, k)
    BY <1>1, <1>2, <2>2, LaterCreateOk DEF rest
  <2>5. CASE rest[k].does # "append"
    BY <2>4, <2>5 DEF CodecOk, OrderOk
  <2>6. CASE rest[k].does = "append"
    <3> DEFINE to == rest[k].to
               frame == rest[k].frame
    <3>1. to \in Streamed /\ frame \in FrameSet /\ steps[k + 1].does = "append"
      BY <2>1, <2>6, KindsOfSteps
    <3>2. \A h \in 1 .. k - 1 : rest[h] = steps[h + 1]
      BY <1>2, <2>3
    <3>3. \A h \in 1 .. k + 1 - 1 : ~Creates(steps[h], to)
      <4> SUFFICES ASSUME NEW h \in 1 .. k + 1 - 1, steps[h].does = "create" PROVE FALSE
        BY DEF Creates
      <4>1. h # 1
        OBVIOUS
      <4>2. h \in 1 .. n /\ 1 \in 1 .. h - 1
        BY <1>1, <4>1
      <4>3. CreateOk(steps, h)
        BY <1>1, <4>2 DEF StepsOk
      <4> QED BY <4>2, <4>3 DEF CreateOk
    <3>4. \A h \in 1 .. k - 1 : ~Creates(rest[h], to)
      BY <2>3, <3>2, <3>3
    <3>5. to \in DOMAIN files /\ frame.codec \in TrackCodecs(files[to])
      BY <2>1, <2>2, <3>1, <3>3 DEF CodecOk
    <3>6. CodecOk(more, rest, k)
      BY <3>4, <3>5, <1>9, <1>12 DEF CodecOk
    <3>7. CASE GoesOn(rest, k)
      BY <2>4, <3>6, <3>7 DEF OrderOk
    <3>8. CASE /\ Appends(steps[1], to, frame.codec) /\ Follows(frame, first)
               /\ \A h \in 1 .. k - 1 : ~Appends(rest[h], to, frame.codec)
      <4>1. to = path
        BY <3>8 DEF Appends
      <4>2. PICK m \in Nat : m = Len(files[path].frames) /\ files[path].frames \in Seq(FrameSet)
        BY <1>8, FieldsOf, LenProperties DEF FileOk
      <4>3. Len(more[path].frames) = m + 1 /\ more[path].frames[m + 1] = first
        <5> HIDE DEF path, first
        <5> QED BY <1>3, <1>10, <4>2, AppendProperties
      <4>4. m + 1 \in 1 .. m + 1 /\ \A h : h \notin m + 1 + 1 .. m + 1
        OBVIOUS
      <4>5. NextOf(more[to].frames, frame)
        BY <3>8, <4>1, <4>3, <4>4 DEF NextOf
      <4>6. Begins(more, rest, k)
        BY <3>4, <3>8, <4>5 DEF Begins
      <4> QED BY <2>4, <3>6, <4>6 DEF OrderOk
    <3>9. CASE Begins(files, steps, k + 1)
      <4>1. ~Appends(steps[1], to, frame.codec) /\ \A h \in 1 .. k - 1 : ~Appends(rest[h], to, frame.codec)
        <5>1. 1 \in 1 .. k + 1 - 1
          BY <1>1
        <5> QED BY <5>1, <3>9, <2>1, <2>3, <3>2 DEF Begins
      <4>2. NextOf(files[to].frames, frame)
        BY <3>3, <3>9, <2>1 DEF Begins
      <4>3. NextOf(more[to].frames, frame)
        <5> HIDE DEF to, frame
        <5> QED BY <4>1, <4>2, <3>5, <1>13
      <4>4. Begins(more, rest, k)
        BY <3>4, <4>1, <4>3 DEF Begins
      <4> QED BY <2>4, <3>6, <4>4 DEF OrderOk
    <3>10. GoesOn(steps, k + 1) \/ Begins(files, steps, k + 1)
      BY <2>1, <2>2, <3>1 DEF OrderOk
    <3>11. CASE GoesOn(steps, k + 1)
      <4>1. \/ GoesOn(rest, k)
            \/ /\ Appends(steps[1], to, frame.codec) /\ Follows(frame, first)
               /\ \A h \in 1 .. k - 1 : ~Appends(rest[h], to, frame.codec)
        BY <3>11, <1>1, <1>2, <2>1, LaterGoesOn DEF rest
      <4> QED BY <4>1, <3>7, <3>8
    <3> QED BY <3>9, <3>10, <3>11
  <2> QED BY <2>5, <2>6
<1> QED BY <1>2, <1>11, <1>14 DEF StepsOk

\* Files that have the tracks and the frames they had.
Alike(files, more) ==
    /\ DOMAIN more = DOMAIN files
    /\ \A path \in DOMAIN files : /\ more[path] \in FileSet
                                  /\ more[path].tracks = files[path].tracks
                                  /\ more[path].frames = files[path].frames

LEMMA AlikeOk ==
    ASSUME NEW files, FilesOk(files), NEW more, Alike(files, more)
    PROVE  FilesOk(more)
<1> SUFFICES ASSUME NEW path \in DOMAIN files PROVE path \in Paths /\ FileOk(path, more[path])
  BY DEF FilesOk, Alike
<1>1. path \in Paths /\ FileOk(path, files[path])
  BY DEF FilesOk
<1>2. more[path] \in FileSet /\ more[path].tracks = files[path].tracks /\ more[path].frames = files[path].frames
  BY DEF Alike
<1>3. TrackCodecs(more[path]) = TrackCodecs(files[path]) /\ FrameCodecs(more[path]) = FrameCodecs(files[path])
  BY <1>2 DEF TrackCodecs, FrameCodecs
<1> QED BY <1>1, <1>2, <1>3 DEF FileOk, OneVideo

LEMMA QuietKeeps ==
    ASSUME NEW files, FilesOk(files), NEW steps, StepsOk(files, steps), steps # <<>>,
           steps[1].does \in {"seal", "pass"}, NEW more, Alike(files, more)
    PROVE  FilesOk(more) /\ StepsOk(more, Tail(steps))
<1> DEFINE rest == Tail(steps)
<1>1. PICK n \in Nat \ {0} : n = Len(steps)
  BY LaterSteps DEF StepsOk
<1>2. /\ steps \in Seq(StepSet) /\ rest \in Seq(StepSet) /\ Len(rest) = n - 1
      /\ \A i \in 1 .. n - 1 : rest[i] = steps[i + 1] /\ i + 1 \in 1 .. n
  BY <1>1, LaterSteps DEF StepsOk
<1>3. \A to \in DOMAIN files : /\ to \in DOMAIN more /\ more[to].frames = files[to].frames
                              /\ TrackCodecs(more[to]) = TrackCodecs(files[to])
  BY DEF Alike, TrackCodecs
<1>4. FilesOk(more)
  BY AlikeOk
<1>5. ASSUME NEW k \in 1 .. n - 1 PROVE CreateOk(rest, k) /\ CodecOk(more, rest, k) /\ OrderOk(more, rest, k)
  <2> HIDE DEF rest
  <2>1. rest[k] = steps[k + 1] /\ k + 1 \in 1 .. n /\ rest[k] \in StepSet
    BY <1>2, ElementOfSeq
  <2>2. CreateOk(steps, k + 1) /\ CodecOk(files, steps, k + 1) /\ OrderOk(files, steps, k + 1)
    BY <1>1, <2>1 DEF StepsOk
  <2>3. \A j \in 1 .. k - 1 : j \in 1 .. n - 1 /\ j + 1 \in 1 .. k + 1 - 1
    BY <1>1
  <2>4. CreateOk(rest, k)
    BY <1>1, <1>2, <2>2, LaterCreateOk DEF rest
  <2>5. CASE rest[k].does # "append"
    BY <2>4, <2>5 DEF CodecOk, OrderOk
  <2>6. CASE rest[k].does = "append"
    <3> DEFINE to == rest[k].to
               frame == rest[k].frame
    <3>1. steps[k + 1].does = "append"
      BY <2>1, <2>6
    <3>2. \A h \in 1 .. k - 1 : rest[h] = steps[h + 1]
      BY <1>2, <2>3
    <3>3. (\A h \in 1 .. k - 1 : ~Creates(rest[h], to)) => \A h \in 1 .. k + 1 - 1 : ~Creates(steps[h], to)
      <4> SUFFICES ASSUME \A h \in 1 .. k - 1 : ~Creates(rest[h], to), NEW h \in 1 .. k + 1 - 1
                   PROVE  ~Creates(steps[h], to)
        OBVIOUS
      <4>1. CASE h = 1
        BY <4>1 DEF Creates
      <4>2. CASE h # 1
        <5>1. h - 1 \in 1 .. k - 1 /\ h - 1 + 1 = h
          BY <1>1, <4>2
        <5>2. rest[h - 1] = steps[h]
          BY <5>1, <3>2
        <5> QED BY <5>1, <5>2
      <4> QED BY <4>1, <4>2
    <3>4. (\A h \in 1 .. k - 1 : ~Creates(rest[h], to)) => to \in DOMAIN files /\ frame.codec \in TrackCodecs(files[to])
      BY <2>1, <2>2, <3>1, <3>3 DEF CodecOk
    <3>5. CodecOk(more, rest, k)
      <4>1. \A h \in 1 .. k - 1 : Creates(rest[h], to) => frame.codec \in TrackCodecs(rest[h].file)
        BY <2>1, <2>2, <2>3, <3>1, <3>2 DEF CodecOk
      <4> QED BY <4>1, <3>4, <1>3 DEF CodecOk
    <3>6. CASE GoesOn(steps, k + 1)
      <4>1. ~Appends(steps[1], to, frame.codec)
        BY DEF Appends
      <4>2. GoesOn(rest, k)
        BY <3>6, <4>1, <1>1, <1>2, <2>1, LaterGoesOn DEF rest
      <4> QED BY <4>2, <2>4, <3>5 DEF OrderOk
    <3>7. CASE Begins(files, steps, k + 1)
      <4>1. \A h \in 1 .. k - 1 : ~Appends(rest[h], to, frame.codec)
        BY <3>7, <2>1, <2>3, <3>2 DEF Begins
      <4>2. (\E h \in 1 .. k - 1 : Creates(rest[h], to)) => StartsStream(frame)
        BY <3>7, <2>1, <2>3, <3>2 DEF Begins
      <4>3. (\A h \in 1 .. k - 1 : ~Creates(rest[h], to)) => NextOf(more[to].frames, frame)
        BY <3>3, <3>4, <3>7, <2>1, <1>3 DEF Begins
      <4>4. Begins(more, rest, k)
        BY <4>1, <4>2, <4>3 DEF Begins
      <4> QED BY <4>4, <2>4, <3>5 DEF OrderOk
    <3> QED BY <3>6, <3>7, <2>1, <2>2, <3>1 DEF OrderOk
  <2> QED BY <2>5, <2>6
<1> QED BY <1>2, <1>4, <1>5 DEF StepsOk

-----------------------------------------------------------------------------
(* What a step does to the disk.                                           *)

LEMMA MarkedFile ==
    ASSUME NEW file \in FileSet, NEW marked,
           marked \in {[file EXCEPT !.sealed = TRUE], [file EXCEPT !.torn = TRUE]}
    PROVE  marked \in FileSet /\ marked.tracks = file.tracks /\ marked.frames = file.frames
  BY DEF FileSet

LEMMA StepKeeps ==
    ASSUME FilesOk(disk), NEW steps, StepsOk(disk, steps), steps # <<>>
    PROVE  FilesOk(Performed(Head(steps))) /\ StepsOk(Performed(Head(steps)), Tail(steps))
<1>1. Head(steps) = steps[1] /\ steps[1] \in StepSet /\ 1 \in 1 .. Len(steps)
  BY LaterSteps DEF StepsOk
<1> DEFINE more == Performed(steps[1])
<1>2. CASE steps[1].does = "create"
  <2>1. more = WithFile(steps[1].to, steps[1].file)
    BY <1>2 DEF Performed
  <2>2. Puts(disk, more, steps[1].to, steps[1].file)
    BY <2>1 DEF Puts, WithFile
  <2> HIDE DEF more
  <2>3. FilesOk(more) /\ StepsOk(more, Tail(steps))
    BY <1>2, <2>2, CreateKeeps
  <2> QED BY <1>1, <2>3 DEF more
<1>3. CASE steps[1].does = "append"
  <2>1. more = [disk EXCEPT ![steps[1].to].frames = Append(@, steps[1].frame)]
    BY <1>3 DEF Performed
  <2>2. Grows(disk, more, steps[1].to, steps[1].frame)
    BY <2>1 DEF Grows
  <2> HIDE DEF more
  <2>3. FilesOk(more) /\ StepsOk(more, Tail(steps))
    BY <1>3, <2>2, AppendKeeps
  <2> QED BY <1>1, <2>3 DEF more
<1>4. ASSUME NEW path \in DOMAIN disk PROVE disk[path] \in FileSet
  BY DEF FilesOk, FileOk
<1>5. CASE steps[1].does = "seal"
  <2>1. more = [disk EXCEPT ![steps[1].to].sealed = TRUE]
    BY <1>5 DEF Performed
  <2>2. Alike(disk, more)
    <3> SUFFICES ASSUME NEW path \in DOMAIN disk
                 PROVE  /\ more[path] \in FileSet /\ more[path].tracks = disk[path].tracks
                        /\ more[path].frames = disk[path].frames
      BY <2>1 DEF Alike
    <3>1. CASE path = steps[1].to
      <4>1. more[path] = [disk[path] EXCEPT !.sealed = TRUE]
        BY <2>1, <3>1
      <4> HIDE DEF more
      <4> QED BY <4>1, <1>4, MarkedFile
    <3>2. CASE path # steps[1].to
      BY <2>1, <3>2, <1>4
    <3> QED BY <3>1, <3>2
  <2> HIDE DEF more
  <2>3. FilesOk(more) /\ StepsOk(more, Tail(steps))
    BY <1>5, <2>2, QuietKeeps
  <2> QED BY <1>1, <2>3 DEF more
<1>6. CASE steps[1].does = "pass"
  <2>1. more = disk
    BY <1>6 DEF Performed
  <2>2. Alike(disk, more)
    BY <2>1, <1>4 DEF Alike
  <2> HIDE DEF more
  <2>3. FilesOk(more) /\ StepsOk(more, Tail(steps))
    BY <1>6, <2>2, QuietKeeps
  <2> QED BY <1>1, <2>3 DEF more
<1> QED BY <1>1, <1>2, <1>3, <1>5, <1>6, KindsOfSteps

LEMMA PartKeeps ==
    ASSUME FilesOk(disk), NEW steps, StepsOk(disk, steps), steps # <<>>
    PROVE  FilesOk(Partly(Head(steps)))
<1>1. Head(steps) = steps[1] /\ steps[1] \in StepSet /\ 1 \in 1 .. Len(steps)
  BY LaterSteps DEF StepsOk
<1> DEFINE more == Partly(steps[1])
<1>2. CASE steps[1].does = "create"
  <2> DEFINE path == steps[1].to
             file == steps[1].file
             stub == [file EXCEPT !.head = FALSE, !.frames = <<>>]
  <2>1. more = WithFile(path, stub)
    BY <1>2 DEF Partly
  <2>2. Puts(disk, more, path, stub)
    BY <2>1 DEF Puts, WithFile
  <2>3. FileOk(path, file) /\ path \in Streamed \cup {"raw"}
    BY <1>1, <1>2, KindsOfSteps DEF StepsOk, CreateOk
  <2>4. stub \in FileSet /\ stub.frames = <<>> /\ stub.tracks = file.tracks
    BY <2>3, EmptySeq DEF FileOk, FileSet
  <2>5. FileOk(path, stub)
    <3> HIDE DEF stub, path, file
    <3>1. DOMAIN stub.frames = {}
      BY <2>4
    <3>2. AllInOrder(stub.frames) /\ FrameCodecs(stub) = {}
      BY <3>1 DEF AllInOrder, FrameCodecs
    <3>3. TrackCodecs(stub) = TrackCodecs(file)
      BY <2>4 DEF TrackCodecs
    <3>4. path \notin {"picture", "sound"}
      BY <2>3 DEF Streamed, Elementary, Containers
    <3> QED BY <2>3, <2>4, <3>2, <3>3, <3>4 DEF FileOk, OneVideo
  <2>6. FilesOk(more)
    <3> HIDE DEF more, stub, path
    <3> QED BY <2>2, <2>3, <2>5, PutKeeps DEF Paths, Streamed
  <2> QED BY <1>1, <2>6
<1>3. ASSUME NEW path \in DOMAIN disk PROVE disk[path] \in FileSet
  BY DEF FilesOk, FileOk
<1>4. CASE steps[1].does \in {"append", "seal"}
  <2>1. more = [disk EXCEPT ![steps[1].to].torn = TRUE]
    BY <1>4 DEF Partly
  <2>2. Alike(disk, more)
    <3> SUFFICES ASSUME NEW path \in DOMAIN disk
                 PROVE  /\ more[path] \in FileSet /\ more[path].tracks = disk[path].tracks
                        /\ more[path].frames = disk[path].frames
      BY <2>1 DEF Alike
    <3>1. CASE path = steps[1].to
      <4>1. more[path] = [disk[path] EXCEPT !.torn = TRUE]
        BY <2>1, <3>1
      <4> HIDE DEF more
      <4> QED BY <4>1, <1>3, MarkedFile
    <3>2. CASE path # steps[1].to
      BY <2>1, <3>2, <1>3
    <3> QED BY <3>1, <3>2
  <2> QED BY <1>1, <2>2, AlikeOk
<1>5. CASE steps[1].does = "pass"
  BY <1>1, <1>5 DEF Partly
<1> QED BY <1>1, <1>2, <1>4, <1>5, KindsOfSteps

-----------------------------------------------------------------------------
(* The steps of a job that has begun: its files are created, and then they *)
(* are written to.                                                         *)

Served(steps, c, k) ==
    /\ \E h \in 1 .. c : Creates(steps[h], steps[k].to)
    /\ \A h \in 1 .. c : Creates(steps[h], steps[k].to) => steps[k].frame.codec \in TrackCodecs(steps[h].file)
InTurn(steps, c, k) ==
    \/ /\ StartsStream(steps[k].frame)
       /\ \A h \in c + 1 .. k - 1 : ~Appends(steps[h], steps[k].to, steps[k].frame.codec)
    \/ \E j \in c + 1 .. k - 1 :
          /\ Appends(steps[j], steps[k].to, steps[k].frame.codec) /\ Follows(steps[k].frame, steps[j].frame)
          /\ \A h \in j + 1 .. k - 1 : ~Appends(steps[h], steps[k].to, steps[k].frame.codec)
CreatesFirst(steps, c) ==
    /\ \A h \in 1 .. c : /\ steps[h].does = "create" /\ FileOk(steps[h].to, steps[h].file)
                         /\ steps[h].to \in Streamed => steps[h].file.frames = <<>>
    /\ \A k \in c + 1 .. Len(steps) : steps[k].does # "create"

LEMMA JobBegins ==
    ASSUME NEW files, NEW steps \in Seq(StepSet), NEW c \in 0 .. Len(steps), CreatesFirst(steps, c),
           \A k \in c + 1 .. Len(steps) : steps[k].does = "append" => Served(steps, c, k) /\ InTurn(steps, c, k)
    PROVE  StepsOk(files, steps)
<1>1. PICK n \in Nat : n = Len(steps)
  BY LenProperties
<1>2. ASSUME NEW k \in 1 .. n PROVE CreateOk(steps, k) /\ CodecOk(files, steps, k) /\ OrderOk(files, steps, k)
  <2>1. CASE k \in 1 .. c
    <3>1. \A j \in 1 .. k - 1 : j \in 1 .. c
      BY <1>1, <2>1
    <3>2. \A j \in 1 .. c : steps[j].does # "append"
      BY DEF CreatesFirst
    <3> QED BY <2>1, <3>1, <3>2 DEF CreatesFirst, CreateOk, CodecOk, OrderOk
  <2>2. CASE k \in c + 1 .. n
    <3>1. steps[k].does # "create"
      BY <1>1, <2>2 DEF CreatesFirst
    <3>2. CASE steps[k].does # "append"
      BY <3>1, <3>2 DEF CreateOk, CodecOk, OrderOk
    <3>3. CASE steps[k].does = "append"
      <4>1. Served(steps, c, k) /\ InTurn(steps, c, k)
        BY <1>1, <2>2, <3>3
      <4>2. \A h \in 1 .. c : h \in 1 .. k - 1 /\ steps[h].does = "create"
        BY <1>1, <2>2 DEF CreatesFirst
      <4>3. \A h \in 1 .. k - 1 : h \in 1 .. c \/ (h \in c + 1 .. k - 1 /\ h \in c + 1 .. n)
        BY <1>1, <2>2
      <4>4. \A h \in 1 .. k - 1 : Creates(steps[h], steps[k].to) => h \in 1 .. c
        BY <1>1, <4>3 DEF Creates, CreatesFirst
      <4>5. PICK h \in 1 .. k - 1 : Creates(steps[h], steps[k].to)
        BY <4>1, <4>2 DEF Served
      <4>6. CodecOk(files, steps, k)
        BY <4>1, <4>4, <4>5 DEF Served, CodecOk
      <4>7. CASE /\ StartsStream(steps[k].frame)
                 /\ \A i \in c + 1 .. k - 1 : ~Appends(steps[i], steps[k].to, steps[k].frame.codec)
        <5>1. \A i \in 1 .. k - 1 : ~Appends(steps[i], steps[k].to, steps[k].frame.codec)
          BY <4>2, <4>3, <4>7 DEF Appends
        <5>2. Begins(files, steps, k)
          BY <5>1, <4>5, <4>7 DEF Begins
        <5> QED BY <3>1, <4>6, <5>2 DEF OrderOk, CreateOk
      <4>8. CASE \E j \in c + 1 .. k - 1 :
                   /\ Appends(steps[j], steps[k].to, steps[k].frame.codec) /\ Follows(steps[k].frame, steps[j].frame)
                   /\ \A i \in j + 1 .. k - 1 : ~Appends(steps[i], steps[k].to, steps[k].frame.codec)
        <5>1. \A j \in c + 1 .. k - 1 : j \in 1 .. k - 1
          BY <1>1, <2>2
        <5>2. GoesOn(steps, k)
          BY <5>1, <4>8 DEF GoesOn
        <5> QED BY <3>1, <4>6, <5>2 DEF OrderOk, CreateOk
      <4> QED BY <4>1, <4>7, <4>8 DEF InTurn
    <3> QED BY <3>2, <3>3
  <2> QED BY <1>1, <2>1, <2>2
<1> QED BY <1>1, <1>2 DEF StepsOk

\* Frames in order that are written one by one, some of them left out, are
\* written in turn.
LEMMA WrittenInTurn ==
    ASSUME NEW frames \in Seq(FrameSet), AllInOrder(frames), NEW steps, NEW c \in Nat, NEW b \in Nat, c <= b,
           NEW k \in 1 .. Len(frames), StartsStream(frames[k]) => StartsStream(steps[b + k].frame),
           \A j \in 1 .. k - 1 : Appends(steps[b + j], steps[b + k].to, steps[b + k].frame.codec)
                                    => frames[j].codec = frames[k].codec,
           \A j \in 1 .. k - 1 : Follows(frames[k], frames[j])
                                    => /\ Appends(steps[b + j], steps[b + k].to, steps[b + k].frame.codec)
                                       /\ Follows(steps[b + k].frame, steps[b + j].frame),
           \A h \in c + 1 .. b : ~Appends(steps[h], steps[b + k].to, steps[b + k].frame.codec)
    PROVE  InTurn(steps, c, b + k)
<1>1. InOrder(frames, k) /\ k \in Nat \ {0}
  BY LenProperties DEF AllInOrder
<1> DEFINE Same(h) == Appends(steps[h], steps[b + k].to, steps[b + k].frame.codec)
<1>2. \A h \in b + 1 .. b + k - 1 : h - b \in 1 .. k - 1 /\ b + (h - b) = h
  BY <1>1
<1>3. ASSUME NEW i \in 0 .. k - 1, \A h \in i + 1 .. k - 1 : frames[h].codec # frames[k].codec
      PROVE  \A h \in b + i + 1 .. b + k - 1 : ~Same(h)
  <2> SUFFICES ASSUME NEW h \in b + i + 1 .. b + k - 1 PROVE ~Same(h)
    OBVIOUS
  <2>1. h - b \in i + 1 .. k - 1 /\ h - b \in 1 .. k - 1 /\ b + (h - b) = h
    BY <1>1
  <2>2. frames[h - b].codec # frames[k].codec
    BY <1>3, <2>1
  <2> HIDE DEF Same
  <2>3. Same(b + (h - b)) => frames[h - b].codec = frames[k].codec
    BY <2>1 DEF Same
  <2> QED BY <2>1, <2>2, <2>3
<1>4. CASE StartsStream(frames[k]) /\ \A j \in 1 .. k - 1 : frames[j].codec # frames[k].codec
  <2>1. \A h \in b + 0 + 1 .. b + k - 1 : ~Same(h)
    <3> HIDE DEF Same
    <3>1. 0 \in 0 .. k - 1
      BY <1>1
    <3>2. 0 + 1 = 1
      OBVIOUS
    <3>3. \A h \in 0 + 1 .. k - 1 : frames[h].codec # frames[k].codec
      BY <1>4, <3>2
    <3> QED BY <1>3, <3>1, <3>3
  <2>2. \A h \in c + 1 .. b + k - 1 : h \in c + 1 .. b \/ h \in b + 0 + 1 .. b + k - 1
    BY <1>1
  <2> QED BY <1>4, <2>1, <2>2 DEF InTurn
<1>5. CASE \E j \in 1 .. k - 1 : Follows(frames[k], frames[j]) /\ \A h \in j + 1 .. k - 1 : frames[h].codec # frames[k].codec
  <2>1. PICK j \in 1 .. k - 1 : Follows(frames[k], frames[j]) /\ \A h \in j + 1 .. k - 1 : frames[h].codec # frames[k].codec
    BY <1>5
  <2>2. \A h \in b + j + 1 .. b + k - 1 : ~Same(h)
    <3> HIDE DEF Same
    <3>1. j \in 0 .. k - 1
      BY <1>1, <2>1
    <3> QED BY <3>1, <1>3, <2>1
  <2>3. b + j \in c + 1 .. b + k - 1
    BY <1>1, <2>1
  <2>4. Same(b + j) /\ Follows(steps[b + k].frame, steps[b + j].frame)
    BY <2>1
  <2> QED BY <2>2, <2>3, <2>4 DEF InTurn
<1> QED BY <1>1, <1>4, <1>5 DEF InOrder

-----------------------------------------------------------------------------
(* The steps of each kind of job.                                          *)

LEMMA Glued ==
    ASSUME NEW S, NEW s \in Seq(S), NEW t \in Seq(S)
    PROVE  /\ s \o t \in Seq(S) /\ Len(s \o t) = Len(s) + Len(t)
           /\ \A i \in 1 .. Len(s) : (s \o t)[i] = s[i]
           /\ \A i \in 1 .. Len(t) : (s \o t)[Len(s) + i] = t[i]
  BY ConcatProperties, LenProperties

LEMMA WithIdFrame ==
    ASSUME NEW frame \in FrameSet, NEW id \in Nat
    PROVE  /\ WithId(frame, id) \in FrameSet /\ WithId(frame, id).id = id
           /\ WithId(frame, id).codec = frame.codec /\ WithId(frame, id).at = frame.at /\ WithId(frame, id).gap = frame.gap
           /\ WithId(frame, id).source = frame.source
  BY DEF WithId, FrameSet

LEMMA StepsThere ==
    /\ \A path \in Streamed \cup {"raw"}, file \in FileSet : Create(path, file) \in StepSet
    /\ \A path \in Streamed, frame \in FrameSet : Add(path, frame) \in StepSet
    /\ \A path \in Streamed : Seal(path) \in StepSet
    /\ PassOver \in StepSet
  BY DEF StepSet, Create, Add, Seal

\* A file without frames.
LEMMA EmptyFile ==
    ASSUME NEW path \in Streamed, NEW tracks \in Seq(TrackSet),
           path \in Elementary => \A i \in DOMAIN tracks : tracks[i].codec = Codec[path],
           \A i, j \in DOMAIN tracks : IsVideo(tracks[i].codec) /\ IsVideo(tracks[j].codec)
                                         => tracks[i].codec = tracks[j].codec
    PROVE  /\ File(tracks, <<>>) \in FileSet /\ FileOk(path, File(tracks, <<>>))
           /\ File(tracks, <<>>).frames = <<>> /\ File(tracks, <<>>).tracks = tracks
<1> DEFINE file == File(tracks, <<>>)
<1>1. file \in FileSet /\ file.frames = <<>> /\ file.tracks = tracks
  BY EmptySeq DEF File, FileSet
<1> HIDE DEF file
<1>2. DOMAIN file.frames = {}
  BY <1>1
<1>3. AllInOrder(file.frames) /\ FrameCodecs(file) = {}
  BY <1>2 DEF AllInOrder, FrameCodecs
<1>4. TrackCodecs(file) = {tracks[i].codec : i \in DOMAIN tracks}
  BY <1>1 DEF TrackCodecs
<1>5. path \notin {"picture", "sound"}
  BY DEF Streamed, Elementary, Containers
<1>6. OneVideo(file) /\ (path \in Elementary => TrackCodecs(file) \subseteq {Codec[path]})
  BY <1>4 DEF OneVideo
<1> QED BY <1>1, <1>3, <1>5, <1>6 DEF file, FileOk

LEMMA NewElementary ==
    ASSUME NEW path \in Elementary
    PROVE  /\ ElementaryFile(path, <<>>) \in FileSet /\ FileOk(path, ElementaryFile(path, <<>>))
           /\ ElementaryFile(path, <<>>).frames = <<>> /\ TrackCodecs(ElementaryFile(path, <<>>)) = {Codec[path]}
           /\ path \in Streamed /\ Codec[path] \in {"v1", "v2", "audio"}
<1>1. Codec[path] \in {"v1", "v2", "audio"} /\ path \in Streamed
  BY DEF Elementary, Codec, Streamed
<1> DEFINE tracks == <<Track(0, Codec[path])>>
<1>2. Track(0, Codec[path]) \in TrackSet
  BY <1>1 DEF Track, TrackSet, Codecs
<1>3. tracks \in Seq(TrackSet) /\ DOMAIN tracks = {1} /\ tracks[1].codec = Codec[path]
  BY <1>2 DEF Track
<1> HIDE DEF tracks
<1>4. /\ File(tracks, <<>>) \in FileSet /\ FileOk(path, File(tracks, <<>>))
      /\ File(tracks, <<>>).frames = <<>> /\ File(tracks, <<>>).tracks = tracks
  BY <1>1, <1>3, EmptyFile
<1>5. TrackCodecs(File(tracks, <<>>)) = {Codec[path]}
  BY <1>3, <1>4 DEF TrackCodecs
<1> QED BY <1>1, <1>4, <1>5 DEF ElementaryFile, tracks

\* encode_raw_video, encode_raw_audio, encode_square_gray_raw_to_srsv2_elementary
LEMMA EncodeBegins ==
    ASSUME FilesOk(disk), NEW path \in Elementary, Exists(RawInput(path))
    PROVE  StepsOk(disk, EncodeSteps(path))
<1> DEFINE input == disk[RawInput(path)]
           frame == Frame(Codec[path], input.frames[1].source, 0, "intra")
           steps == EncodeSteps(path)
<1>1. RawInput(path) \in {"picture", "sound"}
  BY DEF RawInput
<1>2. input \in FileSet /\ Len(input.frames) = 1
  BY <1>1 DEF FilesOk, FileOk, Exists
<1>3. input.frames[1] \in FrameSet
  <2>1. input.frames \in Seq(FrameSet) /\ 1 \in 1 .. Len(input.frames)
    BY <1>2, FieldsOf
  <2> HIDE DEF input
  <2> QED BY <2>1, ElementOfSeq
<1>4. frame \in FrameSet /\ frame.at = 0 /\ frame.codec = Codec[path]
  BY <1>3, NewElementary DEF FrameSet, Frame, FrameKinds, Codecs
<1>5. Create(path, ElementaryFile(path, <<>>)) \in StepSet /\ Add(path, frame) \in StepSet
  <2> HIDE DEF frame
  <2> QED BY <1>4, StepsThere, NewElementary
<1>6. /\ steps \in Seq(StepSet) /\ Len(steps) = 2 /\ steps[1] = Create(path, ElementaryFile(path, <<>>))
      /\ steps[2] = Add(path, frame)
  BY <1>5 DEF EncodeSteps
<1> HIDE DEF steps, frame
<1>7. CreatesFirst(steps, 1)
  BY <1>6, NewElementary DEF CreatesFirst, Create, Add
<1>8. Served(steps, 1, 2)
  BY <1>4, <1>6, NewElementary DEF Served, Creates, Create, Add
<1>9. InTurn(steps, 1, 2)
  BY <1>4, <1>6 DEF InTurn, Add, StartsStream
<1>10. \A k \in 1 + 1 .. Len(steps) : k = 2
  BY <1>6
<1>11. \A k \in 1 + 1 .. Len(steps) : steps[k].does = "append" => Served(steps, 1, k) /\ InTurn(steps, 1, k)
  BY <1>8, <1>9, <1>10
<1>12. StepsOk(disk, steps)
  <2>1. 1 \in 0 .. Len(steps)
    BY <1>6
  <2> QED BY <1>6, <1>7, <1>11, <2>1, JobBegins
<1> QED BY <1>12 DEF steps

\* decode_native_to_raw
LEMMA DecodeBegins ==
    ASSUME FilesOk(disk), NEW path \in Elementary, Exists(path)
    PROVE  StepsOk(disk, <<Create("raw", File(<<>>, disk[path].frames))>>)
<1> DEFINE file == File(<<>>, disk[path].frames)
           steps == <<Create("raw", file)>>
<1>1. disk[path].frames \in Seq(FrameSet) /\ AllInOrder(disk[path].frames)
  BY FieldsOf DEF FilesOk, FileOk, Exists
<1>2. file \in FileSet /\ file.frames = disk[path].frames /\ file.tracks = <<>>
  BY <1>1, EmptySeq DEF File, FileSet
<1>3. TrackCodecs(file) = {}
  BY <1>2 DEF TrackCodecs
<1>4. "raw" \notin Streamed /\ "raw" \notin Elementary
  BY DEF Streamed, Elementary, Containers
<1>5. FileOk("raw", file)
  BY <1>1, <1>2, <1>3, <1>4 DEF FileOk, OneVideo
<1> HIDE DEF file
<1>6. steps \in Seq(StepSet) /\ Len(steps) = 1 /\ steps[1] = Create("raw", file)
  <2>1. Create("raw", file) \in StepSet
    BY <1>2, StepsThere
  <2> QED BY <2>1
<1> HIDE DEF steps
<1>7. CreatesFirst(steps, 1)
  BY <1>4, <1>5, <1>6 DEF CreatesFirst, Create
<1>8. \A k \in 1 + 1 .. Len(steps) : FALSE
  BY <1>6
<1>9. StepsOk(disk, steps)
  <2>1. 1 \in 0 .. Len(steps)
    BY <1>6
  <2> QED BY <1>6, <1>7, <1>8, <2>1, JobBegins
<1> QED BY <1>9 DEF steps, file

LEMMA LeastNumber ==
    ASSUME NEW set \in SUBSET Nat, set # {}
    PROVE  \E x \in set : \A y \in set : x <= y
<1>1. \E x \in set : \A y \in set : ~(<<y, x>> \in OpToRel(<, Nat))
  BY NatLessThanWellFounded, WFMin
<1>2. \E x \in set : \A y \in set : ~(y < x)
  BY <1>1 DEF OpToRel
<1> QED BY <1>2

LEMMA CutAt ==
    ASSUME NEW S, NEW list \in Seq(S), NEW n \in 0 .. Len(list)
    PROVE  /\ SubSeq(list, 1, n) \in Seq(S) /\ Len(SubSeq(list, 1, n)) = n
           /\ \A i \in 1 .. n : SubSeq(list, 1, n)[i] = list[i]
<1>1. Len(list) \in Nat /\ DOMAIN list = 1 .. Len(list)
  BY LenProperties
<1> QED BY <1>1, SMT

\* What comes before the first bad one.
Before(list, bad) == IF bad = {} THEN list ELSE SubSeq(list, 1, (CHOOSE i \in bad : \A j \in bad : i <= j) - 1)

LEMMA BeforeBad ==
    ASSUME NEW S, NEW list \in Seq(S), NEW bad \in SUBSET (DOMAIN list)
    PROVE  /\ Len(Before(list, bad)) \in 0 .. Len(list) /\ Before(list, bad) \in Seq(S)
           /\ DOMAIN Before(list, bad) = 1 .. Len(Before(list, bad))
           /\ \A i \in 1 .. Len(Before(list, bad)) :
                 i \in 1 .. Len(list) /\ Before(list, bad)[i] = list[i] /\ i \notin bad
<1> DEFINE good == Before(list, bad)
<1>0. good = IF bad = {} THEN list ELSE SubSeq(list, 1, (CHOOSE i \in bad : \A j \in bad : i <= j) - 1)
  BY DEF Before
<1> HIDE DEF good
<1>1. PICK m \in Nat : m = Len(list) /\ DOMAIN list = 1 .. m
  BY LenProperties
<1>2. CASE bad = {}
  BY <1>0, <1>1, <1>2 DEF good
<1>3. CASE bad # {}
  <2>1. bad \in SUBSET Nat
    BY <1>1
  <2>2. \E x \in bad : \A y \in bad : x <= y
    BY <1>3, <2>1, LeastNumber
  <2>3. PICK x \in bad : x = (CHOOSE i \in bad : \A j \in bad : i <= j) /\ \A j \in bad : x <= j
    BY <2>2
  <2>4. x \in 1 .. m /\ good = SubSeq(list, 1, x - 1)
    BY <1>0, <1>1, <1>3, <2>3
  <2>5. good \in Seq(S) /\ Len(good) = x - 1 /\ \A i \in 1 .. x - 1 : good[i] = list[i]
    <3>1. x - 1 \in 0 .. Len(list)
      BY <1>1, <2>4
    <3>2. /\ SubSeq(list, 1, x - 1) \in Seq(S) /\ Len(SubSeq(list, 1, x - 1)) = x - 1
          /\ \A i \in 1 .. x - 1 : SubSeq(list, 1, x - 1)[i] = list[i]
      BY <3>1, CutAt
    <3> QED BY <2>4, <3>2
  <2>6. \A i \in 1 .. x - 1 : i \in 1 .. m /\ i \notin bad
    BY <2>3, <2>4
  <2> QED BY <1>1, <2>4, <2>5, <2>6, LenProperties DEF good
<1> QED BY <1>2, <1>3

LEMMA KnownFrames ==
    ASSUME NEW frames \in Seq(FrameSet)
    PROVE  Len(Known(frames)) \in 0 .. Len(frames) /\ DOMAIN Known(frames) = 1 .. Len(Known(frames))
<1> DEFINE bad == {i \in DOMAIN frames : frames[i].kind = "unknown"}
<1>1. bad \in SUBSET (DOMAIN frames)
  OBVIOUS
<1>2. Known(frames) = Before(frames, bad)
  BY DEF Known, Before
<1> HIDE DEF bad
<1> QED BY <1>1, <1>2, BeforeBad

\* What a track of the container is made of: some frames of an elementary stream.
LEMMA MuxedFrom ==
    ASSUME FilesOk(disk), NEW path \in Elementary, Exists(path), NEW id \in Nat
    PROVE  /\ disk[path].frames \in Seq(FrameSet) /\ AllInOrder(disk[path].frames)
           /\ \A i \in 1 .. Len(disk[path].frames) : disk[path].frames[i] \in FrameSet
                                                    /\ disk[path].frames[i].codec = Codec[path]
           /\ \E n \in 0 .. Len(disk[path].frames) :
                 MuxedFrames(path, id) = [i \in 1 .. n |-> WithId(disk[path].frames[i], id)]
<1> DEFINE frames == disk[path].frames
<1>1. FileOk(path, disk[path])
  BY DEF FilesOk, Exists
<1>2. frames \in Seq(FrameSet) /\ AllInOrder(frames)
  BY <1>1, FieldsOf DEF FileOk
<1>3. \A i \in 1 .. Len(frames) : frames[i] \in FrameSet /\ frames[i].codec = Codec[path]
  <2> SUFFICES ASSUME NEW i \in 1 .. Len(frames) PROVE frames[i] \in FrameSet /\ frames[i].codec = Codec[path]
    OBVIOUS
  <2>1. i \in DOMAIN frames /\ frames[i] \in FrameSet
    <3> HIDE DEF frames
    <3> QED BY <1>2, LenProperties, ElementOfSeq
  <2>2. frames[i].codec \in FrameCodecs(disk[path])
    BY <2>1 DEF FrameCodecs
  <2> QED BY <2>1, <2>2, <1>1 DEF FileOk, Streamed
<1>4. PICK n \in 0 .. Len(frames) : DOMAIN Known(frames) = 1 .. n
  <2> HIDE DEF frames
  <2> QED BY <1>2, KnownFrames
<1>5. MuxedFrames(path, id) = [i \in 1 .. n |-> WithId(frames[i], id)]
  BY <1>4 DEF MuxedFrames
<1> QED BY <1>2, <1>3, <1>4, <1>5

\* finalize comes last
LEMMA SealLast ==
    ASSUME NEW files, NEW steps, StepsOk(files, steps), NEW path \in Streamed
    PROVE  StepsOk(files, Append(steps, Seal(path)))
<1> DEFINE more == Append(steps, Seal(path))
<1>1. PICK n \in Nat : n = Len(steps) /\ steps \in Seq(StepSet)
  BY LenProperties DEF StepsOk
<1>2. Seal(path) \in StepSet /\ Seal(path).does = "seal"
  BY StepsThere DEF Seal
<1>3. more \in Seq(StepSet) /\ Len(more) = n + 1 /\ more[n + 1] = Seal(path) /\ \A i \in 1 .. n : more[i] = steps[i]
  BY <1>1, <1>2, AppendProperties
<1> HIDE DEF more
<1>4. ASSUME NEW k \in 1 .. n PROVE CreateOk(more, k) /\ CodecOk(files, more, k) /\ OrderOk(files, more, k)
  <2>1. CreateOk(steps, k) /\ CodecOk(files, steps, k) /\ OrderOk(files, steps, k)
    BY <1>1 DEF StepsOk
  <2>2. more[k] = steps[k] /\ \A j \in 1 .. k - 1 : more[j] = steps[j]
    BY <1>3
  <2>3. CreateOk(more, k)
    BY <2>1, <2>2 DEF CreateOk
  <2>4. CodecOk(files, more, k)
    BY <2>1, <2>2 DEF CodecOk
  <2>5. OrderOk(files, more, k)
    <3>1. \A j \in 1 .. k - 1 : \A h \in j + 1 .. k - 1 : h \in 1 .. k - 1
      OBVIOUS
    <3>2. GoesOn(steps, k) => GoesOn(more, k)
      BY <2>2, <3>1 DEF GoesOn
    <3>3. Begins(files, steps, k) => Begins(files, more, k)
      BY <2>2 DEF Begins
    <3> QED BY <2>1, <2>2, <3>2, <3>3 DEF OrderOk
  <2> QED BY <2>3, <2>4, <2>5
<1>5. CreateOk(more, n + 1) /\ CodecOk(files, more, n + 1) /\ OrderOk(files, more, n + 1)
  BY <1>2, <1>3 DEF CreateOk, CodecOk, OrderOk
<1>6. \A k \in 1 .. n + 1 : k \in 1 .. n \/ k = n + 1
  OBVIOUS
<1>7. StepsOk(files, more)
  BY <1>3, <1>4, <1>5, <1>6 DEF StepsOk
<1> QED BY <1>7 DEF more

LEMMA VideoIsOne ==
    \/ VideoInput = {}
    \/ \E path \in {"srsv2", "srsv"} : VideoInput = {path} /\ Exists(path) /\ (CHOOSE p \in VideoInput : TRUE) = path
  BY DEF VideoInput

LEMMA AudioIsOne ==
    AudioInput = {} \/ (AudioInput = {"srsa"} /\ Exists("srsa"))
  BY DEF AudioInput

LEMMA OneTrack ==
    ASSUME NEW track \in TrackSet
    PROVE  /\ <<track>> \in Seq(TrackSet) /\ Len(<<track>>) = 1 /\ <<track>>[1] = track
           /\ <<>> \in Seq(TrackSet) /\ Len(<<>>) = 0
  BY EmptySeq

\* The tracks of a container: one for video or none, and one for sound or none.
LEMMA TwoTracks ==
    ASSUME NEW video \in TrackSet, NEW sound \in TrackSet, video.codec # "audio", sound.codec = "audio",
           NEW s \in Seq(TrackSet), Len(s) = 0 \/ (Len(s) = 1 /\ s[1] = video),
           NEW t \in Seq(TrackSet), Len(t) = 0 \/ (Len(t) = 1 /\ t[1] = sound), NEW tracks, tracks = s \o t
    PROVE  /\ tracks \in Seq(TrackSet)
           /\ \A i \in DOMAIN tracks : \/ Len(s) = 1 /\ tracks[i].codec = video.codec
                                       \/ Len(t) = 1 /\ tracks[i].codec = "audio"
           /\ Len(s) = 1 => \E i \in DOMAIN tracks : tracks[i].codec = video.codec
           /\ Len(t) = 1 => \E i \in DOMAIN tracks : tracks[i].codec = "audio"
<1>1. /\ tracks \in Seq(TrackSet) /\ Len(tracks) = Len(s) + Len(t)
      /\ \A i \in 1 .. Len(s) : tracks[i] = s[i]
      /\ \A i \in 1 .. Len(t) : tracks[Len(s) + i] = t[i]
  BY Glued
<1>2. DOMAIN tracks = 1 .. Len(s) + Len(t)
  BY <1>1, LenProperties
<1>3. CASE Len(s) = 0 /\ Len(t) = 0
  <2>1. DOMAIN tracks = 1 .. 0
    BY <1>2, <1>3
  <2> QED BY <1>1, <1>3, <2>1
<1>4. CASE Len(s) = 0 /\ Len(t) = 1
  <2>1. DOMAIN tracks = {1} /\ tracks[1] = sound
    BY <1>1, <1>2, <1>4
  <2> QED BY <1>1, <1>4, <2>1
<1>5. CASE Len(s) = 1 /\ Len(t) = 0
  <2>1. DOMAIN tracks = {1} /\ tracks[1] = video
    BY <1>1, <1>2, <1>5
  <2> QED BY <1>1, <1>5, <2>1
<1>6. CASE Len(s) = 1 /\ Len(t) = 1
  <2>1. DOMAIN tracks = {1, 2} /\ tracks[1] = video /\ tracks[2] = sound
    BY <1>1, <1>2, <1>6
  <2> QED BY <1>1, <1>6, <2>1
<1> QED BY <1>3, <1>4, <1>5, <1>6

LEMMA MuxTracksOk ==
    /\ MuxTracks \in Seq(TrackSet)
    /\ {MuxTracks[i].codec : i \in DOMAIN MuxTracks} = {Codec[path] : path \in VideoInput \cup AudioInput}
    /\ \A i, j \in DOMAIN MuxTracks : IsVideo(MuxTracks[i].codec) /\ IsVideo(MuxTracks[j].codec)
                                        => MuxTracks[i].codec = MuxTracks[j].codec
<1> DEFINE path == IF VideoInput = {} THEN "srsv" ELSE CHOOSE p \in VideoInput : TRUE
           video == Track(1, Codec[path])
           sound == Track(2, "audio")
           s == IF VideoInput = {} THEN <<>> ELSE <<video>>
           t == IF AudioInput = {} THEN <<>> ELSE <<sound>>
<1>1. Codec["srsv2"] = "v2" /\ Codec["srsv"] = "v1" /\ Codec["srsa"] = "audio"
  BY DEF Codec
<1>2. path \in {"srsv2", "srsv"} /\ (VideoInput # {} => VideoInput = {path})
  BY VideoIsOne
<1>3. video \in TrackSet /\ video.codec = Codec[path] /\ Codec[path] # "audio" /\ sound \in TrackSet /\ sound.codec = "audio"
  BY <1>1, <1>2 DEF Track, TrackSet, Codecs
<1>4. MuxTracks = s \o t
  BY DEF MuxTracks
<1> HIDE DEF path, video, sound
<1>5. /\ s \in Seq(TrackSet) /\ (Len(s) = 0 \/ (Len(s) = 1 /\ s[1] = video))
      /\ t \in Seq(TrackSet) /\ (Len(t) = 0 \/ (Len(t) = 1 /\ t[1] = sound))
      /\ (Len(s) = 1) <=> (VideoInput # {})
      /\ (Len(t) = 1) <=> (AudioInput # {})
  BY <1>3, OneTrack
<1> HIDE DEF s, t
<1>6. /\ MuxTracks \in Seq(TrackSet)
      /\ \A i \in DOMAIN MuxTracks : \/ Len(s) = 1 /\ MuxTracks[i].codec = video.codec
                                     \/ Len(t) = 1 /\ MuxTracks[i].codec = "audio"
      /\ Len(s) = 1 => \E i \in DOMAIN MuxTracks : MuxTracks[i].codec = video.codec
      /\ Len(t) = 1 => \E i \in DOMAIN MuxTracks : MuxTracks[i].codec = "audio"
  BY <1>3, <1>4, <1>5, TwoTracks
<1>7. \A codec : codec \in {Codec[p] : p \in VideoInput \cup AudioInput}
                    <=> (VideoInput # {} /\ codec = Codec[path]) \/ (AudioInput # {} /\ codec = "audio")
  BY <1>1, <1>2, AudioIsOne
<1>8. {MuxTracks[i].codec : i \in DOMAIN MuxTracks} = {Codec[p] : p \in VideoInput \cup AudioInput}
  <2>1. ASSUME NEW codec, \E i \in DOMAIN MuxTracks : MuxTracks[i].codec = codec
        PROVE  (VideoInput # {} /\ codec = Codec[path]) \/ (AudioInput # {} /\ codec = "audio")
    BY <1>3, <1>5, <1>6, <2>1
  <2>2. ASSUME VideoInput # {} PROVE \E i \in DOMAIN MuxTracks : MuxTracks[i].codec = Codec[path]
    BY <1>3, <1>5, <1>6, <2>2
  <2>3. ASSUME AudioInput # {} PROVE \E i \in DOMAIN MuxTracks : MuxTracks[i].codec = "audio"
    BY <1>5, <1>6, <2>3
  <2>4. ASSUME NEW codec
        PROVE  codec \in {MuxTracks[i].codec : i \in DOMAIN MuxTracks} <=> codec \in {Codec[p] : p \in VideoInput \cup AudioInput}
    BY <1>7, <2>1, <2>2, <2>3
  <2> QED BY <2>4
<1>9. ~IsVideo("audio")
  BY DEF IsVideo
<1> QED BY <1>6, <1>8, <1>9

\* mux_elementary_streams: the frames of the video, and then those of the sound
LEMMA MuxBegins ==
    ASSUME FilesOk(disk)
    PROVE  StepsOk(disk, MuxSteps)
<1> DEFINE videoCodecs == {Codec[path] : path \in VideoInput}
           audioCodecs == {Codec[path] : path \in AudioInput}
           file == File(MuxTracks, <<>>)
<1>1. /\ \A codec \in videoCodecs : codec # "audio"
      /\ \A codec \in audioCodecs : codec = "audio"
  BY VideoIsOne, AudioIsOne DEF Codec
<1>2. PICK video \in Seq(FrameSet) :
        /\ AllInOrder(video)
        /\ \A i \in 1 .. Len(video) : video[i] \in FrameSet /\ video[i].codec \in videoCodecs
        /\ \E n \in 0 .. Len(video) : MuxedVideo = [i \in 1 .. n |-> WithId(video[i], 1)]
  <2>1. CASE VideoInput = {}
    <3>1. \E none \in Seq(FrameSet) : Len(none) = 0
      BY EmptySeq
    <3>2. PICK none \in Seq(FrameSet) : Len(none) = 0
      BY <3>1
    <3>3. AllInOrder(none)
      <4>1. DOMAIN none = 1 .. 0
        BY <3>2, LenProperties
      <4> QED BY <4>1 DEF AllInOrder
    <3>4. MuxedVideo = [i \in 1 .. 0 |-> WithId(none[i], 1)]
      BY <2>1 DEF MuxedVideo
    <3>5. 0 \in 0 .. Len(none) /\ \A i \in 1 .. Len(none) : FALSE
      BY <3>2
    <3> QED BY <3>3, <3>4, <3>5
  <2>2. CASE VideoInput # {}
    <3>1. PICK path \in {"srsv2", "srsv"} :
            VideoInput = {path} /\ Exists(path) /\ (CHOOSE p \in VideoInput : TRUE) = path
      BY <2>2, VideoIsOne
    <3>2. MuxedVideo = MuxedFrames(path, 1)
      BY <2>2, <3>1 DEF MuxedVideo
    <3>3. path \in Elementary /\ Codec[path] \in videoCodecs
      BY <3>1 DEF Elementary
    <3>4. /\ disk[path].frames \in Seq(FrameSet) /\ AllInOrder(disk[path].frames)
          /\ \A i \in 1 .. Len(disk[path].frames) : disk[path].frames[i] \in FrameSet
                                                   /\ disk[path].frames[i].codec = Codec[path]
          /\ \E n \in 0 .. Len(disk[path].frames) :
                MuxedFrames(path, 1) = [i \in 1 .. n |-> WithId(disk[path].frames[i], 1)]
      BY <3>1, <3>3, MuxedFrom
    <3> HIDE DEF videoCodecs
    <3> QED BY <3>2, <3>3, <3>4
  <2> QED BY <2>1, <2>2
<1>3. PICK audio \in Seq(FrameSet) :
        /\ AllInOrder(audio)
        /\ \A i \in 1 .. Len(audio) : audio[i] \in FrameSet /\ audio[i].codec \in audioCodecs
        /\ \E n \in 0 .. Len(audio) : MuxedAudio = [i \in 1 .. n |-> WithId(audio[i], 2)]
  <2>1. CASE AudioInput = {} \/ \E path \in VideoInput : Stops(path)
    <3>1. \E none \in Seq(FrameSet) : Len(none) = 0
      BY EmptySeq
    <3>2. PICK none \in Seq(FrameSet) : Len(none) = 0
      BY <3>1
    <3>3. AllInOrder(none)
      <4>1. DOMAIN none = 1 .. 0
        BY <3>2, LenProperties
      <4> QED BY <4>1 DEF AllInOrder
    <3>4. MuxedAudio = [i \in 1 .. 0 |-> WithId(none[i], 2)]
      BY <2>1 DEF MuxedAudio
    <3>5. 0 \in 0 .. Len(none) /\ \A i \in 1 .. Len(none) : FALSE
      BY <3>2
    <3> QED BY <3>3, <3>4, <3>5
  <2>2. CASE ~(AudioInput = {} \/ \E path \in VideoInput : Stops(path))
    <3>1. AudioInput = {"srsa"} /\ Exists("srsa")
      BY <2>2, AudioIsOne
    <3>2. MuxedAudio = MuxedFrames("srsa", 2)
      BY <2>2, <3>1 DEF MuxedAudio
    <3>3. "srsa" \in Elementary /\ Codec["srsa"] \in audioCodecs
      BY <3>1 DEF Elementary
    <3>4. /\ disk["srsa"].frames \in Seq(FrameSet) /\ AllInOrder(disk["srsa"].frames)
          /\ \A i \in 1 .. Len(disk["srsa"].frames) : disk["srsa"].frames[i] \in FrameSet
                                                     /\ disk["srsa"].frames[i].codec = Codec["srsa"]
          /\ \E n \in 0 .. Len(disk["srsa"].frames) :
                MuxedFrames("srsa", 2) = [i \in 1 .. n |-> WithId(disk["srsa"].frames[i], 2)]
      BY <3>1, <3>3, MuxedFrom
    <3> HIDE DEF audioCodecs
    <3> QED BY <3>2, <3>3, <3>4
  <2> QED BY <2>1, <2>2
<1>4. PICK nv \in Nat : nv <= Len(video) /\ MuxedVideo = [i \in 1 .. nv |-> WithId(video[i], 1)]
  BY <1>2, LenProperties
<1>5. PICK na \in Nat : na <= Len(audio) /\ MuxedAudio = [i \in 1 .. na |-> WithId(audio[i], 2)]
  BY <1>3, LenProperties
<1>6. ASSUME NEW frame \in FrameSet, NEW id \in {1, 2}
      PROVE  /\ Add("528", WithId(frame, id)) \in StepSet
             /\ Add("528", WithId(frame, id)).does = "append" /\ Add("528", WithId(frame, id)).to = "528"
             /\ Add("528", WithId(frame, id)).frame = WithId(frame, id)
             /\ WithId(frame, id).codec = frame.codec /\ WithId(frame, id).at = frame.at /\ WithId(frame, id).gap = frame.gap
  <2>1. WithId(frame, id) \in FrameSet /\ WithId(frame, id).codec = frame.codec /\ WithId(frame, id).at = frame.at /\ WithId(frame, id).gap = frame.gap
    <3>1. id \in Nat
      OBVIOUS
    <3> QED BY <3>1, WithIdFrame
  <2> HIDE DEF WithId
  <2>2. Add("528", WithId(frame, id)) \in StepSet
    BY <2>1, StepsThere DEF Streamed, Containers
  <2> QED BY <2>1, <2>2 DEF Add
<1>7. /\ file \in FileSet /\ FileOk("528", file) /\ file.frames = <<>>
      /\ TrackCodecs(file) = videoCodecs \cup audioCodecs
  <2>1. "528" \in Streamed /\ "528" \notin Elementary
    BY DEF Streamed, Elementary, Containers
  <2>2. file \in FileSet /\ FileOk("528", file) /\ file.frames = <<>> /\ file.tracks = MuxTracks
    BY <2>1, MuxTracksOk, EmptyFile
  <2>3. TrackCodecs(file) = {MuxTracks[i].codec : i \in DOMAIN MuxTracks}
    BY <2>2 DEF TrackCodecs
  <2> QED BY <2>2, <2>3, MuxTracksOk
<1>8. Create("528", file) \in StepSet
  BY <1>7, StepsThere DEF Streamed, Containers
<1> HIDE DEF file, videoCodecs, audioCodecs
<1> DEFINE first == <<Create("528", file)>>
           pictures == AppendAll("528", MuxedVideo)
           sounds == AppendAll("528", MuxedAudio)
           steps == MuxSteps
<1>9. first \in Seq(StepSet) /\ Len(first) = 1 /\ first[1] = Create("528", file)
  BY <1>8
<1>10. pictures \in Seq(StepSet) /\ Len(pictures) = nv /\ \A i \in 1 .. nv : pictures[i] = Add("528", WithId(video[i], 1)) /\ video[i] \in FrameSet
  <2>1. pictures = [i \in 1 .. nv |-> Add("528", WithId(video[i], 1))]
    BY <1>4 DEF AppendAll
  <2>2. \A i \in 1 .. nv : i \in 1 .. Len(video)
    BY <1>4, LenProperties
  <2>3. \A i \in 1 .. nv : video[i] \in FrameSet /\ Add("528", WithId(video[i], 1)) \in StepSet
    BY <1>2, <1>6, <2>2
  <2> HIDE DEF pictures
  <2> QED BY <2>1, <2>3
<1>11. sounds \in Seq(StepSet) /\ Len(sounds) = na /\ \A i \in 1 .. na : sounds[i] = Add("528", WithId(audio[i], 2)) /\ audio[i] \in FrameSet
  <2>1. sounds = [i \in 1 .. na |-> Add("528", WithId(audio[i], 2))]
    BY <1>5 DEF AppendAll
  <2>2. \A i \in 1 .. na : i \in 1 .. Len(audio)
    BY <1>5, LenProperties
  <2>3. \A i \in 1 .. na : audio[i] \in FrameSet /\ Add("528", WithId(audio[i], 2)) \in StepSet
    BY <1>3, <1>6, <2>2
  <2> HIDE DEF sounds
  <2> QED BY <2>1, <2>3
<1>12. steps = (first \o pictures) \o sounds
  BY DEF MuxSteps, file
<1> HIDE DEF first, pictures, sounds, steps
<1>13. /\ steps \in Seq(StepSet) /\ Len(steps) = 1 + nv + na /\ steps[1] = Create("528", file)
       /\ \A i \in 1 .. nv : steps[1 + i] = Add("528", WithId(video[i], 1))
       /\ \A i \in 1 .. na : steps[1 + nv + i] = Add("528", WithId(audio[i], 2))
  <2> DEFINE begun == first \o pictures
  <2>2. /\ begun \in Seq(StepSet) /\ Len(begun) = 1 + nv /\ begun[1] = first[1]
        /\ \A i \in 1 .. nv : begun[1 + i] = pictures[i]
    <3>1. first \in Seq(StepSet) /\ pictures \in Seq(StepSet)
      BY <1>9, <1>10
    <3>2. /\ first \o pictures \in Seq(StepSet) /\ Len(first \o pictures) = Len(first) + Len(pictures)
          /\ \A i \in 1 .. Len(first) : (first \o pictures)[i] = first[i]
          /\ \A i \in 1 .. Len(pictures) : (first \o pictures)[Len(first) + i] = pictures[i]
      BY <3>1, Glued
    <3> QED BY <1>9, <1>10, <3>2
  <2>1. steps = begun \o sounds
    BY <1>12
  <2> HIDE DEF begun
  <2>3. /\ steps \in Seq(StepSet) /\ Len(steps) = 1 + nv + na
        /\ \A i \in 1 .. 1 + nv : steps[i] = begun[i]
        /\ \A i \in 1 .. na : steps[1 + nv + i] = sounds[i]
    <3>1. begun \in Seq(StepSet) /\ sounds \in Seq(StepSet)
      BY <1>11, <2>2
    <3>2. /\ begun \o sounds \in Seq(StepSet) /\ Len(begun \o sounds) = Len(begun) + Len(sounds)
          /\ \A i \in 1 .. Len(begun) : (begun \o sounds)[i] = begun[i]
          /\ \A i \in 1 .. Len(sounds) : (begun \o sounds)[Len(begun) + i] = sounds[i]
      BY <3>1, Glued
    <3> QED BY <1>11, <2>1, <2>2, <3>2
  <2>4. 1 \in 1 .. 1 + nv /\ \A i \in 1 .. nv : 1 + i \in 1 .. 1 + nv
    OBVIOUS
  <2> QED BY <1>9, <1>10, <1>11, <2>2, <2>3, <2>4
<1>14. \A k \in 1 + 1 .. 1 + nv + na : \/ k - 1 \in 1 .. nv /\ 1 + (k - 1) = k
                                       \/ k - 1 - nv \in 1 .. na /\ 1 + nv + (k - 1 - nv) = k
  OBVIOUS
<1>15. /\ \A i \in 1 .. nv : /\ steps[1 + i].does = "append" /\ steps[1 + i].to = "528"
                             /\ steps[1 + i].frame = WithId(video[i], 1)
                             /\ steps[1 + i].frame.at = video[i].at /\ steps[1 + i].frame.gap = video[i].gap
                             /\ steps[1 + i].frame.codec = video[i].codec /\ video[i].codec \in videoCodecs
       /\ \A i \in 1 .. na : /\ steps[1 + nv + i].does = "append" /\ steps[1 + nv + i].to = "528"
                             /\ steps[1 + nv + i].frame = WithId(audio[i], 2)
                             /\ steps[1 + nv + i].frame.at = audio[i].at /\ steps[1 + nv + i].frame.gap = audio[i].gap
                             /\ steps[1 + nv + i].frame.codec = audio[i].codec /\ audio[i].codec \in audioCodecs
  <2>1. ASSUME NEW i \in 1 .. nv
        PROVE  /\ steps[1 + i].does = "append" /\ steps[1 + i].to = "528"
               /\ steps[1 + i].frame = WithId(video[i], 1)
               /\ steps[1 + i].frame.at = video[i].at /\ steps[1 + i].frame.gap = video[i].gap
               /\ steps[1 + i].frame.codec = video[i].codec /\ video[i].codec \in videoCodecs
    <3>1. i \in 1 .. Len(video)
      BY <1>4, LenProperties
    <3>2. video[i] \in FrameSet /\ video[i].codec \in videoCodecs /\ steps[1 + i] = Add("528", WithId(video[i], 1))
      BY <1>2, <1>13, <3>1
    <3> QED BY <1>6, <3>2
  <2>2. ASSUME NEW i \in 1 .. na
        PROVE  /\ steps[1 + nv + i].does = "append" /\ steps[1 + nv + i].to = "528"
               /\ steps[1 + nv + i].frame = WithId(audio[i], 2)
               /\ steps[1 + nv + i].frame.at = audio[i].at /\ steps[1 + nv + i].frame.gap = audio[i].gap
               /\ steps[1 + nv + i].frame.codec = audio[i].codec /\ audio[i].codec \in audioCodecs
    <3>1. i \in 1 .. Len(audio)
      BY <1>5, LenProperties
    <3>2. audio[i] \in FrameSet /\ audio[i].codec \in audioCodecs /\ steps[1 + nv + i] = Add("528", WithId(audio[i], 2))
      BY <1>3, <1>13, <3>1
    <3> QED BY <1>6, <3>2
  <2> QED BY <2>1, <2>2
<1>16. CreatesFirst(steps, 1)
  <2>1. \A k \in 1 + 1 .. Len(steps) : steps[k].does # "create"
    BY <1>13, <1>14, <1>15
  <2>2. steps[1].does = "create" /\ steps[1].to = "528" /\ steps[1].file = file
    BY <1>13 DEF Create
  <2> QED BY <1>7, <2>1, <2>2 DEF CreatesFirst
<1>17. \A k \in 1 + 1 .. Len(steps) : steps[k].to = "528" /\ steps[k].frame.codec \in TrackCodecs(file)
  <2> SUFFICES ASSUME NEW k \in 1 + 1 .. 1 + nv + na
               PROVE  steps[k].to = "528" /\ steps[k].frame.codec \in videoCodecs \cup audioCodecs
    BY <1>7, <1>13
  <2>1. CASE k - 1 \in 1 .. nv /\ 1 + (k - 1) = k
    <3>1. steps[1 + (k - 1)].to = "528" /\ steps[1 + (k - 1)].frame.codec \in videoCodecs
      BY <1>15, <2>1
    <3> QED BY <2>1, <3>1
  <2>2. CASE k - 1 - nv \in 1 .. na /\ 1 + nv + (k - 1 - nv) = k
    <3>1. steps[1 + nv + (k - 1 - nv)].to = "528" /\ steps[1 + nv + (k - 1 - nv)].frame.codec \in audioCodecs
      BY <1>15, <2>2
    <3> QED BY <2>2, <3>1
  <2> QED BY <1>14, <2>1, <2>2
<1>18. \A k \in 1 + 1 .. Len(steps) : Served(steps, 1, k)
  <2>1. steps[1].does = "create" /\ steps[1].to = "528" /\ steps[1].file = file
    BY <1>13 DEF Create
  <2> QED BY <1>17, <2>1 DEF Served, Creates
<1>19. ASSUME NEW i \in 1 .. nv PROVE InTurn(steps, 1, 1 + i)
  <2>1. i \in 1 .. Len(video) /\ \A j \in 1 .. i - 1 : j \in 1 .. nv
    BY <1>4, LenProperties
  <2>2. \A j \in 1 .. i - 1 : Appends(steps[1 + j], steps[1 + i].to, steps[1 + i].frame.codec)
                              => video[j].codec = video[i].codec
    BY <1>15, <2>1 DEF Appends
  <2>3. \A j \in 1 .. i - 1 : Follows(video[i], video[j])
                              => /\ Appends(steps[1 + j], steps[1 + i].to, steps[1 + i].frame.codec)
                                 /\ Follows(steps[1 + i].frame, steps[1 + j].frame)
    <3> SUFFICES ASSUME NEW j \in 1 .. i - 1, Follows(video[i], video[j])
                 PROVE  /\ Appends(steps[1 + j], steps[1 + i].to, steps[1 + i].frame.codec)
                        /\ Follows(steps[1 + i].frame, steps[1 + j].frame)
      OBVIOUS
    <3>1. video[i] \in FrameSet /\ video[j] \in FrameSet
      BY <1>10, <2>1
    <3>2. Follows(WithId(video[i], 1), WithId(video[j], 1))
      BY <3>1 DEF Follows, WithId, FrameSet
    <3> QED BY <1>15, <2>1, <3>2 DEF Appends, Follows
  <2>4. PICK b \in Nat : b = 1
    OBVIOUS
  <2>5. \A h \in 1 + 1 .. b : ~Appends(steps[h], steps[b + i].to, steps[b + i].frame.codec)
    BY <2>4
  <2>6. (StartsStream(video[i]) => StartsStream(steps[b + i].frame)) /\ 1 <= b
    BY <1>15, <2>4 DEF StartsStream
  <2>7. InTurn(steps, 1, b + i)
    BY <1>2, <2>1, <2>2, <2>3, <2>4, <2>5, <2>6, WrittenInTurn
  <2> QED BY <2>4, <2>7
<1>20. ASSUME NEW i \in 1 .. na PROVE InTurn(steps, 1, 1 + nv + i)
  <2> DEFINE b == 1 + nv
  <2>1. i \in 1 .. Len(audio) /\ \A j \in 1 .. i - 1 : j \in 1 .. na
    BY <1>5, LenProperties
  <2>2. \A j \in 1 .. i - 1 : Appends(steps[b + j], steps[b + i].to, steps[b + i].frame.codec)
                              => audio[j].codec = audio[i].codec
    BY <1>15, <2>1 DEF Appends
  <2>3. \A j \in 1 .. i - 1 : Follows(audio[i], audio[j])
                              => /\ Appends(steps[b + j], steps[b + i].to, steps[b + i].frame.codec)
                                 /\ Follows(steps[b + i].frame, steps[b + j].frame)
    <3> SUFFICES ASSUME NEW j \in 1 .. i - 1, Follows(audio[i], audio[j])
                 PROVE  /\ Appends(steps[b + j], steps[b + i].to, steps[b + i].frame.codec)
                        /\ Follows(steps[b + i].frame, steps[b + j].frame)
      OBVIOUS
    <3>1. audio[i] \in FrameSet /\ audio[j] \in FrameSet
      BY <1>11, <2>1
    <3>2. Follows(WithId(audio[i], 2), WithId(audio[j], 2))
      BY <3>1 DEF Follows, WithId, FrameSet
    <3> QED BY <1>15, <2>1, <3>2 DEF Appends, Follows
  <2>4. \A h \in 1 + 1 .. b : ~Appends(steps[h], steps[b + i].to, steps[b + i].frame.codec)
    <3> SUFFICES ASSUME NEW h \in 1 + 1 .. b PROVE steps[h].frame.codec # steps[b + i].frame.codec
      BY DEF Appends
    <3>1. h - 1 \in 1 .. nv /\ 1 + (h - 1) = h
      OBVIOUS
    <3>2. steps[h].frame.codec \in videoCodecs
      BY <1>15, <3>1
    <3>3. steps[b + i].frame.codec \in audioCodecs
      BY <1>15
    <3> QED BY <1>1, <3>2, <3>3 DEF videoCodecs, audioCodecs
  <2>5. (StartsStream(audio[i]) => StartsStream(steps[b + i].frame)) /\ b \in Nat /\ 1 <= b
    BY <1>15 DEF StartsStream
  <2>6. InTurn(steps, 1, b + i)
    <3> HIDE DEF b
    <3> QED BY <1>3, <2>1, <2>2, <2>3, <2>4, <2>5, WrittenInTurn
  <2> QED BY <2>6
<1>21. \A k \in 1 + 1 .. Len(steps) : InTurn(steps, 1, k)
  BY <1>13, <1>14, <1>19, <1>20
<1>22. StepsOk(disk, steps)
  <2>1. 1 \in 0 .. Len(steps)
    BY <1>13
  <2> QED BY <1>13, <1>16, <1>18, <1>21, <2>1, JobBegins
<1> QED BY <1>22 DEF steps

\* Each of these steps leaves out the frame at its place or writes what was made of it.
Writes(frames, writes) ==
    /\ Len(writes) <= Len(frames) /\ \A i \in 1 .. Len(writes) : writes[i].does # "create"
    /\ \A i \in 1 .. Len(writes) : writes[i].does = "append" =>
          /\ writes[i].frame.at = frames[i].at /\ writes[i].frame.gap = frames[i].gap
          /\ \A j \in 1 .. i - 1 :
                /\ Appends(writes[j], writes[i].to, writes[i].frame.codec) => frames[j].codec = frames[i].codec
                /\ Follows(frames[i], frames[j]) => /\ Appends(writes[j], writes[i].to, writes[i].frame.codec)
                                                   /\ Follows(writes[i].frame, writes[j].frame)

LEMMA WritesBegin ==
    ASSUME NEW files, NEW creates \in Seq(StepSet), CreatesFirst(creates, Len(creates)),
           NEW frames \in Seq(FrameSet), AllInOrder(frames), NEW writes \in Seq(StepSet), Writes(frames, writes),
           \A i \in 1 .. Len(writes) : writes[i].does = "append" =>
              /\ \E h \in 1 .. Len(creates) : Creates(creates[h], writes[i].to)
              /\ \A h \in 1 .. Len(creates) :
                    Creates(creates[h], writes[i].to) => writes[i].frame.codec \in TrackCodecs(creates[h].file)
    PROVE  StepsOk(files, creates \o writes)
<1> DEFINE steps == creates \o writes
<1>1. PICK c \in Nat : c = Len(creates)
  BY LenProperties
<1>2. PICK n \in Nat : n = Len(writes)
  BY LenProperties
<1>3. /\ steps \in Seq(StepSet) /\ Len(steps) = c + n
      /\ \A i \in 1 .. c : steps[i] = creates[i]
      /\ \A i \in 1 .. n : steps[c + i] = writes[i]
  BY <1>1, <1>2, Glued
<1> HIDE DEF steps
<1>4. \A k \in c + 1 .. c + n : k - c \in 1 .. n /\ c + (k - c) = k
  OBVIOUS
<1>5. CreatesFirst(steps, c)
  <2>1. \A k \in c + 1 .. c + n : steps[k].does # "create"
    <3>1. \A i \in 1 .. n : writes[i].does # "create"
      BY <1>2 DEF Writes
    <3> QED BY <1>3, <1>4, <3>1
  <2> QED BY <1>1, <1>3, <2>1 DEF CreatesFirst
<1>6. ASSUME NEW i \in 1 .. n, writes[i].does = "append" PROVE Served(steps, c, c + i) /\ InTurn(steps, c, c + i)
  <2>1. steps[c + i] = writes[i]
    BY <1>3
  <2>2. Served(steps, c, c + i)
    BY <1>1, <1>2, <1>3, <1>6, <2>1 DEF Served
  <2>3. i \in 1 .. Len(frames) /\ \A j \in 1 .. i - 1 : j \in 1 .. n
    BY <1>2, LenProperties DEF Writes
  <2>4. \A j \in 1 .. i - 1 : steps[c + j] = writes[j]
    BY <1>3, <2>3
  <2>5. StartsStream(frames[i]) => StartsStream(steps[c + i].frame)
    BY <1>2, <1>6, <2>1 DEF Writes, StartsStream
  <2>6. \A j \in 1 .. i - 1 :
           /\ Appends(writes[j], writes[i].to, writes[i].frame.codec) => frames[j].codec = frames[i].codec
           /\ Follows(frames[i], frames[j]) => /\ Appends(writes[j], writes[i].to, writes[i].frame.codec)
                                              /\ Follows(writes[i].frame, writes[j].frame)
    BY <1>2, <1>6 DEF Writes
  <2>7. \A j \in 1 .. i - 1 : Appends(steps[c + j], steps[c + i].to, steps[c + i].frame.codec)
                              => frames[j].codec = frames[i].codec
    BY <2>1, <2>4, <2>6
  <2>8. \A j \in 1 .. i - 1 : Follows(frames[i], frames[j])
                              => /\ Appends(steps[c + j], steps[c + i].to, steps[c + i].frame.codec)
                                 /\ Follows(steps[c + i].frame, steps[c + j].frame)
    BY <2>1, <2>4, <2>6
  <2>9. PICK b \in Nat : b = c
    OBVIOUS
  <2>10. c <= b /\ \A h \in c + 1 .. b : ~Appends(steps[h], steps[b + i].to, steps[b + i].frame.codec)
    BY <2>9
  <2>11. InTurn(steps, c, b + i)
    BY <2>3, <2>5, <2>7, <2>8, <2>9, <2>10, WrittenInTurn
  <2> QED BY <2>2, <2>9, <2>11
<1>7. \A k \in c + 1 .. Len(steps) : steps[k].does = "append" => Served(steps, c, k) /\ InTurn(steps, c, k)
  <2> SUFFICES ASSUME NEW k \in c + 1 .. c + n, steps[k].does = "append"
               PROVE  Served(steps, c, k) /\ InTurn(steps, c, k)
    BY <1>3
  <2>1. k - c \in 1 .. n /\ c + (k - c) = k
    BY <1>4
  <2>2. writes[k - c].does = "append"
    BY <1>3, <2>1
  <2>3. Served(steps, c, c + (k - c)) /\ InTurn(steps, c, c + (k - c))
    BY <1>6, <2>1, <2>2
  <2> QED BY <2>1, <2>3
<1>8. StepsOk(files, steps)
  <2>1. c \in 0 .. Len(steps)
    BY <1>3
  <2> QED BY <1>3, <1>5, <1>7, <2>1, JobBegins
<1> QED BY <1>8 DEF steps

LEMMA DecodedFrames ==
    ASSUME NEW frames \in Seq(FrameSet)
    PROVE  /\ Len(Decoded(frames)) \in 0 .. Len(frames) /\ DOMAIN Decoded(frames) = 1 .. Len(Decoded(frames))
           /\ \A i \in 1 .. Len(Decoded(frames)) : i \in 1 .. Len(frames) /\ Decoded(frames)[i] = frames[i]
<1> DEFINE bad == {i \in DOMAIN frames : frames[i].codec = "v2"}
<1>1. bad \in SUBSET (DOMAIN frames)
  OBVIOUS
<1>2. Decoded(frames) = Before(frames, bad)
  BY DEF Decoded, Before
<1> HIDE DEF bad
<1> QED BY <1>1, <1>2, BeforeBad

LEMMA ImportTracksOk ==
    ASSUME NEW file \in FileSet, NEW policy \in Policies
    PROVE  /\ ImportTracks(file, policy) \in Seq(TrackSet)
           /\ \A codec \in TrackCodecs(file) :
                 (IF IsVideo(codec) THEN ImportCodec(policy) ELSE "audio")
                    \in {ImportTracks(file, policy)[i].codec : i \in DOMAIN ImportTracks(file, policy)}
           /\ \A i, j \in DOMAIN ImportTracks(file, policy) :
                 IsVideo(ImportTracks(file, policy)[i].codec) /\ IsVideo(ImportTracks(file, policy)[j].codec)
                    => ImportTracks(file, policy)[i].codec = ImportTracks(file, policy)[j].codec
<1> DEFINE video == Track(1, ImportCodec(policy))
           sound == Track(IF HasTrack(file, TRUE) THEN 2 ELSE 1, "audio")
           s == IF HasTrack(file, TRUE) THEN <<video>> ELSE <<>>
           t == IF HasTrack(file, FALSE) THEN <<sound>> ELSE <<>>
           tracks == ImportTracks(file, policy)
<1>1. ImportCodec(policy) \in {"v1", "v2"}
  BY DEF ImportCodec
<1>2. /\ video \in TrackSet /\ video.codec = ImportCodec(policy) /\ ImportCodec(policy) # "audio"
      /\ sound \in TrackSet /\ sound.codec = "audio"
  BY <1>1 DEF Track, TrackSet, Codecs
<1>3. tracks = s \o t
  BY DEF ImportTracks
<1> HIDE DEF video, sound, tracks
<1>4. /\ s \in Seq(TrackSet) /\ (Len(s) = 0 \/ (Len(s) = 1 /\ s[1] = video))
      /\ t \in Seq(TrackSet) /\ (Len(t) = 0 \/ (Len(t) = 1 /\ t[1] = sound))
      /\ IF HasTrack(file, TRUE) THEN Len(s) = 1 ELSE Len(s) = 0
      /\ IF HasTrack(file, FALSE) THEN Len(t) = 1 ELSE Len(t) = 0
  <2>1. s \in Seq(TrackSet) /\ (Len(s) = 0 \/ (Len(s) = 1 /\ s[1] = video)) /\ (IF HasTrack(file, TRUE) THEN Len(s) = 1 ELSE Len(s) = 0)
    <3>1. CASE HasTrack(file, TRUE)
      <4>1. s = <<video>>
        BY <3>1
      <4> HIDE DEF s
      <4> QED BY <1>2, <3>1, <4>1, OneTrack
    <3>2. CASE ~HasTrack(file, TRUE)
      <4>1. s = <<>>
        BY <3>2
      <4> HIDE DEF s
      <4> QED BY <1>2, <3>2, <4>1, OneTrack
    <3> QED BY <3>1, <3>2
  <2>2. t \in Seq(TrackSet) /\ (Len(t) = 0 \/ (Len(t) = 1 /\ t[1] = sound)) /\ (IF HasTrack(file, FALSE) THEN Len(t) = 1 ELSE Len(t) = 0)
    <3>1. CASE HasTrack(file, FALSE)
      <4>1. t = <<sound>>
        BY <3>1
      <4> HIDE DEF t
      <4> QED BY <1>2, <3>1, <4>1, OneTrack
    <3>2. CASE ~HasTrack(file, FALSE)
      <4>1. t = <<>>
        BY <3>2
      <4> HIDE DEF t
      <4> QED BY <1>2, <3>2, <4>1, OneTrack
    <3> QED BY <3>1, <3>2
  <2> QED BY <2>1, <2>2
<1> HIDE DEF s, t
<1>5. /\ tracks \in Seq(TrackSet)
      /\ \A i \in DOMAIN tracks : \/ Len(s) = 1 /\ tracks[i].codec = video.codec
                                  \/ Len(t) = 1 /\ tracks[i].codec = "audio"
      /\ Len(s) = 1 => \E i \in DOMAIN tracks : tracks[i].codec = video.codec
      /\ Len(t) = 1 => \E i \in DOMAIN tracks : tracks[i].codec = "audio"
  BY <1>2, <1>3, <1>4, TwoTracks, SMTT(30)
<1>6. \A codec \in TrackCodecs(file) : IF IsVideo(codec) THEN Len(s) = 1 ELSE Len(t) = 1
  <2> SUFFICES ASSUME NEW i \in DOMAIN file.tracks PROVE IF IsVideo(file.tracks[i].codec) THEN Len(s) = 1 ELSE Len(t) = 1
    BY DEF TrackCodecs
  <2>1. IsVideo(file.tracks[i].codec) \in BOOLEAN
    BY DEF IsVideo
  <2>2. CASE IsVideo(file.tracks[i].codec)
    <3>1. IsVideo(file.tracks[i].codec) = TRUE
      BY <2>1, <2>2
    <3>2. HasTrack(file, TRUE)
      BY <3>1 DEF HasTrack
    <3> QED BY <1>4, <2>2, <3>2
  <2>3. CASE ~IsVideo(file.tracks[i].codec)
    <3>1. IsVideo(file.tracks[i].codec) = FALSE
      BY <2>1, <2>3
    <3>2. HasTrack(file, FALSE)
      BY <3>1 DEF HasTrack
    <3> QED BY <1>4, <2>3, <3>2
  <2> QED BY <2>2, <2>3
<1>7. \A codec \in TrackCodecs(file) :
         (IF IsVideo(codec) THEN ImportCodec(policy) ELSE "audio") \in {tracks[i].codec : i \in DOMAIN tracks}
  BY <1>2, <1>5, <1>6
<1>8. ~IsVideo("audio")
  BY DEF IsVideo
<1>9. \A i, j \in DOMAIN tracks : IsVideo(tracks[i].codec) /\ IsVideo(tracks[j].codec)
                                  => tracks[i].codec = tracks[j].codec
  BY <1>2, <1>5, <1>8
<1> QED BY <1>5, <1>7, <1>9 DEF tracks

LEMMA ImportedFrame ==
    ASSUME NEW file \in FileSet, NEW frame \in FrameSet, NEW policy \in Policies
    PROVE  /\ Imported(file, frame, policy) \in FrameSet
           /\ Imported(file, frame, policy).at = frame.at /\ Imported(file, frame, policy).gap = frame.gap
           /\ Imported(file, frame, policy).source = frame.source
           /\ Imported(file, frame, policy).codec = IF IsVideo(frame.codec) THEN ImportCodec(policy) ELSE "audio"
           /\ Imported(file, frame, policy).id
                 = IF IsVideo(frame.codec) THEN 1 ELSE IF HasTrack(file, TRUE) THEN 2 ELSE 1
<1>1. ImportCodec(policy) \in {"v1", "v2"}
  BY DEF ImportCodec
<1>2. CASE ~IsVideo(frame.codec)
  <2>1. frame.codec = "audio"
    BY <1>2 DEF IsVideo
  <2>2. PICK id \in Nat : id = IF HasTrack(file, TRUE) THEN 2 ELSE 1
    OBVIOUS
  <2>3. Imported(file, frame, policy) = WithId(frame, id)
    BY <1>2, <2>2 DEF Imported
  <2>4. /\ WithId(frame, id) \in FrameSet /\ WithId(frame, id).id = id
        /\ WithId(frame, id).codec = frame.codec /\ WithId(frame, id).at = frame.at /\ WithId(frame, id).gap = frame.gap
        /\ WithId(frame, id).source = frame.source
    BY WithIdFrame
  <2> QED BY <1>2, <2>1, <2>2, <2>3, <2>4
<1>3. CASE IsVideo(frame.codec)
  <2>1. PICK kind \in FrameKinds : kind = IF frame = FramesOf(file, TRUE)[1] \/ policy = "Srsv1Legacy" THEN "intra" ELSE "predicted"
    BY DEF FrameKinds
  <2>2. Imported(file, frame, policy) = [frame EXCEPT !.id = 1, !.codec = ImportCodec(policy), !.kind = kind]
    BY <1>3, <2>1 DEF Imported
  <2>3. PICK codec \in Codecs : codec = ImportCodec(policy)
    BY <1>1 DEF Codecs
  <2>4. Imported(file, frame, policy) = [frame EXCEPT !.id = 1, !.codec = codec, !.kind = kind]
    BY <2>2, <2>3
  <2>5. PICK made : made = [frame EXCEPT !.id = 1, !.codec = codec, !.kind = kind]
    OBVIOUS
  <2>6. /\ made \in FrameSet /\ made.at = frame.at /\ made.gap = frame.gap /\ made.source = frame.source /\ made.codec = codec /\ made.id = 1
    BY <2>5 DEF FrameSet
  <2> QED BY <1>3, <2>3, <2>4, <2>5, <2>6
<1> QED BY <1>2, <1>3

\* run_native_import
LEMMA ImportBegins ==
    ASSUME FilesOk(disk), NEW path \in Streamed, Exists(path), NEW policy \in Policies
    PROVE  StepsOk(disk, ImportSteps(disk[path], policy))
<1> DEFINE file == disk[path]
           frames == file.frames
           tracks == ImportTracks(file, policy)
           output == File(tracks, <<>>)
           first == <<Create("import", output)>>
           writes == [i \in DOMAIN Decoded(frames) |-> Add("import", Imported(file, Decoded(frames)[i], policy))]
<1>1. FileOk(path, file) /\ file \in FileSet /\ frames \in Seq(FrameSet) /\ AllInOrder(frames)
  BY FieldsOf DEF FilesOk, FileOk, Exists
<1>2. "import" \in Streamed /\ "import" \notin Elementary
  BY DEF Streamed, Elementary, Containers
<1>3. /\ output \in FileSet /\ FileOk("import", output) /\ output.frames = <<>> /\ output.tracks = tracks
  <2>1. /\ tracks \in Seq(TrackSet)
        /\ \A i, j \in DOMAIN tracks : IsVideo(tracks[i].codec) /\ IsVideo(tracks[j].codec)
                                        => tracks[i].codec = tracks[j].codec
    BY <1>1, ImportTracksOk
  <2> HIDE DEF tracks
  <2> QED BY <1>2, <2>1, EmptyFile
<1>4. \A codec \in TrackCodecs(file) : (IF IsVideo(codec) THEN ImportCodec(policy) ELSE "audio") \in TrackCodecs(output)
  BY <1>1, <1>3, ImportTracksOk DEF TrackCodecs
<1>5. Create("import", output) \in StepSet
  BY <1>2, <1>3, StepsThere
<1> HIDE DEF output, tracks, frames, file
<1>6. /\ first \in Seq(StepSet) /\ Len(first) = 1 /\ first[1].does = "create" /\ first[1].to = "import"
      /\ first[1].file = output
  BY <1>5 DEF Create
<1> HIDE DEF first
<1>7. CreatesFirst(first, Len(first))
  BY <1>3, <1>6 DEF CreatesFirst
<1>8. PICK n \in 0 .. Len(frames) :
        DOMAIN Decoded(frames) = 1 .. n /\ \A i \in 1 .. n : i \in 1 .. Len(frames) /\ Decoded(frames)[i] = frames[i]
  BY <1>1, DecodedFrames
<1>9. \A i \in 1 .. n : frames[i] \in FrameSet /\ frames[i].codec \in TrackCodecs(file)
  <2> SUFFICES ASSUME NEW i \in 1 .. n PROVE frames[i] \in FrameSet /\ frames[i].codec \in TrackCodecs(file)
    OBVIOUS
  <2>1. i \in DOMAIN frames /\ frames[i] \in FrameSet
    BY <1>1, <1>8, LenProperties, ElementOfSeq
  <2>2. frames[i].codec \in FrameCodecs(file)
    BY <2>1 DEF FrameCodecs, frames
  <2> QED BY <2>1, <2>2, <1>1 DEF FileOk
<1>10. \A i \in 1 .. n : /\ Imported(file, frames[i], policy) \in FrameSet
                         /\ Imported(file, frames[i], policy).at = frames[i].at
                         /\ Imported(file, frames[i], policy).gap = frames[i].gap
                         /\ Imported(file, frames[i], policy).source = frames[i].source
                         /\ Imported(file, frames[i], policy).codec
                               = IF IsVideo(frames[i].codec) THEN ImportCodec(policy) ELSE "audio"
                         /\ Imported(file, frames[i], policy).id
                               = IF IsVideo(frames[i].codec) THEN 1 ELSE IF HasTrack(file, TRUE) THEN 2 ELSE 1
  BY <1>1, <1>9, ImportedFrame
<1>11. writes = [i \in 1 .. n |-> Add("import", Imported(file, frames[i], policy))]
  BY <1>8
<1> HIDE DEF writes
<1>12. writes \in Seq(StepSet) /\ Len(writes) = n /\ \A i \in 1 .. n : writes[i] = Add("import", Imported(file, frames[i], policy))
  <2>1. \A i \in 1 .. n : Add("import", Imported(file, frames[i], policy)) \in StepSet
    BY <1>2, <1>10, StepsThere
  <2> QED BY <1>11, <2>1
<1>13. \A i \in 1 .. n : /\ writes[i].does = "append" /\ writes[i].to = "import"
                         /\ writes[i].frame = Imported(file, frames[i], policy)
  BY <1>12 DEF Add
<1>14. Writes(frames, writes)
  <2> SUFFICES ASSUME NEW i \in 1 .. n, NEW j \in 1 .. i - 1
               PROVE  /\ Appends(writes[j], writes[i].to, writes[i].frame.codec) => frames[j].codec = frames[i].codec
                      /\ Follows(frames[i], frames[j]) => /\ Appends(writes[j], writes[i].to, writes[i].frame.codec)
                                                         /\ Follows(writes[i].frame, writes[j].frame)
    <3>1. Len(writes) <= Len(frames)
      BY <1>8, <1>12, LenProperties
    <3> QED BY <1>10, <1>12, <1>13, <3>1 DEF Writes
  <2>1. j \in 1 .. n
    BY <1>8
  <2>2. ImportCodec(policy) # "audio"
    BY DEF ImportCodec
  <2>3. ASSUME writes[j].frame.codec = writes[i].frame.codec PROVE frames[j].codec = frames[i].codec
    <3>1. (IF IsVideo(frames[i].codec) THEN ImportCodec(policy) ELSE "audio")
             = (IF IsVideo(frames[j].codec) THEN ImportCodec(policy) ELSE "audio")
      <4>1. Imported(file, frames[i], policy).codec = Imported(file, frames[j], policy).codec
        BY <1>13, <2>1, <2>3
      <4>2. /\ Imported(file, frames[i], policy).codec = IF IsVideo(frames[i].codec) THEN ImportCodec(policy) ELSE "audio"
            /\ Imported(file, frames[j], policy).codec = IF IsVideo(frames[j].codec) THEN ImportCodec(policy) ELSE "audio"
        BY <1>10, <2>1
      <4> QED BY <4>1, <4>2
    <3>2. IsVideo(frames[i].codec) <=> IsVideo(frames[j].codec)
      BY <2>2, <3>1 DEF IsVideo
    <3>3. CASE IsVideo(frames[i].codec)
      BY <1>1, <1>9, <2>1, <3>2, <3>3 DEF FileOk, OneVideo
    <3>4. CASE ~IsVideo(frames[i].codec)
      BY <3>2, <3>4 DEF IsVideo
    <3> QED BY <3>3, <3>4
  <2>4. ASSUME Follows(frames[i], frames[j])
        PROVE  Appends(writes[j], writes[i].to, writes[i].frame.codec) /\ Follows(writes[i].frame, writes[j].frame)
    <3>1. /\ frames[i].codec = frames[j].codec /\ frames[i].source = frames[j].source
          /\ IF frames[i].gap THEN frames[i].at > frames[j].at ELSE frames[i].at = frames[j].at + 1
      BY <2>4 DEF Follows
    <3>2. writes[i].frame.codec = writes[j].frame.codec /\ writes[i].frame.id = writes[j].frame.id
      <4>1. writes[i].frame = Imported(file, frames[i], policy) /\ writes[j].frame = Imported(file, frames[j], policy)
        BY <1>13, <2>1
      <4>2. /\ Imported(file, frames[i], policy).codec = IF IsVideo(frames[i].codec) THEN ImportCodec(policy) ELSE "audio"
            /\ Imported(file, frames[j], policy).codec = IF IsVideo(frames[j].codec) THEN ImportCodec(policy) ELSE "audio"
            /\ Imported(file, frames[i], policy).id = IF IsVideo(frames[i].codec) THEN 1 ELSE IF HasTrack(file, TRUE) THEN 2 ELSE 1
            /\ Imported(file, frames[j], policy).id = IF IsVideo(frames[j].codec) THEN 1 ELSE IF HasTrack(file, TRUE) THEN 2 ELSE 1
        BY <1>10, <2>1
      <4> QED BY <3>1, <4>1, <4>2
    <3>3. /\ writes[i].frame.source = frames[i].source /\ writes[j].frame.source = frames[j].source
          /\ writes[i].frame.at = frames[i].at /\ writes[j].frame.at = frames[j].at
          /\ writes[i].frame.gap = frames[i].gap
      BY <1>10, <1>13, <2>1
    <3>4. Follows(writes[i].frame, writes[j].frame)
      BY <3>1, <3>2, <3>3 DEF Follows
    <3> QED BY <1>13, <2>1, <3>2, <3>4 DEF Appends
  <2> QED BY <1>13, <2>1, <2>3, <2>4 DEF Appends
<1>15. \A i \in 1 .. Len(writes) : writes[i].does = "append" =>
          /\ \E h \in 1 .. Len(first) : Creates(first[h], writes[i].to)
          /\ \A h \in 1 .. Len(first) :
                Creates(first[h], writes[i].to) => writes[i].frame.codec \in TrackCodecs(first[h].file)
  <2> SUFFICES ASSUME NEW i \in 1 .. n
               PROVE  /\ \E h \in 1 .. 1 : Creates(first[h], writes[i].to)
                      /\ \A h \in 1 .. 1 :
                            Creates(first[h], writes[i].to) => writes[i].frame.codec \in TrackCodecs(first[h].file)
    BY <1>6, <1>12
  <2>1. Creates(first[1], writes[i].to)
    BY <1>6, <1>13 DEF Creates
  <2>2. writes[i].frame.codec \in TrackCodecs(output)
    BY <1>4, <1>9, <1>10, <1>13
  <2> QED BY <1>6, <2>1, <2>2
<1>16. StepsOk(disk, first \o writes)
  BY <1>1, <1>6, <1>7, <1>12, <1>14, <1>15, WritesBegin
<1>17. ImportSteps(file, policy) = (first \o writes) \o (IF Decoded(frames) = frames THEN <<Seal("import")>> ELSE <<>>)
  BY DEF ImportSteps, first, writes, output, tracks, frames
<1> DEFINE begun == first \o writes
<1>18. begun \in Seq(StepSet)
  BY <1>16 DEF StepsOk
<1>19. CASE Decoded(frames) = frames
  <2>1. Seal("import") \in StepSet
    BY <1>2, StepsThere
  <2>2. ImportSteps(file, policy) = begun \o <<Seal("import")>>
    BY <1>17, <1>19
  <2> HIDE DEF begun
  <2>3. begun \o <<Seal("import")>> = Append(begun, Seal("import"))
    BY <1>18, <2>1, AppendIsConcat
  <2>4. StepsOk(disk, Append(begun, Seal("import")))
    BY <1>2, <1>16, SealLast DEF begun
  <2> QED BY <2>2, <2>3, <2>4 DEF file
<1>20. CASE Decoded(frames) # frames
  <2>1. ImportSteps(file, policy) = begun \o <<>>
    BY <1>17, <1>20
  <2> HIDE DEF begun
  <2>2. begun \o <<>> = begun
    BY <1>18, ConcatEmptySeq
  <2> QED BY <1>16, <2>1, <2>2 DEF file, begun
<1> QED BY <1>19, <1>20

LEMMA PathOfCodec ==
    ASSUME NEW codec \in {"v1", "v2", "audio"}
    PROVE  PathOf(codec) \in Elementary /\ Codec[PathOf(codec)] = codec
<1>1. \E path \in Elementary : Codec[path] = codec
  BY DEF Elementary, Codec
<1> QED BY <1>1 DEF PathOf

\* The elementary streams of the tracks.
LEMMA DemuxCreatesOk ==
    ASSUME NEW tracks \in Seq(TrackSet)
    PROVE  /\ DemuxCreates(tracks) \in Seq(StepSet)
           /\ CreatesFirst(DemuxCreates(tracks), Len(DemuxCreates(tracks)))
           /\ \A i \in 1 .. Len(DemuxCreates(tracks)) : \E path \in Elementary :
                 /\ DemuxCreates(tracks)[i].to = path
                 /\ TrackCodecs(DemuxCreates(tracks)[i].file) = {Codec[path]}
           /\ (\A i \in DOMAIN tracks : tracks[i].codec # "other") =>
                 \A i \in DOMAIN tracks : \E h \in 1 .. Len(DemuxCreates(tracks)) :
                    Creates(DemuxCreates(tracks)[h], PathOf(tracks[i].codec))
<1> DEFINE bad == {i \in DOMAIN tracks : tracks[i].codec = "other"}
           good == Before(tracks, bad)
           creates == DemuxCreates(tracks)
<1>1. creates = [i \in DOMAIN good |-> Create(PathOf(good[i].codec), ElementaryFile(PathOf(good[i].codec), <<>>))]
  BY DEF DemuxCreates, Before
<1>2. bad \in SUBSET (DOMAIN tracks)
  OBVIOUS
<1>3. \A i \in DOMAIN tracks : i \notin bad => tracks[i].codec # "other"
  OBVIOUS
<1>4. (\A i \in DOMAIN tracks : tracks[i].codec # "other") => good = tracks
  BY DEF Before
<1> HIDE DEF bad, creates
<1>5. PICK n \in Nat : n = Len(good) /\ n <= Len(tracks) /\ DOMAIN good = 1 .. n
                        /\ \A i \in 1 .. n : i \in 1 .. Len(tracks) /\ good[i] = tracks[i] /\ i \notin bad
  <2>1. /\ Len(good) \in 0 .. Len(tracks) /\ DOMAIN good = 1 .. Len(good)
        /\ \A i \in 1 .. Len(good) : i \in 1 .. Len(tracks) /\ good[i] = tracks[i] /\ i \notin bad
    BY <1>2, BeforeBad
  <2> HIDE DEF good
  <2>2. Len(tracks) \in Nat
    BY LenProperties
  <2>3. Len(good) \in Nat /\ Len(good) <= Len(tracks)
    BY <2>1, <2>2
  <2> QED BY <2>1, <2>3
<1> HIDE DEF good
<1>6. \A i \in 1 .. n : good[i].codec \in {"v1", "v2", "audio"}
  <2> SUFFICES ASSUME NEW i \in 1 .. n PROVE good[i].codec \in {"v1", "v2", "audio"}
    OBVIOUS
  <2>1. i \in DOMAIN tracks /\ tracks[i] \in TrackSet /\ good[i] = tracks[i] /\ i \notin bad
    BY <1>5, LenProperties, ElementOfSeq
  <2> QED BY <1>3, <2>1 DEF TrackSet, Codecs
<1>7. ASSUME NEW i \in 1 .. n
      PROVE  /\ creates[i] \in StepSet /\ creates[i].does = "create"
             /\ creates[i].to = PathOf(good[i].codec) /\ creates[i].to \in Elementary
             /\ FileOk(creates[i].to, creates[i].file) /\ creates[i].file.frames = <<>>
             /\ TrackCodecs(creates[i].file) = {Codec[creates[i].to]}
  <2>1. PICK path \in Elementary : path = PathOf(good[i].codec)
    BY <1>6, PathOfCodec
  <2>2. creates[i] = Create(path, ElementaryFile(path, <<>>))
    BY <1>1, <1>5, <2>1
  <2>3. /\ ElementaryFile(path, <<>>) \in FileSet /\ FileOk(path, ElementaryFile(path, <<>>))
        /\ ElementaryFile(path, <<>>).frames = <<>> /\ TrackCodecs(ElementaryFile(path, <<>>)) = {Codec[path]}
        /\ path \in Streamed
    BY NewElementary
  <2>4. creates[i] \in StepSet
    BY <2>2, <2>3, StepsThere
  <2>5. creates[i].does = "create" /\ creates[i].to = path /\ creates[i].file = ElementaryFile(path, <<>>)
    BY <2>2 DEF Create
  <2> QED BY <2>1, <2>3, <2>4, <2>5
<1>8. creates \in Seq(StepSet) /\ Len(creates) = n
  <2>1. creates = [i \in 1 .. n |-> creates[i]]
    BY <1>1, <1>5
  <2> QED BY <1>7, <2>1
<1>9. CreatesFirst(creates, Len(creates))
  BY <1>7, <1>8 DEF CreatesFirst
<1>10. ASSUME \A i \in DOMAIN tracks : tracks[i].codec # "other", NEW i \in DOMAIN tracks
       PROVE  \E h \in 1 .. n : Creates(creates[h], PathOf(tracks[i].codec))
  <2>1. i \in 1 .. n /\ good[i] = tracks[i]
    BY <1>4, <1>5, <1>10, LenProperties
  <2> QED BY <1>7, <2>1 DEF Creates
<1> QED BY <1>7, <1>8, <1>9, <1>10 DEF creates

\* demux_container_to_elementary
LEMMA DemuxBegins ==
    ASSUME FilesOk(disk), NEW path \in Containers, Exists(path)
    PROVE  StepsOk(disk, DemuxSteps(disk[path]))
<1> DEFINE file == disk[path]
           frames == file.frames
           creates == DemuxCreates(file.tracks)
           writes == DemuxAppends(file)
<1>1. /\ FileOk(path, file) /\ file \in FileSet /\ frames \in Seq(FrameSet) /\ AllInOrder(frames)
      /\ file.tracks \in Seq(TrackSet)
  BY FieldsOf DEF FilesOk, FileOk, Exists
<1>2. /\ creates \in Seq(StepSet) /\ CreatesFirst(creates, Len(creates))
      /\ \A h \in 1 .. Len(creates) : \E to \in Elementary :
            creates[h].to = to /\ TrackCodecs(creates[h].file) = {Codec[to]}
      /\ (\A i \in DOMAIN file.tracks : file.tracks[i].codec # "other") =>
            \A i \in DOMAIN file.tracks : \E h \in 1 .. Len(creates) : Creates(creates[h], PathOf(file.tracks[i].codec))
  <2> HIDE DEF file
  <2> QED BY <1>1, DemuxCreatesOk
<1> HIDE DEF creates
<1>3. CASE \E i \in DOMAIN file.tracks : file.tracks[i].codec = "other"
  <2>1. DemuxSteps(file) = creates
    BY <1>3 DEF DemuxSteps, creates
  <2>2. Len(creates) \in 0 .. Len(creates)
    BY <1>2, LenProperties
  <2>3. \A k \in Len(creates) + 1 .. Len(creates) :
           creates[k].does = "append" => Served(creates, Len(creates), k) /\ InTurn(creates, Len(creates), k)
    BY <2>2
  <2>4. StepsOk(disk, creates)
    BY <1>2, <2>2, <2>3, JobBegins
  <2> QED BY <2>1, <2>4
<1>4. CASE \A i \in DOMAIN file.tracks : file.tracks[i].codec # "other"
  <2>1. DemuxSteps(file) = creates \o writes
    BY <1>4 DEF DemuxSteps, creates
  <2>2. PICK n \in Nat : n = Len(frames) /\ DOMAIN frames = 1 .. n
    BY <1>1, LenProperties
  <2>3. \A i \in 1 .. n : /\ frames[i] \in FrameSet /\ frames[i].codec \in {"v1", "v2", "audio"}
                         /\ \E h \in 1 .. Len(creates) : Creates(creates[h], PathOf(frames[i].codec))
    <3> SUFFICES ASSUME NEW i \in 1 .. n
                 PROVE  /\ frames[i] \in FrameSet /\ frames[i].codec \in {"v1", "v2", "audio"}
                        /\ \E h \in 1 .. Len(creates) : Creates(creates[h], PathOf(frames[i].codec))
      OBVIOUS
    <3>1. frames[i].codec \in FrameCodecs(file)
      BY <2>2 DEF FrameCodecs
    <3>2. frames[i].codec \in TrackCodecs(file)
      BY <3>1, <1>1 DEF FileOk, Streamed
    <3>3. PICK t \in DOMAIN file.tracks : file.tracks[t].codec = frames[i].codec
      BY <3>2 DEF TrackCodecs
    <3>4. file.tracks[t] \in TrackSet
      <4> HIDE DEF file
      <4> QED BY <1>1, LenProperties, ElementOfSeq
    <3>5. frames[i] \in FrameSet
      <4> HIDE DEF frames, file
      <4> QED BY <1>1, <2>2, ElementOfSeq
    <3> QED BY <1>2, <1>4, <3>3, <3>4, <3>5 DEF TrackSet, Codecs
  <2>4. writes = [i \in 1 .. n |-> IF Taken(file, frames[i]) THEN Add(PathOf(frames[i].codec), WithId(frames[i], 0)) ELSE PassOver]
    BY <2>2 DEF DemuxAppends
  <2> HIDE DEF writes, frames, file
  <2>5. ASSUME NEW i \in 1 .. n, Taken(file, frames[i])
        PROVE  /\ writes[i] \in StepSet /\ writes[i].does = "append" /\ writes[i].to = PathOf(frames[i].codec)
               /\ writes[i].frame = WithId(frames[i], 0) /\ writes[i].frame.codec = frames[i].codec
               /\ writes[i].frame.at = frames[i].at /\ writes[i].frame.gap = frames[i].gap
               /\ writes[i].frame.source = frames[i].source
               /\ writes[i].frame.id = 0
    <3>1. PathOf(frames[i].codec) \in Streamed
      BY <2>3, PathOfCodec DEF Streamed
    <3>2. /\ WithId(frames[i], 0) \in FrameSet /\ WithId(frames[i], 0).id = 0
          /\ WithId(frames[i], 0).codec = frames[i].codec /\ WithId(frames[i], 0).at = frames[i].at /\ WithId(frames[i], 0).gap = frames[i].gap
          /\ WithId(frames[i], 0).source = frames[i].source
      BY <2>3, WithIdFrame
    <3>3. writes[i] = Add(PathOf(frames[i].codec), WithId(frames[i], 0))
      BY <2>4, <2>5
    <3>4. writes[i] \in StepSet
      BY <3>1, <3>2, <3>3, StepsThere
    <3> QED BY <3>2, <3>3, <3>4 DEF Add
  <2>6. ASSUME NEW i \in 1 .. n, ~Taken(file, frames[i])
        PROVE  writes[i] \in StepSet /\ writes[i].does = "pass"
    <3>1. writes[i] = PassOver
      BY <2>4, <2>6
    <3> QED BY <3>1, StepsThere DEF PassOver
  <2>7. writes \in Seq(StepSet) /\ Len(writes) = n
    <3>1. writes = [i \in 1 .. n |-> writes[i]]
      BY <2>4
    <3>2. \A i \in 1 .. n : writes[i] \in StepSet
      BY <2>5, <2>6
    <3> QED BY <3>1, <3>2
  <2>8. \A i \in 1 .. n : writes[i].does = "append" => Taken(file, frames[i])
    BY <2>6
  <2>9. \A i \in 1 .. n : writes[i].does # "create"
    BY <2>5, <2>6
  <2>10. ASSUME NEW i \in 1 .. n, Taken(file, frames[i]), NEW j \in 1 .. i - 1
         PROVE  /\ Appends(writes[j], writes[i].to, writes[i].frame.codec) => frames[j].codec = frames[i].codec
                /\ Follows(frames[i], frames[j]) => /\ Appends(writes[j], writes[i].to, writes[i].frame.codec)
                                                   /\ Follows(writes[i].frame, writes[j].frame)
    <3>1. j \in 1 .. n
      OBVIOUS
    <3>2. ASSUME Appends(writes[j], writes[i].to, writes[i].frame.codec) PROVE frames[j].codec = frames[i].codec
      <4>1. writes[j].does = "append" /\ writes[j].frame.codec = writes[i].frame.codec
        BY <3>2 DEF Appends
      <4>2. Taken(file, frames[j])
        BY <2>8, <3>1, <4>1
      <4> QED BY <2>5, <2>10, <3>1, <4>1, <4>2
    <3>3. ASSUME Follows(frames[i], frames[j])
          PROVE  Appends(writes[j], writes[i].to, writes[i].frame.codec) /\ Follows(writes[i].frame, writes[j].frame)
      <4>1. /\ frames[i].codec = frames[j].codec /\ frames[i].id = frames[j].id
            /\ frames[i].source = frames[j].source
            /\ IF frames[i].gap THEN frames[i].at > frames[j].at ELSE frames[i].at = frames[j].at + 1
        BY <3>3 DEF Follows
      <4>2. Taken(file, frames[j])
        BY <2>10, <4>1 DEF Taken
      <4>3. /\ writes[j].does = "append" /\ writes[j].to = writes[i].to
            /\ writes[j].frame.codec = writes[i].frame.codec /\ writes[j].frame.id = writes[i].frame.id
            /\ writes[i].frame.source = writes[j].frame.source
            /\ IF writes[i].frame.gap THEN writes[i].frame.at > writes[j].frame.at
               ELSE writes[i].frame.at = writes[j].frame.at + 1
        BY <2>5, <2>10, <3>1, <4>1, <4>2
      <4> QED BY <4>3 DEF Appends, Follows
    <3> QED BY <3>2, <3>3
  <2>11. Writes(frames, writes)
    <3>1. Len(writes) <= Len(frames)
      BY <2>2, <2>7
    <3> QED BY <2>5, <2>7, <2>8, <2>9, <2>10, <3>1 DEF Writes
  <2>12. \A i \in 1 .. Len(writes) : writes[i].does = "append" =>
            /\ \E h \in 1 .. Len(creates) : Creates(creates[h], writes[i].to)
            /\ \A h \in 1 .. Len(creates) :
                  Creates(creates[h], writes[i].to) => writes[i].frame.codec \in TrackCodecs(creates[h].file)
    <3> SUFFICES ASSUME NEW i \in 1 .. n, Taken(file, frames[i])
                 PROVE  /\ \E h \in 1 .. Len(creates) : Creates(creates[h], writes[i].to)
                        /\ \A h \in 1 .. Len(creates) :
                              Creates(creates[h], writes[i].to) => writes[i].frame.codec \in TrackCodecs(creates[h].file)
      BY <2>7, <2>8
    <3>1. Codec[writes[i].to] = writes[i].frame.codec
      BY <2>3, <2>5, PathOfCodec
    <3>2. \E h \in 1 .. Len(creates) : Creates(creates[h], writes[i].to)
      BY <2>3, <2>5
    <3>3. \A h \in 1 .. Len(creates) : TrackCodecs(creates[h].file) = {Codec[creates[h].to]}
      BY <1>2
    <3> QED BY <3>1, <3>2, <3>3 DEF Creates
  <2>13. StepsOk(disk, creates \o writes)
    BY <1>1, <1>2, <2>7, <2>11, <2>12, WritesBegin
  <2> QED BY <2>1, <2>13 DEF file
<1> QED BY <1>3, <1>4

-----------------------------------------------------------------------------
(* The files over the steps of jobs, users and other programs.             *)

Doing(record) == "steps" \in DOMAIN record /\ StepsOk(disk, record.steps)
FilesInv ==
    /\ sources \in Nat /\ FilesOk(disk)
    /\ job = <<>> \/ \E record : job = <<record>> /\ Doing(record)

\* a job begins, or none
Starts ==
    /\ UNCHANGED disk
    /\ job' \in {job, <<>>} \/ \E record : job' = <<record>> /\ Doing(record)

LEMMA StartsKeep ==
    ASSUME FilesInv, Starts, UNCHANGED sources
    PROVE  FilesInv'
  BY DEF FilesInv, Starts, Doing

LEMMA BeginStarts ==
    ASSUME NEW op, NEW by, NEW from, NEW steps, NEW fails, NEW next, StepsOk(disk, steps),
           Begin(op, by, from, steps, fails, next)
    PROVE  Starts
<1> DEFINE record == [op |-> op, by |-> by, from |-> from, steps |-> steps, fails |-> fails, next |-> next, shows |-> <<>>]
<1>1. job' = <<record>> /\ UNCHANGED disk
  BY DEF Begin
<1>2. Doing(record)
  BY DEF Doing
<1> QED BY <1>1, <1>2 DEF Starts

LEMMA RefuseStarts ==
    ASSUME NEW why, Refuse(why)
    PROVE  Starts
  BY DEF Refuse, Starts

LEMMA MuxStarts ==
    ASSUME FilesOk(disk), NEW by, StartMux(by)
    PROVE  Starts
<1>1. CASE Muxable
  <2> DEFINE fails == \E path \in VideoInput \cup AudioInput : Stops(path)
             steps == IF fails THEN MuxSteps ELSE Append(MuxSteps, Seal("528"))
  <2>1. Begin("mux", by, "528", steps, fails, "none")
    BY <1>1 DEF StartMux
  <2>2. StepsOk(disk, steps)
    BY MuxBegins, SealLast DEF Streamed, Containers
  <2> HIDE DEF fails, steps
  <2> QED BY <2>1, <2>2, BeginStarts
<1>2. CASE ~Muxable
  BY <1>2, RefuseStarts DEF StartMux
<1> QED BY <1>1, <1>2

LEMMA EncodeStarts ==
    ASSUME FilesOk(disk), NEW path \in Elementary, Exists(RawInput(path)), NEW by, NEW from, NEW next,
           Begin("encode", by, from, EncodeSteps(path), FALSE, next)
    PROVE  Starts
  BY EncodeBegins, BeginStarts

LEMMA JobStarts ==
    ASSUME FilesOk(disk), NEW by, StartJob(by)
    PROVE  Starts /\ UNCHANGED sources
<1>1. ASSUME NEW path \in Elementary, NEW policy, EncodeElementary(by, path, policy) PROVE Starts /\ UNCHANGED sources
  <2>1. UNCHANGED sources
    BY <1>1 DEF EncodeElementary, MayAct
  <2>2. CASE RawFits(path) /\ ~(path = "srsv2" /\ policy = "Srsv1Legacy")
    BY <1>1, <2>1, <2>2, EncodeStarts DEF EncodeElementary, RawFits
  <2>3. CASE ~(RawFits(path) /\ ~(path = "srsv2" /\ policy = "Srsv1Legacy"))
    BY <1>1, <2>1, <2>3, RefuseStarts DEF EncodeElementary
  <2> QED BY <2>2, <2>3
<1>2. ASSUME NEW policy, EncodeContainer(by, policy) PROVE Starts /\ UNCHANGED sources
  <2> DEFINE path == IF policy = "Srsv2" THEN "srsv2" ELSE "srsv"
  <2>1. UNCHANGED sources
    BY <1>2 DEF EncodeContainer, MayAct
  <2>2. CASE StartMux(by)
    BY <2>1, <2>2, MuxStarts
  <2>3. CASE Refuse("failed")
    BY <2>1, <2>3, RefuseStarts
  <2>4. CASE RawFits(path) /\ Begin("encode", by, "picture", EncodeSteps(path), FALSE, "mux")
    <3>1. path \in Elementary /\ Exists(RawInput(path))
      BY <2>4 DEF Elementary, RawFits
    <3> QED BY <2>1, <2>4, <3>1, EncodeStarts
  <2> QED BY <1>2, <2>2, <2>3, <2>4 DEF EncodeContainer
<1>3. ASSUME NEW path \in {"528", "srsv", "srsa"}, NEW policy \in Policies, Import(by, path, policy)
      PROVE  Starts /\ UNCHANGED sources
  <2>1. UNCHANGED sources
    BY <1>3 DEF Import, MayAct
  <2>2. CASE \E why : Refuse(why)
    BY <2>1, <2>2, RefuseStarts
  <2>3. CASE ~\E why : Refuse(why)
    <3>1. Supported(path)
      BY <1>3, <2>3 DEF Import
    <3>2. Exists(path) /\ path \in Streamed
      BY <3>1 DEF Supported, Inspected, Opens, Streamed, Elementary, Containers
    <3>3. Begin("import", by, path, ImportSteps(disk[path], policy), Decoded(disk[path].frames) # disk[path].frames, "none")
      BY <1>3, <2>3 DEF Import
    <3>4. StepsOk(disk, ImportSteps(disk[path], policy))
      BY <3>2, ImportBegins
    <3> QED BY <2>1, <3>3, <3>4, BeginStarts
  <2> QED BY <2>2, <2>3
<1>4. CASE Mux(by)
  BY <1>4, MuxStarts DEF Mux, MayAct
<1>5. ASSUME NEW path \in Containers, Demux(by, path) PROVE Starts /\ UNCHANGED sources
  <2>1. UNCHANGED sources
    BY <1>5 DEF Demux, MayAct
  <2>2. CASE Opens(path)
    <3>1. PICK fails : Begin("demux", by, path, DemuxSteps(disk[path]), fails, "none")
      BY <1>5, <2>2 DEF Demux
    <3>2. StepsOk(disk, DemuxSteps(disk[path]))
      BY <2>2, DemuxBegins DEF Opens
    <3> QED BY <2>1, <3>1, <3>2, BeginStarts
  <2>3. CASE ~Opens(path)
    BY <1>5, <2>1, <2>3, RefuseStarts DEF Demux
  <2> QED BY <2>2, <2>3
<1>6. ASSUME NEW path \in Elementary, DecodeElementary(by, path) PROVE Starts /\ UNCHANGED sources
  <2>1. UNCHANGED sources
    BY <1>6 DEF DecodeElementary, MayAct
  <2>2. CASE DecodesAlone(path)
    <3>1. Begin("decode", by, path, <<Create("raw", File(<<>>, disk[path].frames))>>, FALSE, "none")
      BY <1>6, <2>2 DEF DecodeElementary
    <3>2. StepsOk(disk, <<Create("raw", File(<<>>, disk[path].frames))>>)
      BY <2>2, DecodeBegins DEF DecodesAlone, Opens
    <3> QED BY <2>1, <3>1, <3>2, BeginStarts
  <2>3. CASE ~DecodesAlone(path)
    BY <1>6, <2>1, <2>3, RefuseStarts DEF DecodeElementary
  <2> QED BY <2>2, <2>3
<1> QED BY <1>1, <1>2, <1>3, <1>4, <1>5, <1>6 DEF StartJob

LEMMA CommandStarts ==
    ASSUME FilesOk(disk), Command
    PROVE  Starts /\ UNCHANGED sources
<1>1. CASE StartJob("cli")
  BY <1>1, JobStarts
<1>2. ASSUME NEW target, EncodeRgb(target) PROVE Starts /\ UNCHANGED sources
  <2>1. UNCHANGED sources /\ Exists("picture")
    BY <1>2 DEF EncodeRgb, MayAct
  <2>2. CASE Refuse("failed")
    BY <2>1, <2>2, RefuseStarts
  <2>3. CASE ~Refuse("failed")
    <3>1. PICK next : Begin("encode", "cli", "picture", EncodeSteps("srsv2"), FALSE, next)
      BY <1>2, <2>3 DEF EncodeRgb
    <3>2. "srsv2" \in Elementary /\ Exists(RawInput("srsv2"))
      BY <2>1 DEF Elementary, RawInput
    <3> QED BY <2>1, <3>1, <3>2, EncodeStarts
  <2> QED BY <2>2, <2>3
<1>3. CASE MayAct /\ Refuse("failed")
  BY <1>3, RefuseStarts DEF MayAct
<1>4. ASSUME NEW path, Analyze(path) PROVE Starts /\ UNCHANGED sources
  BY <1>4, RefuseStarts DEF Analyze, MayAct
<1>5. ASSUME NEW path, NEW only, NEW limit, NEW at, CliPlay(path, only, limit, at)
      PROVE  Starts /\ UNCHANGED sources
  <2>1. UNCHANGED sources
    BY <1>5 DEF CliPlay, MayAct
  <2>2. CASE Refuse("failed")
    BY <2>1, <2>2, RefuseStarts
  <2>3. CASE ~Refuse("failed")
    <3>1. PICK played :
            /\ job' = <<[op |-> "play", by |-> "cli", from |-> path, steps |-> <<>>, fails |-> played.fails, next |-> "none",
                         shows |-> <<[only |-> only, limit |-> limit, at |-> at, frames |-> played.frames]>>]>>
            /\ UNCHANGED <<disk, answer>>
      BY <1>5, <2>3 DEF CliPlay
    <3>2. StepsOk(disk, <<>>)
      BY EmptySeq DEF StepsOk
    <3> QED BY <2>1, <3>1, <3>2 DEF Starts, Doing
  <2> QED BY <2>2, <2>3
<1> QED BY <1>1, <1>2, <1>3, <1>4, <1>5 DEF Command

LEMMA StepFiles ==
    ASSUME FilesInv, Step
    PROVE  FilesInv'
<1>1. PICK record : job = <<record>> /\ Doing(record)
  BY DEF FilesInv, Step, Running
<1>2. /\ record.steps # <<>> /\ disk' = Performed(Head(record.steps)) /\ UNCHANGED sources
      /\ job' = <<[record EXCEPT !.steps = Tail(@)]>>
  BY <1>1 DEF Step
<1>3. FilesOk(disk') /\ StepsOk(disk', Tail(record.steps))
  BY <1>1, <1>2, StepKeeps DEF FilesInv, Doing
<1>4. PICK left : left = [record EXCEPT !.steps = Tail(record.steps)]
  OBVIOUS
<1>5. job' = <<left>> /\ "steps" \in DOMAIN left /\ left.steps = Tail(record.steps)
  BY <1>1, <1>2, <1>4 DEF Doing
<1> QED BY <1>2, <1>3, <1>5 DEF FilesInv, Doing

LEMMA FinishFiles ==
    ASSUME FilesInv, FinishJob
    PROVE  FilesInv'
<1>1. CASE StartMux(job[1].by)
  BY <1>1, MuxStarts, StartsKeep DEF FinishJob, FilesInv
<1>2. CASE job' = <<>> /\ UNCHANGED disk
  BY <1>2 DEF FinishJob, FilesInv
<1> QED BY <1>1, <1>2 DEF FinishJob

LEMMA InterruptFiles ==
    ASSUME FilesInv, Interrupt
    PROVE  FilesInv'
<1>1. PICK record : job = <<record>> /\ Doing(record)
  BY DEF FilesInv, Interrupt, Running
<1>2. /\ record.steps # <<>> /\ job' = <<>> /\ UNCHANGED sources
      /\ disk' = disk \/ disk' = Partly(Head(record.steps))
  BY <1>1 DEF Interrupt
<1>3. FilesOk(Partly(Head(record.steps)))
  BY <1>1, <1>2, PartKeeps DEF FilesInv, Doing
<1> QED BY <1>2, <1>3 DEF FilesInv

\* a raw input
LEMMA RawFileOk ==
    ASSUME NEW path \in {"picture", "sound"}, NEW source \in Nat, NEW fit \in BOOLEAN
    PROVE  FileOk(path, RawFile(source, fit))
<1> DEFINE file == RawFile(source, fit)
           frame == Frame("raw", source, 0, IF fit THEN "intra" ELSE "unknown")
<1>1. frame \in FrameSet /\ frame.at = 0
  BY DEF Frame, FrameSet, FrameKinds
<1>2. file = File(<<>>, <<frame>>)
  BY DEF RawFile
<1> HIDE DEF frame, file
<1>3. /\ <<frame>> \in Seq(FrameSet) /\ Len(<<frame>>) = 1 /\ <<frame>>[1] = frame /\ DOMAIN <<frame>> = {1}
      /\ <<>> \in Seq(TrackSet) /\ DOMAIN <<>> = {}
  BY <1>1, EmptySeq
<1>4. file \in FileSet /\ file.frames = <<frame>> /\ file.tracks = <<>>
  BY <1>2, <1>3 DEF File, FileSet
<1>5. AllInOrder(file.frames)
  BY <1>1, <1>3, <1>4 DEF AllInOrder, InOrder, StartsStream
<1>6. TrackCodecs(file) = {}
  BY <1>3, <1>4 DEF TrackCodecs
<1>7. path \notin Streamed /\ path \notin Elementary
  BY DEF Streamed, Elementary, Containers
<1> QED BY <1>3, <1>4, <1>5, <1>6, <1>7 DEF file, FileOk, OneVideo

\* The fields of a frame that has its track's number.
LEMMA FrameWithId ==
    ASSUME NEW codec, NEW source, NEW at, NEW kind, NEW id
    PROVE  WithId(Frame(codec, source, at, kind), id)
              = [id |-> id, codec |-> codec, source |-> source, at |-> at, kind |-> kind, gap |-> FALSE]
<1>1. PICK frame : frame = Frame(codec, source, at, kind)
  OBVIOUS
<1>2. WithId(frame, id)
         = [field \in {"id", "codec", "source", "at", "kind", "gap"} |-> IF field = "id" THEN id ELSE frame[field]]
  BY <1>1 DEF WithId, Frame
<1> QED BY <1>1, <1>2 DEF Frame

\* a file of another program
LEMMA SuppliedFileOk ==
    ASSUME NEW stream \in Streams, NEW source \in Nat
    PROVE  stream.path \in Streamed /\ FileOk(stream.path, SuppliedFile(stream, source))
<1> DEFINE id == TrackId(stream.path)
           frames == [i \in DOMAIN stream.kinds |-> WithId(Frame(stream.codec, source, i - 1, stream.kinds[i]), id)]
           tracks == <<Track(id, stream.codec)>>
           file == SuppliedFile(stream, source)
<1>1. /\ stream.path \in Streamed /\ stream.codec \in Codecs /\ stream.kinds \in Seq(FrameKinds)
      /\ stream.path \in Elementary => stream.codec = Codec[stream.path]
  <2>1. \/ stream.path \in Elementary /\ stream.codec = Codec[stream.path]
        \/ stream.path \in Containers /\ stream.codec \in {"v1", "v2", "audio", "other"}
    BY ConversionAssumption
  <2>2. stream.kinds \in Seq(FrameKinds)
    BY ConversionAssumption
  <2>3. \A path \in Elementary : Codec[path] \in Codecs
    BY DEF Elementary, Codec, Codecs
  <2>4. \A path \in Containers : path \notin Elementary
    BY DEF Elementary, Containers
  <2> QED BY <2>1, <2>2, <2>3, <2>4 DEF Streamed, Codecs
<1>2. id \in Nat
  BY DEF TrackId
<1>3. PICK n \in Nat : DOMAIN stream.kinds = 1 .. n /\ \A i \in 1 .. n : stream.kinds[i] \in FrameKinds
  BY <1>1, LenProperties, ElementOfSeq
<1> HIDE DEF id
<1>4. ASSUME NEW i \in 1 .. n
      PROVE  /\ WithId(Frame(stream.codec, source, i - 1, stream.kinds[i]), id) \in FrameSet
             /\ WithId(Frame(stream.codec, source, i - 1, stream.kinds[i]), id)
                   = [id |-> id, codec |-> stream.codec, source |-> source, at |-> i - 1, kind |-> stream.kinds[i], gap |-> FALSE]
  <2>1. i - 1 \in Nat /\ stream.kinds[i] \in FrameKinds
    BY <1>3
  <2>2. WithId(Frame(stream.codec, source, i - 1, stream.kinds[i]), id)
           = [id |-> id, codec |-> stream.codec, source |-> source, at |-> i - 1, kind |-> stream.kinds[i], gap |-> FALSE]
    <3>1. PICK at : at = i - 1
      OBVIOUS
    <3>2. PICK kind : kind = stream.kinds[i]
      OBVIOUS
    <3>3. PICK codec : codec = stream.codec
      OBVIOUS
    <3>4. PICK number : number = id
      OBVIOUS
    <3>5. WithId(Frame(codec, source, at, kind), number)
             = [id |-> number, codec |-> codec, source |-> source, at |-> at, kind |-> kind, gap |-> FALSE]
      BY ONLY FrameWithId
    <3> QED BY <3>1, <3>2, <3>3, <3>4, <3>5
  <2>3. \A at \in Nat, kind \in FrameKinds :
           [id |-> id, codec |-> stream.codec, source |-> source, at |-> at, kind |-> kind, gap |-> FALSE] \in FrameSet
    BY <1>1, <1>2 DEF FrameSet
  <2> QED BY <2>1, <2>2, <2>3
<1>5. frames = [i \in 1 .. n |-> WithId(Frame(stream.codec, source, i - 1, stream.kinds[i]), id)]
  BY <1>3
<1> HIDE DEF frames
<1>6. /\ frames \in Seq(FrameSet) /\ DOMAIN frames = 1 .. n
      /\ \A i \in 1 .. n : frames[i] = [id |-> id, codec |-> stream.codec, source |-> source, at |-> i - 1, kind |-> stream.kinds[i], gap |-> FALSE]
  <2>1. \A i \in 1 .. n : WithId(Frame(stream.codec, source, i - 1, stream.kinds[i]), id) \in FrameSet
    BY <1>4
  <2>2. frames \in Seq(FrameSet) /\ DOMAIN frames = 1 .. n
    <3> HIDE DEF FrameSet, WithId, Frame
    <3> QED BY <1>5, <2>1
  <2> QED BY <1>4, <1>5, <2>2
<1>7. AllInOrder(frames)
  <2> SUFFICES ASSUME NEW k \in 1 .. n PROVE InOrder(frames, k)
    BY <1>6 DEF AllInOrder
  <2>1. CASE k = 1
    <3>1. frames[k].at = 0 /\ \A j \in 1 .. k - 1 : FALSE
      BY <1>6, <2>1
    <3> QED BY <3>1 DEF InOrder, StartsStream
  <2>2. CASE k # 1
    <3>1. k - 1 \in 1 .. n /\ k - 1 \in 1 .. k - 1 /\ \A h \in k - 1 + 1 .. k - 1 : FALSE
      BY <2>2
    <3>2. Follows(frames[k], frames[k - 1])
      <4>1. /\ frames[k].codec = stream.codec /\ frames[k].id = id /\ frames[k].source = source
            /\ frames[k].gap = FALSE /\ frames[k].at = k - 1
        BY <1>6
      <4>2. /\ frames[k - 1].codec = stream.codec /\ frames[k - 1].id = id /\ frames[k - 1].source = source
            /\ frames[k - 1].at = k - 1 - 1
        BY <1>6, <3>1
      <4>3. k - 1 = k - 1 - 1 + 1
        OBVIOUS
      <4> QED BY <4>1, <4>2, <4>3 DEF Follows
    <3> QED BY <3>1, <3>2 DEF InOrder
  <2> QED BY <2>1, <2>2
<1>8. tracks \in Seq(TrackSet) /\ DOMAIN tracks = {1} /\ tracks[1].codec = stream.codec
  <2>1. Track(id, stream.codec) \in TrackSet /\ Track(id, stream.codec).codec = stream.codec
    BY <1>1, <1>2 DEF Track, TrackSet
  <2> QED BY <2>1
<1>9. file = File(tracks, frames)
  BY DEF SuppliedFile, frames, id
<1> HIDE DEF tracks, file
<1>10. file \in FileSet /\ file.frames = frames /\ file.tracks = tracks
  BY <1>6, <1>8, <1>9 DEF File, FileSet
<1>11. TrackCodecs(file) = {stream.codec}
  BY <1>8, <1>10 DEF TrackCodecs
<1>12. FrameCodecs(file) \subseteq {stream.codec}
  BY <1>6, <1>10 DEF FrameCodecs
<1>13. stream.path \notin {"picture", "sound"}
  BY <1>1 DEF Streamed, Elementary, Containers
<1> QED BY <1>1, <1>7, <1>10, <1>11, <1>12, <1>13 DEF file, FileOk, OneVideo

\* The frames without one: a frame that came after it comes now after the one before it.
LEMMA WithoutInOrder ==
    ASSUME NEW frames \in Seq(FrameSet), AllInOrder(frames), NEW i \in 1 .. Len(frames) - 1,
           NEW left, left = Without(frames, i)
    PROVE  /\ left \in Seq(FrameSet) /\ AllInOrder(left)
           /\ \A p \in DOMAIN left : \E k \in DOMAIN frames :
                 left[p].id = frames[k].id /\ left[p].codec = frames[k].codec
<1> DEFINE n == Len(frames)
           next == {k \in i + 1 .. n : frames[k].codec = frames[i].codec}
           first(k) == k \in next /\ \A h \in next : k <= h
           marked == [k \in DOMAIN frames |-> IF first(k) THEN [frames[k] EXCEPT !.gap = TRUE] ELSE frames[k]]
           place(p) == IF p < i THEN p ELSE p + 1
<1>1. n \in Nat /\ DOMAIN frames = 1 .. n /\ \A k \in 1 .. n : frames[k] \in FrameSet
  BY LenProperties, ElementOfSeq
<1>2. left = SubSeq(marked, 1, i - 1) \o SubSeq(marked, i + 1, Len(marked))
  BY DEF Without, RemoveAt
<1>3. ASSUME NEW k \in 1 .. n
      PROVE  /\ marked[k] \in FrameSet
             /\ marked[k].id = frames[k].id /\ marked[k].codec = frames[k].codec
             /\ marked[k].source = frames[k].source /\ marked[k].at = frames[k].at
             /\ IF first(k) THEN marked[k].gap = TRUE ELSE marked[k] = frames[k]
  <2>1. frames[k] \in FrameSet /\ [frames[k] EXCEPT !.gap = TRUE] \in FrameSet
    BY <1>1 DEF FrameSet
  <2>2. marked[k] = IF first(k) THEN [frames[k] EXCEPT !.gap = TRUE] ELSE frames[k]
    BY <1>1
  <2> HIDE DEF marked, first
  <2> QED BY <2>1, <2>2 DEF FrameSet
<1>4. marked \in Seq(FrameSet) /\ Len(marked) = n
  <2> HIDE DEF first
  <2>1. \A k \in 1 .. n : marked[k] \in FrameSet
    BY <1>3
  <2>2. marked = [k \in 1 .. n |-> marked[k]]
    BY <1>1
  <2> QED BY <1>1, <2>1, <2>2
<1> HIDE DEF marked
<1>5. i \in Nat /\ 1 <= i /\ i <= n - 1
  BY <1>1
<1>6. left \in Seq(FrameSet) /\ Len(left) = n - 1 /\ \A p \in 1 .. n - 1 : left[p] = marked[place(p)]
  <2> DEFINE before == SubSeq(marked, 1, i - 1)
             behind == SubSeq(marked, i + 1, n)
  <2>1. before \in Seq(FrameSet) /\ Len(before) = i - 1 /\ \A p \in 1 .. i - 1 : before[p] = marked[p]
    BY <1>1, <1>4, <1>5
  <2>2. behind \in Seq(FrameSet) /\ Len(behind) = n - i /\ \A p \in 1 .. n - i : behind[p] = marked[p + i]
    BY <1>1, <1>4, <1>5
  <2>3. left = before \o behind
    BY <1>2, <1>4
  <2> HIDE DEF before, behind, n
  <2>4. left \in Seq(FrameSet) /\ Len(left) = n - 1
    <3>1. left \in Seq(FrameSet)
      BY <2>1, <2>2, <2>3, ConcatProperties
    <3>2. Len(left) = Len(before) + Len(behind)
      BY <2>1, <2>2, <2>3, ConcatProperties
    <3> QED BY <1>1, <1>5, <2>1, <2>2, <3>1, <3>2
  <2>5. ASSUME NEW p \in 1 .. n - 1 PROVE left[p] = marked[place(p)]
    <3>1. CASE p < i
      <4>1. p \in 1 .. i - 1 /\ left[p] = before[p]
        BY <1>1, <1>5, <2>1, <2>2, <2>3, <3>1
      <4> QED BY <2>1, <3>1, <4>1
    <3>2. CASE ~(p < i)
      <4>1. p - (i - 1) \in 1 .. n - i /\ left[p] = behind[p - (i - 1)] /\ p - (i - 1) + i = p + 1
        BY <1>1, <1>5, <2>1, <2>2, <2>3, <3>2
      <4> QED BY <2>2, <3>2, <4>1
    <3> QED BY <3>1, <3>2
  <2> QED BY <2>4, <2>5
<1>7. DOMAIN left = 1 .. n - 1
  BY <1>6, LenProperties
<1>8. \A p \in 1 .. n - 1 : place(p) \in 1 .. n /\ place(p) # i
  BY <1>1, <1>5
<1> HIDE DEF n, first, next
<1>9. ASSUME NEW p \in 1 .. n - 1 PROVE InOrder(left, p)
  <2> DEFINE k == place(p)
  <2>1. k \in 1 .. n /\ k # i /\ left[p] = marked[k] /\ InOrder(frames, k) /\ InOrder(frames, i)
    <3>1. k \in 1 .. n /\ k # i
      BY <1>8
    <3>2. left[p] = marked[k]
      BY <1>6
    <3>3. \A m \in 1 .. n : InOrder(frames, m)
      <4> HIDE DEF place
      <4> QED BY <1>1 DEF AllInOrder
    <3>4. i \in 1 .. n
      BY <1>1, <1>5
    <3> QED BY <3>1, <3>2, <3>3, <3>4
  <2>2. ASSUME NEW q \in 1 .. p - 1
        PROVE  place(q) \in 1 .. k - 1 /\ place(q) # i /\ left[q] = marked[place(q)] /\ left[q].codec = frames[place(q)].codec
    <3>1. q \in 1 .. n - 1
      BY <1>1, <1>5
    <3>2. place(q) \in 1 .. k - 1
      BY <1>1, <1>5
    <3> HIDE DEF place
    <3> QED BY <1>3, <1>6, <1>8, <3>1, <3>2
  <2>3. ASSUME NEW j \in 1 .. k - 1, j # i
        PROVE  \E q \in 1 .. p - 1 : place(q) = j /\ \A h \in q + 1 .. p - 1 : place(h) \in j + 1 .. k - 1 /\ place(h) # i
    <3>1. CASE j < i
      <4>1. j \in 1 .. p - 1 /\ place(j) = j
        BY <1>1, <1>5, <3>1
      <4>2. \A h \in j + 1 .. p - 1 : place(h) \in j + 1 .. k - 1 /\ place(h) # i
        BY <1>1, <1>5, <3>1
      <4> QED BY <4>1, <4>2
    <3>2. CASE ~(j < i)
      <4>1. j - 1 \in 1 .. p - 1 /\ place(j - 1) = j
        BY <1>1, <1>5, <2>3, <3>2
      <4>2. \A h \in j - 1 + 1 .. p - 1 : place(h) \in j + 1 .. k - 1 /\ place(h) # i
        BY <1>1, <1>5, <2>3, <3>2
      <4> QED BY <4>1, <4>2
    <3> QED BY <3>1, <3>2
  <2> HIDE DEF place
  <2>4. /\ marked[k].id = frames[k].id /\ marked[k].codec = frames[k].codec
        /\ marked[k].source = frames[k].source /\ marked[k].at = frames[k].at
        /\ IF first(k) THEN marked[k].gap = TRUE ELSE marked[k] = frames[k]
    BY <1>3, <2>1
  <2> HIDE DEF k
  <2>5. ASSUME \A j \in 1 .. k - 1 : j # i => frames[j].codec # frames[k].codec, StartsStream(marked[k])
        PROVE  InOrder(left, p)
    <3>1. \A q \in 1 .. p - 1 : left[q].codec # left[p].codec
      BY <2>1, <2>2, <2>4, <2>5
    <3> QED BY <2>1, <2>5, <3>1 DEF InOrder
  <2>6. ASSUME NEW j \in 1 .. k - 1, j # i, Follows(marked[k], frames[j]),
               \A h \in j + 1 .. k - 1 : h # i => frames[h].codec # frames[k].codec
        PROVE  InOrder(left, p)
    <3>1. PICK q \in 1 .. p - 1 : place(q) = j /\ \A h \in q + 1 .. p - 1 : place(h) \in j + 1 .. k - 1 /\ place(h) # i
      BY <2>3, <2>6
    <3>2. left[q] = marked[j] /\ j \in 1 .. n
      BY <1>1, <2>1, <2>2, <3>1
    <3>3. Follows(left[p], left[q])
      <4>1. /\ marked[j].id = frames[j].id /\ marked[j].codec = frames[j].codec
            /\ marked[j].source = frames[j].source /\ marked[j].at = frames[j].at
        BY <1>3, <3>2
      <4>2. left[p] = marked[k] /\ Follows(marked[k], frames[j])
        BY <2>1, <2>6
      <4> QED BY <3>2, <4>1, <4>2 DEF Follows
    <3>4. \A h \in q + 1 .. p - 1 : h \in 1 .. p - 1
      OBVIOUS
    <3>5. ASSUME NEW h \in q + 1 .. p - 1 PROVE left[h].codec # left[p].codec
      <4>1. left[h].codec = frames[place(h)].codec
        BY <2>2, <3>4
      <4>2. frames[place(h)].codec # frames[k].codec
        BY <2>6, <3>1
      <4>3. left[p].codec = frames[k].codec
        BY <2>1, <2>4
      <4> QED BY <4>1, <4>2, <4>3
    <3> QED BY <3>3, <3>5 DEF InOrder
  <2>7. CASE first(k)
    <3>1. k > i /\ frames[k].codec = frames[i].codec /\ \A h \in i + 1 .. k - 1 : frames[h].codec # frames[i].codec
      BY <1>1, <1>5, <2>1, <2>7 DEF first, next
    <3>2. frames[k].id = frames[i].id /\ frames[k].source = frames[i].source /\ frames[k].at > frames[i].at
      <4>1. PICK j \in 1 .. k - 1 : Follows(frames[k], frames[j]) /\ \A h \in j + 1 .. k - 1 : frames[h].codec # frames[k].codec
        BY <1>5, <2>1, <3>1 DEF InOrder
      <4>2. j = i
        <5>1. ~(j < i)
          BY <1>5, <2>1, <3>1, <4>1
        <5>2. ~(j > i)
          BY <1>5, <2>1, <3>1, <4>1 DEF Follows
        <5> QED BY <1>5, <5>1, <5>2
      <4>3. frames[i].at \in Nat
        BY <1>1, <1>5 DEF FrameSet
      <4> QED BY <4>1, <4>2, <4>3 DEF Follows
    <3>3. CASE StartsStream(frames[i]) /\ \A j \in 1 .. i - 1 : frames[j].codec # frames[i].codec
      <4>1. \A j \in 1 .. k - 1 : j # i => frames[j].codec # frames[k].codec
        <5>1. \A j \in 1 .. k - 1 : j # i => j \in 1 .. i - 1 \/ j \in i + 1 .. k - 1
          BY <1>5, <2>1
        <5> QED BY <3>1, <3>3, <5>1
      <4> QED BY <2>4, <2>5, <2>7, <4>1 DEF StartsStream
    <3>4. CASE \E j \in 1 .. i - 1 : Follows(frames[i], frames[j]) /\ \A h \in j + 1 .. i - 1 : frames[h].codec # frames[i].codec
      <4>1. PICK j \in 1 .. i - 1 : Follows(frames[i], frames[j]) /\ \A h \in j + 1 .. i - 1 : frames[h].codec # frames[i].codec
        BY <3>4
      <4>2. j \in 1 .. k - 1 /\ j # i /\ j \in 1 .. n
        BY <1>1, <1>5, <2>1, <3>1
      <4>3. frames[j].at \in Nat /\ frames[i].at \in Nat /\ frames[k].at \in Nat
        <5>1. frames[j] \in FrameSet /\ frames[i] \in FrameSet /\ frames[k] \in FrameSet
          BY <1>1, <1>5, <2>1, <4>2
        <5> QED BY <5>1 DEF FrameSet
      <4>4. frames[i].at > frames[j].at
        BY <4>1, <4>3 DEF Follows
      <4>5. Follows(marked[k], frames[j])
        BY <2>4, <2>7, <3>1, <3>2, <4>1, <4>3, <4>4 DEF Follows
      <4>6. \A h \in j + 1 .. k - 1 : h # i => frames[h].codec # frames[k].codec
        <5>1. \A h \in j + 1 .. k - 1 : h # i => h \in j + 1 .. i - 1 \/ h \in i + 1 .. k - 1
          BY <1>5, <2>1
        <5> QED BY <3>1, <4>1, <5>1
      <4> QED BY <2>6, <4>2, <4>5, <4>6
    <3> QED BY <2>1, <3>3, <3>4 DEF InOrder
  <2>8. CASE ~first(k)
    <3>1. marked[k] = frames[k]
      BY <2>4, <2>8
    <3>2. CASE StartsStream(frames[k]) /\ \A j \in 1 .. k - 1 : frames[j].codec # frames[k].codec
      BY <2>5, <3>1, <3>2
    <3>3. CASE \E j \in 1 .. k - 1 : Follows(frames[k], frames[j]) /\ \A h \in j + 1 .. k - 1 : frames[h].codec # frames[k].codec
      <4>1. PICK j \in 1 .. k - 1 : Follows(frames[k], frames[j]) /\ \A h \in j + 1 .. k - 1 : frames[h].codec # frames[k].codec
        BY <3>3
      <4>2. j # i
        <5>1. SUFFICES ASSUME j = i PROVE FALSE
          OBVIOUS
        <5>2. k \in next
          BY <1>5, <2>1, <4>1, <5>1 DEF next, Follows
        <5>3. \A h \in next : k <= h
          BY <1>1, <1>5, <2>1, <4>1, <5>1, <5>2 DEF next
        <5> QED BY <2>8, <5>2, <5>3 DEF first
      <4> QED BY <2>6, <3>1, <4>1, <4>2
    <3> QED BY <2>1, <3>2, <3>3 DEF InOrder
  <2> QED BY <2>7, <2>8
<1>10. \A p \in 1 .. n - 1 : left[p].id = frames[place(p)].id /\ left[p].codec = frames[place(p)].codec
  <2> HIDE DEF place
  <2> QED BY <1>3, <1>6, <1>8
<1> QED BY <1>1, <1>6, <1>7, <1>8, <1>9, <1>10 DEF AllInOrder

LEMMA EnvironmentFiles ==
    ASSUME FilesInv, Environment
    PROVE  FilesInv'
<1> SUFFICES sources' \in Nat /\ FilesOk(disk') /\ job' = <<>>
  BY DEF FilesInv
<1>1. ASSUME NEW path \in {"picture", "sound"}, ReplaceInput(path)
      PROVE  sources' \in Nat /\ FilesOk(disk') /\ job' = <<>>
  <2>1. job' = <<>> /\ sources' = sources + 1 /\ sources' \in Nat
    BY <1>1 DEF ReplaceInput, NewSource, FilesInv
  <2>2. PICK fit \in BOOLEAN : disk' = [disk EXCEPT ![path] = RawFile(sources + 1, fit)]
    BY <1>1 DEF ReplaceInput
  <2>3. FileOk(path, RawFile(sources + 1, fit))
    BY <2>1, RawFileOk
  <2>4. FilesOk(disk')
    BY <2>2, <2>3 DEF FilesInv, FilesOk
  <2> QED BY <2>1, <2>4
<1>2. ASSUME NEW stream \in Streams, Supply(stream)
      PROVE  sources' \in Nat /\ FilesOk(disk') /\ job' = <<>>
  <2>1. job' = <<>> /\ sources' = sources + 1 /\ sources' \in Nat
    BY <1>2 DEF Supply, NewSource, FilesInv
  <2>2. stream.path \in Streamed /\ FileOk(stream.path, SuppliedFile(stream, sources + 1))
    BY <2>1, SuppliedFileOk
  <2>3. Puts(disk, disk', stream.path, SuppliedFile(stream, sources + 1))
    BY <1>2 DEF Supply, WithFile, Puts
  <2>4. FilesOk(disk')
    BY <2>2, <2>3, PutKeeps DEF FilesInv, Paths, Streamed
  <2> QED BY <2>1, <2>4
<1>3. ASSUME NEW path, RemoveFile(path) PROVE sources' \in Nat /\ FilesOk(disk') /\ job' = <<>>
  BY <1>3 DEF RemoveFile, MayAct, FilesInv, FilesOk
<1>4. ASSUME NEW path \in Elementary \cup Containers, Truncate(path)
      PROVE  sources' \in Nat /\ FilesOk(disk') /\ job' = <<>>
  <2>1. job' = <<>> /\ sources' \in Nat /\ path \in DOMAIN disk
    BY <1>4 DEF Truncate, MayAct, Opens, Exists, FilesInv
  <2> DEFINE file == disk[path]
  <2>2. PICK n \in 0 .. Len(file.frames) - (IF file.sealed THEN 0 ELSE 1) : \E cut \in Cuts :
          disk' = [disk EXCEPT ![path].frames = SubSeq(@, 1, n), ![path].torn = BreaksOff(cut), ![path].sealed = FALSE]
    BY <1>4 DEF Truncate
  <2>3. PICK torn \in BOOLEAN :
          disk' = [disk EXCEPT ![path].frames = SubSeq(@, 1, n), ![path].torn = torn, ![path].sealed = FALSE]
    BY <2>2 DEF BreaksOff
  <2>4. FileOk(path, file) /\ file \in FileSet /\ file.frames \in Seq(FrameSet) /\ AllInOrder(file.frames)
    BY <2>1, FieldsOf DEF FilesInv, FilesOk, FileOk
  <2>5. PICK frames : frames = SubSeq(file.frames, 1, n)
    OBVIOUS
  <2>6. n \in 0 .. Len(file.frames)
    BY <2>4, LenProperties
  <2>7. frames \in Seq(FrameSet) /\ AllInOrder(frames) /\ Len(frames) = n /\ \A i \in 1 .. n : frames[i] = file.frames[i]
    BY <2>4, <2>5, <2>6, PrefixInOrder
  <2>8. PICK less : less = [file EXCEPT !.frames = frames, !.torn = torn, !.sealed = FALSE]
    OBVIOUS
  <2>9. less \in FileSet /\ less.frames = frames /\ less.tracks = file.tracks
    BY <2>4, <2>7, <2>8 DEF FileSet
  <2>10. TrackCodecs(less) = TrackCodecs(file)
    BY <2>9 DEF TrackCodecs
  <2>11. FrameCodecs(less) \subseteq FrameCodecs(file)
    <3>1. DOMAIN frames = 1 .. n /\ DOMAIN file.frames = 1 .. Len(file.frames) /\ Len(file.frames) \in Nat
      BY <2>4, <2>7, LenProperties
    <3>2. \A i \in 1 .. n : i \in 1 .. Len(file.frames)
      BY <2>6, <3>1
    <3> QED BY <2>7, <2>9, <3>1, <3>2 DEF FrameCodecs
  <2>12. path \notin {"picture", "sound"}
    BY DEF Elementary, Containers
  <2>13. FileOk(path, less)
    BY <2>4, <2>7, <2>9, <2>10, <2>11, <2>12 DEF FileOk, OneVideo
  <2>14. DOMAIN disk' = DOMAIN disk /\ disk'[path] = less /\ \A other \in DOMAIN disk \ {path} : disk'[other] = disk[other]
    BY <2>1, <2>3, <2>5, <2>8
  <2>15. FilesOk(disk')
    BY <2>13, <2>14 DEF FilesInv, FilesOk
  <2> QED BY <2>1, <2>15
<1>5. ASSUME NEW path \in Containers, LoseBlock(path)
      PROVE  sources' \in Nat /\ FilesOk(disk') /\ job' = <<>>
  <2>1. job' = <<>> /\ sources' \in Nat /\ path \in DOMAIN disk
    BY <1>5 DEF LoseBlock, MayAct, Opens, Exists, FilesInv
  <2> DEFINE file == disk[path]
  <2>2. PICK i \in 1 .. Len(file.frames) - 1 : disk' = [disk EXCEPT ![path].frames = Without(@, i)]
    BY <1>5 DEF LoseBlock
  <2>3. FileOk(path, file) /\ file \in FileSet /\ file.frames \in Seq(FrameSet) /\ AllInOrder(file.frames)
    BY <2>1, FieldsOf DEF FilesInv, FilesOk, FileOk
  <2>4. PICK frames : frames = Without(file.frames, i)
    OBVIOUS
  <2>5. /\ frames \in Seq(FrameSet) /\ AllInOrder(frames)
        /\ \A p \in DOMAIN frames : \E k \in DOMAIN file.frames :
              frames[p].id = file.frames[k].id /\ frames[p].codec = file.frames[k].codec
    <3> HIDE DEF file
    <3> QED BY <2>2, <2>3, <2>4, WithoutInOrder
  <2>6. PICK less : less = [file EXCEPT !.frames = frames]
    OBVIOUS
  <2>7. less \in FileSet /\ less.frames = frames /\ less.tracks = file.tracks
    BY <2>3, <2>5, <2>6 DEF FileSet
  <2>8. TrackCodecs(less) = TrackCodecs(file)
    BY <2>7 DEF TrackCodecs
  <2>9. FrameCodecs(less) \subseteq FrameCodecs(file)
    BY <2>5, <2>7 DEF FrameCodecs
  <2>10. path \notin {"picture", "sound"}
    BY DEF Containers
  <2>11. FileOk(path, less)
    BY <2>3, <2>5, <2>7, <2>8, <2>9, <2>10 DEF FileOk, OneVideo
  <2>12. DOMAIN disk' = DOMAIN disk /\ disk'[path] = less /\ \A other \in DOMAIN disk \ {path} : disk'[other] = disk[other]
    BY <2>1, <2>2, <2>4, <2>6
  <2>13. FilesOk(disk')
    BY <2>11, <2>12 DEF FilesInv, FilesOk
  <2> QED BY <2>1, <2>13
<1> QED BY <1>1, <1>2, <1>3, <1>4, <1>5 DEF Environment

-----------------------------------------------------------------------------
(* The files that are there at first.                                      *)

EarlierOf(i) == {j \in 1 .. i - 1 : Stored[j] = Stored[i]}

LEMMA EarlierFinite ==
    ASSUME NEW i \in Nat
    PROVE  IsFiniteSet(EarlierOf(i)) /\ Cardinality(EarlierOf(i)) \in Nat
<1>1. IsFiniteSet(1 .. i - 1) /\ EarlierOf(i) \subseteq 1 .. i - 1
  BY FS_Interval DEF EarlierOf
<1> QED BY <1>1, FS_Subset, FS_CardinalityType

LEMMA GreatestNumber ==
    ASSUME NEW n \in Nat, NEW set \in SUBSET (1 .. n), set # {}
    PROVE  \E x \in set : \A y \in set : y <= x
<1> DEFINE down == {n - x : x \in set}
<1>1. down \in SUBSET Nat /\ down # {}
  <2>1. \A x \in set : n - x \in Nat
    OBVIOUS
  <2>2. PICK x : x \in set
    OBVIOUS
  <2>3. n - x \in down
    BY <2>2
  <2> QED BY <2>1, <2>3
<1> HIDE DEF down
<1>2. PICK d \in down : \A y \in down : d <= y
  BY <1>1, LeastNumber
<1>3. PICK x \in set : d = n - x
  BY DEF down
<1>4. \A y \in set : n - y \in down
  BY DEF down
<1>5. \A y \in set : d <= n - y
  BY <1>2, <1>4
<1> QED BY <1>3, <1>5

LEMMA StoredFileOk == FileOk("528", StoredFile)
<1> DEFINE made(i) == WithId(Frame(Stored[i], 1, Cardinality(EarlierOf(i)), "intra"), IF Stored[i] = "audio" THEN 2 ELSE 1)
           frames == [i \in DOMAIN Stored |-> made(i)]
           tracks == <<Track(1, "v1"), Track(2, "audio")>>
           file == StoredFile
<1>1. file = [File(tracks, frames) EXCEPT !.sealed = TRUE]
  BY DEF StoredFile, EarlierOf
<1>2. PICK n \in Nat : DOMAIN Stored = 1 .. n /\ \A i \in 1 .. n : Stored[i] \in {"v1", "audio"}
  BY ConversionAssumption, LenProperties, ElementOfSeq
<1>3. ASSUME NEW i \in 1 .. n
      PROVE  /\ made(i) \in FrameSet
             /\ made(i) = [id |-> IF Stored[i] = "audio" THEN 2 ELSE 1, codec |-> Stored[i], source |-> 1,
                           at |-> Cardinality(EarlierOf(i)), kind |-> "intra", gap |-> FALSE]
  <2>1. Cardinality(EarlierOf(i)) \in Nat
    BY EarlierFinite
  <2>2. Stored[i] \in Codecs
    BY <1>2 DEF Codecs
  <2>3. PICK id \in Nat : id = IF Stored[i] = "audio" THEN 2 ELSE 1
    OBVIOUS
  <2>4. made(i) = WithId(Frame(Stored[i], 1, Cardinality(EarlierOf(i)), "intra"), id)
    BY <2>3
  <2>5. made(i) = [id |-> id, codec |-> Stored[i], source |-> 1, at |-> Cardinality(EarlierOf(i)), kind |-> "intra",
                   gap |-> FALSE]
    <3>1. PICK at : at = Cardinality(EarlierOf(i))
      OBVIOUS
    <3>2. PICK codec : codec = Stored[i]
      OBVIOUS
    <3>3. WithId(Frame(codec, 1, at, "intra"), id)
             = [id |-> id, codec |-> codec, source |-> 1, at |-> at, kind |-> "intra", gap |-> FALSE]
      BY FrameWithId
    <3> HIDE DEF made
    <3> QED BY <2>4, <3>1, <3>2, <3>3
  <2> HIDE DEF made
  <2> QED BY <2>1, <2>2, <2>3, <2>5 DEF FrameSet, FrameKinds
<1>4. frames = [i \in 1 .. n |-> made(i)]
  BY <1>2
<1> HIDE DEF made, frames
<1>5. /\ frames \in Seq(FrameSet) /\ DOMAIN frames = 1 .. n
      /\ \A i \in 1 .. n : frames[i] = made(i)
  BY <1>3, <1>4
<1>6. ASSUME NEW k \in 1 .. n PROVE InOrder(frames, k)
  <2>1. \A j \in 1 .. k - 1 : j \in 1 .. n
    BY <1>2
  <2>2. frames[k].codec = Stored[k] /\ frames[k].at = Cardinality(EarlierOf(k)) /\ \A j \in 1 .. k - 1 : frames[j].codec = Stored[j]
    BY <1>3, <1>5, <2>1
  <2>3. CASE EarlierOf(k) = {}
    <3>1. frames[k].at = 0
      BY <2>2, <2>3, FS_EmptySet
    <3>2. \A j \in 1 .. k - 1 : Stored[j] # Stored[k]
      BY <2>3 DEF EarlierOf
    <3> QED BY <2>2, <3>1, <3>2 DEF InOrder, StartsStream
  <2>4. CASE EarlierOf(k) # {}
    <3>1. EarlierOf(k) \in SUBSET (1 .. n)
      BY <2>1 DEF EarlierOf
    <3>2. PICK j \in EarlierOf(k) : \A h \in EarlierOf(k) : h <= j
      BY <2>4, <3>1, GreatestNumber
    <3>3. j \in 1 .. k - 1 /\ j \in 1 .. n /\ Stored[j] = Stored[k]
      BY <2>1, <3>2 DEF EarlierOf
    <3>4. \A h \in j + 1 .. k - 1 : Stored[h] # Stored[k]
      BY <3>2, <3>3 DEF EarlierOf
    <3>5. EarlierOf(k) = EarlierOf(j) \cup {j}
      <4>1. \A h \in EarlierOf(k) : h = j \/ h \in 1 .. j - 1
        BY <3>2, <3>3 DEF EarlierOf
      <4> QED BY <3>3, <4>1 DEF EarlierOf
    <3>6. j \notin EarlierOf(j)
      BY <3>3 DEF EarlierOf
    <3>7. Cardinality(EarlierOf(k)) = Cardinality(EarlierOf(j)) + 1
      <4>1. IsFiniteSet(EarlierOf(j))
        BY <3>3, EarlierFinite
      <4> QED BY <3>5, <3>6, <4>1, FS_AddElement
    <3>8. Follows(frames[k], frames[j])
      BY <1>3, <1>5, <3>3, <3>7 DEF Follows
    <3>9. \A h \in j + 1 .. k - 1 : frames[h].codec # frames[k].codec
      <4>1. \A h \in j + 1 .. k - 1 : h \in 1 .. k - 1
        BY <3>3
      <4> QED BY <2>2, <3>4, <4>1
    <3> QED BY <3>3, <3>8, <3>9 DEF InOrder
  <2> QED BY <2>3, <2>4
<1>7. /\ tracks \in Seq(TrackSet) /\ DOMAIN tracks = {1, 2} /\ tracks[1].codec = "v1" /\ tracks[2].codec = "audio"
  BY DEF Track, TrackSet, Codecs
<1> HIDE DEF tracks, file
<1>8. file \in FileSet /\ file.frames = frames /\ file.tracks = tracks
  BY <1>1, <1>5, <1>7 DEF File, FileSet
<1>9. TrackCodecs(file) = {"v1", "audio"}
  BY <1>7, <1>8 DEF TrackCodecs
<1>10. FrameCodecs(file) \subseteq {"v1", "audio"}
  BY <1>2, <1>3, <1>5, <1>8 DEF FrameCodecs
<1>11. OneVideo(file)
  BY <1>9 DEF OneVideo, IsVideo
<1>12. "528" \notin Elementary /\ "528" \notin {"picture", "sound"}
  BY DEF Elementary
<1> QED BY <1>5, <1>6, <1>8, <1>9, <1>10, <1>11, <1>12 DEF file, FileOk, AllInOrder

LEMMA InitFiles ==
    ASSUME ConversionInit
    PROVE  FilesInv
<1>1. PICK given \in Given :
        disk = [path \in {stream.path : stream \in given} \cup {"picture", "sound", "528"} |-> FileAtFirst(given, path)]
  BY DEF ConversionInit
<1>2. given \subseteq Streams
  BY ConversionAssumption
<1>3. ASSUME NEW path \in DOMAIN disk PROVE path \in Paths /\ FileOk(path, disk[path])
  <2>1. disk[path] = FileAtFirst(given, path)
    BY <1>1
  <2>2. CASE \E stream \in given : stream.path = path
    <3>1. PICK stream \in given : stream.path = path /\ stream = (CHOOSE s \in given : s.path = path)
      BY <2>2
    <3>2. disk[path] = SuppliedFile(stream, 1)
      BY <2>1, <2>2, <3>1 DEF FileAtFirst
    <3>3. stream.path \in Streamed /\ FileOk(stream.path, SuppliedFile(stream, 1))
      BY <1>2, SuppliedFileOk
    <3> QED BY <3>1, <3>2, <3>3 DEF Paths, Streamed
  <2>3. CASE ~\E stream \in given : stream.path = path
    <3>1. path \in {"picture", "sound", "528"}
      BY <1>1, <2>3
    <3>2. CASE path = "528"
      BY <2>1, <2>3, <3>2, StoredFileOk DEF FileAtFirst, Paths, Containers
    <3>3. CASE path # "528"
      <4>1. path \in {"picture", "sound"} /\ disk[path] = RawFile(1, TRUE)
        BY <2>1, <2>3, <3>1, <3>3 DEF FileAtFirst
      <4>2. FileOk(path, RawFile(1, TRUE))
        BY <4>1, RawFileOk
      <4> QED BY <4>1, <4>2 DEF Paths
    <3> QED BY <3>2, <3>3
  <2> QED BY <2>2, <2>3
<1> QED BY <1>3 DEF FilesInv, FilesOk, ConversionInit

LEMMA FilesStep ==
    ASSUME FilesInv, [Next]_vars
    PROVE  FilesInv'
<1>1. CASE UNCHANGED <<disk, job, sources>>
  <2>1. FilesOk(disk')
    BY <1>1 DEF FilesInv
  <2>2. ASSUME NEW record, Doing(record)
        PROVE  Doing(record)'
    BY <1>1, <2>2 DEF Doing
  <2>3. job' = job /\ sources' = sources
    BY <1>1
  <2> QED BY <2>1, <2>2, <2>3 DEF FilesInv
<1>2. CASE Press
  BY <1>1, <1>2 DEF Press
<1>3. CASE EditorAction
  BY <1>3, JobStarts, StartsKeep DEF EditorAction, FilesInv
<1>4. CASE Command
  BY <1>4, CommandStarts, StartsKeep DEF FilesInv
<1>5. CASE Step
  BY <1>5, StepFiles
<1>6. CASE FinishJob
  BY <1>6, FinishFiles
<1>7. CASE Interrupt
  BY <1>7, InterruptFiles
<1>8. CASE Environment
  BY <1>8, EnvironmentFiles
<1>9. CASE Tick \/ UNCHANGED vars
  BY <1>1, <1>9 DEF Tick, vars, conversionVars
<1> QED
  BY <1>2, <1>3, <1>4, <1>5, <1>6, <1>7, <1>8, <1>9
  DEF Next, OpenMedia, Play, CloseMedia, Pause, Stop, Seek, RefreshLicense, OthersAct

-----------------------------------------------------------------------------
(* What is in a file, or will be when a job is done.                       *)

Adds(step, path, frame) == step.does = "append" /\ step.to = path /\ step.frame = frame
Holds(files, path, frame) == path \in DOMAIN files /\ \E i \in DOMAIN files[path].frames : files[path].frames[i] = frame
Coming(files, steps, path, frame) ==
    \/ \E k \in 1 .. Len(steps) : Adds(steps[k], path, frame)
    \/ Holds(files, path, frame) /\ \A k \in 1 .. Len(steps) : ~Creates(steps[k], path)
There(files, steps, path) == path \in DOMAIN files \/ \E k \in 1 .. Len(steps) : Creates(steps[k], path)
Seals(files, steps, path) ==
    IF Len(steps) = 0 THEN path \in DOMAIN files /\ files[path].sealed ELSE steps[Len(steps)] = Seal(path)

\* what a step does
Does(files, more, step) ==
    /\ step.does = "create" => Puts(files, more, step.to, step.file)
    /\ step.does = "append" => Grows(files, more, step.to, step.frame)
    /\ step.does = "seal" => /\ DOMAIN more = DOMAIN files
                             /\ \A path \in DOMAIN files \ {step.to} : more[path] = files[path]
                             /\ step.to \in DOMAIN files => more[step.to] = [files[step.to] EXCEPT !.sealed = TRUE]
    /\ step.does = "pass" => more = files

LEMMA StepDoes ==
    ASSUME NEW step
    PROVE  Does(disk, Performed(step), step)
<1>1. CASE step.does = "create"
  BY <1>1 DEF Performed, WithFile, Puts, Does
<1>2. CASE step.does = "append"
  BY <1>2 DEF Performed, Grows, Does
<1>3. CASE step.does = "seal"
  BY <1>3 DEF Performed, Does
<1>4. CASE step.does = "pass"
  BY <1>4 DEF Performed, Does
<1>5. CASE step.does \notin {"create", "append", "seal", "pass"}
  BY <1>5 DEF Does
<1> QED BY <1>1, <1>2, <1>3, <1>4, <1>5

\* A file that a step does not name stays.
LEMMA OthersStay ==
    ASSUME NEW files, NEW more, NEW step \in StepSet, Does(files, more, step), NEW path,
           step.does # "pass" => step.to # path
    PROVE  /\ path \in DOMAIN more <=> path \in DOMAIN files
           /\ path \in DOMAIN files => more[path] = files[path]
<1>1. CASE step.does = "create"
  BY <1>1 DEF Does, Puts
<1>2. CASE step.does = "append"
  BY <1>2 DEF Does, Grows
<1>3. CASE step.does = "seal"
  BY <1>3 DEF Does
<1>4. CASE step.does = "pass"
  BY <1>4 DEF Does
<1> QED BY <1>1, <1>2, <1>3, <1>4, KindsOfSteps

\* One of the steps is the first, or one of those behind it.
LEMMA FirstOrLater ==
    ASSUME NEW steps \in Seq(StepSet), steps # <<>>
    PROVE  /\ steps[1] \in StepSet /\ 1 \in 1 .. Len(steps) /\ Len(Tail(steps)) \in Nat /\ Len(Tail(steps)) = Len(steps) - 1
           /\ \A k \in 1 .. Len(Tail(steps)) : k + 1 \in 1 .. Len(steps) /\ Tail(steps)[k] = steps[k + 1]
           /\ \A k \in 1 .. Len(steps) : k = 1 \/ (k - 1 \in 1 .. Len(Tail(steps)) /\ Tail(steps)[k - 1] = steps[k])
<1>1. PICK n \in Nat \ {0} : n = Len(steps)
  BY LaterSteps
<1>2. PICK rest : rest = Tail(steps)
  OBVIOUS
<1>3. steps[1] \in StepSet /\ Len(rest) = n - 1 /\ \A k \in 1 .. n - 1 : rest[k] = steps[k + 1] /\ k + 1 \in 1 .. n
  BY <1>1, <1>2, LaterSteps
<1>4. \A k \in 1 .. n : k = 1 \/ (k - 1 \in 1 .. n - 1 /\ k - 1 + 1 = k)
  OBVIOUS
<1>5. \A k \in 1 .. n : k = 1 \/ (k - 1 \in 1 .. n - 1 /\ rest[k - 1] = steps[k])
  BY <1>3, <1>4
<1> QED BY <1>1, <1>2, <1>3, <1>5

\* A job that appends has created before.
LEMMA NoneCreated ==
    ASSUME NEW files, NEW steps, StepsOk(files, steps), steps # <<>>, steps[1].does = "append",
           NEW k \in 1 .. Len(steps)
    PROVE  steps[k].does # "create"
<1>1. k \in Nat /\ (k = 1 \/ 1 \in 1 .. k - 1)
  BY LaterSteps DEF StepsOk
<1> QED BY <1>1 DEF StepsOk, CreateOk

LEMMA StreamsCreatedEmpty ==
    ASSUME NEW files, NEW steps, StepsOk(files, steps), steps # <<>>, steps[1].does = "create", steps[1].to \in Streamed
    PROVE  steps[1].file.frames = <<>>
  BY FirstOrLater DEF StepsOk, CreateOk

LEMMA HeldAfterCreate ==
    ASSUME NEW files, NEW more, NEW step, Does(files, more, step), step.does = "create", NEW path, NEW frame,
           step.to = path => step.file.frames = <<>>
    PROVE  IF step.to = path THEN ~Holds(more, path, frame)
           ELSE Holds(more, path, frame) <=> Holds(files, path, frame)
<1>1. Puts(files, more, step.to, step.file)
  BY DEF Does
<1>2. CASE step.to = path
  <2>1. more[path].frames = <<>>
    BY <1>1, <1>2 DEF Puts
  <2> QED BY <1>2, <2>1 DEF Holds
<1>3. CASE step.to # path
  BY <1>1, <1>3 DEF Puts, Holds
<1> QED BY <1>2, <1>3

LEMMA HeldAfterAppend ==
    ASSUME NEW files, FilesOk(files), NEW more, NEW step, Does(files, more, step), step.does = "append", NEW path, NEW frame,
           step.frame \in FrameSet
    PROVE  /\ Holds(files, path, frame) => Holds(more, path, frame)
           /\ Holds(more, path, frame) => Holds(files, path, frame) \/ (step.to = path /\ step.frame = frame)
           /\ step.to = path /\ path \in DOMAIN files => Holds(more, path, step.frame)
<1>1. Grows(files, more, step.to, step.frame)
  BY DEF Does
<1>2. CASE step.to = path /\ path \in DOMAIN files
  <2>1. PICK old \in Seq(FrameSet) : old = files[path].frames
    BY <1>2, FieldsOf DEF FilesOk, FileOk
  <2>2. more[path].frames = Append(old, step.frame) /\ path \in DOMAIN more
    <3>1. files[path] \in FileSet
      BY <1>2 DEF FilesOk, FileOk
    <3>2. more[path] = [files[path] EXCEPT !.frames = Append(@, step.frame)] /\ path \in DOMAIN more
      BY <1>1, <1>2 DEF Grows
    <3> QED BY <2>1, <3>1, <3>2 DEF FileSet
  <2>3. PICK n \in Nat : n = Len(old) /\ DOMAIN old = 1 .. n
    BY LenProperties
  <2>4. PICK longer : longer = Append(old, step.frame)
    OBVIOUS
  <2>5. longer \in Seq(FrameSet) /\ Len(longer) = n + 1 /\ longer[n + 1] = step.frame /\ \A i \in 1 .. n : longer[i] = old[i]
    BY <2>3, <2>4, AppendProperties
  <2>6. DOMAIN longer = 1 .. n + 1
    BY <2>5, LenProperties
  <2>7. \A i \in 1 .. n + 1 : i \in 1 .. n \/ i = n + 1
    OBVIOUS
  <2>8. n + 1 \in 1 .. n + 1 /\ \A i \in 1 .. n : i \in 1 .. n + 1
    OBVIOUS
  <2> QED BY <1>2, <2>1, <2>2, <2>3, <2>4, <2>5, <2>6, <2>7, <2>8 DEF Holds
<1>3. CASE step.to = path /\ path \notin DOMAIN files
  BY <1>1, <1>3 DEF Grows, Holds
<1>4. CASE step.to # path
  BY <1>1, <1>4 DEF Grows, Holds
<1> QED BY <1>2, <1>3, <1>4

LEMMA HeldAfterQuiet ==
    ASSUME NEW files, FilesOk(files), NEW more, NEW step, Does(files, more, step), step.does \in {"seal", "pass"},
           NEW path, NEW frame
    PROVE  Holds(more, path, frame) <=> Holds(files, path, frame)
<1>1. CASE step.does = "seal"
  <2>1. \A to \in DOMAIN files : more[to].frames = files[to].frames
    <3> SUFFICES ASSUME NEW to \in DOMAIN files PROVE more[to].frames = files[to].frames
      OBVIOUS
    <3>1. files[to] \in FileSet
      BY DEF FilesOk, FileOk
    <3>2. CASE to = step.to
      <4>1. more[to] = [files[to] EXCEPT !.sealed = TRUE]
        BY <1>1, <3>2 DEF Does
      <4> QED BY <3>1, <4>1 DEF FileSet
    <3>3. CASE to # step.to
      BY <1>1, <3>3 DEF Does
    <3> QED BY <3>2, <3>3
  <2>2. DOMAIN more = DOMAIN files
    BY <1>1 DEF Does
  <2> QED BY <2>1, <2>2 DEF Holds
<1>2. CASE step.does = "pass"
  BY <1>2 DEF Does
<1> QED BY <1>1, <1>2

\* What a file will have does not change while a job goes on.
LEMMA ComingStays ==
    ASSUME NEW files, FilesOk(files), NEW steps, StepsOk(files, steps), steps # <<>>,
           NEW more, Does(files, more, steps[1]), NEW path \in Streamed, NEW frame
    PROVE  /\ Coming(files, steps, path, frame) => Coming(more, Tail(steps), path, frame)
           /\ Coming(more, Tail(steps), path, frame) => Coming(files, steps, path, frame)
<1> DEFINE rest == Tail(steps)
           Added(list) == \E k \in 1 .. Len(list) : Adds(list[k], path, frame)
           Created(list) == \E k \in 1 .. Len(list) : Creates(list[k], path)
<1>1. /\ steps[1] \in StepSet /\ 1 \in 1 .. Len(steps)
      /\ \A k \in 1 .. Len(rest) : k + 1 \in 1 .. Len(steps) /\ rest[k] = steps[k + 1]
      /\ \A k \in 1 .. Len(steps) : k = 1 \/ (k - 1 \in 1 .. Len(rest) /\ rest[k - 1] = steps[k])
  BY FirstOrLater DEF StepsOk
<1> HIDE DEF rest
<1>2. IF Adds(steps[1], path, frame) THEN Added(steps) ELSE Added(steps) <=> Added(rest)
  BY <1>1
<1>3. IF Creates(steps[1], path) THEN Created(steps) ELSE Created(steps) <=> Created(rest)
  BY <1>1
<1>4. Added(rest) => Added(steps)
  BY <1>1
<1>5. (Coming(files, steps, path, frame) <=> Added(steps) \/ (Holds(files, path, frame) /\ ~Created(steps)))
               /\ (Coming(more, rest, path, frame) <=> Added(rest) \/ (Holds(more, path, frame) /\ ~Created(rest)))
  BY DEF Coming
<1> HIDE DEF Added, Created
<1>6. CASE steps[1].does = "create"
  <2>1. ~Adds(steps[1], path, frame)
    BY <1>6 DEF Adds
  <2>2. steps[1].to = path => steps[1].file.frames = <<>>
    BY <1>6, StreamsCreatedEmpty
  <2>3. IF steps[1].to = path THEN ~Holds(more, path, frame) ELSE Holds(more, path, frame) <=> Holds(files, path, frame)
    BY <1>6, <2>2, HeldAfterCreate
  <2>4. CASE steps[1].to = path
    <3>1. Created(steps)
      BY <1>3, <1>6, <2>4 DEF Creates
    <3> QED BY <1>2, <1>5, <2>1, <2>3, <2>4, <3>1 DEF rest
  <2>5. CASE steps[1].to # path
    <3>1. ~Creates(steps[1], path)
      BY <2>5 DEF Creates
    <3> QED BY <1>2, <1>3, <1>5, <2>1, <2>3, <2>5, <3>1 DEF rest
  <2> QED BY <2>4, <2>5
<1>7. CASE steps[1].does = "append"
  <2>1. ~Created(steps) /\ ~Created(rest)
    <3>1. \A k \in 1 .. Len(steps) : steps[k].does # "create"
      BY <1>7, NoneCreated
    <3> QED BY <1>1, <3>1 DEF Created, Creates
  <2>2. steps[1].frame \in FrameSet
    BY <1>1, <1>7, KindsOfSteps
  <2>3. steps[1].to \in DOMAIN files
    <3>1. CodecOk(files, steps, 1) /\ \A h \in 1 .. 1 - 1 : FALSE
      BY <1>1 DEF StepsOk
    <3> QED BY <1>7, <3>1 DEF CodecOk
  <2>4. /\ Holds(files, path, frame) => Holds(more, path, frame)
        /\ Holds(more, path, frame) => Holds(files, path, frame) \/ (steps[1].to = path /\ steps[1].frame = frame)
        /\ steps[1].to = path /\ path \in DOMAIN files => Holds(more, path, steps[1].frame)
    BY <1>7, <2>2, HeldAfterAppend
  <2>5. CASE Adds(steps[1], path, frame)
    <3>1. steps[1].to = path /\ steps[1].frame = frame
      BY <2>5 DEF Adds
    <3>2. Holds(more, path, frame)
      BY <2>3, <2>4, <3>1
    <3> QED BY <1>2, <1>5, <2>1, <2>5, <3>2 DEF rest
  <2>6. CASE ~Adds(steps[1], path, frame)
    <3>1. ~(steps[1].to = path /\ steps[1].frame = frame)
      BY <1>7, <2>6 DEF Adds
    <3> QED BY <1>2, <1>5, <2>1, <2>4, <2>6, <3>1 DEF rest
  <2> QED BY <2>5, <2>6
<1>8. CASE steps[1].does \in {"seal", "pass"}
  <2>1. ~Adds(steps[1], path, frame) /\ ~Creates(steps[1], path)
    BY <1>8 DEF Adds, Creates
  <2>2. Holds(more, path, frame) <=> Holds(files, path, frame)
    BY <1>8, HeldAfterQuiet
  <2> QED BY <1>2, <1>3, <1>5, <2>1, <2>2 DEF rest
<1> QED BY <1>1, <1>6, <1>7, <1>8, KindsOfSteps

LEMMA ThereStays ==
    ASSUME NEW files, NEW steps, StepsOk(files, steps), steps # <<>>,
           NEW more, Does(files, more, steps[1]), NEW path, There(files, steps, path)
    PROVE  There(more, Tail(steps), path)
<1> DEFINE rest == Tail(steps)
<1>1. /\ steps[1] \in StepSet
      /\ \A k \in 1 .. Len(steps) : k = 1 \/ (k - 1 \in 1 .. Len(rest) /\ rest[k - 1] = steps[k])
  BY FirstOrLater DEF StepsOk
<1> HIDE DEF rest
<1>2. CASE path \in DOMAIN files \/ Creates(steps[1], path)
  <2>1. CASE steps[1].does = "create"
    BY <1>2, <2>1 DEF Does, Puts, There, Creates, rest
  <2>2. CASE steps[1].does = "append"
    BY <1>2, <2>2 DEF Does, Grows, There, Creates, rest
  <2>3. CASE steps[1].does = "seal"
    BY <1>2, <2>3 DEF Does, There, Creates, rest
  <2>4. CASE steps[1].does = "pass"
    BY <1>2, <2>4 DEF Does, There, Creates, rest
  <2> QED BY <1>1, <2>1, <2>2, <2>3, <2>4, KindsOfSteps
<1>3. CASE \E k \in 1 .. Len(steps) : k # 1 /\ Creates(steps[k], path)
  BY <1>1, <1>3 DEF There, rest
<1> QED BY <1>2, <1>3 DEF There

\* A file that is sealed last is sealed in the end.
LEMMA SealsStay ==
    ASSUME NEW files, NEW steps, StepsOk(files, steps), steps # <<>>,
           NEW more, Does(files, more, steps[1]), NEW path, There(files, steps, path), Seals(files, steps, path)
    PROVE  Seals(more, Tail(steps), path)
<1>1. PICK n \in Nat \ {0} : n = Len(steps)
  BY LaterSteps DEF StepsOk
<1>2. PICK rest : rest = Tail(steps)
  OBVIOUS
<1>3. Len(rest) = n - 1 /\ \A k \in 1 .. n - 1 : rest[k] = steps[k + 1]
  BY <1>1, <1>2, LaterSteps DEF StepsOk
<1>4. steps[n] = Seal(path)
  BY <1>1 DEF Seals
<1>5. CASE n = 1
  <2>1. steps[1].does = "seal" /\ steps[1].to = path
    BY <1>4, <1>5 DEF Seal
  <2>2. path \in DOMAIN files
    <3>1. \A k \in 1 .. Len(steps) : k = 1
      BY <1>1, <1>5
    <3> QED BY <2>1, <3>1 DEF There, Creates
  <2>3. DOMAIN more = DOMAIN files /\ more[path] = [files[path] EXCEPT !.sealed = TRUE]
    BY <2>1, <2>2 DEF Does
  <2> QED BY <1>2, <1>3, <1>5, <2>2, <2>3 DEF Seals
<1>6. CASE n # 1
  <2>1. n - 1 \in 1 .. n - 1 /\ n - 1 + 1 = n /\ n - 1 # 0
    BY <1>6
  <2> QED BY <1>2, <1>3, <1>4, <2>1 DEF Seals
<1> QED BY <1>5, <1>6

-----------------------------------------------------------------------------
(* A job carries its inputs over to its outputs.                           *)

From(files, inputs, frame) == \E other \in inputs : \E k \in DOMAIN files[other].frames : SamePlace(frame, files[other].frames[k])
Into(files, steps, outputs, frame) ==
    \E other \in outputs : \E coming : Coming(files, steps, other, coming) /\ SamePlace(frame, coming)
Carries(files, steps, inputs, outputs, all) ==
    /\ inputs \subseteq DOMAIN files /\ inputs \cap outputs = {} /\ outputs \subseteq Streamed
    /\ \A k \in 1 .. Len(steps) : steps[k].does # "pass" => steps[k].to \in outputs
    /\ \A path \in inputs : ~files[path].torn
    /\ \A path \in outputs : There(files, steps, path)
    /\ \A path \in outputs : \A frame : Coming(files, steps, path, frame) => From(files, inputs, frame)
    /\ all => \A path \in inputs : \A i \in DOMAIN files[path].frames : Into(files, steps, outputs, files[path].frames[i])

\* Files other than `paths` are there, and hold the same, before and after.
Leaves(files, more, paths) ==
    \A path : path \notin paths => /\ path \in DOMAIN more <=> path \in DOMAIN files
                                   /\ path \in DOMAIN files => more[path] = files[path]

\* A step writes to the outputs, and leaves every other file as it is.
LEMMA CarriesOn ==
    ASSUME NEW files, FilesOk(files), NEW steps, StepsOk(files, steps), steps # <<>>,
           NEW more, Does(files, more, steps[1]), NEW inputs, NEW outputs, NEW all,
           Carries(files, steps, inputs, outputs, all)
    PROVE  /\ Carries(more, Tail(steps), inputs, outputs, all)
           /\ Leaves(files, more, outputs)
<1> DEFINE rest == Tail(steps)
<1>1. /\ steps[1] \in StepSet /\ 1 \in 1 .. Len(steps)
      /\ \A k \in 1 .. Len(rest) : k + 1 \in 1 .. Len(steps) /\ rest[k] = steps[k + 1]
  BY FirstOrLater DEF StepsOk
<1> HIDE DEF rest
<1>2. steps[1].does # "pass" => steps[1].to \in outputs
  BY <1>1 DEF Carries
<1>3. \A path : path \notin outputs => /\ path \in DOMAIN more <=> path \in DOMAIN files
                                       /\ path \in DOMAIN files => more[path] = files[path]
  BY <1>1, <1>2, OthersStay
<1>4. \A path \in inputs : path \in DOMAIN files /\ path \in DOMAIN more /\ more[path] = files[path]
  BY <1>3 DEF Carries
<1>5. \A k \in 1 .. Len(rest) : rest[k].does # "pass" => rest[k].to \in outputs
  BY <1>1 DEF Carries
<1>6. \A path \in outputs : There(more, rest, path)
  BY ThereStays DEF Carries, rest
<1>7. \A path \in outputs : \A frame : /\ Coming(files, steps, path, frame) => Coming(more, rest, path, frame)
                                       /\ Coming(more, rest, path, frame) => Coming(files, steps, path, frame)
  BY ComingStays DEF Carries, rest
<1>8. \A frame : From(files, inputs, frame) => From(more, inputs, frame)
  BY <1>4 DEF From
<1>9. \A frame : Into(files, steps, outputs, frame) => Into(more, rest, outputs, frame)
  BY <1>7 DEF Into
<1>10. Carries(more, rest, inputs, outputs, all)
  <2>1. inputs \subseteq DOMAIN more /\ inputs \cap outputs = {} /\ outputs \subseteq Streamed
    BY <1>4 DEF Carries
  <2>2. \A path \in inputs : ~more[path].torn
    BY <1>4 DEF Carries
  <2>3. \A path \in outputs : \A frame : Coming(more, rest, path, frame) => From(more, inputs, frame)
    BY <1>7, <1>8 DEF Carries
  <2>4. all => \A path \in inputs : \A i \in DOMAIN more[path].frames : Into(more, rest, outputs, more[path].frames[i])
    BY <1>4, <1>9 DEF Carries
  <2> QED BY <1>5, <1>6, <2>1, <2>2, <2>3, <2>4 DEF Carries
<1> QED BY <1>3, <1>10 DEF rest, Leaves

\* When no step is left, the outputs hold what was to come.
LEMMA CarriedInTheEnd ==
    ASSUME NEW inputs, NEW outputs, NEW all, Carries(disk, <<>>, inputs, outputs, all)
    PROVE  /\ \A path \in inputs : ~disk[path].torn
           /\ AllIn(outputs, inputs)
           /\ all => AllIn(inputs, outputs)
<1>1. \A path, frame : /\ Coming(disk, <<>>, path, frame) => Holds(disk, path, frame)
                       /\ Holds(disk, path, frame) => Coming(disk, <<>>, path, frame)
  <2>1. \A k \in 1 .. Len(<<>>) : FALSE
    OBVIOUS
  <2> QED BY <2>1 DEF Coming
<1>2. \A path \in outputs : path \in DOMAIN disk
  <2>1. \A k \in 1 .. Len(<<>>) : FALSE
    OBVIOUS
  <2> QED BY <2>1 DEF Carries, There
<1>3. AllIn(outputs, inputs)
  <2> SUFFICES ASSUME NEW path \in outputs, NEW i \in DOMAIN disk[path].frames PROVE From(disk, inputs, disk[path].frames[i])
    BY DEF AllIn, From
  <2>1. Holds(disk, path, disk[path].frames[i])
    BY <1>2 DEF Holds
  <2> QED BY <1>1, <2>1 DEF Carries
<1>4. ASSUME all PROVE AllIn(inputs, outputs)
  <2> SUFFICES ASSUME NEW path \in inputs, NEW i \in DOMAIN disk[path].frames
               PROVE  \E other \in outputs : \E k \in DOMAIN disk[other].frames :
                         SamePlace(disk[path].frames[i], disk[other].frames[k])
    BY DEF AllIn
  <2>1. Into(disk, <<>>, outputs, disk[path].frames[i])
    BY <1>4 DEF Carries
  <2>2. PICK other, coming : other \in outputs /\ Holds(disk, other, coming) /\ SamePlace(disk[path].frames[i], coming)
    BY <1>1, <2>1 DEF Into
  <2> QED BY <2>2 DEF Holds
<1> QED BY <1>3, <1>4 DEF Carries

\* A job that creates all of its outputs and appends the frames of its inputs.
Among(step, steps) == \E k \in 1 .. Len(steps) : steps[k] = step

LEMMA CarryingBegins ==
    ASSUME NEW files, NEW steps, NEW inputs, NEW outputs, NEW all,
           inputs \subseteq DOMAIN files, inputs \cap outputs = {}, outputs \subseteq Streamed,
           \A path \in inputs : ~files[path].torn,
           \A step : Among(step, steps) /\ step.does # "pass" => step.to \in outputs,
           \A path \in outputs : \E step : Among(step, steps) /\ Creates(step, path),
           \A step : Among(step, steps) /\ step.does = "append" => From(files, inputs, step.frame),
           all => \A path \in inputs : \A i \in DOMAIN files[path].frames : \E step :
                     Among(step, steps) /\ step.does = "append" /\ SamePlace(files[path].frames[i], step.frame)
    PROVE  Carries(files, steps, inputs, outputs, all)
<1>1. \A k \in 1 .. Len(steps) : Among(steps[k], steps)
  BY DEF Among
<1>2. \A path \in outputs : There(files, steps, path)
  BY DEF There, Among
<1>3. \A path \in outputs : \A frame : Coming(files, steps, path, frame) => From(files, inputs, frame)
  <2> SUFFICES ASSUME NEW path \in outputs, NEW frame, Coming(files, steps, path, frame) PROVE From(files, inputs, frame)
    OBVIOUS
  <2>1. PICK k \in 1 .. Len(steps) : Creates(steps[k], path)
    BY DEF Among
  <2>2. PICK h \in 1 .. Len(steps) : Adds(steps[h], path, frame)
    BY <2>1 DEF Coming
  <2> QED BY <1>1, <2>2 DEF Adds
<1>4. ASSUME all, NEW path \in inputs, NEW i \in DOMAIN files[path].frames
      PROVE  Into(files, steps, outputs, files[path].frames[i])
  <2>1. PICK step : Among(step, steps) /\ step.does = "append" /\ SamePlace(files[path].frames[i], step.frame)
    BY <1>4
  <2>2. step.to \in outputs
    BY <2>1
  <2>3. Coming(files, steps, step.to, step.frame)
    BY <2>1 DEF Coming, Adds, Among
  <2> QED BY <2>1, <2>2, <2>3 DEF Into
<1>5. \A k \in 1 .. Len(steps) : steps[k].does # "pass" => steps[k].to \in outputs
  BY <1>1
<1> QED BY <1>2, <1>3, <1>4, <1>5 DEF Carries

-----------------------------------------------------------------------------
(* The tracks of a container: 1 is the video and 2 the sound, unless the   *)
(* sound has track 1.                                                      *)

IdOk(frame) == frame.id = IF IsVideo(frame.codec) THEN 1 ELSE 2
Sounds(file) == \E i \in DOMAIN file.tracks : file.tracks[i] = Track(1, "audio")
Numbered(files, path) == Sounds(files[path]) \/ \A frame : Holds(files, path, frame) => IdOk(frame)
AllNumbered(files) == \A path \in DOMAIN files : path \in Containers => Numbered(files, path)

\* the sound will have track 1
WillSound(files, steps, path) ==
    /\ \A k \in 1 .. Len(steps) : Creates(steps[k], path) => Sounds(steps[k].file)
    /\ (\A k \in 1 .. Len(steps) : ~Creates(steps[k], path)) => path \in DOMAIN files /\ Sounds(files[path])
NumbersOk(files, steps) ==
    \A k \in 1 .. Len(steps) :
        steps[k].does = "append" /\ steps[k].to \in Containers => IdOk(steps[k].frame) \/ WillSound(files, steps, steps[k].to)

\* A step that does not create a file leaves its tracks.
LEMMA TracksStay ==
    ASSUME NEW files, FilesOk(files), NEW step \in StepSet, NEW more, Does(files, more, step),
           NEW path \in DOMAIN files, ~Creates(step, path)
    PROVE  path \in DOMAIN more /\ more[path].tracks = files[path].tracks
<1>1. files[path] \in FileSet
  BY DEF FilesOk, FileOk
<1>2. CASE step.does = "create"
  BY <1>2 DEF Does, Puts, Creates
<1>3. CASE step.does = "append"
  <2>1. CASE step.to = path
    <3>1. path \in DOMAIN more /\ more[path] = [files[path] EXCEPT !.frames = Append(@, step.frame)]
      BY <1>3, <2>1 DEF Does, Grows
    <3>2. PICK longer : longer = Append(files[path].frames, step.frame)
      OBVIOUS
    <3> QED BY <1>1, <3>1, <3>2 DEF FileSet
  <2>2. CASE step.to # path
    BY <1>3, <2>2 DEF Does, Grows
  <2> QED BY <2>1, <2>2
<1>4. CASE step.does = "seal"
  <2>1. CASE step.to = path
    <3>1. path \in DOMAIN more /\ more[path] = [files[path] EXCEPT !.sealed = TRUE]
      BY <1>4, <2>1 DEF Does
    <3> QED BY <1>1, <3>1 DEF FileSet
  <2>2. CASE step.to # path
    BY <1>4, <2>2 DEF Does
  <2> QED BY <2>1, <2>2
<1>5. CASE step.does = "pass"
  BY <1>5 DEF Does
<1> QED BY <1>2, <1>3, <1>4, <1>5, KindsOfSteps

LEMMA WillSoundStays ==
    ASSUME NEW files, FilesOk(files), NEW steps, StepsOk(files, steps), steps # <<>>,
           NEW more, Does(files, more, steps[1]), NEW path, WillSound(files, steps, path)
    PROVE  WillSound(more, Tail(steps), path)
<1> DEFINE rest == Tail(steps)
<1>1. /\ steps[1] \in StepSet /\ 1 \in 1 .. Len(steps)
      /\ \A k \in 1 .. Len(rest) : k + 1 \in 1 .. Len(steps) /\ rest[k] = steps[k + 1]
      /\ \A k \in 1 .. Len(steps) : k = 1 \/ (k - 1 \in 1 .. Len(rest) /\ rest[k - 1] = steps[k])
  BY FirstOrLater DEF StepsOk
<1> HIDE DEF rest
<1>2. \A k \in 1 .. Len(rest) : Creates(rest[k], path) => Sounds(rest[k].file)
  BY <1>1 DEF WillSound
<1>3. ASSUME \A k \in 1 .. Len(rest) : ~Creates(rest[k], path) PROVE path \in DOMAIN more /\ Sounds(more[path])
  <2>1. CASE Creates(steps[1], path)
    <3>1. path \in DOMAIN more /\ more[path] = steps[1].file
      BY <2>1 DEF Creates, Does, Puts
    <3> QED BY <1>1, <2>1, <3>1 DEF WillSound
  <2>2. CASE ~Creates(steps[1], path)
    <3>1. \A k \in 1 .. Len(steps) : ~Creates(steps[k], path)
      BY <1>1, <1>3, <2>2
    <3>2. path \in DOMAIN files /\ Sounds(files[path])
      BY <3>1 DEF WillSound
    <3>3. path \in DOMAIN more /\ more[path].tracks = files[path].tracks
      BY <1>1, <2>2, <3>2, TracksStay
    <3> QED BY <3>2, <3>3 DEF Sounds
  <2> QED BY <2>1, <2>2
<1> QED BY <1>2, <1>3 DEF WillSound, rest

LEMMA NumbersStay ==
    ASSUME NEW files, FilesOk(files), AllNumbered(files), NEW steps, StepsOk(files, steps), NumbersOk(files, steps), steps # <<>>,
           NEW more, Does(files, more, steps[1])
    PROVE  AllNumbered(more) /\ NumbersOk(more, Tail(steps))
<1>1. /\ steps[1] \in StepSet /\ 1 \in 1 .. Len(steps)
      /\ \A k \in 1 .. Len(Tail(steps)) : k + 1 \in 1 .. Len(steps) /\ Tail(steps)[k] = steps[k + 1]
  BY FirstOrLater DEF StepsOk
<1>2. NumbersOk(more, Tail(steps))
  BY <1>1, WillSoundStays DEF NumbersOk
<1>3. ASSUME NEW path \in DOMAIN more, path \in Containers PROVE Numbered(more, path)
  <2>1. CASE steps[1].does # "pass" => steps[1].to # path
    <3>1. path \in DOMAIN files /\ more[path] = files[path]
      BY <1>1, <1>3, <2>1, OthersStay
    <3>2. Numbered(files, path)
      BY <1>3, <3>1 DEF AllNumbered
    <3> QED BY <1>3, <3>1, <3>2 DEF Numbered, Holds
  <2>2. CASE steps[1].does = "create" /\ steps[1].to = path
    <3>1. steps[1].file.frames = <<>>
      BY <1>3, <2>2, StreamsCreatedEmpty DEF Streamed
    <3>2. more[path].frames = <<>>
      BY <2>2, <3>1 DEF Does, Puts
    <3> QED BY <3>2 DEF Numbered, Holds
  <2>3. CASE steps[1].does = "append" /\ steps[1].to = path
    <3>1. path \in DOMAIN files
      BY <1>3, <2>3 DEF Does, Grows
    <3>2. more[path].tracks = files[path].tracks
      BY <1>1, <2>3, <3>1, TracksStay DEF Creates
    <3>3. steps[1].frame \in FrameSet
      BY <1>1, <2>3, KindsOfSteps
    <3>4. \A frame : Holds(more, path, frame) => Holds(files, path, frame) \/ steps[1].frame = frame
      BY <2>3, <3>3, HeldAfterAppend
    <3>5. Numbered(files, path)
      BY <1>3, <3>1 DEF AllNumbered
    <3>6. IdOk(steps[1].frame) \/ Sounds(files[path])
      <4>1. \A k \in 1 .. Len(steps) : ~Creates(steps[k], path)
        BY <2>3, NoneCreated DEF Creates
      <4> QED BY <1>1, <1>3, <2>3, <4>1 DEF NumbersOk, WillSound
    <3>7. Sounds(more[path]) <=> Sounds(files[path])
      BY <3>2 DEF Sounds
    <3> QED BY <3>4, <3>5, <3>6, <3>7 DEF Numbered
  <2>4. CASE steps[1].does \in {"seal", "pass"}
    <3>1. path \in DOMAIN files
      BY <1>3, <2>4 DEF Does
    <3>2. more[path].tracks = files[path].tracks
      BY <1>1, <2>4, <3>1, TracksStay DEF Creates
    <3>3. \A frame : Holds(more, path, frame) <=> Holds(files, path, frame)
      BY <2>4, HeldAfterQuiet
    <3>4. Numbered(files, path)
      BY <1>3, <3>1 DEF AllNumbered
    <3> QED BY <3>2, <3>3, <3>4 DEF Numbered, Sounds
  <2> QED BY <1>1, <2>1, <2>2, <2>3, <2>4, KindsOfSteps
<1> QED BY <1>2, <1>3 DEF AllNumbered

\* What a killed process leaves is numbered.
LEMMA PartNumbered ==
    ASSUME FilesOk(disk), AllNumbered(disk), NEW steps, StepsOk(disk, steps), steps # <<>>
    PROVE  AllNumbered(Partly(Head(steps)))
<1>1. Head(steps) = steps[1] /\ steps[1] \in StepSet /\ 1 \in 1 .. Len(steps)
  BY LaterSteps DEF StepsOk
<1> DEFINE more == Partly(steps[1])
<1>2. ASSUME NEW path \in DOMAIN more, path \in Containers PROVE Numbered(more, path)
  <2>1. CASE steps[1].does = "create"
    <3> DEFINE file == steps[1].file
               stub == [file EXCEPT !.head = FALSE, !.frames = <<>>]
    <3>1. more = WithFile(steps[1].to, stub)
      BY <2>1 DEF Partly
    <3>2. Puts(disk, more, steps[1].to, stub)
      BY <3>1 DEF Puts, WithFile
    <3>3. file \in FileSet
      BY <1>1, <2>1, KindsOfSteps
    <3>4. stub.frames = <<>>
      BY <3>3 DEF FileSet
    <3> HIDE DEF stub, more
    <3>5. CASE path = steps[1].to
      BY <3>2, <3>4, <3>5 DEF Puts, Numbered, Holds
    <3>6. CASE path # steps[1].to
      <4>1. path \in DOMAIN disk /\ more[path] = disk[path]
        BY <1>2, <3>2, <3>6 DEF Puts
      <4>2. Numbered(disk, path)
        BY <1>2, <4>1 DEF AllNumbered
      <4> QED BY <1>2, <4>1, <4>2 DEF Numbered, Holds
    <3> QED BY <3>5, <3>6
  <2>2. CASE steps[1].does \in {"append", "seal"}
    <3>1. more = [disk EXCEPT ![steps[1].to].torn = TRUE]
      BY <2>2 DEF Partly
    <3>2. path \in DOMAIN disk /\ disk[path] \in FileSet
      BY <1>2, <3>1 DEF FilesOk, FileOk
    <3>3. more[path].tracks = disk[path].tracks /\ more[path].frames = disk[path].frames
      <4>1. CASE path = steps[1].to
        <5>1. more[path] = [disk[path] EXCEPT !.torn = TRUE]
          BY <3>1, <3>2, <4>1
        <5> HIDE DEF more
        <5> QED BY <3>2, <5>1, MarkedFile
      <4>2. CASE path # steps[1].to
        BY <3>1, <3>2, <4>2
      <4> QED BY <4>1, <4>2
    <3>4. Numbered(disk, path)
      BY <1>2, <3>2 DEF AllNumbered
    <3> HIDE DEF more
    <3> QED BY <1>2, <3>2, <3>3, <3>4 DEF Numbered, Holds, Sounds
  <2>3. CASE steps[1].does = "pass"
    <3>1. more = disk
      BY <2>3 DEF Partly
    <3> QED BY <1>2, <3>1 DEF AllNumbered
  <2> QED BY <1>1, <2>1, <2>2, <2>3, KindsOfSteps
<1> QED BY <1>1, <1>2 DEF AllNumbered

\* The files of other programs are numbered, ...
LEMMA SuppliedNumbered ==
    ASSUME NEW stream \in Streams, stream.path \in Containers, NEW source \in Nat
    PROVE  \/ Sounds(SuppliedFile(stream, source))
           \/ \A i \in DOMAIN SuppliedFile(stream, source).frames : IdOk(SuppliedFile(stream, source).frames[i])
<1> DEFINE frames == [i \in DOMAIN stream.kinds |-> WithId(Frame(stream.codec, source, i - 1, stream.kinds[i]), 1)]
           tracks == <<Track(1, stream.codec)>>
<1>1. SuppliedFile(stream, source) = File(tracks, frames)
  BY DEF SuppliedFile, TrackId
<1> HIDE DEF tracks, frames
<1>2. SuppliedFile(stream, source).frames = frames /\ SuppliedFile(stream, source).tracks = tracks
  BY <1>1 DEF File
<1>3. CASE stream.codec = "audio"
  <2>1. 1 \in DOMAIN tracks /\ tracks[1] = Track(1, "audio")
    BY <1>3 DEF tracks
  <2> QED BY <1>2, <2>1 DEF Sounds
<1>4. CASE stream.codec # "audio"
  <2>1. ASSUME NEW i \in DOMAIN frames PROVE IdOk(frames[i])
    <3>1. frames[i] = WithId(Frame(stream.codec, source, i - 1, stream.kinds[i]), 1)
      BY <2>1 DEF frames
    <3>2. frames[i].id = 1 /\ frames[i].codec = stream.codec
      BY <3>1 DEF WithId, Frame
    <3> QED BY <1>4, <3>2 DEF IdOk, IsVideo
  <2> QED BY <1>2, <2>1
<1> QED BY <1>3, <1>4

\* ... and so is the one that is there at first.
LEMMA StoredNumbered == \A i \in DOMAIN StoredFile.frames : IdOk(StoredFile.frames[i])
<1> DEFINE made(i) == WithId(Frame(Stored[i], 1, Cardinality(EarlierOf(i)), "intra"), IF Stored[i] = "audio" THEN 2 ELSE 1)
           frames == [i \in DOMAIN Stored |-> made(i)]
           tracks == <<Track(1, "v1"), Track(2, "audio")>>
<1>1. StoredFile = [File(tracks, frames) EXCEPT !.sealed = TRUE]
  BY DEF StoredFile, EarlierOf
<1> HIDE DEF frames, tracks
<1>2. StoredFile.frames = frames
  BY <1>1 DEF File
<1>3. ASSUME NEW i \in DOMAIN frames PROVE IdOk(frames[i])
  <2>1. frames[i] = made(i)
    BY <1>3 DEF frames
  <2>2. PICK id : id = IF Stored[i] = "audio" THEN 2 ELSE 1
    OBVIOUS
  <2>3. frames[i] = WithId(Frame(Stored[i], 1, Cardinality(EarlierOf(i)), "intra"), id)
    BY <2>1, <2>2
  <2>4. frames[i].id = id /\ frames[i].codec = Stored[i]
    BY <2>3 DEF WithId, Frame
  <2> QED BY <2>2, <2>4 DEF IdOk, IsVideo
<1> QED BY <1>2, <1>3

LEMMA InitNumbered ==
    ASSUME ConversionInit
    PROVE  AllNumbered(disk)
<1>1. PICK given \in Given :
        disk = [path \in {stream.path : stream \in given} \cup {"picture", "sound", "528"} |-> FileAtFirst(given, path)]
  BY DEF ConversionInit
<1>2. given \subseteq Streams
  BY ConversionAssumption
<1>3. ASSUME NEW path \in DOMAIN disk, path \in Containers PROVE Numbered(disk, path)
  <2>1. disk[path] = FileAtFirst(given, path)
    BY <1>1, <1>3
  <2>2. CASE \E stream \in given : stream.path = path
    <3>1. PICK stream \in given : stream.path = path /\ stream = (CHOOSE s \in given : s.path = path)
      BY <2>2
    <3>2. disk[path] = SuppliedFile(stream, 1)
      BY <2>1, <2>2, <3>1 DEF FileAtFirst
    <3>3. Sounds(disk[path]) \/ \A i \in DOMAIN disk[path].frames : IdOk(disk[path].frames[i])
      BY <1>2, <1>3, <3>1, <3>2, SuppliedNumbered
    <3> QED BY <3>3 DEF Numbered, Holds
  <2>3. CASE ~\E stream \in given : stream.path = path
    <3>1. path = "528"
      BY <1>1, <1>3, <2>3 DEF Containers
    <3>2. disk[path] = StoredFile
      BY <2>1, <2>3, <3>1 DEF FileAtFirst
    <3> QED BY <3>2, StoredNumbered DEF Numbered, Holds
  <2> QED BY <2>2, <2>3
<1> QED BY <1>3 DEF AllNumbered

LEMMA EnvironmentNumbered ==
    ASSUME FilesInv, AllNumbered(disk), Environment
    PROVE  AllNumbered(disk')
<1>1. ASSUME NEW path \in {"picture", "sound"}, ReplaceInput(path) PROVE AllNumbered(disk')
  <2>1. PICK file : disk' = [disk EXCEPT ![path] = file]
    BY <1>1 DEF ReplaceInput
  <2>2. path \notin Containers
    BY DEF Containers
  <2> QED BY <2>1, <2>2 DEF AllNumbered, Numbered, Holds
<1>2. ASSUME NEW stream \in Streams, Supply(stream) PROVE AllNumbered(disk')
  <2> DEFINE file == SuppliedFile(stream, sources + 1)
  <2>1. Puts(disk, disk', stream.path, file)
    BY <1>2 DEF Supply, WithFile, Puts
  <2>2. sources + 1 \in Nat
    BY DEF FilesInv
  <2>3. stream.path \in Containers => Sounds(file) \/ \A i \in DOMAIN file.frames : IdOk(file.frames[i])
    BY <2>2, SuppliedNumbered
  <2> HIDE DEF file
  <2>4. ASSUME NEW path \in DOMAIN disk', path \in Containers PROVE Numbered(disk', path)
    <3>1. CASE path = stream.path
      BY <2>1, <2>3, <2>4, <3>1 DEF Puts, Numbered, Holds
    <3>2. CASE path # stream.path
      <4>1. path \in DOMAIN disk /\ disk'[path] = disk[path]
        BY <2>1, <2>4, <3>2 DEF Puts
      <4>2. Numbered(disk, path)
        BY <2>4, <4>1 DEF AllNumbered
      <4> QED BY <2>4, <4>1, <4>2 DEF Numbered, Holds
    <3> QED BY <3>1, <3>2
  <2> QED BY <2>4 DEF AllNumbered
<1>3. ASSUME NEW path, RemoveFile(path) PROVE AllNumbered(disk')
  <2>1. disk' = [p \in DOMAIN disk \ {path} |-> disk[p]]
    BY <1>3 DEF RemoveFile
  <2> QED BY <2>1 DEF AllNumbered, Numbered, Holds
<1>4. ASSUME NEW path \in Elementary \cup Containers, Truncate(path) PROVE AllNumbered(disk')
  <2>1. path \in DOMAIN disk
    BY <1>4 DEF Truncate, Opens, Exists
  <2> DEFINE file == disk[path]
  <2>2. PICK n \in 0 .. Len(file.frames) - (IF file.sealed THEN 0 ELSE 1) : \E cut \in Cuts :
          disk' = [disk EXCEPT ![path].frames = SubSeq(@, 1, n), ![path].torn = BreaksOff(cut), ![path].sealed = FALSE]
    BY <1>4 DEF Truncate
  <2>3. PICK torn \in BOOLEAN :
          disk' = [disk EXCEPT ![path].frames = SubSeq(@, 1, n), ![path].torn = torn, ![path].sealed = FALSE]
    BY <2>2 DEF BreaksOff
  <2>4. file \in FileSet /\ file.frames \in Seq(FrameSet) /\ AllInOrder(file.frames)
    BY <2>1, FieldsOf DEF FilesInv, FilesOk, FileOk
  <2>5. PICK frames : frames = SubSeq(file.frames, 1, n)
    OBVIOUS
  <2>6. n \in 0 .. Len(file.frames)
    BY <2>4, LenProperties
  <2>7. /\ frames \in Seq(FrameSet) /\ Len(frames) = n
        /\ \A i \in 1 .. n : frames[i] = file.frames[i]
    BY <2>4, <2>5, <2>6, PrefixInOrder
  <2>8. PICK less : less = [file EXCEPT !.frames = frames, !.torn = torn, !.sealed = FALSE]
    OBVIOUS
  <2>9. less.frames = frames /\ less.tracks = file.tracks
    BY <2>4, <2>7, <2>8 DEF FileSet
  <2>10. DOMAIN disk' = DOMAIN disk /\ disk'[path] = less /\ \A other \in DOMAIN disk \ {path} : disk'[other] = disk[other]
    BY <2>1, <2>3, <2>5, <2>8
  <2>11. \A frame : Holds(disk', path, frame) => Holds(disk, path, frame)
    <3>1. DOMAIN frames = 1 .. n /\ DOMAIN file.frames = 1 .. Len(file.frames) /\ Len(file.frames) \in Nat
      BY <2>4, <2>7, LenProperties
    <3>2. \A i \in 1 .. n : i \in 1 .. Len(file.frames)
      BY <2>6, <3>1
    <3> QED BY <2>1, <2>7, <2>9, <2>10, <3>1, <3>2 DEF Holds
  <2>12. Sounds(disk[path]) => Sounds(disk'[path])
    BY <2>9, <2>10 DEF Sounds
  <2>13. ASSUME NEW other \in DOMAIN disk', other \in Containers PROVE Numbered(disk', other)
    <3>1. Numbered(disk, other)
      BY <2>10, <2>13 DEF AllNumbered
    <3>2. CASE other = path
      BY <2>11, <2>12, <3>1, <3>2 DEF Numbered
    <3>3. CASE other # path
      BY <2>10, <2>13, <3>1, <3>3 DEF Numbered, Holds
    <3> QED BY <3>2, <3>3
  <2> QED BY <2>13 DEF AllNumbered
<1>5. ASSUME NEW path \in Containers, LoseBlock(path) PROVE AllNumbered(disk')
  <2>1. path \in DOMAIN disk
    BY <1>5 DEF LoseBlock, Opens, Exists
  <2> DEFINE file == disk[path]
  <2>2. PICK i \in 1 .. Len(file.frames) - 1 : disk' = [disk EXCEPT ![path].frames = Without(@, i)]
    BY <1>5 DEF LoseBlock
  <2>3. file \in FileSet /\ file.frames \in Seq(FrameSet) /\ AllInOrder(file.frames)
    BY <2>1, FieldsOf DEF FilesInv, FilesOk, FileOk
  <2>4. PICK frames : frames = Without(file.frames, i)
    OBVIOUS
  <2>5. \A p \in DOMAIN frames : \E k \in DOMAIN file.frames :
           frames[p].id = file.frames[k].id /\ frames[p].codec = file.frames[k].codec
    <3> HIDE DEF file
    <3>1. /\ frames \in Seq(FrameSet) /\ AllInOrder(frames)
          /\ \A p \in DOMAIN frames : \E k \in DOMAIN file.frames :
                frames[p].id = file.frames[k].id /\ frames[p].codec = file.frames[k].codec
      BY <2>2, <2>3, <2>4, WithoutInOrder
    <3> QED BY <3>1
  <2>6. PICK less : less = [file EXCEPT !.frames = frames]
    OBVIOUS
  <2>7. less.frames = frames /\ less.tracks = file.tracks
    BY <2>3, <2>6 DEF FileSet
  <2>8. DOMAIN disk' = DOMAIN disk /\ disk'[path] = less /\ \A other \in DOMAIN disk \ {path} : disk'[other] = disk[other]
    BY <2>1, <2>2, <2>4, <2>6
  <2>9. Numbered(disk', path)
    <3>1. Numbered(disk, path)
      BY <1>5, <2>1 DEF AllNumbered
    <3>2. CASE Sounds(file)
      BY <2>7, <2>8, <3>2 DEF Numbered, Sounds
    <3>3. CASE ~Sounds(file)
      <4>1. \A k \in DOMAIN file.frames : IdOk(file.frames[k])
        BY <2>1, <3>1, <3>3 DEF Numbered, Holds
      <4>2. \A p \in DOMAIN frames : IdOk(frames[p])
        BY <2>5, <4>1 DEF IdOk
      <4> QED BY <2>7, <2>8, <4>2 DEF Numbered, Holds
    <3> QED BY <3>2, <3>3
  <2>10. ASSUME NEW other \in DOMAIN disk', other \in Containers, other # path PROVE Numbered(disk', other)
    <3>1. Numbered(disk, other)
      BY <2>8, <2>10 DEF AllNumbered
    <3> QED BY <2>8, <2>10, <3>1 DEF Numbered, Holds
  <2> QED BY <2>9, <2>10 DEF AllNumbered
<1> QED BY <1>1, <1>2, <1>3, <1>4, <1>5 DEF Environment

-----------------------------------------------------------------------------
(* What the steps of a job are made of.                                    *)

LEMMA AmongGlued ==
    ASSUME NEW S, NEW s \in Seq(S), NEW t \in Seq(S), NEW step
    PROVE  /\ Among(step, s) \/ Among(step, t) => Among(step, s \o t)
           /\ Among(step, s \o t) => Among(step, s) \/ Among(step, t)
<1>1. PICK both : both = s \o t
  OBVIOUS
<1>2. PICK m \in Nat, n \in Nat : m = Len(s) /\ n = Len(t)
  BY LenProperties
<1>3. /\ Len(both) = m + n /\ \A i \in 1 .. m : both[i] = s[i]
      /\ \A i \in 1 .. n : both[m + i] = t[i]
  BY <1>1, <1>2, Glued
<1>4. \A k \in 1 .. m + n : k \in 1 .. m \/ (k - m \in 1 .. n /\ m + (k - m) = k)
  OBVIOUS
<1>5. Among(step, both) => Among(step, s) \/ Among(step, t)
  <2> SUFFICES ASSUME NEW k \in 1 .. m + n, both[k] = step PROVE Among(step, s) \/ Among(step, t)
    BY <1>3 DEF Among
  <2>1. CASE k \in 1 .. m
    BY <1>2, <1>3, <2>1 DEF Among
  <2>2. CASE k - m \in 1 .. n /\ m + (k - m) = k
    <3>1. both[m + (k - m)] = t[k - m]
      BY <1>3, <2>2
    <3> QED BY <1>2, <2>2, <3>1 DEF Among
  <2> QED BY <1>4, <2>1, <2>2
<1>6. Among(step, s) \/ Among(step, t) => Among(step, both)
  <2>1. \A i \in 1 .. m : i \in 1 .. m + n
    OBVIOUS
  <2>2. \A i \in 1 .. n : m + i \in 1 .. m + n
    OBVIOUS
  <2> QED BY <1>2, <1>3, <2>1, <2>2 DEF Among
<1> QED BY <1>1, <1>5, <1>6

LEMMA AmongOne ==
    ASSUME NEW S, NEW only \in S, NEW step
    PROVE  <<only>> \in Seq(S) /\ (Among(step, <<only>>) => step = only) /\ Among(only, <<only>>)
<1>1. Len(<<only>>) = 1 /\ <<only>>[1] = only /\ \A k \in 1 .. 1 : k = 1
  OBVIOUS
<1> QED BY <1>1 DEF Among

LEMMA NoneAmong ==
    ASSUME NEW step
    PROVE  ~Among(step, <<>>)
<1>1. \A k \in 1 .. Len(<<>>) : FALSE
  OBVIOUS
<1> QED BY <1>1 DEF Among

LEMMA SealedLast ==
    ASSUME NEW steps \in Seq(StepSet), NEW path \in Streamed
    PROVE  /\ Append(steps, Seal(path)) \in Seq(StepSet)
           /\ \A step : Among(step, Append(steps, Seal(path))) => Among(step, steps) \/ step = Seal(path)
           /\ \A step : Among(step, steps) => Among(step, Append(steps, Seal(path)))
           /\ \A files : Seals(files, Append(steps, Seal(path)), path)
<1>1. Seal(path) \in StepSet
  BY StepsThere
<1>2. PICK last \in StepSet : last = Seal(path)
  BY <1>1
<1>3. PICK more : more = Append(steps, last)
  OBVIOUS
<1>4. PICK n \in Nat : n = Len(steps)
  BY LenProperties
<1>5. more \in Seq(StepSet) /\ Len(more) = n + 1 /\ more[n + 1] = last /\ \A i \in 1 .. n : more[i] = steps[i]
  BY <1>3, <1>4, AppendProperties
<1>6. \A k \in 1 .. n + 1 : k \in 1 .. n \/ k = n + 1
  OBVIOUS
<1>7. \A k \in 1 .. n : k \in 1 .. n + 1
  OBVIOUS
<1>8. \A step : Among(step, more) => Among(step, steps) \/ step = last
  BY <1>4, <1>5, <1>6 DEF Among
<1>9. \A step : Among(step, steps) => Among(step, more)
  BY <1>4, <1>5, <1>7 DEF Among
<1>10. \A files : Seals(files, more, path)
  <2>1. n + 1 # 0
    OBVIOUS
  <2> QED BY <1>2, <1>5, <2>1 DEF Seals
<1> QED BY <1>2, <1>3, <1>5, <1>8, <1>9, <1>10

\* Steps that append nothing to a container, or what is numbered.
LEMMA NumbersBegin ==
    ASSUME NEW files, NEW steps,
           \A step : Among(step, steps) /\ step.does = "append" /\ step.to \in Containers
                        => IdOk(step.frame) \/ WillSound(files, steps, step.to)
    PROVE  NumbersOk(files, steps)
<1>1. \A k \in 1 .. Len(steps) : Among(steps[k], steps)
  BY DEF Among
<1> QED BY <1>1 DEF NumbersOk

LEMMA EncodeNumbers ==
    ASSUME NEW path \in Elementary
    PROVE  NumbersOk(disk, EncodeSteps(path))
<1> DEFINE first == Create(path, ElementaryFile(path, <<>>))
           second == Add(path, Frame(Codec[path], disk[RawInput(path)].frames[1].source, 0, "intra"))
<1>1. EncodeSteps(path) = <<first, second>>
  BY DEF EncodeSteps
<1>2. first.to = path /\ second.to = path /\ path \notin Containers
  BY DEF Create, Add, Elementary, Containers
<1> HIDE DEF first, second
<1>3. \A step : Among(step, <<first, second>>) => step = first \/ step = second
  <2>1. Len(<<first, second>>) = 2 /\ \A k \in 1 .. 2 : k = 1 \/ k = 2
    OBVIOUS
  <2> QED BY <2>1 DEF Among
<1> QED BY <1>1, <1>2, <1>3, NumbersBegin

LEMMA DecodeNumbers ==
    ASSUME NEW file
    PROVE  NumbersOk(disk, <<Create("raw", file)>>)
<1>1. \A step : Among(step, <<Create("raw", file)>>) => step = Create("raw", file)
  BY AmongOne
<1> QED BY <1>1, NumbersBegin DEF Create

-----------------------------------------------------------------------------
(* Muxing.                                                                 *)

MuxId(path) == IF path = "srsa" THEN 2 ELSE 1
MuxCreate == Create("528", File(MuxTracks, <<>>))
MuxAdd(path, i) == Add("528", WithId(disk[path].frames[i], MuxId(path)))
MuxInputs == VideoInput \cup AudioInput

LEMMA MuxInputsThere == \A path \in MuxInputs : path \in Elementary /\ Exists(path)
  BY VideoIsOne, AudioIsOne DEF MuxInputs, Elementary

LEMMA MuxedIs ==
    ASSUME FilesOk(disk), NEW path \in MuxInputs
    PROVE  /\ AppendAll("528", MuxedFrames(path, MuxId(path))) \in Seq(StepSet)
           /\ \A step : Among(step, AppendAll("528", MuxedFrames(path, MuxId(path))))
                           => \E i \in DOMAIN disk[path].frames : step = MuxAdd(path, i)
           /\ ~Stops(path) => \A i \in DOMAIN disk[path].frames :
                 Among(MuxAdd(path, i), AppendAll("528", MuxedFrames(path, MuxId(path))))
<1> DEFINE frames == disk[path].frames
           id == MuxId(path)
           adds == AppendAll("528", MuxedFrames(path, id))
<1>1. path \in Elementary /\ Exists(path) /\ id \in Nat
  BY MuxInputsThere DEF MuxId
<1>2. frames \in Seq(FrameSet) /\ \A i \in 1 .. Len(frames) : frames[i] \in FrameSet
  BY <1>1, MuxedFrom
<1>3. PICK m \in Nat : m = Len(frames) /\ DOMAIN frames = 1 .. m
  BY <1>2, LenProperties
<1>4. PICK n \in 0 .. m : DOMAIN Known(frames) = 1 .. n
  <2> HIDE DEF frames
  <2> QED BY <1>2, <1>3, KnownFrames
<1>5. \A i \in 1 .. n : i \in 1 .. m
  BY <1>3
<1>6. adds = [i \in 1 .. n |-> MuxAdd(path, i)]
  BY <1>4 DEF AppendAll, MuxedFrames, MuxAdd
<1>7. \A i \in 1 .. n : MuxAdd(path, i) \in StepSet
  <2> SUFFICES ASSUME NEW i \in 1 .. n PROVE MuxAdd(path, i) \in StepSet
    OBVIOUS
  <2>1. frames[i] \in FrameSet
    BY <1>2, <1>3, <1>5
  <2>2. WithId(frames[i], id) \in FrameSet
    <3> HIDE DEF frames, id
    <3> QED BY <1>1, <2>1, WithIdFrame
  <2> QED BY <2>2, StepsThere DEF MuxAdd, Streamed, Containers
<1> HIDE DEF adds
<1>8. adds \in Seq(StepSet) /\ Len(adds) = n /\ \A i \in 1 .. n : adds[i] = MuxAdd(path, i)
  <2> HIDE DEF MuxAdd
  <2> QED BY <1>3, <1>6, <1>7
<1>9. \A step : Among(step, adds) => \E i \in DOMAIN frames : step = MuxAdd(path, i)
  BY <1>3, <1>5, <1>8 DEF Among
<1>10. ASSUME ~Stops(path), NEW i \in DOMAIN frames PROVE Among(MuxAdd(path, i), adds)
  <2>1. Known(frames) = frames
    BY <1>10 DEF Stops
  <2>2. i \in 1 .. n
    BY <1>4, <1>10, <2>1
  <2> QED BY <1>8, <2>2 DEF Among
<1> QED BY <1>8, <1>9, <1>10 DEF adds, id, frames

LEMMA MuxMadeOf ==
    ASSUME FilesOk(disk)
    PROVE  /\ MuxSteps \in Seq(StepSet) /\ Among(MuxCreate, MuxSteps)
           /\ \A step : Among(step, MuxSteps) =>
                 step = MuxCreate \/ \E path \in MuxInputs : \E i \in DOMAIN disk[path].frames : step = MuxAdd(path, i)
           /\ (\A path \in MuxInputs : ~Stops(path)) =>
                 \A path \in MuxInputs : \A i \in DOMAIN disk[path].frames : Among(MuxAdd(path, i), MuxSteps)
<1> DEFINE pictures == AppendAll("528", MuxedVideo)
           sounds == AppendAll("528", MuxedAudio)
           Pictured(path) == path = "srsv2" \/ path = "srsv"
<1>0. AppendAll("528", <<>>) \in Seq(StepSet) /\ \A step : ~Among(step, AppendAll("528", <<>>))
  <2>1. AppendAll("528", <<>>) = <<>>
    BY DEF AppendAll
  <2> QED BY <2>1, NoneAmong, EmptySeq
<1>1. /\ pictures \in Seq(StepSet)
      /\ \A step : Among(step, pictures) => \E path \in VideoInput : \E i \in DOMAIN disk[path].frames : step = MuxAdd(path, i)
      /\ (\A path \in MuxInputs : ~Stops(path)) =>
            \A path \in VideoInput : \A i \in DOMAIN disk[path].frames : Among(MuxAdd(path, i), pictures)
  <2>1. CASE VideoInput = {}
    <3>1. MuxedVideo = <<>>
      BY <2>1 DEF MuxedVideo
    <3> QED BY <1>0, <2>1, <3>1
  <2>2. CASE VideoInput # {}
    <3>1. PICK path \in {"srsv2", "srsv"} : VideoInput = {path} /\ (CHOOSE p \in VideoInput : TRUE) = path
      BY <2>2, VideoIsOne
    <3>2. MuxId(path) = 1 /\ path \in MuxInputs
      BY <3>1 DEF MuxId, MuxInputs
    <3>3. MuxedVideo = MuxedFrames(path, MuxId(path))
      BY <2>2, <3>1, <3>2 DEF MuxedVideo
    <3>4. /\ AppendAll("528", MuxedFrames(path, MuxId(path))) \in Seq(StepSet)
          /\ \A step : Among(step, AppendAll("528", MuxedFrames(path, MuxId(path))))
                           => \E i \in DOMAIN disk[path].frames : step = MuxAdd(path, i)
          /\ ~Stops(path) => \A i \in DOMAIN disk[path].frames :
                 Among(MuxAdd(path, i), AppendAll("528", MuxedFrames(path, MuxId(path))))
      BY <3>2, MuxedIs
    <3> QED BY <3>1, <3>2, <3>3, <3>4
  <2> QED BY <2>1, <2>2
<1>2. /\ sounds \in Seq(StepSet)
      /\ \A step : Among(step, sounds) => \E path \in AudioInput : \E i \in DOMAIN disk[path].frames : step = MuxAdd(path, i)
      /\ (\A path \in MuxInputs : ~Stops(path)) =>
            \A path \in AudioInput : \A i \in DOMAIN disk[path].frames : Among(MuxAdd(path, i), sounds)
  <2>1. CASE AudioInput = {} \/ \E path \in VideoInput : Stops(path)
    <3>1. MuxedAudio = <<>>
      BY <2>1 DEF MuxedAudio
    <3> QED BY <1>0, <2>1, <3>1 DEF MuxInputs
  <2>2. CASE ~(AudioInput = {} \/ \E path \in VideoInput : Stops(path))
    <3>1. AudioInput = {"srsa"} /\ MuxId("srsa") = 2 /\ "srsa" \in MuxInputs
      BY <2>2, AudioIsOne DEF MuxId, MuxInputs
    <3>2. MuxedAudio = MuxedFrames("srsa", MuxId("srsa"))
      BY <2>2, <3>1 DEF MuxedAudio
    <3>3. /\ AppendAll("528", MuxedFrames("srsa", MuxId("srsa"))) \in Seq(StepSet)
          /\ \A step : Among(step, AppendAll("528", MuxedFrames("srsa", MuxId("srsa"))))
                           => \E i \in DOMAIN disk["srsa"].frames : step = MuxAdd("srsa", i)
          /\ ~Stops("srsa") => \A i \in DOMAIN disk["srsa"].frames :
                 Among(MuxAdd("srsa", i), AppendAll("528", MuxedFrames("srsa", MuxId("srsa"))))
      BY <3>1, MuxedIs
    <3> QED BY <3>1, <3>2, <3>3
  <2> QED BY <2>1, <2>2
<1>3. MuxSteps = (<<MuxCreate>> \o pictures) \o sounds
  BY DEF MuxSteps, MuxCreate
<1> HIDE DEF pictures, sounds
<1>4. <<MuxCreate>> \in Seq(StepSet) /\ Among(MuxCreate, <<MuxCreate>>) /\ \A step : Among(step, <<MuxCreate>>) => step = MuxCreate
  <2>1. MuxCreate \in StepSet
    <3>1. "528" \in Streamed /\ "528" \notin Elementary
      BY DEF Streamed, Elementary, Containers
    <3>2. File(MuxTracks, <<>>) \in FileSet
      BY <3>1, MuxTracksOk, EmptyFile
    <3> QED BY <3>1, <3>2, StepsThere DEF MuxCreate
  <2> HIDE DEF MuxCreate
  <2> QED BY <2>1, AmongOne
<1>5. PICK begun : begun = <<MuxCreate>> \o pictures
  OBVIOUS
<1>6. /\ begun \in Seq(StepSet)
      /\ \A step : (Among(step, <<MuxCreate>>) \/ Among(step, pictures) => Among(step, begun))
                   /\ (Among(step, begun) => Among(step, <<MuxCreate>>) \/ Among(step, pictures))
  <2> PICK first : first = <<MuxCreate>>
    OBVIOUS
  <2>1. first \in Seq(StepSet) /\ begun = first \o pictures
    BY <1>4, <1>5
  <2> QED BY <1>1, <2>1, Glued, AmongGlued
<1>7. /\ MuxSteps \in Seq(StepSet)
      /\ \A step : (Among(step, begun) \/ Among(step, sounds) => Among(step, MuxSteps))
                   /\ (Among(step, MuxSteps) => Among(step, begun) \/ Among(step, sounds))
  <2>1. MuxSteps = begun \o sounds
    BY <1>3, <1>5
  <2> QED BY <1>2, <1>6, <2>1, Glued, AmongGlued
<1>8. Among(MuxCreate, MuxSteps)
  BY <1>4, <1>6, <1>7
<1>9. ASSUME NEW step, Among(step, MuxSteps)
      PROVE  step = MuxCreate \/ \E path \in MuxInputs : \E i \in DOMAIN disk[path].frames : step = MuxAdd(path, i)
  <2>1. Among(step, <<MuxCreate>>) \/ Among(step, pictures) \/ Among(step, sounds)
    BY <1>6, <1>7, <1>9
  <2> HIDE DEF MuxCreate, MuxAdd
  <2> QED BY <1>1, <1>2, <1>4, <2>1 DEF MuxInputs
<1>10. ASSUME \A path \in MuxInputs : ~Stops(path), NEW path \in MuxInputs, NEW i \in DOMAIN disk[path].frames
       PROVE  Among(MuxAdd(path, i), MuxSteps)
  <2>1. Among(MuxAdd(path, i), pictures) \/ Among(MuxAdd(path, i), sounds)
    BY <1>1, <1>2, <1>10 DEF MuxInputs
  <2> HIDE DEF MuxAdd
  <2> QED BY <1>6, <1>7, <2>1
<1> QED BY <1>7, <1>8, <1>9, <1>10

LEMMA MuxAddIs ==
    ASSUME FilesOk(disk), NEW path \in MuxInputs, NEW i \in DOMAIN disk[path].frames
    PROVE  /\ MuxAdd(path, i).does = "append" /\ MuxAdd(path, i).to = "528" /\ IdOk(MuxAdd(path, i).frame)
           /\ SamePlace(MuxAdd(path, i).frame, disk[path].frames[i])
           /\ SamePlace(disk[path].frames[i], MuxAdd(path, i).frame)
<1>1. path \in Elementary /\ Exists(path) /\ MuxId(path) \in Nat
  BY MuxInputsThere DEF MuxId
<1>2. disk[path].frames \in Seq(FrameSet) /\ \A k \in 1 .. Len(disk[path].frames) :
         disk[path].frames[k] \in FrameSet /\ disk[path].frames[k].codec = Codec[path]
  BY <1>1, MuxedFrom
<1>3. PICK frame \in FrameSet : frame = disk[path].frames[i] /\ frame.codec = Codec[path]
  <2>1. i \in 1 .. Len(disk[path].frames)
    BY <1>2, LenProperties
  <2> QED BY <1>2, <2>1
<1>4. PICK made : made = WithId(frame, MuxId(path))
  OBVIOUS
<1>5. made.id = MuxId(path) /\ made.codec = frame.codec /\ made.at = frame.at /\ made.source = frame.source
  BY <1>1, <1>4, WithIdFrame
<1>6. MuxAdd(path, i) = [does |-> "append", to |-> "528", frame |-> made]
  BY <1>3, <1>4 DEF MuxAdd, Add
<1>7. IdOk(made)
  <2>1. path = "srsa" <=> Codec[path] = "audio"
    BY <1>1 DEF Elementary, Codec
  <2> QED BY <1>3, <1>5, <2>1 DEF IdOk, IsVideo, MuxId
<1> QED BY <1>3, <1>5, <1>6, <1>7 DEF SamePlace

\* decode_native_to_raw: the raw file gets all the frames at once
Copies(files, steps, from) ==
    /\ from \in DOMAIN files /\ from # "raw" /\ ~files[from].torn
    /\ \/ steps = <<Create("raw", File(<<>>, files[from].frames))>>
       \/ steps = <<>> /\ "raw" \in DOMAIN files /\ files["raw"].frames = files[from].frames

\* What a job that goes on is about to do.
Converts(record) == record.op \in {"mux", "demux", "import"} /\ ~record.fails
Carrying(record) ==
    Converts(record) =>
        Carries(disk, record.steps, Inputs(record), Outputs(record), ~(record.op = "demux" /\ SoundFirst(record.from)))
Sealing(record) ==
    Converts(record) /\ record.op \in {"mux", "import"} => \A path \in Outputs(record) : Seals(disk, record.steps, path)
Copying(record) == record.op = "decode" /\ ~record.fails => Copies(disk, record.steps, record.from)
Goes(record) ==
    /\ {"op", "from", "fails", "steps"} \subseteq DOMAIN record
    /\ NumbersOk(disk, record.steps)
    /\ Carrying(record) /\ Sealing(record) /\ Copying(record)

LEMMA MuxGoes ==
    ASSUME FilesOk(disk), NEW record, {"op", "from", "fails", "steps"} \subseteq DOMAIN record, record.op = "mux",
           record.fails = (\E path \in MuxInputs : Stops(path)),
           record.steps = IF record.fails THEN MuxSteps ELSE Append(MuxSteps, Seal("528"))
    PROVE  Goes(record)
<1>1. "528" \in Streamed /\ "528" \in Containers /\ "528" \notin Elementary
  BY DEF Streamed, Elementary, Containers
<1>2. PICK steps : steps = record.steps
  OBVIOUS
<1>3. /\ \A step : Among(step, steps) => \/ step = MuxCreate \/ step = Seal("528")
                                         \/ \E path \in MuxInputs : \E i \in DOMAIN disk[path].frames : step = MuxAdd(path, i)
      /\ Among(MuxCreate, steps)
      /\ ~record.fails => /\ \A files : Seals(files, steps, "528")
                          /\ \A path \in MuxInputs : \A i \in DOMAIN disk[path].frames : Among(MuxAdd(path, i), steps)
  <2>1. PICK begun : begun = MuxSteps
    OBVIOUS
  <2>2. /\ begun \in Seq(StepSet) /\ Among(MuxCreate, begun)
        /\ \A step : Among(step, begun) =>
              step = MuxCreate \/ \E path \in MuxInputs : \E i \in DOMAIN disk[path].frames : step = MuxAdd(path, i)
        /\ ~record.fails => \A path \in MuxInputs : \A i \in DOMAIN disk[path].frames : Among(MuxAdd(path, i), begun)
    BY <2>1, MuxMadeOf
  <2>3. PICK sealed : sealed = Append(begun, Seal("528"))
    OBVIOUS
  <2>4. /\ \A step : Among(step, sealed) => Among(step, begun) \/ step = Seal("528")
        /\ \A step : Among(step, begun) => Among(step, sealed)
        /\ \A files : Seals(files, sealed, "528")
    BY <1>1, <2>2, <2>3, SealedLast
  <2>5. steps = IF record.fails THEN begun ELSE sealed
    BY <1>2, <2>1, <2>3
  <2>6. CASE record.fails
    BY <2>2, <2>5, <2>6
  <2>7. CASE ~record.fails
    <3>1. steps = sealed
      BY <2>5, <2>7
    <3> HIDE DEF MuxCreate, MuxAdd
    <3> QED BY <2>2, <2>4, <2>7, <3>1
  <2> QED BY <2>6, <2>7
<1>4. MuxCreate.does = "create" /\ MuxCreate.to = "528" /\ Seal("528").does = "seal" /\ Seal("528").to = "528"
  BY DEF MuxCreate, Create, Seal
<1>5. \A path \in MuxInputs : \A i \in DOMAIN disk[path].frames :
         /\ MuxAdd(path, i).does = "append" /\ MuxAdd(path, i).to = "528" /\ IdOk(MuxAdd(path, i).frame)
         /\ SamePlace(MuxAdd(path, i).frame, disk[path].frames[i])
         /\ SamePlace(disk[path].frames[i], MuxAdd(path, i).frame)
  BY MuxAddIs
<1> HIDE DEF MuxCreate, MuxAdd, MuxInputs
<1>6. NumbersOk(disk, record.steps)
  BY <1>2, <1>3, <1>4, <1>5, NumbersBegin
<1>7. ASSUME ~record.fails PROVE Carries(disk, steps, MuxInputs, {"528"}, TRUE)
  <2>1. MuxInputs \subseteq DOMAIN disk /\ MuxInputs \cap {"528"} = {} /\ {"528"} \subseteq Streamed
    BY <1>1, MuxInputsThere DEF Exists
  <2>2. \A path \in MuxInputs : ~disk[path].torn
    BY <1>7 DEF Stops
  <2>3. \A step : Among(step, steps) /\ step.does # "pass" => step.to \in {"528"}
    BY <1>3, <1>4, <1>5
  <2>4. \A path \in {"528"} : \E step : Among(step, steps) /\ Creates(step, path)
    BY <1>3, <1>4 DEF Creates
  <2>5. \A step : Among(step, steps) /\ step.does = "append" => From(disk, MuxInputs, step.frame)
    BY <1>3, <1>4, <1>5 DEF From
  <2>6. \A path \in MuxInputs : \A i \in DOMAIN disk[path].frames : \E step :
           Among(step, steps) /\ step.does = "append" /\ SamePlace(disk[path].frames[i], step.frame)
    BY <1>3, <1>5, <1>7
  <2> QED BY <2>1, <2>2, <2>3, <2>4, <2>5, <2>6, CarryingBegins
<1>8. Inputs(record) = MuxInputs /\ Outputs(record) = {"528"}
  BY DEF Inputs, Outputs, MuxInputs
<1>9. Carrying(record)
  <2>1. ~(record.op = "demux" /\ SoundFirst(record.from)) <=> TRUE
    OBVIOUS
  <2> SUFFICES ASSUME ~record.fails
               PROVE  Carries(disk, record.steps, Inputs(record), Outputs(record), ~(record.op = "demux" /\ SoundFirst(record.from)))
    BY DEF Carrying, Converts
  <2>2. Carries(disk, record.steps, Inputs(record), Outputs(record), TRUE)
    BY <1>2, <1>7, <1>8
  <2> QED BY <2>1, <2>2 DEF Carries
<1>10. Sealing(record)
  BY <1>2, <1>3, <1>8 DEF Sealing, Converts
<1>11. Copying(record)
  BY DEF Copying
<1> QED BY <1>6, <1>9, <1>10, <1>11 DEF Goes

-----------------------------------------------------------------------------
(* Importing.                                                              *)

ImportCreate(file, policy) == Create("import", File(ImportTracks(file, policy), <<>>))
ImportAdd(file, i, policy) == Add("import", Imported(file, file.frames[i], policy))

LEMMA ImportMadeOf ==
    ASSUME NEW file \in FileSet, NEW policy \in Policies
    PROVE  /\ \A step : Among(step, ImportSteps(file, policy)) =>
                 \/ step = ImportCreate(file, policy) \/ step = Seal("import")
                 \/ \E i \in DOMAIN file.frames : step = ImportAdd(file, i, policy)
           /\ Among(ImportCreate(file, policy), ImportSteps(file, policy))
           /\ Decoded(file.frames) = file.frames =>
                 /\ \A files : Seals(files, ImportSteps(file, policy), "import")
                 /\ \A i \in DOMAIN file.frames : Among(ImportAdd(file, i, policy), ImportSteps(file, policy))
<1> DEFINE frames == file.frames
           only == ImportCreate(file, policy)
           writes == [i \in DOMAIN Decoded(frames) |-> Add("import", Imported(file, Decoded(frames)[i], policy))]
           all == ImportSteps(file, policy)
<1>1. frames \in Seq(FrameSet) /\ file.tracks \in Seq(TrackSet)
  BY FieldsOf
<1>2. "import" \in Streamed /\ "import" \notin Elementary
  BY DEF Streamed, Elementary, Containers
<1>3. only \in StepSet
  <2> DEFINE tracks == ImportTracks(file, policy)
  <2>1. /\ tracks \in Seq(TrackSet)
        /\ \A i, j \in DOMAIN tracks : IsVideo(tracks[i].codec) /\ IsVideo(tracks[j].codec)
                                        => tracks[i].codec = tracks[j].codec
    BY ImportTracksOk
  <2>2. File(tracks, <<>>) \in FileSet
    <3> HIDE DEF tracks
    <3> QED BY <1>2, <2>1, EmptyFile
  <2> QED BY <1>2, <2>2, StepsThere DEF ImportCreate
<1>4. PICK m \in Nat : m = Len(frames) /\ DOMAIN frames = 1 .. m
  BY <1>1, LenProperties
<1>5. PICK n \in 0 .. m :
        DOMAIN Decoded(frames) = 1 .. n /\ \A i \in 1 .. n : i \in 1 .. m /\ Decoded(frames)[i] = frames[i]
  <2> HIDE DEF frames
  <2> QED BY <1>1, <1>4, DecodedFrames
<1>6. writes = [i \in 1 .. n |-> ImportAdd(file, i, policy)]
  BY <1>5 DEF ImportAdd
<1>7. \A i \in 1 .. n : ImportAdd(file, i, policy) \in StepSet
  <2> SUFFICES ASSUME NEW i \in 1 .. n PROVE ImportAdd(file, i, policy) \in StepSet
    OBVIOUS
  <2>1. frames[i] \in FrameSet
    <3> HIDE DEF frames
    <3> QED BY <1>1, <1>4, <1>5, ElementOfSeq
  <2>2. Imported(file, frames[i], policy) \in FrameSet
    <3> HIDE DEF frames
    <3> QED BY <2>1, ImportedFrame
  <2> QED BY <1>2, <2>2, StepsThere DEF ImportAdd
<1>8. all = (<<only>> \o writes) \o (IF Decoded(frames) = frames THEN <<Seal("import")>> ELSE <<>>)
  BY DEF ImportSteps, ImportCreate
<1> HIDE DEF writes, only, frames, all
<1>9. writes \in Seq(StepSet) /\ Len(writes) = n /\ \A i \in 1 .. n : writes[i] = ImportAdd(file, i, policy)
  <2> HIDE DEF ImportAdd
  <2> QED BY <1>4, <1>6, <1>7
<1>10. PICK first : first = <<only>>
  OBVIOUS
<1>11. first \in Seq(StepSet) /\ Among(only, first) /\ \A step : Among(step, first) => step = only
  BY <1>3, <1>10, AmongOne
<1>12. PICK begun : begun = first \o writes
  OBVIOUS
<1>13. /\ begun \in Seq(StepSet)
       /\ \A step : (Among(step, first) \/ Among(step, writes) => Among(step, begun))
                    /\ (Among(step, begun) => Among(step, first) \/ Among(step, writes))
  BY <1>9, <1>11, <1>12, Glued, AmongGlued
<1>14. ASSUME NEW step, Among(step, begun) PROVE step = only \/ \E i \in DOMAIN frames : step = ImportAdd(file, i, policy)
  <2>1. CASE Among(step, first)
    BY <1>11, <2>1
  <2>2. CASE Among(step, writes)
    BY <1>4, <1>5, <1>9, <2>2 DEF Among
  <2> QED BY <1>13, <1>14, <2>1, <2>2
<1>15. CASE Decoded(frames) = frames
  <2>1. all = begun \o <<Seal("import")>>
    BY <1>8, <1>10, <1>12, <1>15
  <2>2. begun \o <<Seal("import")>> = Append(begun, Seal("import"))
    BY <1>2, <1>13, StepsThere, AppendIsConcat
  <2>3. PICK sealed : sealed = Append(begun, Seal("import"))
    OBVIOUS
  <2>4. /\ \A step : Among(step, sealed) => Among(step, begun) \/ step = Seal("import")
        /\ \A step : Among(step, begun) => Among(step, sealed)
        /\ \A files : Seals(files, sealed, "import")
    BY <1>2, <1>13, <2>3, SealedLast
  <2>5. all = sealed
    BY <2>1, <2>2, <2>3
  <2>6. \A i \in DOMAIN frames : Among(ImportAdd(file, i, policy), writes)
    BY <1>4, <1>5, <1>9, <1>15 DEF Among
  <2>7. \A i \in DOMAIN frames : Among(ImportAdd(file, i, policy), all)
    BY <1>13, <2>4, <2>5, <2>6
  <2>8. \A step : Among(step, all) => \/ step = only \/ step = Seal("import")
                                      \/ \E i \in DOMAIN frames : step = ImportAdd(file, i, policy)
    BY <1>14, <2>4, <2>5
  <2>9. Among(only, all)
    BY <1>11, <1>13, <2>4, <2>5
  <2> QED BY <2>4, <2>5, <2>7, <2>8, <2>9 DEF only, frames, all
<1>16. CASE Decoded(frames) # frames
  <2>1. all = begun \o <<>>
    BY <1>8, <1>10, <1>12, <1>16
  <2>2. begun \o <<>> = begun
    BY <1>13, ConcatEmptySeq
  <2> QED BY <1>11, <1>13, <1>14, <1>16, <2>1, <2>2 DEF only, frames, all
<1> QED BY <1>15, <1>16

\* Sound without video has track 1.
LEMMA LoneSound ==
    ASSUME NEW file, NEW policy, ~HasTrack(file, TRUE), HasTrack(file, FALSE)
    PROVE  Sounds(File(ImportTracks(file, policy), <<>>))
<1>1. ImportTracks(file, policy) = <<>> \o <<Track(1, "audio")>>
  BY DEF ImportTracks
<1>2. <<>> \o <<Track(1, "audio")>> = <<Track(1, "audio")>>
  OBVIOUS
<1>3. File(ImportTracks(file, policy), <<>>).tracks = <<Track(1, "audio")>>
  BY <1>1, <1>2 DEF File
<1>4. 1 \in DOMAIN <<Track(1, "audio")>> /\ <<Track(1, "audio")>>[1] = Track(1, "audio")
  OBVIOUS
<1> QED BY <1>3, <1>4 DEF Sounds

LEMMA ImportAddIs ==
    ASSUME NEW path \in Streamed, NEW file, FileOk(path, file), NEW policy \in Policies, NEW i \in DOMAIN file.frames
    PROVE  /\ ImportAdd(file, i, policy).does = "append" /\ ImportAdd(file, i, policy).to = "import"
           /\ SamePlace(ImportAdd(file, i, policy).frame, file.frames[i])
           /\ SamePlace(file.frames[i], ImportAdd(file, i, policy).frame)
           /\ \/ IdOk(ImportAdd(file, i, policy).frame)
              \/ ~HasTrack(file, TRUE) /\ HasTrack(file, FALSE)
<1>1. file \in FileSet /\ file.frames \in Seq(FrameSet)
  BY FieldsOf DEF FileOk
<1>2. PICK frame \in FrameSet : frame = file.frames[i]
  BY <1>1, LenProperties, ElementOfSeq
<1>3. PICK made : made = Imported(file, frame, policy)
  OBVIOUS
<1>4. /\ made.at = frame.at /\ made.source = frame.source
      /\ made.codec = IF IsVideo(frame.codec) THEN ImportCodec(policy) ELSE "audio"
      /\ made.id = IF IsVideo(frame.codec) THEN 1 ELSE IF HasTrack(file, TRUE) THEN 2 ELSE 1
  BY <1>1, <1>3, ImportedFrame
<1>5. ImportAdd(file, i, policy) = [does |-> "append", to |-> "import", frame |-> made]
  BY <1>2, <1>3 DEF ImportAdd, Add
<1>6. IsVideo(made.codec) = IsVideo(frame.codec)
  BY <1>4 DEF IsVideo, ImportCodec
<1>7. IdOk(made) \/ (~HasTrack(file, TRUE) /\ ~IsVideo(frame.codec))
  BY <1>4, <1>6 DEF IdOk
<1>8. ASSUME ~IsVideo(frame.codec) PROVE HasTrack(file, FALSE)
  <2>1. frame.codec \in TrackCodecs(file)
    BY <1>2 DEF FrameCodecs, FileOk
  <2>2. PICK t \in DOMAIN file.tracks : file.tracks[t].codec = frame.codec
    BY <2>1 DEF TrackCodecs
  <2> QED BY <1>8, <2>2 DEF HasTrack, IsVideo
<1>9. SamePlace(made, frame) /\ SamePlace(frame, made)
  BY <1>4, <1>6 DEF SamePlace
<1>10. /\ ImportAdd(file, i, policy).does = "append" /\ ImportAdd(file, i, policy).to = "import"
       /\ ImportAdd(file, i, policy).frame = made
  BY <1>5
<1> HIDE DEF ImportAdd, SamePlace, IdOk, HasTrack
<1> QED BY <1>2, <1>7, <1>8, <1>9, <1>10

LEMMA ImportGoes ==
    ASSUME FilesOk(disk), NEW path \in {"528", "srsv", "srsa"}, Supported(path), NEW policy \in Policies,
           NEW record, {"op", "from", "fails", "steps"} \subseteq DOMAIN record,
           record.op = "import", record.from = path, record.steps = ImportSteps(disk[path], policy),
           record.fails = (Decoded(disk[path].frames) # disk[path].frames)
    PROVE  Goes(record)
<1>1. /\ path \in Streamed /\ path # "import" /\ "import" \in Streamed /\ "import" \in Containers
      /\ path \in DOMAIN disk /\ ~disk[path].torn
  BY DEF Streamed, Elementary, Containers, Supported, Inspected, Opens, Exists
<1>2. PICK file : file = disk[path]
  OBVIOUS
<1>3. FileOk(path, file) /\ file \in FileSet
  BY <1>1, <1>2 DEF FilesOk, FileOk
<1>4. PICK steps : steps = ImportSteps(file, policy)
  OBVIOUS
<1>5. record.steps = steps /\ record.fails = (Decoded(file.frames) # file.frames)
  BY <1>2, <1>4
<1>6. /\ \A step : Among(step, steps) =>
            \/ step = ImportCreate(file, policy) \/ step = Seal("import")
            \/ \E i \in DOMAIN file.frames : step = ImportAdd(file, i, policy)
      /\ Among(ImportCreate(file, policy), steps)
      /\ Decoded(file.frames) = file.frames =>
            /\ \A files : Seals(files, steps, "import")
            /\ \A i \in DOMAIN file.frames : Among(ImportAdd(file, i, policy), steps)
  BY <1>3, <1>4, ImportMadeOf
<1>7. PICK only : only = ImportCreate(file, policy)
  OBVIOUS
<1>8. /\ only.does = "create" /\ only.to = "import" /\ only.file = File(ImportTracks(file, policy), <<>>)
      /\ Seal("import").does = "seal" /\ Seal("import").to = "import"
  BY <1>7 DEF ImportCreate, Create, Seal
<1>9. \A i \in DOMAIN file.frames :
         /\ ImportAdd(file, i, policy).does = "append" /\ ImportAdd(file, i, policy).to = "import"
         /\ SamePlace(ImportAdd(file, i, policy).frame, file.frames[i])
         /\ SamePlace(file.frames[i], ImportAdd(file, i, policy).frame)
         /\ \/ IdOk(ImportAdd(file, i, policy).frame)
            \/ ~HasTrack(file, TRUE) /\ HasTrack(file, FALSE)
  BY <1>1, <1>3, ImportAddIs
<1> HIDE DEF ImportAdd, ImportCreate
<1>10. ASSUME ~HasTrack(file, TRUE), HasTrack(file, FALSE) PROVE WillSound(disk, steps, "import")
  <2>1. Sounds(only.file)
    BY <1>8, <1>10, LoneSound
  <2>2. \A step : Among(step, steps) /\ Creates(step, "import") => step = only
    BY <1>6, <1>7, <1>8, <1>9 DEF Creates
  <2>3. \A k \in 1 .. Len(steps) : Among(steps[k], steps)
    BY DEF Among
  <2>4. \E k \in 1 .. Len(steps) : Creates(steps[k], "import")
    BY <1>6, <1>7, <1>8 DEF Among, Creates
  <2> QED BY <2>1, <2>2, <2>3, <2>4 DEF WillSound
<1>11. NumbersOk(disk, steps)
  <2> SUFFICES ASSUME NEW step, Among(step, steps), step.does = "append"
               PROVE  IdOk(step.frame) \/ WillSound(disk, steps, step.to)
    BY NumbersBegin
  <2>1. PICK i \in DOMAIN file.frames : step = ImportAdd(file, i, policy)
    BY <1>6, <1>7, <1>8
  <2> QED BY <1>9, <1>10, <2>1
<1>12. ASSUME ~record.fails PROVE Carries(disk, steps, {path}, {"import"}, TRUE)
  <2>1. {path} \subseteq DOMAIN disk /\ {path} \cap {"import"} = {} /\ {"import"} \subseteq Streamed
    BY <1>1
  <2>2. \A other \in {path} : ~disk[other].torn
    BY <1>1
  <2>3. \A step : Among(step, steps) /\ step.does # "pass" => step.to \in {"import"}
    BY <1>6, <1>7, <1>8, <1>9
  <2>4. \A other \in {"import"} : \E step : Among(step, steps) /\ Creates(step, other)
    BY <1>6, <1>7, <1>8 DEF Creates
  <2>5. ASSUME NEW step, Among(step, steps), step.does = "append" PROVE From(disk, {path}, step.frame)
    <3>1. PICK i \in DOMAIN file.frames : step = ImportAdd(file, i, policy)
      BY <1>6, <1>7, <1>8, <2>5
    <3>2. SamePlace(step.frame, disk[path].frames[i]) /\ i \in DOMAIN disk[path].frames
      BY <1>2, <1>9, <3>1
    <3> QED BY <3>2 DEF From
  <2>6. \A other \in {path} : \A i \in DOMAIN disk[other].frames : \E step :
           Among(step, steps) /\ step.does = "append" /\ SamePlace(disk[other].frames[i], step.frame)
    BY <1>2, <1>5, <1>6, <1>9, <1>12
  <2> QED BY <2>1, <2>2, <2>3, <2>4, <2>5, <2>6, CarryingBegins
<1>13. Inputs(record) = {path} /\ Outputs(record) = {"import"}
  BY DEF Inputs, Outputs
<1>14. Carrying(record)
  <2> SUFFICES ASSUME ~record.fails
               PROVE  Carries(disk, record.steps, Inputs(record), Outputs(record), ~(record.op = "demux" /\ SoundFirst(record.from)))
    BY DEF Carrying, Converts
  <2>1. Carries(disk, record.steps, Inputs(record), Outputs(record), TRUE)
    BY <1>5, <1>12, <1>13
  <2> QED BY <2>1 DEF Carries
<1>15. Sealing(record)
  BY <1>5, <1>6, <1>13 DEF Sealing, Converts
<1>16. Copying(record)
  BY DEF Copying
<1> QED BY <1>5, <1>11, <1>14, <1>15, <1>16 DEF Goes

\* decode_native_to_raw
LEMMA DecodeGoes ==
    ASSUME NEW path \in Elementary, DecodesAlone(path), NEW record, {"op", "from", "fails", "steps"} \subseteq DOMAIN record,
           record.op = "decode", record.from = path,
           record.steps = <<Create("raw", File(<<>>, disk[path].frames))>>
    PROVE  Goes(record)
<1>1. path \in DOMAIN disk /\ path # "raw" /\ ~disk[path].torn
  BY DEF DecodesAlone, Opens, Exists, Elementary
<1>2. Copies(disk, record.steps, record.from)
  BY <1>1 DEF Copies
<1>3. NumbersOk(disk, record.steps)
  BY DecodeNumbers
<1> QED BY <1>2, <1>3 DEF Goes, Carrying, Sealing, Copying, Converts

-----------------------------------------------------------------------------
(* Demuxing.                                                               *)

DemuxCreate(codec) == Create(PathOf(codec), ElementaryFile(PathOf(codec), <<>>))
DemuxAdd(frame) == Add(PathOf(frame.codec), WithId(frame, 0))
Whole(file) == \A t \in DOMAIN file.tracks : file.tracks[t].codec # "other"

LEMMA DemuxedFrame ==
    ASSUME NEW path \in Containers, NEW file, FileOk(path, file), Whole(file), NEW i \in DOMAIN file.frames
    PROVE  /\ file.frames[i] \in FrameSet /\ file.frames[i].codec \in {"v1", "v2", "audio"}
           /\ \E t \in DOMAIN file.tracks : file.tracks[t].codec = file.frames[i].codec
<1>1. file \in FileSet /\ file.frames \in Seq(FrameSet) /\ file.tracks \in Seq(TrackSet)
  BY FieldsOf DEF FileOk
<1>2. file.frames[i].codec \in TrackCodecs(file)
  BY DEF FrameCodecs, FileOk, Streamed
<1>3. PICK t \in DOMAIN file.tracks : file.tracks[t].codec = file.frames[i].codec
  BY <1>2 DEF TrackCodecs
<1>4. file.tracks[t] \in TrackSet /\ file.frames[i] \in FrameSet
  BY <1>1, LenProperties, ElementOfSeq
<1> QED BY <1>3, <1>4 DEF Whole, TrackSet, Codecs

LEMMA DemuxMadeOf ==
    ASSUME NEW path \in Containers, NEW file, FileOk(path, file), Whole(file)
    PROVE  /\ \A step : Among(step, DemuxSteps(file)) =>
                 \/ \E t \in DOMAIN file.tracks : step = DemuxCreate(file.tracks[t].codec)
                 \/ \E i \in DOMAIN file.frames : step = DemuxAdd(file.frames[i])
                 \/ step = PassOver
           /\ \A t \in DOMAIN file.tracks : Among(DemuxCreate(file.tracks[t].codec), DemuxSteps(file))
           /\ \A i \in DOMAIN file.frames : Taken(file, file.frames[i]) => Among(DemuxAdd(file.frames[i]), DemuxSteps(file))
<1> DEFINE frames == file.frames
           tracks == file.tracks
           creates == DemuxCreates(tracks)
           writes == DemuxAppends(file)
<1>1. frames \in Seq(FrameSet) /\ tracks \in Seq(TrackSet)
  BY FieldsOf DEF FileOk
<1>2. creates = [t \in DOMAIN tracks |-> DemuxCreate(tracks[t].codec)]
  <2>1. {t \in DOMAIN tracks : tracks[t].codec = "other"} = {}
    BY DEF Whole
  <2> QED BY <2>1 DEF DemuxCreates, DemuxCreate
<1>3. creates \in Seq(StepSet)
  <2> HIDE DEF tracks
  <2> QED BY <1>1, DemuxCreatesOk
<1>4. DemuxSteps(file) = creates \o writes
  BY DEF DemuxSteps, Whole
<1>5. PICK n \in Nat : n = Len(frames) /\ DOMAIN frames = 1 .. n
  BY <1>1, LenProperties
<1>6. writes = [i \in 1 .. n |-> IF Taken(file, frames[i]) THEN DemuxAdd(frames[i]) ELSE PassOver]
  BY <1>5 DEF DemuxAppends, DemuxAdd
<1>7. \A i \in 1 .. n : DemuxAdd(frames[i]) \in StepSet
  <2> SUFFICES ASSUME NEW i \in 1 .. n PROVE DemuxAdd(frames[i]) \in StepSet
    OBVIOUS
  <2>1. frames[i] \in FrameSet /\ frames[i].codec \in {"v1", "v2", "audio"}
    BY <1>5, DemuxedFrame
  <2>2. PathOf(frames[i].codec) \in Streamed
    BY <2>1, PathOfCodec DEF Streamed
  <2>3. WithId(frames[i], 0) \in FrameSet
    <3> HIDE DEF frames
    <3> QED BY <2>1, WithIdFrame
  <2> QED BY <2>2, <2>3, StepsThere DEF DemuxAdd
<1> HIDE DEF frames, tracks, creates, writes
<1>8. writes \in Seq(StepSet) /\ Len(writes) = n
      /\ \A i \in 1 .. n : writes[i] = IF Taken(file, frames[i]) THEN DemuxAdd(frames[i]) ELSE PassOver
  <2> HIDE DEF DemuxAdd, Taken
  <2>1. \A i \in 1 .. n : (IF Taken(file, frames[i]) THEN DemuxAdd(frames[i]) ELSE PassOver) \in StepSet
    BY <1>7, StepsThere
  <2> QED BY <1>6, <2>1
<1>9. \A step : (Among(step, creates) \/ Among(step, writes) => Among(step, DemuxSteps(file)))
                /\ (Among(step, DemuxSteps(file)) => Among(step, creates) \/ Among(step, writes))
  BY <1>3, <1>4, <1>8, AmongGlued
<1> HIDE DEF DemuxCreate, DemuxAdd, Taken
<1>10. /\ \A step : Among(step, creates) => \E t \in DOMAIN tracks : step = DemuxCreate(tracks[t].codec)
       /\ \A t \in DOMAIN tracks : Among(DemuxCreate(tracks[t].codec), creates)
  <2>1. PICK m \in Nat : m = Len(creates) /\ DOMAIN creates = 1 .. m
    BY <1>3, LenProperties
  <2>2. DOMAIN creates = DOMAIN tracks /\ \A t \in DOMAIN tracks : creates[t] = DemuxCreate(tracks[t].codec)
    BY <1>2
  <2> QED BY <2>1, <2>2 DEF Among
<1>11. /\ \A step : Among(step, writes) => step = PassOver \/ \E i \in DOMAIN frames : step = DemuxAdd(frames[i])
       /\ \A i \in DOMAIN frames : Taken(file, frames[i]) => Among(DemuxAdd(frames[i]), writes)
  BY <1>5, <1>8 DEF Among
<1>12. ASSUME NEW step, Among(step, DemuxSteps(file))
       PROVE  \/ \E t \in DOMAIN tracks : step = DemuxCreate(tracks[t].codec)
              \/ \E i \in DOMAIN frames : step = DemuxAdd(frames[i])
              \/ step = PassOver
  BY <1>9, <1>10, <1>11, <1>12
<1> QED BY <1>9, <1>10, <1>11, <1>12 DEF frames, tracks

\* The packets of a numbered container are all taken, unless its sound has track 1.
LEMMA AllTaken ==
    ASSUME FilesOk(disk), AllNumbered(disk), NEW path \in Containers, path \in DOMAIN disk, Whole(disk[path]), ~Sounds(disk[path]),
           NEW i \in DOMAIN disk[path].frames
    PROVE  Taken(disk[path], disk[path].frames[i])
<1> DEFINE file == disk[path]
           frame == file.frames[i]
<1>1. FileOk(path, file)
  BY DEF FilesOk
<1> HIDE DEF file
<1>2. PICK t \in DOMAIN file.tracks : file.tracks[t].codec = frame.codec
  BY <1>1, DemuxedFrame DEF file
<1>3. Holds(disk, path, frame) /\ Numbered(disk, path)
  BY DEF Holds, AllNumbered, file
<1>4. IdOk(frame)
  BY <1>3 DEF Numbered
<1>5. CASE IsVideo(frame.codec)
  BY <1>2, <1>4, <1>5 DEF IdOk, Taken, file
<1>6. CASE ~IsVideo(frame.codec)
  BY <1>2, <1>4, <1>6 DEF IdOk, Taken, IsVideo, file
<1> QED BY <1>5, <1>6

LEMMA DemuxAddIs ==
    ASSUME NEW frame \in FrameSet, frame.codec \in {"v1", "v2", "audio"}
    PROVE  /\ DemuxAdd(frame).does = "append" /\ DemuxAdd(frame).to = PathOf(frame.codec) /\ DemuxAdd(frame).to \in Elementary
           /\ SamePlace(DemuxAdd(frame).frame, frame) /\ SamePlace(frame, DemuxAdd(frame).frame)
<1>1. PICK made : made = WithId(frame, 0)
  OBVIOUS
<1>2. made.codec = frame.codec /\ made.at = frame.at /\ made.source = frame.source
  BY <1>1, WithIdFrame
<1>3. DemuxAdd(frame) = [does |-> "append", to |-> PathOf(frame.codec), frame |-> made]
  BY <1>1 DEF DemuxAdd, Add
<1>4. PathOf(frame.codec) \in Elementary
  BY PathOfCodec
<1>5. DemuxAdd(frame).does = "append" /\ DemuxAdd(frame).to = PathOf(frame.codec) /\ DemuxAdd(frame).frame = made
  BY <1>3
<1> HIDE DEF DemuxAdd
<1> QED BY <1>2, <1>4, <1>5 DEF SamePlace

LEMMA DemuxNumbers ==
    ASSUME NEW path \in Containers, NEW file, FileOk(path, file)
    PROVE  NumbersOk(disk, DemuxSteps(file))
<1>1. CASE Whole(file)
  <2>1. \A step : Among(step, DemuxSteps(file)) =>
           \/ \E t \in DOMAIN file.tracks : step = DemuxCreate(file.tracks[t].codec)
           \/ \E i \in DOMAIN file.frames : step = DemuxAdd(file.frames[i])
           \/ step = PassOver
    BY <1>1, DemuxMadeOf
  <2>2. \A codec : DemuxCreate(codec).does = "create"
    BY DEF DemuxCreate, Create
  <2>3. \A i \in DOMAIN file.frames : DemuxAdd(file.frames[i]).to \in Elementary
    BY <1>1, DemuxedFrame, DemuxAddIs
  <2>4. \A to \in Elementary : to \notin Containers
    BY DEF Elementary, Containers
  <2>5. PassOver.does = "pass"
    BY DEF PassOver
  <2> HIDE DEF DemuxCreate, DemuxAdd, PassOver
  <2> QED BY <2>1, <2>2, <2>3, <2>4, <2>5, NumbersBegin
<1>2. CASE ~Whole(file)
  <2>1. DemuxSteps(file) = DemuxCreates(file.tracks)
    BY <1>2 DEF DemuxSteps, Whole
  <2>2. file.tracks \in Seq(TrackSet)
    BY FieldsOf DEF FileOk
  <2>3. \A k \in 1 .. Len(DemuxCreates(file.tracks)) : DemuxCreates(file.tracks)[k].does = "create"
    BY <2>2, DemuxCreatesOk DEF CreatesFirst
  <2> QED BY <2>1, <2>3 DEF NumbersOk
<1> QED BY <1>1, <1>2

LEMMA DemuxGoes ==
    ASSUME FilesOk(disk), AllNumbered(disk), NEW path \in Containers, path \in DOMAIN disk,
           NEW record, {"op", "from", "fails", "steps"} \subseteq DOMAIN record,
           record.op = "demux", record.from = path, record.steps = DemuxSteps(disk[path]),
           ~record.fails => ~disk[path].torn /\ Whole(disk[path])
    PROVE  Goes(record)
<1>1. PICK file : file = disk[path]
  OBVIOUS
<1>2. FileOk(path, file)
  BY <1>1 DEF FilesOk
<1>3. PICK steps : steps = DemuxSteps(file)
  OBVIOUS
<1>4. record.steps = steps
  BY <1>1, <1>3
<1>5. NumbersOk(disk, record.steps)
  BY <1>2, <1>3, <1>4, DemuxNumbers
<1>6. PICK outputs : outputs = {PathOf(file.tracks[t].codec) : t \in DOMAIN file.tracks}
  OBVIOUS
<1>7. Inputs(record) = {path} /\ Outputs(record) = outputs
  BY <1>1, <1>6 DEF Inputs, Outputs
<1>8. ASSUME ~record.fails PROVE Carries(disk, steps, {path}, outputs, ~SoundFirst(path))
  <2>1. Whole(file) /\ ~file.torn
    BY <1>1, <1>8
  <2>2. /\ \A step : Among(step, steps) =>
              \/ \E t \in DOMAIN file.tracks : step = DemuxCreate(file.tracks[t].codec)
              \/ \E i \in DOMAIN file.frames : step = DemuxAdd(file.frames[i])
              \/ step = PassOver
        /\ \A t \in DOMAIN file.tracks : Among(DemuxCreate(file.tracks[t].codec), steps)
        /\ \A i \in DOMAIN file.frames : Taken(file, file.frames[i]) => Among(DemuxAdd(file.frames[i]), steps)
    BY <1>2, <1>3, <2>1, DemuxMadeOf
  <2>3. \A codec : DemuxCreate(codec).does = "create" /\ DemuxCreate(codec).to = PathOf(codec)
    BY DEF DemuxCreate, Create
  <2>4. PassOver.does = "pass"
    BY DEF PassOver
  <2>5. \A i \in DOMAIN file.frames :
           /\ DemuxAdd(file.frames[i]).does = "append" /\ DemuxAdd(file.frames[i]).to = PathOf(file.frames[i].codec)
           /\ SamePlace(DemuxAdd(file.frames[i]).frame, file.frames[i])
           /\ SamePlace(file.frames[i], DemuxAdd(file.frames[i]).frame)
           /\ \E t \in DOMAIN file.tracks : file.tracks[t].codec = file.frames[i].codec
    BY <1>2, <2>1, DemuxedFrame, DemuxAddIs
  <2>6. outputs \subseteq Elementary
    <3> SUFFICES ASSUME NEW t \in DOMAIN file.tracks PROVE PathOf(file.tracks[t].codec) \in Elementary
      BY <1>6
    <3>1. file.tracks \in Seq(TrackSet)
      BY <1>2, FieldsOf DEF FileOk
    <3>2. file.tracks[t] \in TrackSet
      BY <3>1, LenProperties, ElementOfSeq
    <3>3. file.tracks[t].codec \in {"v1", "v2", "audio"}
      BY <2>1, <3>2 DEF Whole, TrackSet, Codecs
    <3> QED BY <3>3, PathOfCodec
  <2>7. \A t \in DOMAIN file.tracks : PathOf(file.tracks[t].codec) \in outputs
    BY <1>6
  <2>8. {path} \subseteq DOMAIN disk /\ {path} \cap outputs = {} /\ outputs \subseteq Streamed
    <3>1. path \notin Elementary
      BY DEF Elementary, Containers
    <3> QED BY <2>6, <3>1 DEF Streamed
  <2> HIDE DEF DemuxCreate, DemuxAdd, PassOver
  <2>9. \A other \in {path} : ~disk[other].torn
    BY <1>1, <2>1
  <2>10. ASSUME NEW step, Among(step, steps), step.does # "pass" PROVE step.to \in outputs
    <3>1. CASE \E t \in DOMAIN file.tracks : step = DemuxCreate(file.tracks[t].codec)
      BY <2>3, <2>7, <3>1
    <3>2. CASE \E i \in DOMAIN file.frames : step = DemuxAdd(file.frames[i])
      <4>1. PICK i \in DOMAIN file.frames : step = DemuxAdd(file.frames[i])
        BY <3>2
      <4>2. PICK t \in DOMAIN file.tracks : file.tracks[t].codec = file.frames[i].codec
        BY <2>5
      <4> QED BY <2>5, <2>7, <4>1, <4>2
    <3> QED BY <2>2, <2>4, <2>10, <3>1, <3>2
  <2>11. ASSUME NEW other \in outputs PROVE \E step : Among(step, steps) /\ Creates(step, other)
    <3>1. PICK t \in DOMAIN file.tracks : other = PathOf(file.tracks[t].codec)
      BY <1>6
    <3> QED BY <2>2, <2>3, <3>1 DEF Creates
  <2>12. ASSUME NEW step, Among(step, steps), step.does = "append" PROVE From(disk, {path}, step.frame)
    <3>1. PICK i \in DOMAIN file.frames : step = DemuxAdd(file.frames[i])
      BY <2>2, <2>3, <2>4, <2>12
    <3>2. SamePlace(step.frame, disk[path].frames[i]) /\ i \in DOMAIN disk[path].frames
      BY <1>1, <2>5, <3>1
    <3> QED BY <3>2 DEF From
  <2>13. ASSUME ~SoundFirst(path), NEW other \in {path}, NEW i \in DOMAIN disk[other].frames
         PROVE  \E step : Among(step, steps) /\ step.does = "append" /\ SamePlace(disk[other].frames[i], step.frame)
    <3>1. ~Sounds(disk[path]) /\ i \in DOMAIN disk[path].frames
      BY <2>13 DEF SoundFirst, Sounds
    <3>2. Taken(file, file.frames[i])
      BY <1>1, <2>1, <3>1, AllTaken
    <3>3. Among(DemuxAdd(file.frames[i]), steps)
      BY <1>1, <2>2, <3>1, <3>2
    <3> QED BY <1>1, <2>5, <3>1, <3>3
  <2> QED BY <2>8, <2>9, <2>10, <2>11, <2>12, <2>13, CarryingBegins
<1>9. Carrying(record)
  <2> SUFFICES ASSUME ~record.fails
               PROVE  Carries(disk, record.steps, Inputs(record), Outputs(record), ~(record.op = "demux" /\ SoundFirst(record.from)))
    BY DEF Carrying, Converts
  <2>1. Carries(disk, record.steps, Inputs(record), Outputs(record), ~SoundFirst(path))
    BY <1>4, <1>7, <1>8
  <2> QED BY <2>1 DEF Carries
<1>10. Sealing(record) /\ Copying(record)
  BY DEF Sealing, Copying
<1> QED BY <1>5, <1>9, <1>10 DEF Goes

-----------------------------------------------------------------------------
(* Jobs begin, go on and end.                                              *)

GoingInv == AllNumbered(disk) /\ (job = <<>> \/ \E record : job = <<record>> /\ Goes(record))

Sets == UNCHANGED disk /\ (job' \in {job, <<>>} \/ \E record : job' = <<record>> /\ Goes(record))

LEMMA GoesUnchanged ==
    ASSUME UNCHANGED disk, NEW record, Goes(record)
    PROVE  Goes(record)'
<1>1. VideoInput' = VideoInput /\ AudioInput' = AudioInput
  BY DEF VideoInput, AudioInput, Exists
<1>2. Inputs(record)' = Inputs(record) /\ Outputs(record)' = Outputs(record)
  BY <1>1 DEF Inputs, Outputs
<1>3. SoundFirst(record.from)' <=> SoundFirst(record.from)
  BY DEF SoundFirst
<1> QED BY <1>2, <1>3 DEF Goes, Carrying, Sealing, Copying, Converts

LEMMA SetsKeep ==
    ASSUME GoingInv, Sets
    PROVE  GoingInv'
  BY GoesUnchanged DEF GoingInv, Sets

LEMMA RefuseSets ==
    ASSUME NEW why, Refuse(why)
    PROVE  Sets
  BY DEF Refuse, Sets

LEMMA BeginRecord ==
    ASSUME NEW op, NEW by, NEW from, NEW steps, NEW fails, NEW next, Begin(op, by, from, steps, fails, next)
    PROVE  /\ UNCHANGED disk
           /\ \E record : /\ job' = <<record>> /\ {"op", "from", "fails", "steps"} \subseteq DOMAIN record
                          /\ record.op = op /\ record.from = from /\ record.fails = fails /\ record.steps = steps
<1> DEFINE record == [op |-> op, by |-> by, from |-> from, steps |-> steps, fails |-> fails, next |-> next, shows |-> <<>>]
<1>1. job' = <<record>> /\ UNCHANGED disk
  BY DEF Begin
<1>2. /\ {"op", "from", "fails", "steps"} \subseteq DOMAIN record
      /\ record.op = op /\ record.from = from /\ record.fails = fails /\ record.steps = steps
  OBVIOUS
<1> QED BY <1>1, <1>2

LEMMA MuxSets ==
    ASSUME FilesOk(disk), NEW by, StartMux(by)
    PROVE  Sets
<1>1. CASE Muxable
  <2>1. PICK fails, steps : /\ fails = (\E path \in MuxInputs : Stops(path))
                            /\ steps = IF fails THEN MuxSteps ELSE Append(MuxSteps, Seal("528"))
                            /\ Begin("mux", by, "528", steps, fails, "none")
    BY <1>1 DEF StartMux, MuxInputs
  <2>2. UNCHANGED disk /\ \E record : /\ job' = <<record>> /\ {"op", "from", "fails", "steps"} \subseteq DOMAIN record
           /\ record.op = "mux" /\ record.from = "528" /\ record.fails = fails /\ record.steps = steps
    <3>1. Begin("mux", by, "528", steps, fails, "none")
      BY <2>1
    <3> QED BY <3>1, BeginRecord
  <2>3. PICK record : /\ job' = <<record>> /\ {"op", "from", "fails", "steps"} \subseteq DOMAIN record
                      /\ record.op = "mux" /\ record.fails = fails /\ record.steps = steps
    BY <2>2
  <2>4. Goes(record)
    BY <2>1, <2>3, MuxGoes
  <2> QED BY <2>2, <2>3, <2>4 DEF Sets
<1>2. CASE ~Muxable
  BY <1>2, RefuseSets DEF StartMux
<1> QED BY <1>1, <1>2

LEMMA EncodeSets ==
    ASSUME NEW path \in Elementary, NEW by, NEW from, NEW next, Begin("encode", by, from, EncodeSteps(path), FALSE, next)
    PROVE  Sets
<1>0. PICK fails, steps : fails = FALSE /\ steps = EncodeSteps(path) /\ Begin("encode", by, from, steps, fails, next)
  OBVIOUS
<1>1. UNCHANGED disk /\ \E record : /\ job' = <<record>> /\ {"op", "from", "fails", "steps"} \subseteq DOMAIN record
         /\ record.op = "encode" /\ record.from = from /\ record.fails = fails /\ record.steps = steps
  <2>1. Begin("encode", by, from, steps, fails, next)
    BY <1>0
  <2> QED BY <2>1, BeginRecord
<1>2. PICK record : /\ job' = <<record>> /\ {"op", "from", "fails", "steps"} \subseteq DOMAIN record
                    /\ record.op = "encode" /\ record.steps = EncodeSteps(path)
  BY <1>0, <1>1
<1>3. Goes(record)
  BY <1>2, EncodeNumbers DEF Goes, Carrying, Sealing, Copying, Converts
<1> QED BY <1>1, <1>2, <1>3 DEF Sets

LEMMA JobSets ==
    ASSUME FilesOk(disk), AllNumbered(disk), NEW by, StartJob(by)
    PROVE  Sets
<1>1. ASSUME NEW path \in Elementary, NEW policy, EncodeElementary(by, path, policy) PROVE Sets
  BY <1>1, EncodeSets, RefuseSets DEF EncodeElementary
<1>2. ASSUME NEW policy, EncodeContainer(by, policy) PROVE Sets
  <2> DEFINE path == IF policy = "Srsv2" THEN "srsv2" ELSE "srsv"
  <2>1. CASE StartMux(by)
    BY <2>1, MuxSets
  <2>2. CASE Refuse("failed")
    BY <2>2, RefuseSets
  <2>3. CASE Begin("encode", by, "picture", EncodeSteps(path), FALSE, "mux")
    <3>1. path \in Elementary
      BY DEF Elementary
    <3> QED BY <2>3, <3>1, EncodeSets
  <2> QED BY <1>2, <2>1, <2>2, <2>3 DEF EncodeContainer
<1>3. ASSUME NEW path \in {"528", "srsv", "srsa"}, NEW policy \in Policies, Import(by, path, policy) PROVE Sets
  <2>1. CASE \E why : Refuse(why)
    BY <2>1, RefuseSets
  <2>2. CASE ~\E why : Refuse(why)
    <3>1. Supported(path)
      BY <1>3, <2>2 DEF Import
    <3>2. PICK fails : fails = (Decoded(disk[path].frames) # disk[path].frames)
      OBVIOUS
    <3>3. Begin("import", by, path, ImportSteps(disk[path], policy), fails, "none")
      BY <1>3, <2>2, <3>2 DEF Import
    <3>4. UNCHANGED disk /\ \E record : /\ job' = <<record>> /\ {"op", "from", "fails", "steps"} \subseteq DOMAIN record
             /\ record.op = "import" /\ record.from = path /\ record.fails = fails
             /\ record.steps = ImportSteps(disk[path], policy)
      BY <3>3, BeginRecord
    <3>5. PICK record : /\ job' = <<record>> /\ {"op", "from", "fails", "steps"} \subseteq DOMAIN record
                        /\ record.op = "import" /\ record.from = path /\ record.fails = fails
                        /\ record.steps = ImportSteps(disk[path], policy)
      BY <3>4
    <3>6. Goes(record)
      BY <3>1, <3>2, <3>5, ImportGoes
    <3> QED BY <3>4, <3>5, <3>6 DEF Sets
  <2> QED BY <2>1, <2>2
<1>4. CASE Mux(by)
  BY <1>4, MuxSets DEF Mux
<1>5. ASSUME NEW path \in Containers, Demux(by, path) PROVE Sets
  <2>1. CASE Opens(path)
    <3>1. PICK fails : /\ Begin("demux", by, path, DemuxSteps(disk[path]), fails, "none")
                       /\ fails = (disk[path].torn \/ \E i \in DOMAIN disk[path].tracks : disk[path].tracks[i].codec = "other")
      BY <1>5, <2>1 DEF Demux
    <3>2. UNCHANGED disk /\ \E record : /\ job' = <<record>> /\ {"op", "from", "fails", "steps"} \subseteq DOMAIN record
             /\ record.op = "demux" /\ record.from = path /\ record.fails = fails
             /\ record.steps = DemuxSteps(disk[path])
      BY <3>1, BeginRecord
    <3>3. PICK record : /\ job' = <<record>> /\ {"op", "from", "fails", "steps"} \subseteq DOMAIN record
                        /\ record.op = "demux" /\ record.from = path /\ record.fails = fails
                        /\ record.steps = DemuxSteps(disk[path])
      BY <3>2
    <3>4. ~record.fails => ~disk[path].torn /\ Whole(disk[path])
      BY <3>1, <3>3 DEF Whole
    <3>5. path \in DOMAIN disk
      BY <2>1 DEF Opens, Exists
    <3>6. Goes(record)
      BY <3>3, <3>4, <3>5, DemuxGoes
    <3> QED BY <3>2, <3>3, <3>6 DEF Sets
  <2>2. CASE ~Opens(path)
    BY <1>5, <2>2, RefuseSets DEF Demux
  <2> QED BY <2>1, <2>2
<1>6. ASSUME NEW path \in Elementary, DecodeElementary(by, path) PROVE Sets
  <2>1. CASE DecodesAlone(path)
    <3>1. PICK steps : steps = <<Create("raw", File(<<>>, disk[path].frames))>>
      OBVIOUS
    <3>2. PICK fails : fails = FALSE /\ Begin("decode", by, path, steps, fails, "none")
      BY <1>6, <2>1, <3>1 DEF DecodeElementary
    <3>3. UNCHANGED disk /\ \E record : /\ job' = <<record>> /\ {"op", "from", "fails", "steps"} \subseteq DOMAIN record
             /\ record.op = "decode" /\ record.from = path /\ record.fails = fails /\ record.steps = steps
      <4>1. Begin("decode", by, path, steps, fails, "none")
        BY <3>2
      <4> QED BY <4>1, BeginRecord
    <3>4. PICK record : /\ job' = <<record>> /\ {"op", "from", "fails", "steps"} \subseteq DOMAIN record
                        /\ record.op = "decode" /\ record.from = path /\ record.steps = steps
      BY <3>3
    <3>5. Goes(record)
      BY <2>1, <3>1, <3>4, DecodeGoes
    <3> QED BY <3>3, <3>4, <3>5 DEF Sets
  <2>2. CASE ~DecodesAlone(path)
    BY <1>6, <2>2, RefuseSets DEF DecodeElementary
  <2> QED BY <2>1, <2>2
<1> QED BY <1>1, <1>2, <1>3, <1>4, <1>5, <1>6 DEF StartJob

LEMMA CommandSets ==
    ASSUME FilesOk(disk), AllNumbered(disk), Command
    PROVE  Sets
<1>1. CASE StartJob("cli")
  BY <1>1, JobSets
<1>2. ASSUME NEW target, EncodeRgb(target) PROVE Sets
  <2>1. "srsv2" \in Elementary
    BY DEF Elementary
  <2> QED BY <1>2, <2>1, EncodeSets, RefuseSets DEF EncodeRgb
<1>3. CASE MayAct /\ Refuse("failed")
  BY <1>3, RefuseSets
<1>4. ASSUME NEW path, Analyze(path) PROVE Sets
  BY <1>4, RefuseSets DEF Analyze
<1>5. ASSUME NEW path, NEW only, NEW limit, NEW at, CliPlay(path, only, limit, at) PROVE Sets
  <2>1. CASE Refuse("failed")
    BY <2>1, RefuseSets
  <2>2. CASE ~Refuse("failed")
    <3>1. PICK played :
            /\ job' = <<[op |-> "play", by |-> "cli", from |-> path, steps |-> <<>>, fails |-> played.fails, next |-> "none",
                         shows |-> <<[only |-> only, limit |-> limit, at |-> at, frames |-> played.frames]>>]>>
            /\ UNCHANGED <<disk, answer>>
      BY <1>5, <2>2 DEF CliPlay
    <3>2. PICK record : record = [op |-> "play", by |-> "cli", from |-> path, steps |-> <<>>, fails |-> played.fails, next |-> "none",
                         shows |-> <<[only |-> only, limit |-> limit, at |-> at, frames |-> played.frames]>>]
      OBVIOUS
    <3>3. {"op", "from", "fails", "steps"} \subseteq DOMAIN record /\ record.op = "play" /\ record.steps = <<>>
      BY <3>2
    <3>4. NumbersOk(disk, <<>>)
      BY NoneAmong, NumbersBegin
    <3>5. Goes(record)
      BY <3>3, <3>4 DEF Goes, Carrying, Sealing, Copying, Converts
    <3> QED BY <3>1, <3>2, <3>5 DEF Sets
  <2> QED BY <2>1, <2>2
<1> QED BY <1>1, <1>2, <1>3, <1>4, <1>5 DEF Command

\* Jobs write to their outputs: what they read, and what that says of the outputs, stays.
LEMMA InputsStay ==
    ASSUME NEW record, record.op \in {"mux", "demux", "import"}, NEW all,
           Carries(disk, record.steps, Inputs(record), Outputs(record), all),
           Leaves(disk, disk', Outputs(record))
    PROVE  /\ Inputs(record)' = Inputs(record) /\ Outputs(record)' = Outputs(record)
           /\ record.op = "demux" => SoundFirst(record.from)' = SoundFirst(record.from)
<1>0. \A path : path \notin Outputs(record) => /\ path \in DOMAIN disk' <=> path \in DOMAIN disk
                                               /\ path \in DOMAIN disk => disk'[path] = disk[path]
  BY DEF Leaves
<1>1. CASE record.op = "mux"
  <2>1. Outputs(record) = {"528"} /\ Outputs(record)' = {"528"}
    BY <1>1 DEF Outputs
  <2>2. \A path \in Elementary : Exists(path)' <=> Exists(path)
    <3>1. \A path \in Elementary : path \notin {"528"}
      BY DEF Elementary
    <3>2. \A path \in Elementary : path \in DOMAIN disk' <=> path \in DOMAIN disk
      BY <1>0, <2>1, <3>1
    <3> QED BY <3>2 DEF Exists
  <2>3. VideoInput' = VideoInput /\ AudioInput' = AudioInput
    BY <2>2 DEF VideoInput, AudioInput, Elementary
  <2> QED BY <1>1, <2>1, <2>3 DEF Inputs
<1>2. CASE record.op = "demux"
  <2>1. record.from \in Inputs(record)
    BY <1>2 DEF Inputs
  <2>2. disk'[record.from] = disk[record.from]
    <3>1. record.from \in DOMAIN disk /\ record.from \notin Outputs(record)
      BY <2>1 DEF Carries
    <3> QED BY <1>0, <3>1
  <2> QED BY <1>2, <2>2 DEF Inputs, Outputs, SoundFirst
<1>3. CASE record.op = "import"
  BY <1>3 DEF Inputs, Outputs
<1> QED BY <1>1, <1>2, <1>3

LEMMA StepGoes ==
    ASSUME FilesInv, GoingInv, Step
    PROVE  GoingInv'
<1>1. PICK record : job = <<record>> /\ Doing(record) /\ Goes(record)
  BY DEF FilesInv, GoingInv, Step, Running
<1>2. PICK steps : steps = record.steps
  OBVIOUS
<1>3. steps # <<>> /\ StepsOk(disk, steps) /\ FilesOk(disk) /\ AllNumbered(disk) /\ NumbersOk(disk, steps)
  BY <1>1, <1>2 DEF Step, Doing, FilesInv, GoingInv, Goes
<1>4. Head(steps) = steps[1] /\ disk' = Performed(steps[1])
  BY <1>1, <1>2, <1>3, LaterSteps DEF Step, StepsOk
<1>5. Does(disk, disk', steps[1])
  BY <1>4, StepDoes
<1>6. PICK left : left = [record EXCEPT !.steps = Tail(steps)]
  OBVIOUS
<1>7. /\ job' = <<left>> /\ {"op", "from", "fails", "steps"} \subseteq DOMAIN left /\ left.steps = Tail(steps)
      /\ left.op = record.op /\ left.from = record.from /\ left.fails = record.fails
  BY <1>1, <1>2, <1>6 DEF Step, Goes
<1>8. AllNumbered(disk') /\ NumbersOk(disk', Tail(steps))
  BY <1>3, <1>5, NumbersStay
<1>9. /\ Inputs(left)' = Inputs(record)' /\ Outputs(left)' = Outputs(record)'
      /\ Inputs(left) = Inputs(record) /\ Outputs(left) = Outputs(record)
  BY <1>7 DEF Inputs, Outputs
<1>10. ASSUME Converts(record)
       PROVE  /\ Carries(disk', left.steps, Inputs(left)', Outputs(left)', ~(left.op = "demux" /\ SoundFirst(left.from)'))
              /\ record.op \in {"mux", "import"} => \A path \in Outputs(left)' : Seals(disk', left.steps, path)
  <2>1. PICK all \in BOOLEAN : all = ~(record.op = "demux" /\ SoundFirst(record.from))
    OBVIOUS
  <2>2. PICK inputs, outputs : inputs = Inputs(record) /\ outputs = Outputs(record)
    OBVIOUS
  <2>3. Carries(disk, steps, inputs, outputs, all)
    BY <1>1, <1>2, <1>10, <2>1, <2>2 DEF Goes, Carrying
  <2>10. PICK files, more : files = disk /\ more = disk'
    OBVIOUS
  <2>11. /\ FilesOk(files) /\ StepsOk(files, steps) /\ steps # <<>>
         /\ Does(files, more, steps[1]) /\ Carries(files, steps, inputs, outputs, all)
    BY <1>3, <1>5, <2>3, <2>10
  <2>12. Carries(more, Tail(steps), inputs, outputs, all) /\ Leaves(files, more, outputs)
    BY <2>11, CarriesOn
  <2>4. Leaves(disk, disk', outputs)
    BY <2>10, <2>12
  <2>13. /\ record.op \in {"mux", "demux", "import"} /\ record.steps = steps
         /\ Carries(disk, record.steps, Inputs(record), Outputs(record), all)
         /\ Leaves(disk, disk', Outputs(record))
    BY <1>2, <1>10, <2>2, <2>3, <2>4 DEF Converts
  <2>14. /\ Inputs(record)' = Inputs(record) /\ Outputs(record)' = Outputs(record)
         /\ record.op = "demux" => SoundFirst(record.from)' = SoundFirst(record.from)
    BY <2>13, InputsStay
  <2>5. /\ Inputs(record)' = inputs /\ Outputs(record)' = outputs
        /\ record.op = "demux" => SoundFirst(record.from)' = SoundFirst(record.from)
    BY <2>2, <2>14
  <2>6. SoundFirst(left.from)' <=> SoundFirst(record.from)'
    BY <1>7 DEF SoundFirst
  <2>7. ~(left.op = "demux" /\ SoundFirst(left.from)') <=> all
    BY <1>7, <2>1, <2>5, <2>6
  <2>8. Carries(disk', left.steps, Inputs(left)', Outputs(left)', ~(left.op = "demux" /\ SoundFirst(left.from)'))
    <3>1. Carries(disk', left.steps, Inputs(left)', Outputs(left)', all)
      BY <1>7, <1>9, <2>5, <2>10, <2>12
    <3> QED BY <2>7, <3>1 DEF Carries
  <2>9. ASSUME record.op \in {"mux", "import"}, NEW path \in outputs PROVE Seals(disk', Tail(steps), path)
    <3>1. Seals(disk, steps, path)
      BY <1>1, <1>2, <1>10, <2>2, <2>9 DEF Goes, Sealing
    <3>2. There(disk, steps, path)
      BY <2>3 DEF Carries
    <3> QED BY <1>3, <1>5, <3>1, <3>2, SealsStay
  <2> QED BY <1>7, <1>9, <2>5, <2>8, <2>9
<1>11. Converts(left) <=> Converts(record)
  BY <1>7 DEF Converts
<1>12. Carrying(left)' /\ Sealing(left)'
  BY <1>7, <1>10, <1>11 DEF Carrying, Sealing, Converts
<1>13. ASSUME record.op = "decode", ~record.fails PROVE Copies(disk', left.steps, left.from)
  <2>1. Copies(disk, steps, record.from)
    BY <1>1, <1>2, <1>13 DEF Goes, Copying
  <2>2. PICK file : file = File(<<>>, disk[record.from].frames)
    OBVIOUS
  <2>3. steps = <<Create("raw", file)>>
    BY <1>3, <2>1, <2>2 DEF Copies
  <2>4. steps[1] = Create("raw", file) /\ Tail(steps) = <<>>
    BY <2>3
  <2>5. Puts(disk, disk', "raw", file)
    BY <1>5, <2>4 DEF Does, Create
  <2>6. disk'["raw"].frames = disk[record.from].frames /\ disk'[record.from] = disk[record.from]
        /\ record.from \in DOMAIN disk' /\ "raw" \in DOMAIN disk'
    BY <2>1, <2>2, <2>5 DEF Puts, Copies, File
  <2> QED BY <1>7, <2>1, <2>4, <2>6 DEF Copies
<1>14. Copying(left)'
  BY <1>7, <1>13 DEF Copying
<1>15. Goes(left)'
  BY <1>7, <1>8, <1>12, <1>14 DEF Goes
<1> QED BY <1>7, <1>8, <1>15 DEF GoingInv

LEMMA InterruptGoes ==
    ASSUME FilesInv, GoingInv, Interrupt
    PROVE  GoingInv'
<1>1. PICK record : job = <<record>> /\ Doing(record)
  BY DEF FilesInv, Interrupt, Running
<1>2. record.steps # <<>> /\ job' = <<>> /\ (disk' = disk \/ disk' = Partly(Head(record.steps)))
  BY <1>1 DEF Interrupt
<1>3. AllNumbered(Partly(Head(record.steps)))
  BY <1>1, <1>2, PartNumbered DEF FilesInv, GoingInv, Doing
<1> QED BY <1>2, <1>3 DEF GoingInv

LEMMA GoingStep ==
    ASSUME FilesInv, GoingInv, [Next]_vars
    PROVE  GoingInv'
<1>1. CASE UNCHANGED <<disk, job>>
  <2>1. Sets
    BY <1>1 DEF Sets
  <2> QED BY <2>1, SetsKeep
<1>2. CASE EditorAction
  BY <1>2, JobSets, SetsKeep DEF EditorAction, FilesInv, GoingInv
<1>3. CASE Command
  BY <1>3, CommandSets, SetsKeep DEF FilesInv, GoingInv
<1>4. CASE Step
  BY <1>4, StepGoes
<1>5. CASE FinishJob
  <2>1. CASE StartMux(job[1].by)
    BY <2>1, MuxSets, SetsKeep DEF FilesInv
  <2>2. CASE job' = <<>> /\ UNCHANGED disk
    BY <2>2 DEF GoingInv
  <2> QED BY <1>5, <2>1, <2>2 DEF FinishJob
<1>6. CASE Interrupt
  BY <1>6, InterruptGoes
<1>7. CASE Environment
  BY <1>7, EnvironmentNumbered, EnvironmentReplies, EnvironmentFiles DEF GoingInv, Environment, ReplaceInput, Supply, NewSource,
     RemoveFile, Truncate, LoseBlock, MayAct
<1>8. CASE Press
  BY <1>1, <1>8 DEF Press
<1>9. CASE Tick \/ UNCHANGED vars
  BY <1>1, <1>9 DEF Tick, vars, conversionVars
<1> QED
  BY <1>2, <1>3, <1>4, <1>5, <1>6, <1>7, <1>8, <1>9
  DEF Next, OpenMedia, Play, CloseMedia, Pause, Stop, Seek, RefreshLicense, OthersAct

\* A job that answers without an error had nothing left to do and did not fail.
LEMMA OnlyTheEndIsDone ==
    ASSUME FilesInv, [Next]_vars, NEW ops, Completes(ops)
    PROVE  job # <<>> /\ job[1].steps = <<>> /\ ~job[1].fails /\ job[1].op \in ops
<1>1. job # <<>> /\ job' = <<>> /\ answer' = "done" /\ job[1].op \in ops
  BY DEF Completes
<1>2. ~UNCHANGED job
  BY <1>1
<1>3. CASE EditorAction \/ Command \/ Environment
  BY <1>1, <1>3 DEF EditorAction, Command, StartJob, EncodeElementary, EncodeContainer, Import, Mux, Demux, DecodeElementary,
     EncodeRgb, Analyze, CliPlay, MayAct, Environment, ReplaceInput, Supply, NewSource, RemoveFile, Truncate,
     LoseBlock
<1>4. CASE Step
  BY <1>1, <1>4 DEF Step
<1>5. CASE Interrupt
  BY <1>1, <1>5 DEF Interrupt
<1>6. CASE FinishJob
  <2>1. ~StartMux(job[1].by)
    <3> SUFFICES ASSUME StartMux(job[1].by) PROVE FALSE
      OBVIOUS
    <3>1. CASE Muxable
      BY <1>1, <3>1 DEF StartMux, Begin
    <3>2. CASE ~Muxable
      BY <1>1, <3>2 DEF StartMux, Refuse
    <3> QED BY <3>1, <3>2
  <2> QED BY <1>1, <1>6, <2>1 DEF FinishJob
<1>7. CASE Press \/ Tick \/ UNCHANGED vars
  BY <1>2, <1>7 DEF Press, Tick, vars, conversionVars
<1> QED
  BY <1>3, <1>4, <1>5, <1>6, <1>7
  DEF Next, OpenMedia, Play, CloseMedia, Pause, Stop, Seek, RefreshLicense, OthersAct

LEMMA DoneIsCarried ==
    ASSUME GoingInv, NEW done, job = <<done>>, done.steps = <<>>, ~done.fails,
           done.op \in {"mux", "demux", "import", "decode"}
    PROVE  Carried(done)
<1>1. Goes(done)
  BY DEF GoingInv
<1>2. CASE done.op = "decode"
  <2>1. Copies(disk, <<>>, done.from)
    BY <1>1, <1>2 DEF Goes, Copying
  <2>2. /\ done.from \in DOMAIN disk /\ ~disk[done.from].torn
        /\ "raw" \in DOMAIN disk /\ disk["raw"].frames = disk[done.from].frames
    <3>1. <<Create("raw", File(<<>>, disk[done.from].frames))>> # <<>>
      OBVIOUS
    <3> QED BY <2>1, <3>1 DEF Copies
  <2>3. Inputs(done) = {done.from} /\ Outputs(done) = {"raw"}
    BY <1>2 DEF Inputs, Outputs
  <2>4. \A frame : SamePlace(frame, frame)
    BY DEF SamePlace
  <2>5. AllIn({"raw"}, {done.from}) /\ AllIn({done.from}, {"raw"})
    BY <2>2, <2>4 DEF AllIn
  <2> QED BY <1>2, <2>2, <2>3, <2>5 DEF Carried
<1>3. CASE done.op \in {"mux", "demux", "import"}
  <2>1. PICK all \in BOOLEAN : all = ~(done.op = "demux" /\ SoundFirst(done.from))
    OBVIOUS
  <2>2. PICK inputs, outputs : inputs = Inputs(done) /\ outputs = Outputs(done)
    OBVIOUS
  <2>3. Carries(disk, <<>>, inputs, outputs, all)
    BY <1>1, <1>3, <2>1, <2>2 DEF Goes, Carrying, Converts
  <2>4. /\ \A path \in inputs : ~disk[path].torn
        /\ AllIn(outputs, inputs)
        /\ all => AllIn(inputs, outputs)
    BY <2>3, CarriedInTheEnd
  <2>5. ASSUME done.op \in {"mux", "import"}, NEW path \in outputs PROVE disk[path].sealed
    <3>1. Seals(disk, <<>>, path)
      BY <1>1, <1>3, <2>2, <2>5 DEF Goes, Sealing, Converts
    <3> QED BY <3>1 DEF Seals
  <2> QED BY <1>3, <2>1, <2>2, <2>4, <2>5 DEF Carried
<1> QED BY <1>2, <1>3

-----------------------------------------------------------------------------
(* The theorems.                                                           *)

\* The player's flag, its open file and its session belong together: what plays
\* has a session the tick can go on with, of a file whose codecs are supported,
\* whatever was pressed and whatever became of the file (open_media, play, pause,
\* stop, seek_session_ms, update_playback_tick).
THEOREM PlayerTypeCorrect == Spec => []PlayerTypeOK
<1>1. Init => JobOK /\ UiOK /\ NoticeInv /\ EditorOK
  <2> SUFFICES ASSUME Init PROVE JobOK /\ UiOK /\ NoticeInv /\ EditorOK
    OBVIOUS
  <2>1. JobOK
    BY DEF Init, ConversionInit, JobOK, Answers
  <2>2. UiOK
    BY DEF Init, UiOK, OneMedia, OneSession, Agreed
  <2>3. NoticeInv
    BY PlayerAssumption DEF Init, NoticeInv, Remembered, NoticesShownOnce
  <2> QED
    BY <2>1, <2>2, <2>3 DEF Init, EditorOK
<1>2. EditorOK /\ [Next]_vars => EditorOK'
  BY DEF EditorOK, Next, OpenMedia, Play, CloseMedia, Pause, Stop, Seek, Tick, RefreshLicense, EditorAction, OthersAct,
      noticeVars, playerVars, vars
<1>3. JobOK /\ UiOK /\ NoticeInv /\ EditorOK /\ [Next]_vars
        => JobOK' /\ UiOK' /\ NoticeInv' /\ EditorOK'
  BY <1>2, JobStep, UiStep, NoticeStep
<1>4. JobOK /\ UiOK /\ NoticeInv /\ EditorOK => PlayerTypeOK
  <2>1. OneMedia => media \in Seq(MediaInfo) /\ Len(media) <= 1
    BY OneOrNone DEF OneMedia
  <2>2. OneSession => session \in Seq(OpenSession) /\ Len(session) <= 1
    BY OneOrNone DEF OneSession
  <2> QED
    BY <2>1, <2>2 DEF EditorOK, JobOK, Answers, UiOK, Agreed, NoticeInv, Remembered, PlayerTypeOK
<1> QED
  BY <1>1, <1>3, <1>4, PTL DEF Spec

\* A notice that the server hands out again is shown again only when MaxSeen
\* different ones were shown in between (push_server_notification).
THEOREM NoticeOnce == Spec => []NoticesShownOnce
<1>1. Init => NoticeInv
  BY PlayerAssumption DEF Init, NoticeInv, Remembered, NoticesShownOnce
<1>2. NoticeInv /\ [Next]_vars => NoticeInv'
  BY NoticeStep
<1>3. NoticeInv => NoticesShownOnce
  BY DEF NoticeInv
<1> QED
  BY <1>1, <1>2, <1>3, PTL DEF Spec

\* Whatever jobs fail or are killed, whatever other programs write, damage or cut
\* off, every stream in every file is a beginning of one version of one input, but
\* for the packets whose block header was damaged.
THEOREM StreamsArePrefixes == Spec => []TracksArePrefixes
<1>1. Init => FilesInv
  BY InitFiles DEF Init
<1>2. FilesInv /\ [Next]_vars => FilesInv'
  BY FilesStep
<1>3. FilesInv => TracksArePrefixes
  BY DEF FilesInv, FilesOk, FileOk, AllInOrder, TracksArePrefixes
<1> QED
  BY <1>1, <1>2, <1>3, PTL DEF Spec

\* A mux, demux, import or decode that answers without an error has carried over
\* every frame a reader gets of its inputs, and none of them breaks off within the
\* body of a packet, in whatever state jobs, kills and other programs left the
\* files.  What readers pass over without an error (a cut within a block header, a
\* packet whose header is damaged) it does not speak of (mux_elementary_streams,
\* demux_container_to_elementary, run_native_import, decode_native_to_raw).
THEOREM DoneCarriesAll == Spec => DoneIsWhole
<1>1. Init => FilesInv /\ GoingInv
  BY InitFiles, InitNumbered DEF Init, GoingInv, ConversionInit
<1>2. FilesInv /\ GoingInv /\ [Next]_vars => FilesInv' /\ GoingInv'
  BY FilesStep, GoingStep
<1>3. FilesInv /\ GoingInv /\ [Next]_vars
        => [Completes({"mux", "demux", "import", "decode"}) => Carried(job[1])]_conversionVars
  <2> SUFFICES ASSUME FilesInv, GoingInv, [Next]_vars, Completes({"mux", "demux", "import", "decode"}) PROVE Carried(job[1])
    OBVIOUS
  <2>1. job # <<>> /\ job[1].steps = <<>> /\ ~job[1].fails /\ job[1].op \in {"mux", "demux", "import", "decode"}
    BY OnlyTheEndIsDone
  <2>2. PICK done : job = <<done>>
    BY <2>1 DEF GoingInv
  <2>3. Carried(done)
    BY <2>1, <2>2, DoneIsCarried
  <2> QED BY <2>2, <2>3
<1> QED
  BY <1>1, <1>2, <1>3, PTL DEF Spec, DoneIsWhole
=============================================================================
