------------------------------ MODULE Conversion ------------------------------
(***************************************************************************)
(* The conversions of AppServices (crates/libsrs_app_services lib.rs and   *)
(* import_pipeline.rs) over the files of one stem: raw inputs, elementary  *)
(* streams, containers.  A job creates its outputs and appends to them     *)
(* frame by frame; it may fail on the way, or its process may be killed,   *)
(* and what it wrote stays on disk and is the input of the next job.       *)
(*                                                                         *)
(* A frame is known by where it came from: the source, one version of an   *)
(* input file, and its place in it.  The bytes of files, and that they are *)
(* read back as what was written, are ConversionContract's.                *)
(***************************************************************************)
EXTENDS Integers, Sequences, FiniteSets, SequencesExt

CONSTANTS
    Streams,        \* what other tools write: [path, codec, kinds], of the frames of one track
    Stored,         \* the frames of a container that is there at first, as codecs
    Given,          \* sets of streams one of which is there at first
    MaxStash,       \* 64, packets a session keeps of the track nobody takes
    Limits,         \* numbers of frames to play at most
    MaxSources,     \* bound: versions of inputs
    MaxActs         \* bound: what the user and other programs do

Elementary == {"srsv2", "srsv", "srsa"}
Containers == {"528", "import"}
Paths == {"picture", "sound", "raw"} \cup Elementary \cup Containers
Codec == [srsv2 |-> "v2", srsv |-> "v1", srsa |-> "audio"]
Policies == {"Srsv2", "Srsv1Legacy"}
\* by the payload's revision; an alt-ref is a picture to predict from and never shown
FrameKinds == {"intra", "predicted", "altref", "unknown"}

ASSUME ConversionAssumption ==
    /\ \A stream \in Streams :
          /\ \/ stream.path \in Elementary /\ stream.codec = Codec[stream.path]
             \/ stream.path \in Containers /\ stream.codec \in {"v1", "v2", "audio", "other"}
          /\ stream.kinds \in Seq(FrameKinds)
    /\ Stored \in Seq({"v1", "audio"}) /\ Given \subseteq SUBSET Streams
    /\ MaxStash \in Nat /\ Limits \subseteq Nat
    /\ MaxSources \in Nat /\ MaxActs \in Nat

VARIABLES
    disk,           \* the files there are
    job,            \* <<>> or <<[op, by, from, steps, fails, next, shows]>>
    answer,         \* of the last job: "none", "done", "nothing", "failed", "stopped"
    sources,        \* versions of inputs so far
    acts
conversionVars == <<disk, job, answer, sources, acts>>

\* gap, for the record: what stood before it in its stream was lost to damage
Frame(codec, source, at, kind) ==
    [id |-> 0, codec |-> codec, source |-> source, at |-> at, kind |-> kind, gap |-> FALSE]
WithId(frame, id) == [frame EXCEPT !.id = id]
Track(id, codec) == [id |-> id, codec |-> codec]

\* a file is created with its header; the frames follow, as its readers get them;
\* torn: behind the last one they meet an error
File(tracks, frames) == [head |-> TRUE, tracks |-> tracks, frames |-> frames, torn |-> FALSE, sealed |-> FALSE]
ElementaryFile(path, frames) == File(<<Track(0, Codec[path])>>, frames)

\* raw input: nothing anyone knows when its size is no square, or no number of whole samples
RawFile(source, fit) == File(<<>>, <<Frame("raw", source, 0, IF fit THEN "intra" ELSE "unknown")>>)

Exists(path) == path \in DOMAIN disk
Opens(path) == Exists(path) /\ disk[path].head

\* a finished container
StoredFile ==
    LET at(i) == Cardinality({j \in 1 .. i - 1 : Stored[j] = Stored[i]})
        frame(i) == WithId(Frame(Stored[i], 1, at(i), "intra"), IF Stored[i] = "audio" THEN 2 ELSE 1)
    IN  [File(<<Track(1, "v1"), Track(2, "audio")>>, [i \in DOMAIN Stored |-> frame(i)]) EXCEPT !.sealed = TRUE]

\* the file another program wrote
TrackId(path) == IF path \in Containers THEN 1 ELSE 0
SuppliedFile(stream, source) ==
    LET id == TrackId(stream.path)
    IN  File(<<Track(id, stream.codec)>>,
             [i \in DOMAIN stream.kinds |-> WithId(Frame(stream.codec, source, i - 1, stream.kinds[i]), id)])

FileAtFirst(given, path) ==
    IF \E stream \in given : stream.path = path
    THEN SuppliedFile(CHOOSE stream \in given : stream.path = path, 1)
    ELSE IF path = "528" THEN StoredFile ELSE RawFile(1, TRUE)

ConversionInit ==
    /\ \E given \in Given :
          disk = [path \in {stream.path : stream \in given} \cup {"picture", "sound", "528"} |->
                     FileAtFirst(given, path)]
    /\ job = <<>> /\ answer = "none" /\ sources = 1 /\ acts = 0

-------------------------------------------------------------------------------
(* The steps of a job.                                                     *)

Create(path, file) == [does |-> "create", to |-> path, file |-> file]
Add(path, frame) == [does |-> "append", to |-> path, frame |-> frame]
Seal(path) == [does |-> "seal", to |-> path]
PassOver == [does |-> "pass"]       \* a packet is read and nothing is written
AppendAll(path, frames) == [i \in DOMAIN frames |-> Add(path, frames[i])]

\* the disk with a file in place of what was there
WithFile(path, file) == [p \in DOMAIN disk \cup {path} |-> IF p = path THEN file ELSE disk[p]]

\* mutant: a file that is there is not truncated
PerformedAppending(step) ==
    CASE step.does = "create" ->
            WithFile(step.to, [step.file EXCEPT !.frames = (IF Exists(step.to) THEN disk[step.to].frames ELSE <<>>) \o @])
      [] step.does = "append" -> [disk EXCEPT ![step.to].frames = Append(@, step.frame)]
      [] step.does = "seal" -> [disk EXCEPT ![step.to].sealed = TRUE]
      [] step.does = "pass" -> disk

\* File::create with the header, write_packet or write_frame, finalize
Performed(step) ==
    CASE step.does = "create" -> WithFile(step.to, step.file)
      [] step.does = "append" -> [disk EXCEPT ![step.to].frames = Append(@, step.frame)]
      [] step.does = "seal" -> [disk EXCEPT ![step.to].sealed = TRUE]
      [] step.does = "pass" -> disk

\* what a process killed within the step leaves, when a reader can tell
Partly(step) ==
    CASE step.does = "create" -> WithFile(step.to, [step.file EXCEPT !.head = FALSE, !.frames = <<>>])
      [] step.does \in {"append", "seal"} -> [disk EXCEPT ![step.to].torn = TRUE]
      [] step.does = "pass" -> disk

Begin(op, by, from, steps, fails, next) ==
    /\ job' = <<[op |-> op, by |-> by, from |-> from, steps |-> steps, fails |-> fails, next |-> next, shows |-> <<>>]>>
    /\ UNCHANGED <<disk, answer>>
Refuse(why) == answer' = why /\ UNCHANGED <<disk, job>>

MayAct == job = <<>> /\ acts < MaxActs /\ acts' = acts + 1 /\ UNCHANGED sources

-------------------------------------------------------------------------------
(* inspect_media: the tracks of a file, if it is read to its end without   *)
(* an error.                                                               *)

Inspected(path) == Opens(path) /\ ~disk[path].torn
\* container_codec: nobody plays or converts a codec nobody knows
SupportedTracks(path) == \A i \in DOMAIN disk[path].tracks : disk[path].tracks[i].codec # "other"

\* ensure_supported_for_conversion
Supported(path) == Inspected(path) /\ SupportedTracks(path)

\* Analyze
Analyze(path) == MayAct /\ Refuse(IF Inspected(path) THEN "done" ELSE "failed")

-------------------------------------------------------------------------------
(* encode_input_to_native.                                                 *)

\* encode_raw_video, encode_raw_audio, encode_square_gray_raw_to_srsv2_elementary
RawInput(path) == IF path = "srsa" THEN "sound" ELSE "picture"
RawFits(path) == Exists(RawInput(path)) /\ disk[RawInput(path)].frames[1].kind = "intra"
EncodeSteps(path) ==
    <<Create(path, ElementaryFile(path, <<>>)),
      Add(path, Frame(Codec[path], disk[RawInput(path)].frames[1].source, 0, "intra"))>>

EncodeElementary(by, path, policy) ==
    /\ MayAct
    /\ IF RawFits(path) /\ ~(path = "srsv2" /\ policy = "Srsv1Legacy")
       THEN Begin("encode", by, RawInput(path), EncodeSteps(path), FALSE, "none")
       ELSE Refuse("failed")

-------------------------------------------------------------------------------
(* mux_elementary_streams.                                                 *)

VideoInput == IF Exists("srsv2") THEN {"srsv2"} ELSE IF Exists("srsv") THEN {"srsv"} ELSE {}
AudioInput == IF Exists("srsa") THEN {"srsa"} ELSE {}
Ambiguous == Exists("srsv2") /\ Exists("srsv")
Muxable == ~Ambiguous /\ VideoInput \cup AudioInput # {} /\ \A path \in VideoInput \cup AudioInput : Opens(path)

MuxTracks ==
    (IF VideoInput = {} THEN <<>> ELSE <<Track(1, Codec[CHOOSE path \in VideoInput : TRUE])>>)
    \o (IF AudioInput = {} THEN <<>> ELSE <<Track(2, "audio")>>)

\* the frames that are muxed, up to a revision nobody knows
Known(frames) ==
    LET bad == {i \in DOMAIN frames : frames[i].kind = "unknown"}
    IN  IF bad = {} THEN frames ELSE SubSeq(frames, 1, (CHOOSE i \in bad : \A j \in bad : i <= j) - 1)
Stops(path) == disk[path].torn \/ Known(disk[path].frames) # disk[path].frames

MuxedFrames(path, id) == [i \in DOMAIN Known(disk[path].frames) |-> WithId(disk[path].frames[i], id)]
MuxedVideo == IF VideoInput = {} THEN <<>> ELSE MuxedFrames(CHOOSE path \in VideoInput : TRUE, 1)
MuxedAudio ==
    IF AudioInput = {} \/ \E path \in VideoInput : Stops(path) THEN <<>> ELSE MuxedFrames("srsa", 2)
MuxSteps ==
    <<Create("528", File(MuxTracks, <<>>))>>
    \o AppendAll("528", MuxedVideo) \o AppendAll("528", MuxedAudio)

\* mutant: what cannot be read is taken for the end of a stream
StartMuxLenient(by) ==
    IF Muxable THEN Begin("mux", by, "528", Append(MuxSteps, Seal("528")), FALSE, "none") ELSE Refuse("failed")

StartMux(by) ==
    IF Muxable
    THEN LET fails == \E path \in VideoInput \cup AudioInput : Stops(path)
         IN  Begin("mux", by, "528", IF fails THEN MuxSteps ELSE Append(MuxSteps, Seal("528")), fails, "none")
    ELSE Refuse("failed")

Mux(by) == MayAct /\ StartMux(by)

\* to .528: an .srsv2 of the stem that exists is muxed in place of the input
EncodeContainer(by, policy) ==
    LET path == IF policy = "Srsv2" THEN "srsv2" ELSE "srsv"
    IN  /\ MayAct
        /\ \/ Ambiguous /\ Refuse("failed")
           \/ /\ ~Ambiguous /\ policy = "Srsv2" /\ Exists("srsv2")
              /\ StartMux(by)
           \/ /\ ~Ambiguous
              /\ IF policy = "Srsv2" THEN Exists("srsv") /\ ~Exists("srsv2") ELSE Exists("srsv2")
              /\ Refuse("failed")
           \/ /\ ~Exists("srsv2") /\ (policy = "Srsv2" => ~Exists("srsv"))
              /\ IF RawFits(path) THEN Begin("encode", by, "picture", EncodeSteps(path), FALSE, "mux") ELSE Refuse("failed")

\* with --width and --height, which may fit a file that is no square, and not one
\* that is: the stem's .srsv2 is written anew, whatever other video there is
EncodeRgb(target) ==
    /\ MayAct /\ Exists("picture")
    /\ \/ Refuse("failed")
       \/ Begin("encode", "cli", "picture", EncodeSteps("srsv2"), FALSE, IF target = "528" THEN "mux" ELSE "none")

-------------------------------------------------------------------------------
(* demux_container_to_elementary.                                          *)

PathOf(codec) == CHOOSE path \in Elementary : Codec[path] = codec
IsVideo(codec) == codec # "audio"

\* tracks in order, up to a codec nobody writes
DemuxCreates(tracks) ==
    LET bad == {i \in DOMAIN tracks : tracks[i].codec = "other"}
        good == IF bad = {} THEN tracks ELSE SubSeq(tracks, 1, (CHOOSE i \in bad : \A j \in bad : i <= j) - 1)
    IN  [i \in DOMAIN good |-> Create(PathOf(good[i].codec), ElementaryFile(PathOf(good[i].codec), <<>>))]

\* the video writer takes packets of track 1, the audio writer those of track 2
Taken(file, frame) ==
    LET codecs == {file.tracks[i].codec : i \in DOMAIN file.tracks}
    IN  \/ frame.id = 1 /\ \E codec \in codecs : IsVideo(codec)
        \/ frame.id = 2 /\ "audio" \in codecs
DemuxAppends(file) ==
    [i \in DOMAIN file.frames |->
        IF Taken(file, file.frames[i]) THEN Add(PathOf(file.frames[i].codec), WithId(file.frames[i], 0))
        ELSE PassOver]

DemuxSteps(file) ==
    IF \E i \in DOMAIN file.tracks : file.tracks[i].codec = "other" THEN DemuxCreates(file.tracks)
    ELSE DemuxCreates(file.tracks) \o DemuxAppends(file)

Demux(by, path) ==
    /\ MayAct
    /\ IF Opens(path)
       THEN Begin("demux", by, path, DemuxSteps(disk[path]),
                  disk[path].torn \/ \E i \in DOMAIN disk[path].tracks : disk[path].tracks[i].codec = "other", "none")
       ELSE Refuse("failed")

-------------------------------------------------------------------------------
(* decode_native_to_raw of an elementary stream: what comes out is written *)
(* at the end, when all of it was decoded.  SRSV2 is decoded frame by      *)
(* frame, without references.                                              *)

DecodesAlone(path) ==
    /\ Opens(path) /\ ~disk[path].torn
    /\ \A i \in DOMAIN disk[path].frames : disk[path].frames[i].kind = "intra"

DecodeElementary(by, path) ==
    /\ MayAct
    /\ IF DecodesAlone(path)
       THEN Begin("decode", by, path, <<Create("raw", File(<<>>, disk[path].frames))>>, FALSE, "none")
       ELSE Refuse("failed")

-------------------------------------------------------------------------------
(* run_native_import of a native file: all of its packets are read before  *)
(* the output is created; tracks get the numbers 1 and 2 in turn.          *)

FramesOf(file, video) == SelectSeq(file.frames, LAMBDA frame : IsVideo(frame.codec) = video)
HasTrack(file, video) == \E i \in DOMAIN file.tracks : IsVideo(file.tracks[i].codec) = video

Importable(file) == \A video \in BOOLEAN : HasTrack(file, video) => FramesOf(file, video) # <<>>

ImportCodec(policy) == IF policy = "Srsv2" THEN "v2" ELSE "v1"
ImportTracks(file, policy) ==
    (IF HasTrack(file, TRUE) THEN <<Track(1, ImportCodec(policy))>> ELSE <<>>)
    \o (IF HasTrack(file, FALSE) THEN <<Track(IF HasTrack(file, TRUE) THEN 2 ELSE 1, "audio")>> ELSE <<>>)

\* push_video, push_audio; the first frame is intra, the others are predicted from it
Imported(file, frame, policy) ==
    IF ~IsVideo(frame.codec) THEN WithId(frame, IF HasTrack(file, TRUE) THEN 2 ELSE 1)
    ELSE [frame EXCEPT !.id = 1, !.codec = ImportCodec(policy),
                       !.kind = IF frame = FramesOf(file, TRUE)[1] \/ policy = "Srsv1Legacy" THEN "intra" ELSE "predicted"]

\* video that is not SRSV1 is not decoded
Decoded(frames) ==
    LET bad == {i \in DOMAIN frames : frames[i].codec = "v2"}
    IN  IF bad = {} THEN frames ELSE SubSeq(frames, 1, (CHOOSE i \in bad : \A j \in bad : i <= j) - 1)

ImportSteps(file, policy) ==
    LET frames == Decoded(file.frames)
    IN  <<Create("import", File(ImportTracks(file, policy), <<>>))>>
        \o [i \in DOMAIN frames |-> Add("import", Imported(file, frames[i], policy))]
        \o (IF frames = file.frames THEN <<Seal("import")>> ELSE <<>>)

Import(by, path, policy) ==
    /\ MayAct
    /\ IF ~Supported(path) THEN Refuse("failed")
       ELSE IF disk[path].frames = <<>> THEN Refuse("nothing")
       ELSE IF ~Importable(disk[path]) THEN Refuse("failed")
       ELSE Begin("import", by, path, ImportSteps(disk[path], policy),
                  Decoded(disk[path].frames) # disk[path].frames, "none")

-------------------------------------------------------------------------------
(* run_play_command.  Packets are read in the order of the file; one of a  *)
(* track that is not asked for is kept for a consumer that never comes.    *)

Wanted(only, frame) == only = "both" \/ IsVideo(frame.codec) = (only = "video")

\* decode_video_packet, decode_audio_packet.  A file has one reference slot.  For an
\* alt-ref there is Ok(None): decode_next_step reads on, decode_next_video_frame
\* hands it to the command, which takes it for the end of the stream
Decodes(state, frame, only) ==
    IF frame.kind = "unknown" \/ (frame.kind = "predicted" /\ ~state.refers) THEN [state EXCEPT !.fails = TRUE]
    ELSE IF frame.kind = "altref" THEN [state EXCEPT !.refers = TRUE, !.ends = only = "video"]
    ELSE [state EXCEPT !.frames = Append(@, frame), !.refers = @ \/ IsVideo(frame.codec)]

Over(state, limit) == state.fails \/ state.ends \/ Len(state.frames) = limit

\* mutant: what cannot be kept is dropped
PlayedDropping(state, frame, only, limit) ==
    IF Over(state, limit) \/ state.stash = MaxStash THEN state
    ELSE IF ~Wanted(only, frame) THEN [state EXCEPT !.stash = @ + 1]
    ELSE Decodes(state, frame, only)
\* the session after one more packet, unless it has shown enough, ended or failed
Played(state, frame, only, limit) ==
    IF Over(state, limit) THEN state
    ELSE IF ~Wanted(only, frame)
    THEN IF state.stash = MaxStash THEN [state EXCEPT !.fails = TRUE] ELSE [state EXCEPT !.stash = @ + 1]
    ELSE Decodes(state, frame, only)

\* a picture to predict from came among the first n
HasReference(frames, n) ==
    \E k \in 1 .. n : IsVideo(frames[k].codec) /\ frames[k].kind \in {"intra", "altref"}
\* a seek goes to a keyframe, where there is SRSV2, and decodes up to its target
SeekLands(frames, at) ==
    (at > 0 /\ \E k \in DOMAIN frames : frames[k].codec = "v2") =>
        \E k \in 1 .. at + 1 : k <= Len(frames) /\ frames[k].codec = "v2" /\ frames[k].kind = "intra"

\* only a container is opened; from where a seek has come to, with its references
PlayedFrom(at, frames, only, limit) ==
    FoldLeft(LAMBDA state, frame : Played(state, frame, only, limit),
             [stash |-> 0, refers |-> HasReference(frames, at), frames |-> <<>>, ends |-> FALSE, fails |-> FALSE], SubSeq(frames, at + 1, Len(frames)))

CliPlay(path, only, limit, at) ==
    /\ MayAct
    /\ IF /\ Supported(path) /\ at <= Len(disk[path].frames)
          /\ only # "both" => HasTrack(disk[path], only = "video")
          /\ SeekLands(disk[path].frames, at)
       THEN \E played \in {PlayedFrom(at, disk[path].frames, only, limit)} :
               /\ job' = <<[op |-> "play", by |-> "cli", from |-> path, steps |-> <<>>, fails |-> played.fails, next |-> "none",
                            shows |-> <<[only |-> only, limit |-> limit, at |-> at, frames |-> played.frames]>>]>>
               /\ UNCHANGED <<disk, answer>>
       ELSE Refuse("failed")

-------------------------------------------------------------------------------
(* A job goes on.                                                          *)

Running == job # <<>>
Step ==
    /\ Running /\ job[1].steps # <<>>
    /\ disk' = Performed(Head(job[1].steps))
    /\ job' = <<[job[1] EXCEPT !.steps = Tail(@)]>>
    /\ UNCHANGED <<answer, sources, acts>>

FinishJob ==
    /\ Running /\ job[1].steps = <<>>
    /\ IF job[1].next = "mux" /\ Muxable THEN StartMux(job[1].by)
       ELSE /\ job' = <<>> /\ UNCHANGED disk
            /\ answer' = IF job[1].fails \/ job[1].next = "mux" THEN "failed" ELSE "done"
    /\ UNCHANGED <<sources, acts>>

\* the process is killed, or a write fails
Interrupt ==
    /\ Running /\ job[1].steps # <<>>
    /\ \/ UNCHANGED disk
       \/ disk' = Partly(Head(job[1].steps))
    /\ job' = <<>> /\ answer' = "stopped" /\ UNCHANGED <<sources, acts>>

-------------------------------------------------------------------------------
(* The user and other programs.                                            *)

NewSource == sources < MaxSources /\ acts < MaxActs /\ sources' = sources + 1 /\ acts' = acts + 1 /\ job = <<>> /\ UNCHANGED <<job, answer>>

ReplaceInput(path) ==
    /\ NewSource /\ \E fit \in BOOLEAN : disk' = [disk EXCEPT ![path] = RawFile(sources + 1, fit)]

\* a file of another program, with more frames than encode makes, or a codec of its own
Supply(stream) == NewSource /\ disk' = WithFile(stream.path, SuppliedFile(stream, sources + 1))

RemoveFile(path) ==
    /\ MayAct /\ Exists(path) /\ disk' = [p \in DOMAIN disk \ {path} |-> disk[p]]
    /\ UNCHANGED <<job, answer>>

\* Where a file breaks off: between two packets, within the block header of one (or the
\* two sync bytes of an elementary stream's), or behind that.  next_block and the stream
\* readers take an UnexpectedEof of the first two for the end, and answer Ok; the third
\* is an error to every reader.
Cuts == {"between", "header", "body"}
BreaksOff(cut) == cut = "body"

\* a file loses its end, perhaps only its index; what an altered packet body, or any altered packet of an elementary
\* stream, is to a reader is this too: its checksum fails, and nobody reads on
Truncate(path) ==
    /\ MayAct /\ Opens(path)
    /\ \E n \in 0 .. Len(disk[path].frames) - (IF disk[path].sealed THEN 0 ELSE 1) : \E cut \in Cuts :
          disk' = [disk EXCEPT ![path].frames = SubSeq(@, 1, n), ![path].torn = BreaksOff(cut), ![path].sealed = FALSE]
    /\ UNCHANGED <<job, answer>>

\* the frames without one, which the next of its stream shows
Without(frames, i) ==
    LET next == {k \in i + 1 .. Len(frames) : frames[k].codec = frames[i].codec}
        first(k) == k \in next /\ \A h \in next : k <= h
    IN  RemoveAt([k \in DOMAIN frames |-> IF first(k) THEN [frames[k] EXCEPT !.gap = TRUE] ELSE frames[k]], i)

\* the block header of a container's packet is altered, and the next one's magic is within
\* 8192 bytes: try_resync_or_fail goes on from there, without a word of the packet it
\* passed.  With no magic behind it, the packet is an error, as in Truncate
LoseBlock(path) ==
    /\ MayAct /\ Opens(path)
    /\ \E i \in 1 .. Len(disk[path].frames) - 1 : disk' = [disk EXCEPT ![path].frames = Without(@, i)]
    /\ UNCHANGED <<job, answer>>

StartJob(by) ==
    \/ \E policy \in Policies :
          \/ \E path \in Elementary : EncodeElementary(by, path, policy)
          \/ EncodeContainer(by, policy)
          \/ \E path \in {"528", "srsv", "srsa"} : Import(by, path, policy)
    \/ Mux(by)
    \/ \E path \in Containers : Demux(by, path)
    \/ \E path \in Elementary : DecodeElementary(by, path)

\* the commands of srs-cli; those that convert want claims that allow the editor
Command ==
    \/ StartJob("cli")
    \/ \E target \in {"srsv2", "528"} : EncodeRgb(target)
    \/ MayAct /\ Refuse("failed")
    \/ \E path \in Elementary \cup Containers : Analyze(path)
    \/ \E path \in Containers, only \in {"both", "video", "audio"}, limit \in Limits, at \in 0 .. 1 :
          CliPlay(path, only, limit, at)

Environment ==
    \/ \E path \in {"picture", "sound"} : ReplaceInput(path)
    \/ \E stream \in Streams : Supply(stream)
    \/ \E path \in Elementary : RemoveFile(path)
    \/ \E path \in Elementary \cup Containers : Truncate(path)
    \/ \E path \in Containers : LoseBlock(path)

ConversionNext == Command \/ Step \/ FinishJob \/ Interrupt \/ Environment

-------------------------------------------------------------------------------
\* a later frame of the same stream, the next one if none was lost
Follows(next, frame) ==
    /\ next.codec = frame.codec /\ next.id = frame.id /\ next.source = frame.source
    /\ IF next.gap THEN next.at > frame.at ELSE next.at = frame.at + 1
StartsStream(frame) == frame.at = 0 \/ frame.gap
\* the k-th frame is the first of its stream, or goes on where the stream was
InOrder(frames, k) ==
    \/ StartsStream(frames[k]) /\ \A j \in 1 .. k - 1 : frames[j].codec # frames[k].codec
    \/ \E j \in 1 .. k - 1 :
          /\ Follows(frames[k], frames[j])
          /\ \A h \in j + 1 .. k - 1 : frames[h].codec # frames[k].codec

\* Every stream in every file is a beginning of one version of one input, but for
\* the packets whose block header was damaged: over jobs that fail or are killed,
\* over re-muxed leftovers and files of the stem that were there before, no stream
\* mixes versions or repeats or reorders a frame, and none skips one that was not
\* lost to damage (File::create truncates, the muxer and the demuxer keep the order
\* of packets).
TracksArePrefixes ==
    \A path \in DOMAIN disk : path \in Paths /\ \A k \in DOMAIN disk[path].frames : InOrder(disk[path].frames, k)

\* of the same place of the same input, both video or both sound
SamePlace(frame, other) ==
    IsVideo(frame.codec) = IsVideo(other.codec) /\ frame.source = other.source /\ frame.at = other.at
\* every frame of some files is in one of the others
AllIn(paths, others) ==
    \A path \in paths : \A i \in DOMAIN disk[path].frames : \E other \in others :
        \E k \in DOMAIN disk[other].frames : SamePlace(disk[path].frames[i], disk[other].frames[k])

Inputs(done) == IF done.op = "mux" THEN VideoInput \cup AudioInput ELSE {done.from}
Outputs(done) ==
    CASE done.op = "mux" -> {"528"}
      [] done.op = "demux" -> {PathOf(disk[done.from].tracks[i].codec) : i \in DOMAIN disk[done.from].tracks}
      [] done.op = "import" -> {"import"}
      [] done.op = "decode" -> {"raw"}
SoundFirst(path) == \E i \in DOMAIN disk[path].tracks : disk[path].tracks[i] = Track(1, "audio")

\* what a job read is in what it wrote: all of it, nothing else
Carried(done) ==
    /\ \A path \in Inputs(done) : ~disk[path].torn
    /\ AllIn(Outputs(done), Inputs(done))
    /\ AllIn(Inputs(done), Outputs(done)) \/ (done.op = "demux" /\ SoundFirst(done.from))
    /\ done.op \in {"mux", "import"} => \A path \in Outputs(done) : disk[path].sealed

Completes(ops) == job # <<>> /\ job' = <<>> /\ answer' = "done" /\ job[1].op \in ops

\* A conversion that answers without an error carried over every frame that a
\* reader gets of its inputs, in both tracks and (TracksArePrefixes) in order, and
\* none of its inputs is an error to a reader: none breaks off within the body of a
\* packet, whatever jobs, crashes and damage made of the files before.  It may have
\* taken a cut within a block header for the end, and it passed over the packets
\* whose block header was damaged (next_block, try_resync_or_fail): those the
\* program does not report.  The sound of an import without video is the exception:
\* it has track 1, and the demuxer drops it (mux_elementary_streams,
\* demux_container_to_elementary, run_native_import, decode_native_to_raw).
DoneIsWhole == [][Completes({"mux", "demux", "import", "decode"}) => Carried(job[1])]_conversionVars

\* the frames there were to play, those to be shown
Reached(done) == SubSeq(disk[done.from].frames, done.shows[1].at + 1, Len(disk[done.from].frames))
ToShow(only, frames) == SelectSeq(frames, LAMBDA frame : Wanted(only, frame) /\ frame.kind # "altref")
\* up to the first alt-ref, if the video is played alone
UpToHidden(only, frames) ==
    LET hidden == {i \in DOMAIN frames : only = "video" /\ frames[i].kind = "altref"}
    IN  IF hidden = {} THEN frames ELSE SubSeq(frames, 1, Min(hidden) - 1)

\* the first of these, so many as were asked for, or all
Shown(done, wanted) ==
    /\ done.shows[1].frames = SubSeq(wanted, 1, Len(done.shows[1].frames))
    /\ Len(done.shows[1].frames) \in {done.shows[1].limit, Len(wanted)}

\* Playing from the command line, when it ends without an error, has shown every
\* picture and sound that was asked for, in order: what nobody can decode or keep is
\* not passed over, whichever track is left out, and an alt-ref is not shown.  Video
\* alone ends before the first alt-ref, which run_play_command takes for the end
\* (decode_next_step, decode_next_video_frame, decode_next_audio_chunk).
PlayedIsWhole ==
    [][Completes({"play"}) =>
           Shown(job[1], ToShow(job[1].shows[1].only, UpToHidden(job[1].shows[1].only, Reached(job[1]))))]_conversionVars
=============================================================================
