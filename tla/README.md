# Verification of the SRS / `.528` media system

TLA+ models of the licensing system, of the `.528` container, of playback, of the SRSV2 and legacy
codecs and of the conversions between files, the TLC runs that check them on small instances, and
TLAPS proofs of what matters most in the licensing system, the muxer and the demuxer, a codec session,
playback, the player, the samples of an intra plane and the division of a picture. Paths are relative to the repository (`apps/...`, `crates/...`, `docs/...`).

## 1. Inventory

Each part with its state, its operations, what it talks to, what is hard about it, and what makes
it correct.

**Licensing server** (`apps/srs_license_server/src/main.rs`). State: one SQLite database behind one
mutex (licenses, features, keys, installations, verification requests, the e-mail outbox, audit
events). Operations: `issue_license`, `verify_key` (first installation, trusted, approved, replaced,
pending, new request), `confirm_request`, `read_client_notifications`, delivery of mails, the admin
routes. It is called by clients over HTTP, by the owner through the link in a mail and by the admin.
Hard: a handler gives the mutex up while it mails and takes it again twice; restarts in between;
answers that never arrive; windows that run out; soft deletion and restoration of rows other
handlers rely on. Correct when devices become trusted only the ways the policy allows, a device has
one open request, the outbox tells the truth, and notifications are handed out once.

**Licensing client** (`crates/libsrs_licensing_client/src/lib.rs`, used by `srs_player` and
`srs_cli`). State: `license_state.json`, a session secret in the keyring. Operation:
`refresh_entitlement`: call the primary, then the backup endpoint, verify the signed claims, fetch
notifications, write the file, write the keyring. Hard: two processes share the state, every step
can be lost, a retry is a second call. Correct when Editor mode is backed by the server, a
replacement key is kept and works, and secrets stay in step.

**Container** (`crates/libsrs_container`, `libsrs_mux`, `libsrs_demux`). State: the bytes of the
file, the writer's entries and pending cue, the reader's position and index. Operations:
`write_packet` with its periodic cue, `finalize`; `open`, `next_packet`, `reset_to_data_start`,
`rebuild_index`, two seeks, resynchronisation. Hard: a file cut short at any byte, damage, magics
inside payloads, index entries counted in four places, a shared file position that scans move.
Correct when a reader gets back exactly the intact packets, in order, and seeks land on blocks.

**SRSV2 reference handling** (`crates/libsrs_video/src/srsv2/reference_manager.rs`, `frame_codec.rs`,
`b_frame_codec.rs`). State: up to four slots of pictures. Operations: decoding an intra, P, B or
alt-ref payload. Nothing in a P payload says which picture it was predicted from. Correct when the
slots hold, at decoding, what they held at encoding.

**Importer and B-GOP encoder** (`crates/libsrs_app_services/src/import_pipeline.rs`,
`tools/quality_metrics/src/bin/bench_srsv2.rs`). State: the muxer and one decoded reference, or a
reference manager and a schedule. Correct when the encoder's references are the ones a player has.

**Playback session** (`crates/libsrs_app_services/src/playback.rs`). State: demuxer position,
position with its clock, reference manager, two stashes of packets, counters, a state. Operations:
three decode calls, play, pause, stop, seek with recovery. Hard: every command leaves part of this
state from before; packets reach the decoder from two sources; damage is silent. Correct when what
it shows is what was encoded.

**Conversions** (`crates/libsrs_app_services/src/lib.rs`, `import_pipeline.rs`, used by `srs_player`
and `srs_cli`). State: the files of one stem on disk. Operations: analyze, encode, decode, mux, demux,
import, play. A job creates its outputs and appends frame by frame. Hard: a job fails or is killed half
way, leftovers of one job are the inputs of the next, and several files may serve as the input.
Correct when no stream mixes two inputs and an answer of Ok means that all a reader gets of the inputs was
carried over.

**Player** (`apps/srs_player/src/main.rs`): one UI thread that drives a session on its frame tick,
converts files on that same thread, refreshes the license every 1 to 90 seconds and shows each server
notification once (it remembers 200 ids). Hard: the file under a session may be rewritten; the open
file, the inspected file and the session are three things. **CLI** (`apps/srs_cli`): one call per
run. **Admin** (`apps/srs_admin`): a form over the admin routes.

**SRSV2 frames** (`crates/libsrs_video/src/srsv2`: `frame_codec.rs`, `intra_codec.rs`,
`p_frame_codec.rs`, `p_var_partition.rs`, `b_frame_codec.rs`). No state across frames but the
references. Encoding chooses a revision from the settings; decoding gets revision, flags and cells
only. Hard: some thirty revisions that combine vector syntax, residual syntax, partitions and block
quantisers; contexts that follow what was just decoded; lengths inside lengths. Correct when decoding
reverses encoding and a damaged payload is refused.

**Entropy and layout** (`residual_*.rs`, `context_inter_entropy.rs`, `inter_mv.rs`,
`partition_syntax_v2.rs`, `transform_layout.rs`, `crates/libsrs_bitio`): pure functions with numeric
edges: the last digit of a varint, the bounds of the rANS state, an empty table, a run at its longest.

**Rate control and texture** (`rate_control.rs`, `adaptive_quant.rs`, `block_aq.rs`, `rdo.rs`,
`motion_search.rs`). State: the quantiser of the next frame. Correct when quantisers stay in range, the
texture moves them the promised way, and a bitrate is approached and kept.

**Samples of a plane** (`intra_codec.rs`, `dct.rs`, `deblock.rs`): prediction from what was rebuilt
before. Correct when the decoder's samples are the encoder's. **Grids** (`ctu64.rs`, `superchunk.rs`):
geometry for planning; nothing in the codec calls it yet.

**First-generation codecs and streams** (`crates/libsrs_video/src/codec.rs`, `bitstream.rs`,
`crates/libsrs_audio`, `srsv2/elementary.rs`, `srsv2/model.rs`, `libsrs_container/src/format.rs`): every
frame by itself, with headers and checksums around it.

**Compatibility layer, pipeline, contract, configuration** (`libsrs_compat`, `libsrs_pipeline`,
`libsrs_contract`, `libsrs_app_config`): adapters without state of their own.
**Tools, benchmarks, tests**: they drive the above.

## 2. Modules

| Module | Extends | What it models |
|---|---|---|
| `LicenseServer` | | the database, every handler, mailing in its separate critical sections |
| `Licensing` | `LicenseServer` | the client's refresh, step by step, composed with the server |
| `Container` | | blocks as sequences of cells, checksums, limits, the search for a magic |
| `Mux` | `Container` | `MuxWriter`, with a stop of the process after any cell |
| `PacketStream` | | abstract specification: a stream of packets and a cursor over it |
| `Demux` | `Mux` | `DemuxReader` on what the writer left; implements `PacketStream` |
| `References` | | slots, and what decoding a payload does to them (operators only) |
| `Encoder` | `References` | the importer and the B-GOP pass, producing the packets of a file |
| `Playback` | `Encoder` | the finished file and `PlaybackSession` on it, one step per packet |
| `Coders` | | bits, varints, zigzag and rANS with parameterised widths; the runs of differences of the first-generation codecs |
| `MvCoding` | `Coders` | motion vectors: prediction, signed varints, rANS with or without contexts |
| `Residuals` | `Coders` | coefficients as tokens, in three token syntaxes |
| `Quantizers`, `Decisions` | `Decisions` extends the former and `MvCoding` | quantisers from rate and texture; the encoder's cost comparisons and its searches for a vector |
| `BlockCoding` | `Residuals`, `Decisions` | scans, the compact coefficient body, one transform block on the wire |
| `IntraFrames` | `BlockCoding` | the intra revisions |
| `PFrames` | `IntraFrames` | P revisions with fixed macroblocks |
| `VarPartition` | `PFrames` | P revisions whose macroblocks are cut into units |
| `BFrames` | `VarPartition` | B revisions, their blends, and alt-ref frames |
| `EncodeSettings` | `BFrames` | the encoder's settings, their domains, what a payload tells of them |
| `CodecSession` | | an encoder and a decoder with frames lost or damaged between them |
| `CodecContract` | `CodecSession`, `BFrames` | which function encodes a frame and which decodes a payload; the bytes of the session's payloads |
| `RateControl` | `Quantizers` | `SrsV2RateController` and the encoder that asks it |
| `Pixels` | | an intra plane's samples at the encoder and the decoder |
| `Grids` | | coding tree units and superchunks |
| `LegacyVideo`, `AudioCodec` | `Coders` | the first-generation video and both audio syntaxes |
| `Headers`, `Elementary` | | container and sequence headers; `.srsv`, `.srsa`, `.srsv2` streams |
| `Conversion` | | the jobs of `AppServices` and the CLI over the files of a stem |
| `Player` | `Conversion` | `PlayerApp` beside the command line |
| `ConversionContract` | `Player`, `Elementary` | the bytes of the files of `Conversion` |
| `MCLicenseServer`, `MCLicensing`, `MCDemux`, `MCPlayback`, `MCCodec`, `MCPlayer` | the above | constants, tables and symmetry for TLC |
| `LicensingProofs` (of the server and its clients), `DiskProofs` (of `Demux` and what it extends), `CodecSessionProofs`, `PlaybackProofs`, `PlayerProofs`, `RateProofs`, `PixelsProofs`, `GridsProofs` | their subject | the theorems |

The two contracts are how control and bytes meet. `CodecSession` and `Conversion` are state machines
whose messages and files are abstract: a payload is what was encoded, a file is a list of frames. They
take for granted that bytes are read back. `CodecContract` and `ConversionContract` state exactly
that as action properties over the same steps: for every payload a session sends and every file a job
completes, the codec's own functions are evaluated on it, forwards and back.

### LicenseServer and Licensing

Each table is a function from ids to rows with `state = "absent"` for no row. A handler's
transaction is one action, as it is one critical section of the mutex. `verify_key` has one action
per outcome (`VerifyRefused` ... `VerifyRequested`), in the code's order of tests. Where it drops the
lock to mail, the rest of the handler is an entry of `task`, and `MarkSent`, `Delivered` or
`DeliveryFailed`, and `MarkDelivered` are the sections that follow; `create_and_send_notification`
goes the same way. `Restart` loses the tasks and the open connections and keeps the tables.
`Confirm` is the owner following the link of a mail in `mailbox`. Where no SMTP server is configured,
`deliver_email` writes the mail to the log and answers true; `mailbox` then is the log, and a link is followed
by whoever reads it.

On the client, `pc` holds the point `refresh_entitlement` has reached: call an endpoint, fetch
notifications, write the file, write the keyring. `TimeOut` may leave the call on its way (`strays`),
so the server handles it later although nobody listens. `Exit` stops the process at any point; while
it writes the file, `fs::write` may already have truncated it.

Abstractions: time is in hours and the window and the token's life are one or more of them; a key is
named by its license, since every license is inserted with exactly one key; signatures verify;
archived and deleted rows are one, since every query asks for `active`; of the audit events only the
secret mismatch is kept (`flagged`). A secret is a value, fresh where `Uuid::new_v4` makes one; a run
that gives `Secret` one value does not distinguish them. Entering a key is possible only while enough
license ids are left for the replacements that may follow (`Spare`), which bounds the model and is
no rule of the program.

### Container, Mux, Demux, PacketStream

A file is a sequence of cells: the header with its track table is one, a block is a magic of two,
a prelude with type, length and checksum, a checksum of the prelude, and the body. A payload may hold
the cells of a magic. A checksum is the thing it sums, so it fails exactly when that was changed; damage replaces a
cell by one nothing accepts. `Crash` cuts the file after any cell. `file` is what was written and `disk` what
is read there; `damaged` is where they differ. Parsing is a function of disk and
position (`NextBlock`), written as a recursive function since each recovery moves forward; so are the loops
of `next_packet` (`BlockPast`) and `rebuild_index` (`EntriesAlong`).
`PacketStream` is what a caller may rely on: the writer appends and may lose a suffix when it stops,
the reader is handed the packets in order, and seeks move its cursor to the latest eligible packet;
`rebuild_index` must not move it. `ImplementsStream` maps a file to the packets whose blocks are
whole and the reader's position to the number of them before it.

### References, Encoder, Playback

A payload carries the ids of the pictures it was predicted from, which the real bytes do not say; a
decoded picture is `exact` when its references were these and were exact themselves. So "bit for bit
the encoder's picture" is one Boolean and no sample is modelled. `Encoder` produces files in two ways:
`PushVideo` and `PushAudio` of the import sink, and the schedule of the bench's B-GOP pass with a
reference manager, into which an alt-ref payload may come at any point, as in the test files of
`playback.rs` (the bench itself writes none). `FinishFile` then cuts the file, damages packets and
chooses an index that may list them still, which is what `Demux` can leave.

In `Playback` a call is several steps, one per packet, because its effects come packet by packet and
it may fail between them. `call` is the call under way: a step in file order, a pull for one track
or the recovery of a seek with the counters it saved. `cursor` counts the packets behind the
demuxer, and damaged ones are passed over as `next_packet` does. A target of a seek is in units of
which each track has `Timescale` ticks. The alternative of the code's decode call (`caller`) is
chosen at open because no caller in the repository mixes them.

### The SRSV2 codec: Coders to CodecContract, EncodeSettings, RateControl, Pixels

A payload is a sequence of integer cells, a byte or a whole integer field each; how integers become
bytes is `Coders`, with the widths of bytes, of varints and of the rANS state as constants, so that the
same edges (the last digit of a varint, renormalisation, a frequency of the whole scale) come with small
numbers. Every syntax is a pair of operators, a writer and a reader, and readers return `Ok` or `Fail`,
with the `?` of the code as the propagation of `Fail`. No module of this tower declares a RECURSIVE
operator; loops are folds and recursive functions.

A picture is what the encoder's samples leave for the syntax to tell: per block its coefficients under
each transform and scan, variance and errors; per macroblock how good each vector is (`sad`), from which
the searches of `Decisions` choose. So the decisions of the encoder are computed, with their order of
tests and their ties, and the samples they come from are given. A decoder rebuilds the record of the
frame (modes, vectors, units, quantisers, coefficients), and "decoded right" means that record is the
encoder's.

`CodecSession` keeps slots on both sides (`made`, `slots`), a wire that holds one payload, and what may
happen to it: delivered, lost, damaged. `lost` and `intact` remember whether a frame others need went
missing since the last intra frame. Its actions follow the encoder's refusals (settings it does
not accept), the decoder's dispatch and its refusals.

`RateControl` is the controller with its quantiser for the next frame (`current`), the frame it has just
made (`frame`), and the scene that is filmed. `FrameBytes` gives the bytes of a frame at a quantiser and may be any
decreasing table.

`Pixels` is the loop over the blocks of one plane: the encoder predicts from what it rebuilt, chooses a
mode, transforms, quantises and rebuilds; the decoder follows at any distance with `sent` between them;
the loop filter runs over the finished plane. The transform is a parameter (`Basis`, `Divisor`): the code
multiplies floating-point cosines, and what is claimed holds for any table both sides share.

### Files: Conversion, Player, Elementary, Headers and the first-generation codecs

In `Conversion` a path of the stem (`raw` inputs, `srsv`, `srsv2`, `srsa`, `528`, an import) holds frames, known by
source and place, as its readers get them. `torn` is a file that is an error to its readers behind the last of these
frames, `sealed` a container with its index. Where a file is cut off decides (`Cuts`): between packets or within a block header (for an
elementary stream, within the sync bytes of a packet) `next_block` and the stream readers find the end and answer Ok; within the body of a packet they fail. A packet
whose block header is damaged, with another magic behind it, is passed over without a word (`LoseBlock`, from
`try_resync_or_fail`), and the next frame of its stream shows the `gap`. A command checks its inputs as the code does and starts a `job`; `Step` moves one frame; `FinishJob`
is the last section (finalize, flush). `Interrupt` kills the process anywhere. `Environment` replaces
inputs, supplies files of other programs, removes and truncates files. Analysis is a job without output.
An alt-ref is a frame of its own kind: it is a reference for those behind it and is never shown, and the two decode
calls treat it differently (`Decodes`).

`Player` adds the window: `media` (what was opened and inspected), `session` (path, position, state, and
`stale` once its file was rewritten), `playing`, the position shown, the license's `editor`, and the notices.
The UI has one thread, so a conversion it starts stops everything else of it (`Free`). What packet a session
reads is `Playback`'s matter; here a session over a rewritten file may read anything.

`Elementary` builds streams of packets from `LegacyVideo`, `AudioCodec` and opaque SRSV2 payloads, with
`Headers` around them; the audio predictor's coefficients come from floating point and are a parameter,
since they travel with the channel.

### Grids

Operators only: the number of regions, addresses, bounds, the chroma bounds, the statistics. Both files of
the code have the same shape with different edges and caps.

## 3. What is checked

Deadlock is checked except in `playback`, `b_gop`, `codec` and `player`, where an encoder that failed, a
refused session or a user who presses nothing more has nothing left to do.

| Run | Bounds | Question and result |
|---|---|---|
| `server` | 1 license, 2 devices, 2 requests, 2 mails, 1 tick, 2 admin interventions | Can two devices be trusted on one license without the owner? Not unless an admin restores rows. One open request per device, over windows that run out; a mail is settled exactly when read; a notification is shown once; what is called delivered was taken by the SMTP server (or by the log, where there is none), over restarts and failures between the sections of the handler. |
| `flow` | 1 requesting process, 2 endpoints, 1 loss, 1 tick, fair | The whole flow of a device asking for a license in use elsewhere, with a lost call, failed write or exit at any point: replacement keys work, no refresh writes an old key back, a request confirmed in time leads to trust, and one that was asked is always settled. |
| `secrets` | as above without losses, 6 secrets, 1 admin intervention | An answered secret is the stored one, and nothing is flagged while nothing was lost. |
| `shared` | 2 processes on one device, 1 replacement, 1 loss | Editor mode stays backed when player and CLI overwrite each other's file and keyring, also when a call times out, a write fails or one of them exits. |
| `disk` | 2 tracks, 3 packets, cue every 2, 1 damaged cell on files of up to 2 packets | Every file a writer finalizes or a crash cuts, every sequence of reads, scans, seeks and resets: exact packets in order, a complete index, cues that repeat the entries, and the refinement of `PacketStream`; on a damaged file reading on returns only intact packets, and all of them but one whose magic lies across the end of a resync window (`Hidden`); a seek lands on the block of its entry. |
| `playback` | 5 packets, 4 pictures, 2 slots, stash of 1, 1 damaged packet, 1 seek or stop | Over all files and calls: a frame whose group of pictures is intact is exact and never refused, packets are decoded in file order, the counters count what was returned. |
| `codec` | 4-bit bytes, 4 x 4 transform blocks, 2 or 4 macroblocks, 2 pictures, 42 settings, 4 frames; controllers under some 90 settings; planes of 3 x 3 samples | Every revision is read back as the same record, a payload cut by 1, 2 or 9 cells or longer by one is refused, losing frames costs only what was predicted from them; quantisers stay in range and follow texture as promised, the controller settles around its budget; the decoder's samples are the encoder's. |
| `player` | 7 streams, 2 sources, 3 commands, stash and notice memory of 1, 3 presses, 3 frames read from a rewritten file | No stream mixes inputs over failures, kills and leftovers, or skips a frame but for a damaged block header; Ok means that all a reader gets of the inputs was carried over, or shown, and that none of them was an error to a reader; completed elementary streams are read back, cut ones as fewer frames, changed ones refused (of containers, headers and track tables: their packets are the run `disk`); notices are not repeated; playback of whatever is there ends. |

Four runs end in a counterexample, each against a sentence of the repository:

| Run | Property | What the code does |
|---|---|---|
| `late_confirm` | `ConfirmedIsTrusted` | After the window, a client has moved to its replacement key, and a confirmation, which the page answers with "The next client refresh will trust this installation.", changes nothing for it. |
| `corrupt_index` | `CorruptIndexFallsBack` | A finalized file of one packet, its cue and its index is whole but for a cell in the body of the index. The rebuild reads packet and cue and puts them into the index, then fails at the checksum of the index block, and so does the seek, although an entry at or before its target was found; `docs/specs/timing_and_sync.md:31` promises the cues as a fallback. |
| `seek_clock` | `SeekFindsKeyframe` | `seek_ms` counts its target on the clock of the track decoded last; after audio it finds the wrong keyframe. |
| `b_gop` | `GopIsEncoded` | With an even key interval, a keyframe is encoded before the B picture in front of it and clears the slot that picture needs; the pass fails. |

`MCCodec` also has TLC evaluate assumptions over constants: every setting of the run lies in the domains of
`EncodeSettings` and the defaults are accepted (`SettingsKnown`); two settings under which the decoder would
have to act differently differ in revision or flags (`SettingsTold`); and the constants of `RateControl` and
`Pixels` meet what the theorems about them assume (`RatesOk`, `PixelsOk`).

### Why the bounds are enough

Licensing: a violation of the trust rules needs two devices and one license, of the request rules
two requests of one device, of the mail rules a mail that is being sent while another is read. `flow` has
three license ids, for two replacements in a row, `shared` two for the one that a second process can miss; one tick past the window is all the code compares with.
The retry needs two endpoints and one loss. A second loss, a third process or a second tick repeats
these steps.

Container: three packets with a cue every two give a periodic cue, a final cue after it and a cue
that is not due; one payload holds a magic, one is empty. The window of the resynchronisation
(`Probe`) is 7 cells, as long as the longest packet block here: a damaged header is followed by a magic inside the
window, by none, or by one across its end. `MaxPayload`, `MaxBody` and
`MaxEntries` allow every block of the run. `disk` has one cue interval; the theorems hold for any, 0 included.

Playback: four pictures with a key interval of three give two groups, a P chain and a B picture
between anchors. Two slots are the least B pictures need. The stash of one overflows at the second
packet of the other track. One seek or stop is one return to an earlier state with every other state
before it.

Codec: the syntax is the same for every block, so what matters is that each form occurs: blocks without
coefficients, with only a DC, with trailing zeros, with runs across bands, with a coefficient out of the
token range (which makes the encoder fall back or fail); macroblocks of each type; vectors with and without
neighbours on the left, above and to the right, hence two columns for contexts and a second row. Bytes of four bits
and words of ten put the ends of varints and the bounds of the rANS state within reach. Four frames allow
an intra frame, two references and a frame between them. The settings were chosen one per revision and
per refusal, and coverage shows each branch taken.

Player: a stash and a memory of one overflow at the second element, as 64 and 200 do at theirs. Three
commands make a leftover, a job over it and a job over that. A first source and its replacement are two.
The three frames a session may read from a rewritten file (`MaxStale`) stand for any finite number.

### Fairness

`flow` and `late_confirm` assume weak fairness of the clock, of the mailing sections, of the server
handling a call, and of a process's refresh. The player starts a refresh every 1 to 90 seconds
(`next_refresh_interval_secs`), the server runs each request in its own task, and no step of a refresh waits
for more than a timeout. Nothing is assumed of the owner, who may never confirm, of the admin, or of
the delivery of a mail (which may fail). Losses are bounded: with a call lost forever nothing is
promised. The CLI, which runs once, is not assumed to run again: it has no part in these runs.

`codec` assumes that a controller that can be made is made and that a session goes on filming without key
frames: `HuntsAroundBudget` is about a steady scene, as the controller's own formula is. `player` assumes
that the UI repaints while it plays (`request_repaint` on every tick) and that a conversion's loop goes on;
nothing of the user, of the command line's kills, or of the environment.

## 4. What is proved

TLAPS checks each theorem for every value of the constants that satisfies the named assumptions
(`ConstantsAssumption`, `AnswersAssumption`, `ClientAssumption`, `ContainerAssumption`, `MuxAssumption`, `DemuxAssumption`,
`ReferencesAssumption`, `EncoderAssumption`, `PlaybackAssumption`, `CodecSessionAssumption`, `ConversionAssumption`,
`PlayerAssumption`, `PixelsOk`, and `RatesOk`: the integer types of the settings); TLC evaluates these in the runs.
`Grids` needs none but what each theorem states of its picture. Four hypotheses are stated with the theorems that need them: `OneProcess` (no two
processes share a device), `OneKey` (users enter one license), `FramesFit` and `EntriesFit` (the payloads passed to
the muxer, and the list of all packets, fit a block the demuxer accepts). The code does not enforce them, and
what happens without them is told below and in section 5.

| Theorem | Statement |
|---|---|
| `LicensingProofs!TypeCorrect` | `Spec => []TypeOK` |
| `LicensingProofs!ReadMail` | `Spec => []ReadMailSettled` |
| `LicensingProofs!NotificationOnce` | `Spec => []ShownOnce` |
| `LicensingProofs!OneRequest` | `Spec => []OneOpenRequest` |
| `LicensingProofs!Trustworthy` | `Spec => []SingleUnapproved` |
| `LicensingProofs!DeliveredIsTrue` | `Spec => []DeliveredReachedOwner` |
| `LicensingProofs!SecretIsStored` | `Spec => AnsweredSecretIsStored` |
| `LicensingProofs!ServerComposed` | `ClientSpec => Spec`: the composed system implements the server |
| `LicensingProofs!ClientTypeCorrect` | `ClientSpec => []ClientTypeOK` |
| `LicensingProofs!EditorStaysEntitled` | `ClientSpec => []EditorIsEntitled` |
| `LicensingProofs!ReplacementsWork` | `ClientSpec => []ReplacementWorks` |
| `LicensingProofs!KeyIsKept` | `OneProcess` gives `ClientSpec => KeyKept` |
| `LicensingProofs!NoFlagWithoutLoss` | `OneProcess` and `OneKey` give `ClientSpec => []FlaggedOnlyAfterLoss` |
| `DiskProofs!MuxTypeCorrect` | the writer's specification implies `[]MuxTypeOK` |
| `DiskProofs!IndexEntriesAreRight` | the writer's specification implies `[]EntriesPointAtPackets` |
| `DiskProofs!ReaderTypeCorrect` | `DemuxSpec => []DemuxTypeOK` |
| `DiskProofs!EntriesStayRight` | `DemuxSpec => []EntriesPointAtPackets` |
| `DiskProofs!ReadsWhatIsIntact` | `FramesFit` gives `DemuxSpec => []ReadsIntactPackets` |
| `DiskProofs!SeekReadsItsPacket` | `FramesFit` gives `DemuxSpec => SeekLands` |
| `DiskProofs!IndexHoldsEveryPacket` | `FramesFit` and `EntriesFit` give `DemuxSpec => []IndexIsComplete` |
| `DiskProofs!CuesRepeatEveryEntry` | `FramesFit` and `EntriesFit` give `DemuxSpec => []CuesRepeatEntries` |
| `DiskProofs!MuxAndDemuxImplementStream` | `FramesFit` and `EntriesFit` give `DemuxSpec => ImplementsStream`: mux and demux implement the packet stream |
| `CodecSessionProofs!CodecTypeCorrect` | `Spec => []CodecTypeOK` |
| `CodecSessionProofs!DecoderInStep` | `Spec => []InStep` |
| `RateProofs!RatesKeepTypes` | `RatesSpec => []RatesTypeOK` |
| `RateProofs!EncoderKeepsItsRange` | `RatesSpec => []QuantisersInRange` |
| `RateProofs!TextureAlwaysOrders` | `RatesSpec => []TextureOrdersQuantisers` |
| `RateProofs!MeanStaysNearBase` | `RatesSpec => []FrameStaysNearBase` |
| `PlaybackProofs!ReturnedFramesAreExact` | `PlaybackSpec => []FramesAreExact` |
| `PlaybackProofs!NoIntactPictureRefused` | `PlaybackSpec => IntactIsDecoded` |
| `PlaybackProofs!PicturesInFileOrder` | `PlaybackSpec => DecodedInOrder` |
| `PlaybackProofs!CounterIsFramesReturned` | `PlaybackSpec => []CountsReturnedFrames` |
| `PlayerProofs!PlayerTypeCorrect` | `Spec => []PlayerTypeOK` |
| `PlayerProofs!NoticeOnce` | `Spec => []NoticesShownOnce` |
| `PlayerProofs!StreamsArePrefixes` | `Spec => []TracksArePrefixes` |
| `PlayerProofs!DoneCarriesAll` | `Spec => DoneIsWhole` |
| `PixelsProofs!SamplesStayInStep` | `PixelsSpec => []DecoderHasEncodersSamples` for any plane, block edge, transform and quantisers |
| `GridsProofs!EveryPictureHasAGrid` | the caps never refuse a picture of accepted dimensions |
| `GridsProofs!EveryIndexHasBounds` | each index has an address the checks accept |
| `GridsProofs!EverySampleInOneRegion` | the regions cut the luma plane without gap or overlap |
| `GridsProofs!EveryChromaSampleInOneRegion` | so do they the chroma planes, odd dimensions included |

The server. `TypeInv` adds to `TypeOK` that rows which exist carry the ids they should (`Rows`), and
`Linked` that a confirmation mail belongs to a request that exists; without it a confirmation could
change a row that is not there. `StepType` and `StepLinked` carry both through every action. The
later proofs go over *writers*: a lemma says which actions change a table at all (`OnlyRequestWriters`,
`OnlyMailWriters`, `OnlyInstallationWriters`), another what these may do to a row
(`RequestsKept`, `MailStep`), and each invariant then needs only these. `ReadMailSettled` is
inductive given that approval is never withdrawn. `ShownOnce` needs `ShownInv`: what was shown once is
deleted, and a deleted mail stays deleted whatever the sender still writes. `OneOpenRequest` needs
`NoneReopened`: outside `restored`, no request becomes open again but by `VerifyRequested`, which
found none open. `SingleUnapproved` needs `TrustInv`: a license that does not exist has no
installations, so that a replacement starts with none.

`OutboxInv` ties each task to its mail: what a handler has marked is marked, what was accepted is in the
mailbox. `WaitingAnswers` says that an answer held back for a mail is a pending one, so the Active answers
come straight from `verify_key`, with the secret it has just written.

The client. `ServerPart` shows that every step of the composed system is a step of the server's own
specification or leaves it alone, whatever the network does; so `ClientSpec => Spec`, and all theorems
about the server hold of the composition. It needs `Working`: a call is handed to a handler once, and while a
process is not calling no handler holds an answer for it. `Entitled` is the set of what an answer may truly
say (this license is in force, trusts this device, grants these features); `StepEntitled` shows that it only grows
while the admin changes nothing, since licenses in force keep their rows and devices stay trusted. So
what was `Sound` when the server signed it still is in the answer, in the claims a process holds
(`ClaimsSound`), in its snapshot (`SnapshotsSound`) and, for replacement keys, in the file (`KeysInForce`).

`KeyKept` and `FlaggedOnlyAfterLoss` hold only with one process on a device: two that refresh at once present the
key and the secret they read and write back what they were answered, in any order. `KeyRead` says that until a
process saves, the file holds the key it presented. For the secret, `Outstanding` is the answer a process still has
to work in, wherever it is (with the handler, on its way, in the process), and `Tracked` that file and keyring, with
that answer worked in, are what the server has stored for the device. Where nothing is lost, the backup endpoint
is called only after a refusal, and a refusal leaves what is stored for the device as it was. With two licenses entered in
turn, a secret belongs to neither; hence `OneKey`.

The writer. An entry holds an offset taken before the block is written and a file that only grows;
`CellsKept`, `CellsAppended` and `CellsOfPrefix` say what appending and cutting do to a block that
was there. `MuxTyped` gives the file its type and ties the counters to the entries; `MuxInv` is that
together with `EntriesPointAtPackets`, and is inductive.

The reader. `MuxLaid` says where blocks lie: at every cell that is a prelude a block starts (`Starts`), no two
overlap, and each prelude is `Known`: a packet that was logged with that offset, or entries of packets that end
before it (`EntriesBelow`). So a header whose checksum holds stands where a block was written
(`HeaderIsStart`), although payloads may hold magics, and a block that passes both checksums is one that was
written, undamaged (`PacketRow`). The reader's functions are defined from the end of the file backwards; that such
functions exist is proved once (`BackwardsDefined`, from the least element of a set of numbers) and every claim
about them goes backwards over positions (`Backwards`), with no induction over data. `NextBlockScans` says of `next_block` at
any position that it stops inside the file, passes over no intact packet but a `Hidden` one, and fails at no intact
packet; `BlockPastScans` carries this through the loop of `next_packet`. `ReadsIntactPackets` is then inductive together
with `DemuxInv`, in which the index holds entries of `EntriesBelow` only: wherever a seek sends the reader, no
intact packet lies half behind it unread. For `IndexIsComplete`, `ChainInv` has the blocks of a file follow each other
without a gap up to where a crash has cut it, and every index block list all entries; backwards along this chain
`rebuild_index` collects each packet (`CollectedLeads`). For `CuesRepeatEntries`, `CuesInv` is a count along that
chain of how many entries the cues so far have repeated (`CuesSoFar`): a cue block takes it from where it stands to the
last entry, every other block leaves it, and at the end of the file it is `pending_cue_start`. Collecting backwards from
the end then gives the entries from the count on (`CollectedRepeats`).

The packet stream. The mapping counts: the stream's packets are the first of the log, as many as are whole in the
file, and its cursor is the number of those before the reader. That the whole ones are the first (`WholeAreFirst`) needs
that packets lie one behind the other, and that a seek lands on the latest needs the order of the index. So `StreamInv`
adds to `DemuxInv` and `IndexInv`: packets do not overlap, and each cue repeats entries of packets before it, up to the
last of them (`RowsInv`); the index *follows* the packets (`Follow`: behind an entry stands one of every whole
packet that lies further on, in spite of the entries a cue repeats), which makes the last of several entries with the
largest pts that of the last such packet (`LatestIsFound`); and the reader stands at a block, or where no packet is left
(`Standing`), so that an end or an error is told only after the last one (`ReadOn`, `NoneLeft`). There is one lemma for
each kind of step (`WriteImplements`, `RewindImplements`, `ReadImplements`, `ScanImplements`,
`SeekNearestImplements`, `SeekKeyframeImplements`); a keyframe sought on a track that no frame has is a scan.

Two hypotheses are real. A payload of `MaxBody` or more is written and cannot be read, and the packets behind it
only by searching its body (`FramesFit`); so is a list of entries that is too long (`EntriesFit`). And `Hidden`: when no
magic begins in the 8192 bytes of a window, the call fails and the next goes on behind the window, so that a magic
across its end is not found.

A codec session. Between two payloads the decoder's slots are the encoder's; while one is on its way they are
one decoding behind (`Pending`). An intra frame restores this whatever was lost, since it clears all slots but
one; so `InStep` is inductive with `Pending` for intra frames, and for all while nothing is lost.

The quantisers. `RateInv` says that an open session has settings that were validated, and that a frame is as settings
and scene make it (`GoodFrame`); the rest is arithmetic. Division that drops the fraction is monotone on both sides
of zero (`TruncatedMonotone`), so deltas are ordered as the scores are, and clamping keeps the order. The
median needs a place for every rank, which the largest value gives (`SortedIs`). That a mean lies among its
numbers goes upwards along the partial sums (`SumsExist`, `SumsBound`, `MeanIs`), from the least number at which it
would fail. The block range needs `ClipOk`: `apply_qp_delta_clamped` clamps to 1 .. 51 last, which leaves the
settings' range alone only when that lies within it, and `validate_qp_clip_range` is asked for block-level deltas alone.

Playback. Beside the packets of a file there are the slots of a decoder that got all of them (`ideal`), which
are the encoder's (`EncoderInv`, carried over the import, the B-GOP schedule and alt-ref frames). `InStepSince` says of a
session that since a place where it started, if a keyframe and all behind it have come, its slots are the ideal
ones at its mark. That nothing was left out follows from where the packets between mark and cursor are
(`Pulled`): in the stash, in order, or gone. A seek and a recovery move the start; `Counts` follows the counter that
a recovery saves and puts back.

The player. `Agreed` ties the three things that are one to the user: what plays has a session, a session has a
media of supported codecs. Each button is a lemma, and the tick with a session over a rewritten file is one. For
notices, the remembered list is the end of what was shown (`Remembered`), all different; one that is shown again is
not in it, so that at least as many others were shown in between (`ManyDifferent`).

The files. A job writes one step at a time and may be killed before any, so `FilesInv` speaks of the files and of
the steps a job has left. A file's frames are in order, of the codecs of its tracks, among which one at most is
video (`FileOk`); where a packet was lost to damage, the next of its stream shows the gap, so that what is left stays in order
(`WithoutInOrder`); two kinds of video in a file would be one stream to a demuxer. Of the steps (`StepsOk`): no file is
created behind an append (`CreateOk`), what is appended is of a codec of the file's (`CodecOk`), and it goes on
where an earlier step, or the file, has left the stream (`OrderOk`). The last holds because each job reads its inputs
when it begins and writes their frames in turn (`InTurn`), however many it passes over or drops at the end
(`BeforeBad`). A step leaves `StepsOk` of those behind it (`StepKeeps`), and what a killed job leaves of a step is a file
in order (`PartKeeps`). The lemmas of this part follow the code: one for each way a job begins.

The jobs. `DoneIsWhole` speaks of the step in which a job ends with Ok, long after its inputs were read, so `GoingInv`
says of the job under way what it will have done (`Goes`). `Coming` is what a file holds or is still to get, and
`Carries`, for a job that will not fail: nothing is to come to the outputs that no input holds, what the inputs
hold is there or to come, and no step left writes to an input. `Seals` has the container's index as the last step.
Each step turns one frame from to come into there and touches no other file (`ComingStays`, `CarriesOn`); at the end
nothing is to come, and what is left of `Carries` is `Carried`. Demux drops packets whose number is not their
track's, so that it loses nothing needs `AllNumbered`: in every container video has number 1 and sound 2, but
for the import without video, which is the exception the property names. With `TracksArePrefixes`, inputs and
outputs then hold the same streams in the same order.

The samples. `DecoderHasEncodersSamples` is not inductive: the decoder's next block is predicted from the
plane as it is now, the encoder's was predicted when that block was coded. `IInv` adds `Settled`, that every
block of the encoder's plane is what its symbols make of the present plane, which holds because prediction
looks only at blocks before (`EarlierBlocks`, `SameRebuilt`), and that the decoder's plane agrees on the
blocks it has read.

The grids. A sample's region is found by dividing its coordinates by the edge, and uniqueness by
comparing multiples; the chroma planes halve with rounding up, so their regions meet only because the
edges are even, which the proof uses.

Model-checked only: everything temporal with fairness (`ConfirmedInTimeIsTrusted`, `AskedIsSettled`,
`HuntsAroundBudget`, `PlaybackEnds`); the codec's
`ReadsBack` and `RefusesDamage` and the files' `FilesReadBack`, which speak of what recursive definitions compute for
every input; and `PlayedIsWhole` of `Conversion`, for the fold over the packets that `srs_cli play` reads.

## 5. Where the repository says more than the code does

Besides the four runs above, these were found while translating and have no run of their own:

- `mark_notification_sent` and `mark_notification_delivered` set the status unconditionally, so a row
  already `read` goes back to `sent` or `delivered`. The stamps and the soft deletion stay, and
  `ShownOnce` and `ReadMailSettled` hold all the same.
- Every `verify` after the window issues another replacement license while the device still presents
  the old key (a lost answer is enough); the mail (`main.rs:637`) speaks of one.
- A mail whose delivery failed, or that a restart lost, is not sent again while its request is open;
  `docs/specs/licensing_and_editions.md:54` has the owner asked. The request then ends in a replacement.
- The same document speaks of a "materially new origin"; `verify_key` compares installation ids only.
- When `rebuild_index` fails half way, the part it read stays and the next `seek_nearest` uses it as a
  complete index. The models do the same; no property forbids it.
- A request of an installation that an admin has soft deleted is answered with a secret that is stored nowhere
  (`AnsweredSecretIsStored` names the exception), an answer lost after the secret was rotated is followed by a flag
  (`FlaggedOnlyAfterLoss` has the other half), and an exit while the state file is written loses the key.
- `seek_nearest` compares timestamps of tracks with different clocks; `docs/specs/timing_and_sync.md`
  gives each track its own. Files without SRSV2 video are sought this way.
- A payload between 16 MiB and 64 MiB passes the writer's limit and fails the reader's block limit; it
  is written and cannot be read. An index of more than 599,185 entries goes the same way.
- A resync that finds no magic in its 8192 bytes fails with the reader at their end; a magic across that end
  is never seen, and the packet behind it is skipped (`docs/specs/packet_layout.md:76` speaks of a byte-window helper).
- A recovery that ends in an error leaves the counters as it moved them, against the comment at
  `playback.rs:847`. `CountsReturnedFrames` therefore excludes failed recoveries.
- After a seek from the end of the stream the state is still `EndOfStream`; `play()` refuses, and
  `srs_player` stops first and starts from the beginning.
- `srs_cli play --no-audio` (and `--no-video`) fails with backpressure after 64 packets of the other track.
  With `--no-audio` it takes an alt-ref (`playback.rs:663`) or a CONFIG packet for the end of the file and answers Ok,
  although pictures follow; `PlayedIsWhole` therefore asks of video played alone only what comes before the
  first alt-ref.
- `docs/specs/timing_and_sync.md:25` says that with `cue_interval_packets` 0 muxers skip periodic cues and emit only the
  index; `finalize` then writes one cue of all entries in front of it (`mux/lib.rs:126`).
- The managed decoder keeps pictures before the loop filter, `decode_yuv420_srsv2_payload` after it:
  with the filter on, encoder and player drift. The importer leaves it off.
- A B payload of revision 13 or later in a track with fewer than two reference frames is reported as a
  decode error, revisions 10 and 11 as unsupported.
- `dct.rs:1` calls the transform orthonormal and tests are named near_identity, but `dct_1d_8` divides by the
  root of 8 and `dct_1d_4` by 2: forward and inverse together return a quarter of the residual. A
  tolerance of 35 on samples of 42 hides it. Both sides do the same, so they stay in step.
- Settings with explicit vectors, `ContextV1` residuals, `EntropyV1` and `StaticV1` pass the P encoder's
  validation and give revision 30 with vectors in a static table, which the decoder reads with contexts. Only
  a direct call of the P encoder gets there (`ResidualContextOk` guards the other ways).
- The encoder never emits the "mixed" planes of revision 32; the decoder of partitions under block
  quantisers indexes the first byte of an empty chunk (modelled as a failure) and never asks whether all of
  an entropy-coded vector stream was used.
- `import_pipeline.rs:336` says the importer's decoder matches playback; it keeps filtered pictures, the
  managed one unfiltered ones.
- Encoding to `.528` muxes whatever `stem.srsv2` is there, also a stale one (`lib.rs` 553). Encoding with
  `--width` and `--height` leaves its `.srsv2` behind when the mux then fails, and the stem is ambiguous.
- A failed mux leaves a container without index whose demux ends with Ok; a failed demux leaves stream prefixes
  that read as complete. A container cut within a block header (`demux/lib.rs:149`) and a stream cut within the two
  sync bytes of a packet read as cleanly ended: demux, import, decode and inspection answer Ok. So they do over a packet
  whose block header is damaged, which is passed over (`demux/lib.rs:150`). `DoneIsWhole` speaks of what readers get of
  a file, and refuses Ok only over files that are an error to them.
- An import without video gives its audio the track id 1, and demux drops that sound silently
  (`DoneIsWhole` names the exception). An import of a `.528` with SRSV2 video fails at its first frame, after
  the output was created.
- The bytes of an audio channel behind its rANS blob are ignored.
- In the player: `play()` opens `input_path` whatever was inspected; a seek before play is lost when play opens
  the session; the slider moves the shown position even when the seek fails; an error in the first decode drops
  the session, so the error repeats although later packets could be decoded.

## 6. Not modelled

Samples outside an intra plane: motion-compensated prediction, colour conversion, the layout of planes, the
floating-point search for audio coefficients, the sums that give activity, variance and differences (the
models are given these numbers). Serialisation of JSON and HTML. Widgets, reports, file dialogs.
Signatures and the keyring's own storage. Collisions of checksums. The configuration file's
`license_key`, a fallback the client reads when the state file has none. `report_unsupported_playback`, an
insert nothing reads back into a decision. The two-stage 16 x 16 syntax of `ctu64` and the encoder of
shared vectors, which no frame carries. In `Playback`: rejected files, files without video, the budgets of 65,536 and
8,192 packets, packets flagged CONFIG or CORRUPT (the muxer sets neither flag), the first video codec (no
references). Sources ffmpeg would read. The admin application. Tools, benchmarks and tests.

Three deliberate over-approximations: in `Playback` any index that a cut or damaged file could leave may
be met; in `Player` a session over a file that was rewritten may read anything; and a file that is torn
after it was opened may still be played up to its end, whereas `rebuild_index` would refuse to open it.

## 7. Plan

Done: the licensing system, the container, references and playback, the codecs with their entropy layers,
rate control, an intra plane, the grids, conversions and the player.

Next, to model:
1. Motion-compensated prediction in `Pixels`: a P plane over a reference, quarter-pixel filters included.
2. The bench's other encoding modes, and the importer's ingest of external sources.
3. `Playback` with packets flagged CONFIG and CORRUPT, for files of other muxers.

Next, to prove:
1. `PlayedIsWhole` of `Conversion`, after the fold of `Played` is unrolled into one step for each packet.
