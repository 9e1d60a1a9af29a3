----------------------------- MODULE MCPlayback -----------------------------
(* Small files for checking Playback and Encoder with TLC.                 *)
EXTENDS Playback, TLC

\* two clocks, so that a tick of one track is not a tick of the other
TwoClocks == "video" :> 2 @@ "audio" :> 1
=============================================================================
