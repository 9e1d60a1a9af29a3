------------------------------ MODULE MCDemux ------------------------------
(* Small files for checking Demux with TLC.                                *)
EXTENDS Demux

Frame(track, key, pts, payload) == [track |-> track, key |-> key, pts |-> pts, payload |-> payload]

\* a keyframe and a later frame whose payload holds the bytes of a block magic
FewFrames == {Frame("video", TRUE, 0, <<Plain>>), Frame("video", FALSE, 1, <<S, B>>)}
SomeFrames == FewFrames \cup {Frame("audio", FALSE, 1, <<>>)}
=============================================================================
