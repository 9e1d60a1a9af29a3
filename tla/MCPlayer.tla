------------------------------- MODULE MCPlayer -------------------------------
(***************************************************************************)
(* The player beside the command line, over the files of one stem.         *)
(***************************************************************************)
EXTENDS ConversionContract

stream(path, codec, kinds) == [path |-> path, codec |-> codec, kinds |-> kinds]
TwoPictures == stream("srsv", "v1", <<"intra", "intra">>)
Predicted == stream("srsv2", "v2", <<"intra", "predicted">>)
Newer == stream("srsv2", "v2", <<"intra", "unknown">>)
TwoSounds == stream("srsa", "audio", <<"intra", "intra">>)
Foreign == stream("import", "other", <<"intra">>)
Orphan == stream("import", "v2", <<"predicted">>)
Hidden == stream("import", "v2", <<"altref", "predicted">>)
MCStreams == {TwoPictures, Predicted, Newer, TwoSounds, Foreign, Orphan, Hidden}
MCStored == <<"v1", "audio", "v1">>
MCGiven == {{}, {Predicted, TwoSounds}}

MCVideoSync == <<5, 6>>
MCAudioSync == <<7, 6>>
\* coefficients, or none: of a predictor of order 1 or 2, when the channel does not start with 3
MCTaps(samples, order) == IF order > 2 \/ samples[1] = 3 THEN <<>> ELSE [i \in 1 .. order |-> 40 * i - 30]

\* many literals and short runs; one long run and a jump
MCPictures == <<[i \in 1 .. 20 |-> (i * 7) % 16], [i \in 1 .. 20 |-> IF i = 9 THEN 3 ELSE 8]>>
\* entropy coded and stored channels, no samples, few samples
MCSounds == <<<<3, -7, 20, 30, 40, 50, 60, 70, -8, -9, 3, 2>>, <<>>, <<5, -7, 8, 30, 8, 50, 8, 80>>>>
MCRevisions == [intra |-> <<1, 3, 36>>, predicted |-> <<2, 10, 37>>, altref |-> <<12>>, unknown |-> <<40, 0>>]

\* evaluated once
MCStreamTable == StreamTable
MCHeadTable == HeadTable

\* The files a conversion leaves are read by the next one as what was written:
\* header, tracks and every frame.  An elementary stream that lost its end is read as
\* fewer frames, and without an error only when no more of a packet is left than its
\* sync bytes without the last; one byte that is changed behind the header is never
\* read over.  Of containers, these are the headers.
FilesReadBack ==
    [][(job # <<>> /\ job' = <<>> /\ answer' = "done") => FilesTrusted(MCStreamTable, MCHeadTable)']_conversionVars
===============================================================================
