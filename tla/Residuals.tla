------------------------------ MODULE Residuals ------------------------------
(***************************************************************************)
(* The coefficients of one transform block as symbols and bytes: the rANS  *)
(* tokens (residual_tokens.rs), the tokens with a context each             *)
(* (residual_context_entropy.rs) and the structured tokens with the older  *)
(* band format (residual_token_v2.rs).                                     *)
(*                                                                         *)
(* A block is [dc, ac], ac the Positions coefficients in scan order.  The  *)
(* wire is a sequence of cells, each a byte or a whole integer field: how  *)
(* an integer becomes bytes is in Coders.                                  *)
(***************************************************************************)
EXTENDS Coders

CONSTANTS
    Positions,      \* 63, AC_POSITIONS
    MaxRun,         \* 62, the longest run of one token
    MaxCoeff,       \* 127, MAX_RANS_ABS_COEFF
    MaxSymbols,     \* 384, MAX_SYMBOLS_PER_BLOCK and MAX_TOKENS_PER_BLOCK
    EobWeight,      \* 200, the frequency of the end of block
    RunWeight,      \* 35, the frequency of a run
    Bands,          \* the last positions of the context bands: 0, 8, 32, 63
    RunEnds,        \* the ends of the run classes: 5, 20
    FlatCount, FlatSum, EdgeCount,      \* 2, 24, 18
    SmallMax,       \* 8, SMALL_COEFF_ABS_MAX
    ShortRun,       \* 15, the longest ZeroRunShort
    TokenBands,     \* the last positions of the bands of the structured tokens
    LegacyBands     \* the last positions of the bands of the older format

ASSUME ResidualsAssumption ==
    /\ {Positions, MaxRun, MaxCoeff, MaxSymbols, EobWeight, RunWeight} \subseteq Nat \ {0}
    /\ MaxRun < Positions /\ SmallMax <= MaxCoeff

Cut(s, from) == SubSeq(s, from + 1, Len(s))
Magnitude(v) == IF v < 0 THEN -v ELSE v
Occupied(block) == {p \in 1 .. Positions : block.ac[p] # 0}
\* nonzero coefficients all within the alphabet: coeff_rans_eligible, validate_ac_8x8
Eligible(block) == \A p \in 1 .. Positions : Magnitude(block.ac[p]) <= MaxCoeff
ClassOf(value, ends) == CHOOSE c \in 1 .. Len(ends) + 1 :
    (c <= Len(ends) => value <= ends[c]) /\ \A d \in 1 .. c - 1 : value > ends[d]

-------------------------------------------------------------------------------
(* Tokens: 0 ends the block, 1 .. MaxRun are runs of zeros, the rest values. *)

EndOfBlock == 0
CoeffSymbol(v) == MaxRun + (IF v > 0 THEN 2 * v - 1 ELSE -2 * v)
SymbolCoeff(s) == LET z == s - MaxRun IN IF z % 2 = 0 THEN -(z \div 2) ELSE (z + 1) \div 2
SymbolCount == 1 + MaxRun + 2 * MaxCoeff

\* a run as tokens: as many of the longest as fit, then the rest
RunTokens(run) ==
    [i \in 1 .. run \div MaxRun |-> MaxRun] \o IF run % MaxRun > 0 THEN <<run % MaxRun>> ELSE <<>>

\* tokenize_ac
Tokenize(block) ==
    LET \* the tokens of the first p positions and the zeros after the last of them
        upTo[p \in 0 .. Positions] ==
            IF p = 0 THEN [tokens |-> <<>>, run |-> 0]
            ELSE LET before == upTo[p - 1]
                 IN  IF block.ac[p] = 0 THEN [before EXCEPT !.run = @ + 1]
                     ELSE [tokens |-> before.tokens \o RunTokens(before.run)
                                        \o <<CoeffSymbol(block.ac[p])>>,
                           run |-> 0]
        all == upTo[Positions]
        tokens == all.tokens \o RunTokens(all.run) \o <<EndOfBlock>>
    IN  IF ~Eligible(block) \/ Len(tokens) > MaxSymbols THEN Fail ELSE Ok(tokens)

\* detokenize_ac: the AC coefficients
Detokenize(tokens) ==
    LET upTo[i \in 0 .. Len(tokens)] ==
            IF i = 0 THEN Ok(<<>>)
            ELSE LET prior == upTo[i - 1]
                     ac == prior.val
                     s == tokens[i]
                     more == IF s \in 1 .. MaxRun THEN [k \in 1 .. s |-> 0] ELSE <<SymbolCoeff(s)>>
                 IN  IF ~prior.ok THEN Fail
                     ELSE IF s = EndOfBlock
                     THEN IF i = Len(tokens)
                          THEN Ok(ac \o [k \in 1 .. Positions - Len(ac) |-> 0]) ELSE Fail
                     ELSE IF s >= SymbolCount \/ Len(ac) + Len(more) > Positions THEN Fail
                     ELSE Ok(ac \o more)
    IN  IF tokens = <<>> THEN Fail
        ELSE IF tokens[Len(tokens)] # EndOfBlock THEN Fail
        ELSE upTo[Len(tokens)]

\* residual_token_model: the values share what the end and the runs leave
TokenWeights ==
    LET left == Scale - EobWeight - MaxRun * RunWeight
        share == left \div (2 * MaxCoeff)
    IN  [i \in 1 .. SymbolCount |->
            IF i = 1 THEN EobWeight
            ELSE IF i <= MaxRun + 1 THEN RunWeight
            ELSE share + IF i - MaxRun - 2 < left % (2 * MaxCoeff) THEN 1 ELSE 0]

\* try_rans_payload and rans_decode_tokens, with the decoder's budget
RansBudget(data) == IF Len(data) * 32 > 4096 THEN Len(data) * 32 ELSE 4096
EncodeTokens(block) ==
    LET tokens == Tokenize(block)
    IN  IF ~tokens.ok THEN Fail
        ELSE Ok([count |-> Len(tokens.val),
                 bytes |-> RansEncode(<<TokenWeights>>, tokens.val, Same(Len(tokens.val))).val])
DecodeTokens(bytes, count) ==
    IF count > MaxSymbols THEN Fail
    ELSE LET tokens == RansDecode(<<TokenWeights>>, bytes, Same(count), RansBudget(bytes))
         IN  IF tokens.ok THEN Detokenize(tokens.val) ELSE Fail

-------------------------------------------------------------------------------
(* A context a token, from what is around the block, the block's texture,  *)
(* the token's place and its size.                                         *)

Slots == 128
NeighborClass(left, above) == (IF left THEN 1 ELSE 0) + (IF above THEN 2 ELSE 0)

\* classify_activity: flat, edge, textured
SumOf(f) == LET sum[p \in 0 .. Positions] == IF p = 0 THEN 0 ELSE sum[p - 1] + f[p] IN sum[Positions]
ActivityClass(block) ==
    LET nonzero == SumOf([p \in 1 .. Positions |-> IF block.ac[p] # 0 THEN 1 ELSE 0])
        sum == SumOf([p \in 1 .. Positions |-> Magnitude(block.ac[p])])
    IN  IF nonzero <= FlatCount /\ sum < FlatSum THEN 0 ELSE IF nonzero <= EdgeCount THEN 1 ELSE 2

\* slot_from_parts
SlotOf(plane, activity, band, run, size, neighbor) ==
    (((((plane * 31 + activity) * 31 + band) * 17 + run) * 19 + size) * 23 + neighbor) % Slots

\* build_contexts_for_symbols
TokenContexts(tokens, plane, activity, neighbor) ==
    LET Advance(s) == IF s \in 1 .. MaxRun THEN s ELSE IF s = EndOfBlock THEN 0 ELSE 1
        at[i \in 0 .. Len(tokens)] == IF i = 0 THEN 0 ELSE at[i - 1] + Advance(tokens[i])
        Context(i) ==
            LET s == tokens[i]
                band == ClassOf(at[i - 1], Bands) - 1
            IN  IF s = EndOfBlock THEN SlotOf(plane, activity, 3, 0, 0, neighbor)
                ELSE IF s \in 1 .. MaxRun
                THEN SlotOf(plane, activity, band, ClassOf(s, RunEnds) - 1, 0, neighbor)
                ELSE SlotOf(plane, activity, band, 0, ClassOf(Magnitude(SymbolCoeff(s)), <<0, 1, 3, 7>>) - 1,
                            neighbor)
    IN  IF at[Len(tokens)] > Positions \/ \E i \in DOMAIN tokens : tokens[i] >= SymbolCount THEN Fail
        ELSE Ok([i \in DOMAIN tokens |-> Context(i)])
\* build_slot_model: a slot moves weight from the end of block to one value
SlotWeights(slot) ==
    LET shift == (slot % 17) + 1
    IN  [TokenWeights EXCEPT ![1] = @ - shift, ![MaxRun + 2 + (slot % (2 * MaxCoeff))] = @ + shift]
SlotModels == [i \in 1 .. Slots |-> SlotWeights(i - 1)]

\* encode_plane_inner: the count, a context a token, the coded tokens
EncodeContext(block, plane, left, above) ==
    LET tokens == Tokenize(block)
        contexts == TokenContexts(tokens.val, plane, ActivityClass(block), NeighborClass(left, above))
    IN  IF ~tokens.ok THEN Fail
        ELSE IF ~contexts.ok THEN Fail
        ELSE Ok(<<Len(tokens.val)>> \o contexts.val \o RansEncode(SlotModels, tokens.val, contexts.val).val)

\* decode_plane_inner: what is decoded must be what an encoder makes of it
DecodeContext(blob, plane, left, above, dc) ==
    LET count == blob[1]
        contexts == SubSeq(blob, 2, count + 1)
        payload == Cut(blob, count + 1)
        tokens == RansDecode(SlotModels, payload, contexts, RansBudget(payload))
        ac == Detokenize(tokens.val)
        block == [dc |-> dc, ac |-> ac.val]
        again == TokenContexts(tokens.val, plane, ActivityClass(block), NeighborClass(left, above))
    IN  IF blob = <<>> THEN Fail
        ELSE IF count \notin 1 .. MaxSymbols \/ Len(blob) < count + 1 THEN Fail
        ELSE IF \E i \in DOMAIN contexts : contexts[i] >= Slots THEN Fail
        ELSE IF ~tokens.ok THEN Fail
        ELSE IF ~ac.ok THEN Fail
        ELSE IF Tokenize(block) # Ok(tokens.val) \/ again # Ok(contexts) THEN Fail
        ELSE ac

-------------------------------------------------------------------------------
(* Structured tokens: <<tag>> or <<tag, field ...>>.                       *)

TagEob == 0
TagShort == 1
TagLong == 2
TagSmall == 3
TagLarge == 4
TagSign == 5
TagDc == 6
TagBand == 7
TagPlane == 8

NextNonzero(block, p) == CHOOSE q \in p .. Positions + 1 :
    /\ q = Positions + 1 \/ block.ac[q] # 0
    /\ \A r \in p .. q - 1 : block.ac[r] = 0
IsSmall(block, p) == p <= Positions /\ Magnitude(block.ac[p]) \in 1 .. SmallMax
ClusterEnd(block, p) == CHOOSE q \in p .. Positions + 1 :
    ~IsSmall(block, q) /\ \A r \in p .. q - 1 : IsSmall(block, r)
Signs(block, p, end) ==
    LET bits[q \in p .. end] == IF q = p THEN 0
                                ELSE bits[q - 1] + IF block.ac[q - 1] < 0 THEN 2 ^ (q - 1 - p) ELSE 0
    IN  bits[end]

TokenBand(p) == ClassOf(p, TokenBands)

\* the tokens from position p; a run and a cluster may pass the end of a band
RECURSIVE TokensFrom(_, _, _)
TokensFrom(block, p, band) ==
    LET zeros == NextNonzero(block, p)
        end == ClusterEnd(block, p)
        here == IF band = TokenBand(p) THEN <<>> ELSE << <<TagBand, TokenBand(p)>> >>
    IN  IF p > Positions THEN << <<TagEob>> >>
        ELSE IF zeros > p
        THEN here \o << <<IF zeros - p <= ShortRun THEN TagShort ELSE TagLong, zeros - p>> >>
                  \o TokensFrom(block, zeros, TokenBand(p))
        ELSE IF Magnitude(block.ac[p]) > SmallMax
        THEN here \o << <<TagLarge, p, block.ac[p]>> >> \o TokensFrom(block, p + 1, TokenBand(p))
        ELSE here \o [i \in 1 .. end - p |-> <<TagSmall, p + i - 1, Magnitude(block.ac[p + i - 1])>>]
                  \o << <<TagSign, Signs(block, p, end)>> >> \o TokensFrom(block, end, TokenBand(p))

\* tokenize_residual_v2_block
StructuredTokens(block) ==
    LET tokens == << <<TagDc, block.dc>>, <<TagBand, TokenBand(1)>> >> \o TokensFrom(block, 1, TokenBand(1))
    IN  IF ~Eligible(block) \/ Len(tokens) > MaxSymbols THEN Fail ELSE Ok(tokens)

\* detokenize_tokens_8x8 and detokenize_tokens_4x4: the state of the scan
NewScan == [block |-> [dc |-> 0, ac |-> [p \in 1 .. Positions |-> 0]], zz |-> 1,
            pending |-> <<>>, ended |-> FALSE]
ApplySigns(scan, bits) ==
    [scan EXCEPT
        !.block.ac = [p \in 1 .. Positions |->
            IF \E i \in DOMAIN scan.pending : scan.pending[i][1] = p
            THEN LET i == CHOOSE i \in DOMAIN scan.pending : scan.pending[i][1] = p
                 IN  IF (bits \div 2 ^ (i - 1)) % 2 = 1 THEN -scan.pending[i][2] ELSE scan.pending[i][2]
            ELSE @[p]],
        !.zz = scan.pending[Len(scan.pending)][1] + 1, !.pending = <<>>]
ScanToken(scan, token) ==
    LET next == IF scan.pending = <<>> THEN scan.zz ELSE scan.pending[Len(scan.pending)][1] + 1
    IN  CASE scan.ended -> Fail
          [] token[1] = TagDc -> Ok([scan EXCEPT !.block.dc = token[2]])
          [] token[1] \in {TagBand, TagPlane} -> Ok(scan)
          [] token[1] \in {TagShort, TagLong} ->
                IF scan.zz + token[2] > Positions + 1 THEN Fail ELSE Ok([scan EXCEPT !.zz = @ + token[2]])
          [] token[1] = TagSmall ->
                IF token[2] # next THEN Fail
                ELSE Ok([scan EXCEPT !.pending = Append(@, <<token[2], token[3]>>)])
          [] token[1] = TagSign ->
                IF scan.pending = <<>> \/ \E i \in DOMAIN scan.pending : scan.pending[i][1] \notin 1 .. Positions
                THEN Fail ELSE Ok(ApplySigns(scan, token[2]))
          [] token[1] = TagLarge ->
                IF scan.pending # <<>> \/ token[2] # scan.zz \/ scan.zz > Positions THEN Fail
                ELSE Ok([scan EXCEPT !.block.ac[token[2]] = token[3], !.zz = @ + 1])
          [] token[1] = TagEob -> IF scan.pending # <<>> THEN Fail ELSE Ok([scan EXCEPT !.ended = TRUE])

StructuredBlock(tokens) ==
    LET after[i \in 0 .. Len(tokens)] ==
            IF i = 0 THEN Ok(NewScan)
            ELSE LET before == after[i - 1] IN IF before.ok THEN ScanToken(before.val, tokens[i]) ELSE Fail
        all == after[Len(tokens)]
    IN  IF ~all.ok THEN Fail ELSE IF all.val.ended THEN Ok(all.val.block) ELSE Fail

\* encode_tokens_v3 and decode_tokens_v3: tokens end to end
RECURSIVE Flat(_)
Flat(tokens) == IF tokens = <<>> THEN <<>> ELSE Head(tokens) \o Flat(Tail(tokens))

Fields(tag) ==
    CASE tag = TagEob -> 0
      [] tag \in {TagShort, TagLong, TagSign, TagDc, TagBand, TagPlane} -> 1
      [] tag \in {TagSmall, TagLarge} -> 2
      [] OTHER -> 99
LegalToken(token) ==
    CASE token[1] = TagShort -> token[2] \in 1 .. ShortRun
      [] token[1] = TagPlane -> token[2] \in 0 .. 2
      [] OTHER -> TRUE

RECURSIVE Parsed(_, _)
Parsed(cells, tokens) ==
    LET token == SubSeq(cells, 1, 1 + Fields(cells[1]))
    IN  IF cells = <<>> THEN Ok(tokens)
        ELSE IF Len(cells) < 1 + Fields(cells[1]) \/ Len(tokens) >= MaxSymbols THEN Fail
        ELSE IF ~LegalToken(token) THEN Fail
        ELSE Parsed(Cut(cells, Len(token)), Append(tokens, token))

\* encode_residual_token_v2_block, decode_residual_token_v2_block: magic,
\* version, transform, plane, the context's flags, the tokens
TokenMagic == 82
OccupiedHint(block) ==
    LET n == SumOf([p \in 1 .. Positions |-> IF block.ac[p] # 0 THEN 1 ELSE 0]) IN IF n < 31 THEN n ELSE 31
ContextFlags(block, left, above) == (IF left \/ above THEN 1 ELSE 0) + 8 * OccupiedHint(block)

EncodeStructured(block, plane, left, above) ==
    LET tokens == StructuredTokens(block)
    IN  IF tokens.ok
        THEN Ok(<<TokenMagic, 3, 0, plane, ContextFlags(block, left, above)>> \o Flat(tokens.val))
        ELSE Fail
DecodeStructured(data, plane) ==
    LET tokens == Parsed(Cut(data, 5), <<>>)
    IN  IF Len(data) < 6 THEN Fail
        ELSE IF data[1] # TokenMagic \/ data[2] # 3 \/ data[3] # 0 \/ data[4] # plane THEN Fail
        ELSE IF tokens.ok THEN StructuredBlock(tokens.val) ELSE Fail

\* encode_residual_token_v2_plane, decode_residual_token_v2_plane: blocks behind their lengths
EncodePlane(plane, blocks) ==
    LET chunk(i) == EncodeStructured(blocks[i], plane, FALSE, FALSE)
        upTo[i \in 0 .. Len(blocks)] ==
            IF i = 0 THEN <<TokenMagic, 4, plane, Len(blocks)>>
            ELSE upTo[i - 1] \o <<Len(chunk(i).val)>> \o chunk(i).val
    IN  IF \A i \in DOMAIN blocks : chunk(i).ok THEN Ok(upTo[Len(blocks)]) ELSE Fail
DecodePlane(data) ==
    LET count == data[4]
        upTo[i \in 0 .. count] ==
            IF i = 0 THEN Ok([chunks |-> <<>>, next |-> 4])
            ELSE LET prior == upTo[i - 1]
                     before == prior.val
                     from == before.next + 1
                 IN  IF ~prior.ok THEN Fail
                     ELSE IF from > Len(data) THEN Fail
                     ELSE IF from + data[from] > Len(data) THEN Fail
                     ELSE Ok([chunks |-> Append(before.chunks, SubSeq(data, from + 1, from + data[from])),
                              next |-> from + data[from]])
    IN  IF Len(data) < 4 THEN Fail
        ELSE IF data[1] # TokenMagic \/ data[2] # 4 \/ data[3] \notin 0 .. 2 THEN Fail
        ELSE LET all == upTo[count]
             IN  IF ~all.ok THEN Fail
                 ELSE IF all.val.next # Len(data) THEN Fail ELSE Ok(all.val.chunks)

-------------------------------------------------------------------------------
(* The older format: in each band the place of the last coefficient, then  *)
(* zeros (shifted by the plane) and value in turns.                        *)

RunShift(plane) == CASE plane = 1 -> 2 [] plane = 2 -> 5 [] OTHER -> 0
BandStart(b) == IF b = 1 THEN 1 ELSE LegacyBands[b - 1] + 1

EncodeBand(block, b, plane) ==
    LET here == {p \in BandStart(b) .. LegacyBands[b] : block.ac[p] # 0}
        last == CHOOSE p \in here : \A q \in here : q <= p
        \* the pairs of the coefficients up to position p
        pairs[p \in BandStart(b) - 1 .. last] ==
            IF p < BandStart(b) THEN [cells |-> <<>>, run |-> 0]
            ELSE LET before == pairs[p - 1]
                 IN  IF block.ac[p] = 0 THEN [before EXCEPT !.run = @ + 1]
                     ELSE [cells |-> before.cells \o <<before.run + RunShift(plane), Zigzag(block.ac[p])>>,
                           run |-> 0]
    IN  IF here = {} THEN <<0>> ELSE <<last - BandStart(b) + 1>> \o pairs[last].cells

EncodeLegacy(block, plane) ==
    LET upTo[b \in 0 .. Len(LegacyBands)] ==
            IF b = 0 THEN <<TokenMagic, 2, plane>> ELSE upTo[b - 1] \o EncodeBand(block, b, plane)
    IN  IF Eligible(block) THEN Ok(upTo[Len(LegacyBands)]) ELSE Fail

\* the pairs of a band up to its last place: <<ac, cells left>>
RECURSIVE BandPairs(_, _, _, _, _)
BandPairs(ac, cells, at, last, shift) ==
    LET run == IF cells[1] > shift THEN cells[1] - shift ELSE 0
        v == Unzigzag(cells[2])
    IN  IF at > last THEN Ok([ac |-> ac, cells |-> cells])
        ELSE IF Len(cells) < 2 THEN Fail
        ELSE IF at + run > last \/ Magnitude(v) \notin 1 .. MaxCoeff THEN Fail
        ELSE BandPairs([ac EXCEPT ![at + run] = v], Cut(cells, 2), at + run + 1, last, shift)

DecodeLegacy(data) ==
    LET upTo[b \in 0 .. Len(LegacyBands)] ==
            IF b = 0 THEN Ok([ac |-> [p \in 1 .. Positions |-> 0], cells |-> Cut(data, 3)])
            ELSE LET prior == upTo[b - 1]
                     before == prior.val
                     last == BandStart(b) + before.cells[1] - 1
                 IN  IF ~prior.ok THEN Fail
                     ELSE IF before.cells = <<>> THEN Fail
                     ELSE IF before.cells[1] = 0 THEN Ok([before EXCEPT !.cells = Tail(@)])
                     ELSE IF last > LegacyBands[b] THEN Fail
                     ELSE BandPairs(before.ac, Tail(before.cells), BandStart(b), last, RunShift(data[3]))
    IN  IF Len(data) < 3 THEN Fail
        ELSE IF data[1] # TokenMagic \/ data[2] # 2 THEN Fail
        ELSE LET all == upTo[Len(LegacyBands)]
             IN  IF ~all.ok THEN Fail ELSE IF all.val.cells # <<>> THEN Fail ELSE Ok(all.val.ac)
===============================================================================
