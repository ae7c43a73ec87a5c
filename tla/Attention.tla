------------------------------ MODULE Attention -----------------------------
(***************************************************************************)
(* The blocks of a text model and the state they keep between forward      *)
(* passes: causal self attention with its KV cache (attention.rs,          *)
(* cache.rs), the interleaved local and global layers of Gemma 3 and       *)
(* EXAONE 4, and the gated and delta-rule layers of Qwen 3.5.              *)
(*                                                                         *)
(* Data abstraction.  A tensor is known by the tokens it was computed      *)
(* from: a cached key or value by its token, a recurrent state by the      *)
(* tokens it absorbed, an attention row by the tokens its mask lets        *)
(* through.  A token is <<request, position>>.                             *)
(***************************************************************************)
EXTENDS Integers, Sequences, FiniteSets, SequencesExt

CONSTANTS Archs,     \* architectures to load, names of Layouts
          Chunked,   \* those also driven with several tokens at a time (VibeVoice)
          NumLayers, \* num_hidden_layers
          Period,    \* every Period-th layer is global, or full attention
          MaxLen,    \* max_seq_len: rows of the cos and sin tables
          SlidingWindow,
          Kernel,    \* linear_conv_kernel_dim
          MaxPrompt, \* bound: tokens of a prompt or of a chunk
          MaxTurns   \* bound: requests in a behaviour

SizeAssumption == /\ NumLayers \in Nat \ {0} /\ Period \in Nat \ {0}
                  /\ MaxLen \in Nat \ {0} /\ SlidingWindow \in Nat \ {0}
                  /\ Kernel \in Nat \ {0, 1}
FeedAssumption == MaxPrompt \in Nat \ {0} /\ MaxTurns \in Nat /\ Chunked \subseteq Archs

VARIABLES
  arch,  \* the architecture that was loaded
  kv,    \* layer -> tokens in the KV cache
  conv,  \* layer -> conv_state, the last Kernel - 1 inputs
  rec,   \* layer -> tokens the recurrent state absorbed
  turn,  \* the request
  pos,   \* index_pos
  feed,  \* tokens of the pass at hand, 0 between passes
  block, \* next layer to run
  ok,    \* no forward call of this request failed
  sees,  \* history: what each row of the last layer run was computed from
  taps   \* history: its convolution windows

caches == <<kv, conv, rec>>
pass   == <<feed, block, ok>>
shown  == <<sees, taps>>
avars  == <<arch, caches, turn, pos, pass, shown>>

-----------------------------------------------------------------------------
(* Layers, as the loaders of the blocks build them from the configuration. *)

Full     == [mix |-> "softmax", window |-> FALSE, rope |-> TRUE]
Windowed == [Full EXCEPT !.window = TRUE]
Gated    == [Full EXCEPT !.mix = "gated"]
Delta    == [Full EXCEPT !.mix = "delta", !.rope = FALSE]

\* is_global_layer; a Gemma 3 schedule and the full_attention entries of
\* Qwen 3.5's layer_types are taken to follow the same pattern.
GemmaGlobal(l)  == l % Period = 0
ExaoneGlobal(l) == l % Period = 0
Qwen35Full(l)   == l % Period = 0

Llama   == [l \in 1 .. NumLayers |-> Full]
Qwen2   == Llama  \* its sliding_window is parsed and not used
Qwen3   == Llama
Phi4    == Llama
Falcon3 == Llama
Olmo2   == Llama
Mistral == [l \in 1 .. NumLayers |-> Windowed]
Gemma3  == [l \in 1 .. NumLayers |->
             IF GemmaGlobal(l) THEN Full ELSE [Windowed EXCEPT !.rope = FALSE]]
Exaone4 == [l \in 1 .. NumLayers |->
             IF ExaoneGlobal(l) THEN [Full EXCEPT !.rope = FALSE] ELSE Windowed]
Qwen35  == [l \in 1 .. NumLayers |-> IF Qwen35Full(l) THEN Gated ELSE Delta]

Layouts == [llama |-> Llama, qwen2 |-> Qwen2, qwen3 |-> Qwen3, phi4 |-> Phi4,
            falcon3 |-> Falcon3, olmo2 |-> Olmo2, mistral |-> Mistral,
            gemma3 |-> Gemma3, exaone4 |-> Exaone4, qwen3_5 |-> Qwen35]

Layer(l) == Layouts[arch][l]

\* EXAONE 4 has local layers too, and only models of plain layers are fed in chunks.
LayerAssumption ==
  /\ Archs \subseteq DOMAIN Layouts
  /\ "exaone4" \in Archs => Period > 1
  /\ \A a \in Chunked : \A l \in 1 .. NumLayers : Layouts[a][l] = Full

AttnAssumption == SizeAssumption /\ FeedAssumption /\ LayerAssumption

-----------------------------------------------------------------------------
(* The cache. *)

Zero  == <<0, -1>>                        \* a padding zero of the convolution
Fresh == [i \in 1 .. feed |-> <<turn, pos + i - 1>>]

Smaller(a, b) == IF a < b THEN a ELSE b
Limit(l) == IF Layer(l).window THEN Smaller(SlidingWindow, MaxLen) ELSE MaxLen

Latest(s, n)  == IF Len(s) > n THEN SubSeq(s, Len(s) - n + 1, Len(s)) ELSE s
Oldest(s, n) == SubSeq(s, 1, Smaller(Len(s), n))

\* Mutant of ProcessKv: narrow keeps the oldest entries.
KeepOldest(l) == IF kv[l] = <<>> THEN Fresh ELSE Oldest(kv[l] \o Fresh, Limit(l))

\* process_kv: only a cache that already holds something is cut to the limit.
ProcessKv(l) == IF kv[l] = <<>> THEN Fresh ELSE Latest(kv[l] \o Fresh, Limit(l))

\* The mask is feed x feed; a longer cache gets columns of zeros on its left.
\* Mutant of MaskFits: the mask is never extended.
Square(cached) == cached = feed \/ feed = 1

MaskFits(cached) == cached >= feed \/ feed = 1

\* The gated layers broadcast the mask as it is.
GatedMaskFits(cached) == cached = feed \/ feed = 1

\* Mutant of Row: the extension goes to the right of the mask.
PadRight(cache, i) ==
  {cache[j] : j \in {k \in 1 .. Len(cache) : feed = 1 \/ k <= i \/ k > feed}}

\* Tokens that row i is computed from: all of the cache in a pass of one
\* token, else what masked_fill leaves.
Row(cache, i) ==
  {cache[j] : j \in {k \in 1 .. Len(cache) :
                       feed = 1 \/ k <= Len(cache) - feed + i}}

\* The table of rotations is too short.
RopeFails(l) == Layer(l).rope /\ pos + feed > MaxLen

Zeros == [i \in 1 .. Kernel - 1 |-> Zero]

\* What the convolution runs over.  One token follows conv_state; a pass of
\* several tokens starts from zeros, whatever conv_state holds.
ConvStep(l) == (IF conv[l] = <<>> THEN Zeros ELSE conv[l]) \o Fresh
ConvSeq(l)  == Zeros \o Fresh
Line(l)     == IF feed = 1 THEN ConvStep(l) ELSE ConvSeq(l)

-----------------------------------------------------------------------------
Empty == [l \in 1 .. NumLayers |-> <<>>]

AttnInit ==
  /\ arch \in Archs
  /\ kv = Empty /\ conv = Empty /\ rec = Empty
  /\ turn = 1 /\ pos = 0
  /\ feed = 0 /\ block = 1 /\ ok = TRUE
  /\ sees = <<>> /\ taps = <<>>

\* A forward call of the model: the whole prompt at position 0 and one token
\* at a time afterwards; the speech model also feeds windows of text.
Feed(n) ==
  /\ feed = 0 /\ ok
  /\ arch \in Chunked \/ pos = 0 \/ n = 1
  /\ feed' = n /\ block' = 1
  /\ sees' = <<>> /\ taps' = <<>>
  /\ UNCHANGED <<arch, caches, turn, pos, ok>>

Advance(l) ==
  IF l = NumLayers THEN feed' = 0 /\ pos' = pos + feed /\ block' = 1
                   ELSE block' = l + 1 /\ UNCHANGED <<feed, pos>>

\* CausalSelfAttention::forward and Qwen3_5FullAttention::forward.
Attend(l) ==
  /\ feed > 0 /\ ok /\ block = l
  /\ Layer(l).mix # "delta"
  /\ ~RopeFails(l)
  /\ LET cache == ProcessKv(l)
     IN  /\ kv' = [kv EXCEPT ![l] = cache]
         /\ IF IF Layer(l).mix = "gated" THEN GatedMaskFits(Len(cache))
                                         ELSE MaskFits(Len(cache))
              THEN /\ sees' = [i \in 1 .. feed |-> Row(cache, i)]
                   /\ Advance(l)
                   /\ UNCHANGED ok
              ELSE /\ ok' = FALSE /\ sees' = <<>>
                   /\ UNCHANGED <<feed, pos, block>>
  /\ taps' = <<>>
  /\ UNCHANGED <<arch, conv, rec, turn>>

\* apply_rotary_emb fails before the cache is touched.
Overrun(l) ==
  /\ feed > 0 /\ ok /\ block = l
  /\ RopeFails(l)
  /\ ok' = FALSE /\ sees' = <<>> /\ taps' = <<>>
  /\ UNCHANGED <<arch, caches, turn, pos, feed, block>>

\* GatedDeltaNet::forward: the convolution, then one recurrent step per token.
Recur(l) ==
  /\ feed > 0 /\ ok /\ block = l
  /\ Layer(l).mix = "delta"
  /\ conv' = [conv EXCEPT ![l] = Latest(Line(l), Kernel - 1)]
  /\ taps' = [i \in 1 .. feed |-> SubSeq(Line(l), i, i + Kernel - 1)]
  /\ rec' = [rec EXCEPT ![l] = @ \o Fresh]
  /\ sees' = [i \in 1 .. feed |-> ToSet(rec[l]) \cup ToSet(Oldest(Fresh, i))]
  /\ Advance(l)
  /\ UNCHANGED <<arch, kv, turn, ok>>

\* Mutant of Clear: only the KV cache is reset.
ClearKv == kv' = Empty /\ UNCHANGED <<conv, rec>>

Clear == kv' = Empty /\ conv' = Empty /\ rec' = Empty

\* The next request, whether the last one was over, failed or was dropped
\* between two blocks.
Reset ==
  /\ turn < MaxTurns
  /\ turn' = turn + 1 /\ pos' = 0
  /\ Clear
  /\ feed' = 0 /\ block' = 1 /\ ok' = TRUE
  /\ sees' = <<>> /\ taps' = <<>>
  /\ UNCHANGED arch

AnyFeed == \E n \in 1 .. MaxPrompt : Feed(n)
AnyBlock == \E l \in 1 .. NumLayers : Attend(l) \/ Overrun(l) \/ Recur(l)

AttnNext == AnyFeed \/ AnyBlock \/ Reset

AttnSpec == AttnInit /\ [][AttnNext]_avars

-----------------------------------------------------------------------------
Token == ((1 .. MaxTurns) \X (0 .. MaxLen)) \cup {Zero}

AttnTypeOK ==
  /\ arch \in Archs
  /\ \A c \in {kv, conv, rec} : /\ DOMAIN c = 1 .. NumLayers
                                /\ \A l \in 1 .. NumLayers : c[l] \in Seq(Token)
  /\ turn \in 1 .. MaxTurns + 1 /\ pos \in 0 .. MaxLen
  /\ feed \in 0 .. MaxPrompt /\ block \in 1 .. NumLayers /\ ok \in BOOLEAN

\* The layer and the position the rows in sees belong to.
RanLast == IF feed = 0 THEN NumLayers ELSE block - 1
RanAt   == IF feed = 0 THEN pos - Len(sees) ELSE pos

Upto(p)   == {<<turn, q>> : q \in 0 .. p}
Recent(p) == {<<turn, q>> : q \in {r \in 0 .. p : r > p - Smaller(SlidingWindow, MaxLen)}}
Behind(p) == [k \in 1 .. Kernel |->
               IF p - Kernel + k < 0 THEN Zero ELSE <<turn, p - Kernel + k>>]

\* Every row is computed from tokens of its own request up to itself, with
\* nothing of an earlier request: from all of them, or in a sliding-window layer
\* from the window alone, except in the first call, which nothing cuts to the
\* window (process_kv).  A convolution sees the last tokens of its own request.
Causal ==
  \A i \in DOMAIN sees :
    LET p == RanAt + i - 1
    IN  /\ sees[i] = IF Layer(RanLast).window /\ RanAt > 0 THEN Recent(p) ELSE Upto(p)
        /\ i \in DOMAIN taps => taps[i] = Behind(p)

\* A forward call fails for one reason only: the context is full.
FailsAtLimit == ~ok => pos + feed > MaxLen
=============================================================================
