------------------------------ MODULE Weights ------------------------------
(***************************************************************************)
(* From a checkpoint to the weights a node computes with: the shards named *)
(* by the index, the bundles `cake split` cuts for a worker                *)
(* (utils/split.rs), the shards a master, a worker or one GPU of a worker  *)
(* opens (utils/mod.rs, worker.rs) and the dequantization of what they     *)
(* hold (fp8.rs, gptq.rs, gguf.rs).                                        *)
(*                                                                         *)
(* A tensor name is the sequence of the pieces the code's prefix tests     *)
(* tell apart: the digits of the layer number, the dot, the matrix and the *)
(* part. Packed words hold Fit values of Levels levels each (8 of 16 in    *)
(* the code) and are read back by arithmetic on the word.                  *)
(***************************************************************************)
EXTENDS Integers, FiniteSets, Sequences, SequencesExt, Selection

CONSTANTS
  Formats,    \* the formats of the checkpoints
  Archs,      \* the architectures of the checkpoints
  LayerSeq,   \* the layers in order, each the sequence of its digits
  Owners,     \* the sets of layers a topology may give the worker
  NumGpus,    \* the GPUs of a worker
  Outs, Ins,  \* the features out and in of a quantized matrix
  Fit, Levels,
  GroupSize,  \* columns that share a scale (gptq, affine)
  BlockSize   \* side of an fp8 block (FP8_BLOCK_SIZE)

Digits == {"0", "1", "2", "3", "4", "5", "6", "7", "8", "9"}

\* A word holds values of one row, and of one group of columns.
WeightsAssumption ==
  /\ LayerSeq \in Seq(Seq(Digits)) /\ Owners \subseteq SUBSET Range(LayerSeq)
  /\ {NumGpus, Outs, Ins, Fit, Levels, GroupSize, BlockSize} \subseteq Nat \ {0}
  /\ Outs % Fit = 0 /\ GroupSize % Fit = 0 /\ Ins % GroupSize = 0

VARIABLES
  format, arch,
  layout,     \* stored tensor -> the shard that holds it
  indexed,    \* model.safetensors.index.json exists
  owned,      \* the layers the topology gives the worker
  role,       \* "master" or "worker"
  phase,      \* "disk", "load", "done" or "failed"
  served,     \* GPU -> the names its var builder answers -> the stored tensor
  todo,       \* GPU -> the layers it has still to load
  loaded      \* name -> matrix

wvars == <<format, arch, layout, indexed, owned, role, phase, served, todo, loaded>>

Embed == <<"e">>
Gpu == 0 .. NumGpus - 1

Name(layer, matrix, part) == layer \o <<".", matrix, part>>
LayerOf(n) == SubSeq(n, 1, Len(n) - 3)
MatrixOf(n) == n[Len(n) - 1]

(***************************************************************************)
(* What is on disk. A matrix "q" is quantized, a norm never is.            *)
(***************************************************************************)
Parts(f) ==
  CASE f = "fp8"    -> <<"weight", "weight_scale_inv">>
    [] f = "gptq"   -> <<"qweight", "qzeros", "scales">>
    [] f = "affine" -> <<"biases", "scales", "weight">>
    [] OTHER        -> <<"weight">>

NormsOf(a) == IF a = "gemma3" THEN <<"post_attention", "pre_feedforward">>
              ELSE <<"post_attention">>

\* The names llama.cpp gives the matrices, and the layer norm it means by each.
GgufNames(a) == IF a = "gemma3" THEN <<"attn_q", "ffn_norm", "post_attention_norm">>
                ELSE <<"attn_q", "ffn_norm">>

GgufMeaning(a, g) == CASE g = "attn_q" -> "q"
                       [] g = "ffn_norm" /\ a = "gemma3" -> "pre_feedforward"
                       [] OTHER -> "post_attention"

LayerTensors(f, a, l) ==
  IF f = "gguf"
  THEN [k \in DOMAIN GgufNames(a) |-> Name(l, GgufNames(a)[k], "weight")]
  ELSE [k \in DOMAIN NormsOf(a) |-> Name(l, NormsOf(a)[k], "weight")]
         \o [k \in DOMAIN Parts(f) |-> Name(l, "q", Parts(f)[k])]

Stored(f, a) ==
  <<Name(Embed, "tok", "weight")>>
    \o FlattenSeq([k \in DOMAIN LayerSeq |-> LayerTensors(f, a, LayerSeq[k])])

\* The quantizer's numbers: the level of a weight, and the zero, scale and bias
\* of its group or block.
Salt(l, m) == Len(l) + (IF m = "q" THEN 0 ELSE IF m = "post_attention" THEN 1 ELSE 2)
Level(s, i, j) == (s + (3 * i) + (5 * j) + (i * j)) % Levels
Zero(s, i, g)  == 1 + ((s + i + (2 * g)) % Levels)
Scale(s, i, g) == 1 + s + 2 * i + 3 * g
Bias(s, i, g)  == s + i + g

\* The matrix the checkpoint stands for.
Original(f, l, m) ==
  LET s == Salt(l, m) IN
  [i \in 0 .. Outs - 1 |-> [j \in 0 .. Ins - 1 |->
     CASE m = "q" /\ f = "gptq" ->
            (Level(s, i, j) - Zero(s, i, j \div GroupSize)) * Scale(s, i, j \div GroupSize)
       [] m = "q" /\ f = "affine" ->
            Level(s, i, j) * Scale(s, i, j \div GroupSize) + Bias(s, i, j \div GroupSize)
       [] m = "q" /\ f = "fp8" ->
            Level(s, i, j) * Scale(s, i \div BlockSize, j \div BlockSize)
       [] OTHER -> Level(s, i, j)]]

\* Fit values in one word, the first in the lowest bits.
Pack(values) ==
  LET last[n \in 0 .. Fit] == IF n = 0 THEN 0 ELSE values[Fit - n] + Levels * last[n - 1]
  IN  last[Fit]
\* The shift that gets the value k of a word, and the mask.
Unpack(word, k) ==
  LET rest[n \in 0 .. Fit] == IF n = 0 THEN word ELSE rest[n - 1] \div Levels
  IN  rest[k] % Levels

\* What is stored of a matrix with the salt s, as rows of numbers: gptq packs a
\* column of the file, affine a row; scales are by group and row, by row and
\* group, or by block.
Blocks(d) == (d + BlockSize - 1) \div BlockSize
Groups == 0 .. Ins \div GroupSize - 1

LevelRows(s) == [i \in 0 .. Outs - 1 |-> [j \in 0 .. Ins - 1 |-> Level(s, i, j)]]
Packed(s, i, p) == Pack([k \in 0 .. Fit - 1 |-> Level(s, i, p * Fit + k)])
PackedRows(s) == [i \in 0 .. Outs - 1 |-> [p \in 0 .. Ins \div Fit - 1 |-> Packed(s, i, p)]]
PackedColumns(s) == [p \in 0 .. Ins \div Fit - 1 |-> [i \in 0 .. Outs - 1 |-> Packed(s, i, p)]]
PackedZeros(s) == [g \in Groups |-> [c \in 0 .. Outs \div Fit - 1 |->
                     Pack([k \in 0 .. Fit - 1 |-> Zero(s, c * Fit + k, g) - 1])]]
ScaleColumns(s) == [g \in Groups |-> [i \in 0 .. Outs - 1 |-> Scale(s, i, g)]]
ScaleRows(s) == [i \in 0 .. Outs - 1 |-> [g \in Groups |-> Scale(s, i, g)]]
BiasRows(s) == [i \in 0 .. Outs - 1 |-> [g \in Groups |-> Bias(s, i, g)]]
BlockScales(s) ==
  [b \in 0 .. Blocks(Outs) - 1 |-> [c \in 0 .. Blocks(Ins) - 1 |-> Scale(s, b, c)]]

\* The part of the matrix m of layer l in a checkpoint.
Tensor(f, l, m, part) ==
  LET s == Salt(l, m) IN
  CASE part = "qweight" -> PackedColumns(s)
    [] part = "qzeros" -> PackedZeros(s)
    [] part = "scales" /\ f = "gptq" -> ScaleColumns(s)
    [] part = "scales" /\ f # "gptq" -> ScaleRows(s)
    [] part = "biases" -> BiasRows(s)
    [] part = "weight_scale_inv" -> BlockScales(s)
    [] part = "weight" /\ f = "affine" /\ m = "q" -> PackedRows(s)
    [] part = "weight" /\ f \in {"fp8", "gptq"} /\ m = "q" -> LevelRows(s)
    [] OTHER -> Original(f, l, m)

\* The stored tensor n of a checkpoint.
Content(f, a, n) ==
  LET l == LayerOf(n)
      m == IF f = "gguf" /\ l # Embed THEN GgufMeaning(a, MatrixOf(n)) ELSE MatrixOf(n)
  IN  Tensor(f, l, m, n[Len(n)])

\* A checkpoint is cut into shards in the order of its tensors; without an index
\* it is the single model.safetensors.
Layouts(f, a) ==
  LET names == Stored(f, a) IN
  {[n \in Range(names) |-> IF n \in Range(SubSeq(names, 1, c)) THEN "shard1" ELSE "shard2"] :
     c \in 1 .. Len(names)}

WeightsInit ==
  /\ format \in Formats
  /\ arch \in Archs
  /\ layout \in Layouts(format, arch)
  /\ indexed \in (IF Cardinality(Range(layout)) = 1 THEN BOOLEAN ELSE {TRUE})
  /\ format = "gguf" => ~indexed
  /\ owned \in Owners
  /\ role \in {"master", "worker"}
  /\ phase = "disk"
  /\ served = [g \in Gpu |-> <<>>]
  /\ todo = [g \in Gpu |-> <<>>]
  /\ loaded = <<>>

(***************************************************************************)
(* cake split: the bundle of a worker holds the tensors of its layers.     *)
(***************************************************************************)
\* Node::is_text_model_layer_owner, and the same test in the two loaders.
Within(layers, n) == \E l \in layers : IsPrefix(l \o <<".">>, n)

\* reduce_for_worker and create_new_metadata: one shard with the worker's tensors.
Reduced == [n \in {t \in DOMAIN layout : Within(owned, t)} |-> "reduced"]

Split ==
  /\ phase = "disk" /\ role = "worker" /\ format # "gguf" /\ owned # {}
  /\ "reduced" \notin Range(layout)
  /\ layout' = Reduced
  /\ indexed' = TRUE
  /\ UNCHANGED <<format, arch, owned, role, phase, served, todo, loaded>>

(***************************************************************************)
(* Opening: which shards a role maps, and what its var builder answers.    *)
(***************************************************************************)
\* use_multi_gpu of Worker::new: consecutive layers of the worker go to the same GPU.
SeveralGpus == NumGpus > 1 /\ Cardinality(owned) > 1

LayersOn(g) ==
  LET mine == Among(LayerSeq, owned)
      gpus == IF Len(mine) > 1 THEN NumGpus ELSE 1
  IN  Among(mine, {mine[k] : k \in {j \in DOMAIN mine : ((j - 1) * gpus) \div Len(mine) = g}})

\* load_var_builder_for_local_layers: the shards with a tensor of no worker's layer;
\* load_var_builder_for_specific_layers: those with a tensor of the layers.
LocalShards == {layout[n] : n \in {t \in DOMAIN layout : ~Within(owned, t)}}
SpecificShards(layers) == {layout[n] : n \in {t \in DOMAIN layout : Within(layers, t)}}

\* The shards that a role, or one GPU of a worker, opens; all when in doubt.
Opened(g) ==
  LET mine == IF SeveralGpus THEN Range(LayersOn(g)) ELSE owned IN
  IF ~indexed \/ owned = {} \/ (role = "worker" /\ mine = {}) THEN Range(layout)
  ELSE IF role = "master" THEN LocalShards ELSE SpecificShards(mine)

\* gguf_name_to_hf.
HfName(n) ==
  IF LayerOf(n) = Embed THEN n
  ELSE Name(LayerOf(n),
            CASE MatrixOf(n) = "attn_q" -> "q"
              [] MatrixOf(n) \in {"ffn_norm", "post_attention_norm"} -> "post_attention"
              [] OTHER -> MatrixOf(n), "weight")

\* The layers a role loads, in order; the embedding is the master's.
Duties(g) ==
  IF role = "worker" THEN LayersOn(g)
  ELSE IF g # 0 THEN <<>>
  ELSE <<Embed>> \o Among(LayerSeq, Range(LayerSeq) \ owned)

\* Tensors of a GGUF file that map to one name overwrite each other in the
\* order of a hash map: the last ones win.
Clashing == {n \in DOMAIN layout : \E o \in DOMAIN layout \ {n} : HfName(o) = HfName(n)}

\* For several GPUs Worker::new opens the shards once more, whatever the format, by an
\* index in the data path: that of a GGUF checkpoint is the file itself, with no index
\* and no model.safetensors under it.
Stranded == format = "gguf" /\ role = "worker" /\ SeveralGpus

Open ==
  /\ phase = "disk"
  /\ role = "worker" => owned # {}
  /\ phase' = IF Stranded THEN "failed" ELSE "load"
  /\ \E last \in SUBSET (IF format = "gguf" THEN Clashing ELSE {}) :
       LET kept == (DOMAIN layout \ Clashing) \cup last IN
       /\ format = "gguf" => \A n \in DOMAIN layout :
            Cardinality({k \in kept : HfName(k) = HfName(n)}) = 1
       /\ served' = [g \in Gpu |->
            IF format = "gguf"
            THEN [h \in {HfName(n) : n \in kept} |-> CHOOSE n \in kept : HfName(n) = h]
            ELSE [n \in {t \in DOMAIN layout : layout[t] \in Opened(g)} |-> n]]
  /\ todo' = [g \in Gpu |-> Duties(g)]
  /\ UNCHANGED <<format, arch, layout, indexed, owned, role, loaded>>

(***************************************************************************)
(* Dequantization.                                                         *)
(***************************************************************************)
\* dequantize_fp8_blockwise: the reshape wants whole blocks.
Fp8(w, scale) ==
  IF Outs % BlockSize # 0 \/ Ins % BlockSize # 0 THEN <<>>
  ELSE [i \in 0 .. Outs - 1 |-> [j \in 0 .. Ins - 1 |->
          w[i][j] * scale[i \div BlockSize][j \div BlockSize]]]

\* Mutant of Gptq: the zero point is used as it is stored.
ZeroAsStored(qweight, scales, qzeros) ==
  [i \in 0 .. Outs - 1 |-> [j \in 0 .. Ins - 1 |->
     LET row == j \div Fit
         g == (row * Fit) \div GroupSize
     IN  (Unpack(qweight[row][i], j % Fit) - Unpack(qzeros[g][i \div Fit], i % Fit))
           * scales[g][i]]]

\* dequantize_gptq_4bit; a word never straddles two groups.
Gptq(qweight, scales, qzeros) ==
  [i \in 0 .. Outs - 1 |-> [j \in 0 .. Ins - 1 |->
     LET row == j \div Fit
         g == (row * Fit) \div GroupSize
         zero == Unpack(qzeros[g][i \div Fit], i % Fit) + 1
     IN  (Unpack(qweight[row][i], j % Fit) - zero) * scales[g][i]]]

\* dequantize_packed_4bit.
Affine(packed, scales, biases) ==
  [i \in 0 .. Outs - 1 |-> [j \in 0 .. Ins - 1 |->
     LET g == j \div GroupSize
     IN  Unpack(packed[i][j \div Fit], j % Fit) * scales[i][g] + biases[i][g]]]

\* What a var builder answers for a name, <<>> when it has no such tensor.
Get(g, n) == IF n \in DOMAIN served[g] THEN Content(format, arch, served[g][n]) ELSE <<>>

\* The weight l.m as GPU g's var builder returns it; <<>> when it cannot.
Weight(g, l, m) ==
  LET has(p) == Name(l, m, p) \in DOMAIN served[g]
      raw(p) == Get(g, Name(l, m, p))
  IN  CASE format = "fp8" /\ has("weight_scale_inv") -> Fp8(raw("weight"), raw("weight_scale_inv"))
        [] format = "gptq" /\ has("qweight") -> Gptq(raw("qweight"), raw("scales"), raw("qzeros"))
        [] format = "affine" /\ has("scales") -> Affine(raw("weight"), raw("scales"), raw("biases"))
        [] OTHER -> raw("weight")

MatricesOf(l) == IF l = Embed THEN {"tok"} ELSE {"q"} \cup Range(NormsOf(arch))

\* One layer of one GPU; the GPUs load side by side.
LoadLayer(g) ==
  /\ phase = "load" /\ todo[g] # <<>>
  /\ LET l == Head(todo[g])
         found == [n \in {Name(l, m, "weight") : m \in MatricesOf(l)} |-> Weight(g, l, MatrixOf(n))]
     IN  /\ loaded' = [n \in DOMAIN found \cup DOMAIN loaded |->
                         IF n \in DOMAIN found THEN found[n] ELSE loaded[n]]
         /\ todo' = [todo EXCEPT ![g] = Tail(@)]
         /\ phase' = IF <<>> \in Range(found) THEN "failed"
                     ELSE IF \A h \in Gpu : todo'[h] = <<>> THEN "done" ELSE "load"
  /\ UNCHANGED <<format, arch, layout, indexed, owned, role, served>>

WeightsNext == Split \/ Open \/ \E g \in Gpu : LoadLayer(g)
WeightsSpec == WeightsInit /\ [][WeightsNext]_wvars

(***************************************************************************)
(* Properties.                                                             *)
(***************************************************************************)
WeightsTypeOK ==
  /\ format \in Formats /\ arch \in Archs /\ role \in {"master", "worker"}
  /\ phase \in {"disk", "load", "done", "failed"}
  /\ Range(layout) \subseteq {"shard1", "shard2", "reduced"}
  /\ \A g \in Gpu : Range(todo[g]) \subseteq {Embed} \cup Range(LayerSeq)

\* The checkpoints with no layer that loads: no tensor of a Gemma 3 file of llama.cpp is
\* given the name of the norm before the feed-forward, and fp8 wants whole blocks.
Unloadable ==
  \/ format = "gguf" /\ arch = "gemma3"
  \/ format = "fp8" /\ (Outs % BlockSize # 0 \/ Ins % BlockSize # 0)

\* Whatever the format, the shards and the split, a node that starts has loaded every
\* matrix of its layers and each is the one the checkpoint stands for
\* (load_var_builder_for_*, reduce_for_worker, dequantize_*). It fails only over an
\* unloadable checkpoint or as a worker that wants a GGUF file on several GPUs, and
\* such a worker never starts.
Faithful ==
  /\ phase = "failed" => Stranded \/ Unloadable
  /\ Stranded => phase \in {"disk", "failed"}
  /\ phase # "failed" =>
       \A n \in DOMAIN loaded : loaded[n] = Original(format, LayerOf(n), MatrixOf(n))
  /\ phase = "done" =>
       DOMAIN loaded = {n \in {Name(l, m, "weight") : l \in {Embed} \cup Range(LayerSeq),
                                                       m \in {"tok", "q"} \cup Range(NormsOf(arch))} :
                          /\ MatrixOf(n) \in MatricesOf(LayerOf(n))
                          /\ (LayerOf(n) \in owned) = (role = "worker")}
=============================================================================
