------------------------------- MODULE Experts ------------------------------
(***************************************************************************)
(* The mixture-of-experts blocks of Qwen3-MoE and Qwen3.5-MoE: where the   *)
(* weights of an expert come from (resident in RAM, or streamed from the   *)
(* safetensors shards by DiskExpertProvider, dequantized and cached), and  *)
(* how a pass dispatches its tokens to their experts.                      *)
(*                                                                         *)
(* Data abstraction.  A shard is a sequence of cells; a cell holds what    *)
(* one expert has in one tensor, so the byte stride of an expert inside a  *)
(* stacked tensor is one cell.  A weight matrix is known by the cells it   *)
(* was computed from, its dtype and its device; the output of a token by   *)
(* the experts added to it, each with its router weight.                   *)
(***************************************************************************)
EXTENDS Integers, Sequences, FiniteSets, SequencesExt

CONSTANTS Blocks,     \* subset of {"qwen3_moe", "qwen3_5_moe"}
          Formats,    \* subset of {"individual", "gptq", "stacked", "affine"}
          Dtypes,     \* pairs <<stored, compute>>
          Devices,    \* subset of {"cpu", "gpu"}
          NumExperts, \* num_experts
          TopK,       \* num_experts_per_tok
          MaxTokens   \* bound: tokens of a pass

ExpertAssumption == NumExperts \in Nat \ {0} /\ TopK \in 1 .. NumExperts

Experts == 0 .. NumExperts - 1
All     == NumExperts           \* stands for the expert of a stacked tensor
Projs   == <<"gate", "up", "down">>

VARIABLES
  block, format, stored, dtype, device, \* what was loaded
  norm,     \* norm_topk_prob
  provider, \* who has the expert weights
  shards,   \* the shard files
  index,    \* tensor name -> where its data is
  cache,    \* expert -> its weights on the CPU, or None
  top,      \* token -> its experts, best first
  due,      \* next expert to run, Returned when the pass is over
  out,      \* token -> what was added to its output row
  failed    \* the pass returned an error

loaded == <<block, format, stored, dtype, device, norm, provider, shards, index>>
evars  == <<loaded, cache, top, due, out, failed>>

None     == <<>>
Returned == NumExperts + 1

-----------------------------------------------------------------------------
(* Shards on disk.  A name is <<projection, expert or All, part>>.         *)

Stacked(f)  == f \in {"stacked", "affine"}
PartSeq(f)  == CASE f = "gptq"   -> <<"qweight", "scales", "qzeros">>
                 [] f = "affine" -> <<"weight", "scales", "biases">>
                 [] OTHER        -> <<"weight">>
Parts(f)    == ToSet(PartSeq(f))
Name(p, e, part) == <<p, e, part>>
\* The tensors of a block, in the order of a file.
Names(f) == LET of  == IF Stacked(f) THEN <<All>> ELSE [i \in 1 .. NumExperts |-> i - 1]
                per == [p \in 1 .. 3 |-> FlattenSeq([e \in DOMAIN of |->
                          [x \in DOMAIN PartSeq(f) |-> Name(Projs[p], of[e], PartSeq(f)[x])]])]
            IN  FlattenSeq(per)
Cells(n) == IF n[2] = All THEN [i \in 1 .. NumExperts |-> Name(n[1], i - 1, n[3])] ELSE <<n>>
Data(names) == FlattenSeq([i \in DOMAIN names |-> Cells(names[i])])

\* A shard is a length prefix, a header with an entry for each tensor, and
\* the data.
Header(names) == 1 + Len(names)
Shard(names)  == [i \in 1 .. Header(names) |-> None] \o Data(names)

\* Mutant of TensorAt: data_offsets count from the start of the file.
NoHeader(names, i)   == Len(Data(SubSeq(names, 1, i - 1)))
\* parse_tensor_meta of entry i; its data_offsets count from the data.
TensorAt(names, i)   == Header(names) + Len(Data(SubSeq(names, 1, i - 1)))
FromIndex(files) ==
  [n \in UNION {ToSet(files[s]) : s \in DOMAIN files} |->
     LET s == CHOOSE s \in DOMAIN files : n \in ToSet(files[s])
         i == CHOOSE i \in DOMAIN files[s] : files[s][i] = n
     IN  [shard |-> s, at |-> TensorAt(files[s], i), size |-> Len(Cells(n))]]

HasTensor(n) == n \in DOMAIN index
Slice(n, offset, len) ==
  LET at == index[n].at + offset
  IN  SubSeq(shards[index[n].shard], at + 1, at + len)
TensorBytes(n) == Slice(n, 0, index[n].size)

-----------------------------------------------------------------------------
(* DiskExpertProvider.                                                     *)

Matrix(cells, dt, dev) == [of |-> cells, dtype |-> dt, dev |-> dev]

\* get_expert_uncached, one projection: the three tensors of a GPTQ expert;
GptqWeight(p, i) ==
  Matrix({TensorBytes(Name(p, i, part)) : part \in Parts("gptq")}, dtype, device)
\* the slices of an affine stack, left on the CPU to be cached;
AffineWeight(p, i) ==
  Matrix({Slice(Name(p, All, part), i, 1) : part \in Parts("affine")}, dtype, "cpu")
\* a slice of a plain stack (read_slice converts and moves it);
StackedWeight(p, i) == Matrix({Slice(Name(p, All, "weight"), i, 1)}, dtype, device)
\* a plain expert: unconverted, converted to F32 on the way, or on the CPU.
PlainWeight(p, i) ==
  LET bytes == {TensorBytes(Name(p, i, "weight"))}
  IN  CASE stored = dtype                      -> Matrix(bytes, stored, device)
        [] stored # dtype /\ dtype = "f32" -> Matrix(bytes, "f32", device)
        [] OTHER                               -> Matrix(bytes, dtype, "cpu")

Uncached(i) ==
  [p \in ToSet(Projs) |-> CASE format = "gptq"    -> GptqWeight(p, i)
                     [] format = "affine"  -> AffineWeight(p, i)
                     [] format = "stacked" -> StackedWeight(p, i)
                     [] OTHER              -> PlainWeight(p, i)]
Readable(i) ==
  \A p \in ToSet(Projs), part \in Parts(format) : HasTensor(Name(p, IF Stacked(format) THEN All ELSE i, part))
ToDevice(w) == [p \in ToSet(Projs) |-> [w[p] EXCEPT !.dev = device]]

Caching == provider = "disk" /\ format = "affine"
\* new_stacked dequantizes every expert of an affine stack into the cache.
Warm == [i \in Experts |-> IF Caching /\ Readable(i) THEN Uncached(i) ELSE None]
Remember(i, w) ==
  IF Caching /\ Cardinality({j \in Experts : cache[j] # None}) < NumExperts
  THEN [cache EXCEPT ![i] = w] ELSE cache

\* What the VarBuilder loaded, behind StackedResidentProvider and
\* IndividualResidentProvider.
OwnWeights(i) == [p \in ToSet(Projs) |-> Matrix({<<Name(p, i, part)>> : part \in Parts(format)}, dtype, device)]

Resident == provider # "disk"
Hit(i)   == ~ Resident /\ cache[i] # None
CanGet(i)  == Resident \/ Hit(i) \/ Readable(i)
GetExpert(i) == CASE Resident -> OwnWeights(i)
                  [] Hit(i)   -> ToDevice(cache[i])
                  [] OTHER    -> ToDevice(Uncached(i))
CacheAfter(i) == IF Resident \/ Hit(i) THEN cache ELSE Remember(i, Uncached(i))

-----------------------------------------------------------------------------
(* Loading.                                                                *)

\* Which provider a block builds for a format of the weights.
Provider(b, f) ==
  CASE b = "qwen3_moe" -> {"stacked_resident"}
    [] b = "qwen3_5_moe" /\ f = "stacked" -> {"stacked_resident"}
    [] OTHER -> {"individual_resident"}
Loads == {c \in [block : Blocks, format : Formats, dtypes : Dtypes, device : Devices,
                 norm : BOOLEAN, provider : {"disk", "stacked_resident", "individual_resident"}] :
            /\ c.block = "qwen3_moe" => ~ Stacked(c.format)
            /\ c.format = "affine" => c.provider = "disk"
            /\ c.block = "qwen3_5_moe" => c.norm
            /\ c.provider \in {"disk"} \cup Provider(c.block, c.format)}

\* One shard, two, or one that lost a tensor (which a resident load refuses).
Files(f) == LET order == Names(f)
                half  == Len(order) \div 2
            IN  [whole |-> <<order>>,
                 split |-> <<SubSeq(order, 1, half), SubSeq(order, half + 1, Len(order))>>,
                 torn  |-> <<Tail(order)>>]

ExpertInit ==
  \E c \in Loads : \E w \in {"whole", "split", "torn"} :
    /\ w = "torn" => c.provider = "disk"
    /\ block = c.block /\ format = c.format /\ stored = c.dtypes[1] /\ dtype = c.dtypes[2]
    /\ device = c.device /\ norm = c.norm /\ provider = c.provider
    /\ shards = [s \in DOMAIN Files(format)[w] |-> Shard(Files(format)[w][s])]
    /\ index = FromIndex(Files(format)[w])
    /\ cache = Warm
    /\ top = <<>> /\ out = <<>> /\ due = Returned /\ failed = FALSE

-----------------------------------------------------------------------------
(* A forward pass.                                                         *)

\* The router weight of e for token t: its probability, over the experts the
\* probabilities add up to one on.
Weight(t, e) == [tok |-> t, expert |-> e, over |-> IF norm THEN ToSet(top[t]) ELSE Experts]
Share(w, t, e) == [weights |-> w, weight |-> Weight(t, e)]
SharedExpert   == [weights |-> None, weight |-> None]

\* Row of the dispatch table: the tokens of expert e, read off the flattened
\* top-k indices.
TopFlat(x) == top[((x - 1) \div TopK) + 1][((x - 1) % TopK) + 1]
\* Mutant of FlatAt: the indices are flattened by column.
ByColumn(t, k) == (k - 1) * Len(top) + t
FlatAt(t, k) == (t - 1) * TopK + k
TableRow(e) == {t \in DOMAIN top : \E k \in 1 .. TopK : TopFlat(FlatAt(t, k)) = e}

Running == due # Returned
Single  == Len(top) = 1
Path == CASE Single /\ block = "qwen3_moe" /\ provider = "stacked_resident" -> "batched"
          [] Single /\ block = "qwen3_5_moe" -> "direct"
          [] OTHER -> "table"

Begin ==
  /\ ~ Running
  /\ \E n \in 1 .. MaxTokens :
       top' \in [1 .. n -> {s \in [1 .. TopK -> Experts] : IsInjective(s)}]
  /\ due' = 0 /\ failed' = FALSE
  /\ out' = [t \in DOMAIN top' |-> <<>>]
  /\ UNCHANGED <<loaded, cache>>

\* forward_batched_fast_path: the selected rows of the stacked weights.
Batched ==
  /\ Running /\ Path = "batched" /\ due = 0
  /\ due' = NumExperts
  /\ out' = [out EXCEPT ![1] = [k \in 1 .. TopK |-> Share(OwnWeights(top[1][k]), 1, top[1][k])]]
  /\ UNCHANGED <<loaded, cache, top, failed>>

\* get_expert(e) for the tokens ts, or the error that ends the pass.
Run(e, ts) ==
  \/ /\ CanGet(e)
     /\ due' = due + 1
     /\ out' = [t \in DOMAIN out |->
                  IF t \in ts THEN Append(out[t], Share(GetExpert(e), t, e)) ELSE out[t]]
     /\ cache' = CacheAfter(e)
     /\ UNCHANGED <<loaded, top, failed>>
  \/ /\ ~ CanGet(e)
     /\ due' = Returned /\ failed' = TRUE
     /\ UNCHANGED <<loaded, cache, top, out>>

\* The single token of Qwen3.5 takes its experts best first.
Direct == Running /\ Path = "direct" /\ due < TopK /\ Run(top[1][due + 1], {1})

\* Everything else goes through the table, expert by expert.
Dispatch ==
  /\ Running /\ Path = "table" /\ due < NumExperts
  /\ IF TableRow(due) = {} THEN due' = due + 1 /\ UNCHANGED <<loaded, cache, top, out, failed>>
                           ELSE Run(due, TableRow(due))

\* Qwen3.5 adds its shared expert last.
Return ==
  /\ Running /\ due = IF Path = "direct" THEN TopK ELSE NumExperts
  /\ due' = Returned
  /\ out' = [t \in DOMAIN out |->
               IF block = "qwen3_5_moe" THEN Append(out[t], SharedExpert) ELSE out[t]]
  /\ UNCHANGED <<loaded, cache, top, failed>>

ExpertNext == Begin \/ Batched \/ Direct \/ Dispatch \/ Return
ExpertSpec == ExpertInit /\ [][ExpertNext]_evars

-----------------------------------------------------------------------------

ExpertTypeOK ==
  /\ block \in Blocks /\ format \in Formats /\ <<stored, dtype>> \in Dtypes /\ device \in Devices
  /\ norm \in BOOLEAN /\ failed \in BOOLEAN
  /\ DOMAIN index \subseteq ToSet(Names(format))
  /\ DOMAIN cache = Experts
  /\ \A t \in DOMAIN top : top[t] \in [1 .. TopK -> Experts]
  /\ due \in 0 .. Returned
  /\ DOMAIN out = DOMAIN top

\* What came back for a token is the sum over its top experts, each once,
\* computed from all and only that expert's own tensors, in the compute dtype
\* and on the block's device, with the token's own router weight (and the
\* shared expert of Qwen3.5), whichever path, provider and format served it;
\* a pass fails only when the shards lack an expert that it needs.
Mixed ==
  ~ Running =>
    IF failed
    THEN \E t \in DOMAIN top : \E e \in ToSet(top[t]) : ~ Readable(e)
    ELSE \A t \in DOMAIN top :
           LET common == IF block = "qwen3_5_moe" THEN {SharedExpert} ELSE {}
           IN  /\ ToSet(out[t]) = common \cup {Share(OwnWeights(e), t, e) : e \in ToSet(top[t])}
               /\ Len(out[t]) = TopK + Cardinality(common)
=============================================================================
