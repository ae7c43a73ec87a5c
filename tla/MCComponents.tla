---------------------------- MODULE MCComponents ----------------------------
(***************************************************************************)
(* Components on small instances: the constants of every part.              *)
(***************************************************************************)
EXTENDS Components, TLC

CONSTANTS other, tui

\* ModelTransfer: the second layer's tensors are spread over both shards.
TransferShards == ("l0" :> {"s0"}) @@ ("l1" :> {"s0", "s1"})
TransferSetups == 3

\* Attention: every kind of layer, a cache that fills up and one that slides.
AttnArchs == {"llama", "qwen2", "mistral", "gemma3", "exaone4", "qwen3_5"}

\* StableDiffusion: with guidance batches of one and three, without it an empty one and a
\* pair, and where the version decides all sizes up to two.
SdBsizes == [on |-> {1, 3}, off |-> {0, 2}, default |-> {0, 1, 2}]

\* LuxTTS: words from the dictionary, with a digraph, and with letters that are
\* out of both; a character of two bytes.
LuxTexts == {<< <<"t", "h">>, <<"h", "e">> >>, << <<"t", "e", "h">> >>, << <<"h", "u">> >>,
             << <<"u", "t">> >>, << <<"u">> >>, << <<"t", "h", "u">> >>,
             << <<"h", "e">>, <<"t">>, <<"u", "t", "h">> >>}
LuxDictionary == <<"u", "t", "h">> :> <<"a", "i">>
LuxDigraphs == <<"t", "h">> :> <<"T">>
LuxLetters == [c \in {"t", "h", "e", "u"} |-> IF c = "u" THEN <<>> ELSE <<c>>]
LuxIds == (<<"t">> :> 4) @@ (<<"h">> :> 6) @@ (<<"T">> :> 9) @@ (<<"a", "i">> :> 12) @@ (<<"e">> :> 13)
NoRef == -1
LuxRefs == {NoRef, 3, 4, 9}

\* Weights: layer 1 is a prefix, as a string, of layer 10.
StoreLayers == << <<"1">>, <<"1", "0">> >>
StoreOwners == {{}, {<<"1">>}, {<<"1", "0">>}, {<<"1">>, <<"1", "0">>}}

\* Startup: topology files that list everyone, no one, and part of the layers.
BootStems == [llama |-> {"model"}, qwen3_5_moe |-> {"language_model.model"}]
BootFiles == {("w1" :> {<<0, 0>>}) @@ ("w2" :> {<<1, 1>>}), ("w1" :> {<<1, 2>>}) @@ ("w2" :> {}),
              ("w1" :> {}) @@ ("w2" :> {})}
BootTflops == [w1 |-> 2, w2 |-> 2, m |-> 2]

\* Kernels: every kernel, at sizes around the edges of its tiles and workgroups, rows
\* wider than a workgroup and strided operands among them.
Launch(op, dims) == [op |-> op, dims |-> dims]
CudaPointwise == {"silu_mul", "softplus", "add3", "exp_mul", "sub_mul", "f8_to_f32"}
KerLaunches ==
    {Launch("cuda_elementwise", <<n>>) : n \in 1 .. 9} \cup {Launch("metal_elementwise", <<5>>)}
    \cup {Launch("vulkan_elementwise", <<n>>) : n \in 1 .. 9} \cup {Launch("vulkan_gemv", <<5>>)}
    \cup {Launch("vulkan_gemm", <<m, n>>) : m \in 1 .. 9, n \in {1, 17}}
    \cup {Launch("add_scaled", <<2, 3, 2, 1>>), Launch("conv_silu", <<2, 2, 1, 3>>),
          Launch("conv_bias", <<2, 2, 4, 3>>), Launch("conv_ctx", <<2, 2, 2, 3>>),
          Launch("rope", <<2, 2, 4, 1>>)}
    \cup {Launch(op, <<2, 2, 3, 1>>) : op \in {"norm_gated", "adaln", "add_norm", "norm_channel"}}
    \cup {Launch(op, <<2, 3, p>>) : op \in CudaPointwise, p \in {3, 6}}
    \cup {Launch(op, <<2, 3, 3>>) : op \in {"metal_silu_mul", "metal_add3", "metal_silu"}}
    \cup {Launch("metal_silu_mul", <<2, 3, 6>>)}
    \cup {Launch("cuda_norm", <<w, 1>>) : w \in 1 .. 4}
    \cup {Launch("cuda_channel", <<w, 1>>) : w \in 1 .. 5}
    \cup {Launch(op, <<w, 1>>) : op \in {"metal_norm", "metal_softmax"}, w \in 1 .. 5}
    \cup {Launch("metal_attention", <<w, p>>) : w \in 1 .. 4, p \in 1 .. 2}
    \cup {Launch("vulkan_softmax", <<w, 1>>) : w \in 1 .. 4}

-----------------------------------------------------------------------------
\* The constants of all parts.
Small == [
  transfer |-> [Layers |-> {"l0", "l1"}, Models |-> {"ma", "mb"}, Sharded |-> {"ma"},
      Shards |-> {"s0", "s1"}, ShardsOf |-> TransferShards, WeightChunks |-> 2, Window |-> 2,
      MaxSetups |-> TransferSetups],
  chat |-> [Others |-> {other, tui}, Readers |-> {tui}, Tui |-> tui, Widths |-> {1, 2}, MaxTurns |-> 2,
      MaxTokens |-> 2, MaxInput |-> 2],
  attention |-> [Archs |-> AttnArchs, Chunked |-> {"qwen2"}, NumLayers |-> 4, Period |-> 2, MaxLen |-> 7,
      SlidingWindow |-> 3, Kernel |-> 4, MaxPrompt |-> 4, MaxTurns |-> 2],
  experts |-> [Blocks |-> {"qwen3_moe", "qwen3_5_moe"},
      Formats |-> {"individual", "gptq", "stacked", "affine"},
      Dtypes |-> {<<"f32", "f32">>, <<"bf16", "f32">>}, Devices |-> {"gpu"},
      NumExperts |-> 3, TopK |-> 2, MaxTokens |-> 2],
  sd |-> [Versions |-> {"xl", "turbo"}, Bsizes |-> SdBsizes, MaxSteps |-> 3, MaxSamples |-> 2,
      Strength |-> 2],
  flux |-> [Kinds |-> {"flux1", "flux2"}, Sizes |-> {<<16, 32>>, <<20, 16>>}, MaxSeq |-> 3,
      MaxClip |-> 2, MaxTokens |-> 4, MaxSteps |-> 3, Depth |-> 1, DepthSingle |-> 1],
  speech |-> [Versions |-> {"0.5B", "1.5B"}, Shardings |-> BOOLEAN, TextWindow |-> 2, SpeechWindow |-> 2,
      VoiceLen |-> 1, MaxText |-> 3, MaxFrames |-> 6, MaxTokens |-> 5],
  codec |-> [Ratios |-> <<3, 2>>, Kernel |-> 3, Depth |-> 1, Prime |-> 97, Latents |-> {5, 11},
      MaxFrames |-> 4],
  luxtts |-> [Texts |-> LuxTexts, Multibyte |-> {"u"}, Dictionary |-> LuxDictionary,
      Digraphs |-> LuxDigraphs, Letters |-> LuxLetters,
      Phones |-> {"t", "h", "e", "T", "a", "i"}, Ids |-> LuxIds, Space |-> 2,
      RefLengths |-> LuxRefs, NoReference |-> NoRef, Speeds |-> {<<1, 1>>, <<1, 2>>, <<5, 2>>},
      Steps |-> 0 .. 2, Shift |-> 2, NumLayers |-> <<1, 2>>, Factors |-> <<1, 2>>,
      Placements |-> {{}, {2}}, Kernel |-> 3, NFft |-> 4, Hop |-> 2, Prime |-> 31],
  weights |-> [Formats |-> {"plain", "fp8", "gptq", "affine", "gguf"}, Archs |-> {"llama", "gemma3"},
      LayerSeq |-> StoreLayers, Owners |-> StoreOwners, NumGpus |-> 2, Outs |-> 4, Ins |-> 4,
      Fit |-> 2, Levels |-> 4, GroupSize |-> 2, BlockSize |-> 2],
  cache |-> [Layouts |-> {"sharded", "single", "root"}, Shards |-> {"s1", "s2"}, MaxRevs |-> 2,
      MaxFaults |-> 2],
  startup |-> [WorkerSeq |-> <<"w1", "w2">>, Master |-> "m", NumLayers |-> 3,
      Archs |-> {"llama", "qwen3_5_moe"}, Stems |-> BootStems, Files |-> BootFiles,
      Tflops |-> BootTflops],
  kernels |-> [Launches |-> KerLaunches, Warps |-> 3, Block |-> 2, Side |-> 4],
  gpu |-> [Addresses |-> 1 .. 3, NumWeights |-> 1, Halves |-> BOOLEAN,
      Fifo |-> 1, MaxTensors |-> 5, MaxViewed |-> 3, MaxBuffers |-> 4]]

\* Startup: a master that is slower than its workers.
Uneven == [Small EXCEPT !.startup.Tflops = [w1 |-> 4, w2 |-> 4, m |-> 1]]
=============================================================================
