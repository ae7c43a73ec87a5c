----------------------------- MODULE Components -----------------------------
(***************************************************************************)
(* The components that do not share state: the part that runs is chosen at  *)
(* the start.  As only one does, they take turns in the variables v1, v2,   *)
(* ...: an INSTANCE says which is which, and a part leaves those it has no  *)
(* use for Off.  Parts with proofs are instances of the module that holds   *)
(* them.                                                                    *)
(***************************************************************************)
EXTENDS Integers, Sequences, FiniteSets

CONSTANTS Chosen,  \* the parts that may run
          Param,   \* part -> the constants of its module
          Off

VARIABLES
  part, v1, v2, v3, v4, v5, v6, v7, v8, v9, v10, v11, v12, v13, v14, v15, v16, v17, v18

vars == <<part, v1, v2, v3, v4, v5, v6, v7, v8, v9, v10, v11, v12, v13, v14, v15, v16, v17, v18>>

----------------------------------------------------------------------------
\* ModelTransfer and LuxTTS, with their proofs.
Pipeline == INSTANCE PipelineProofs WITH
  Layers <- Param.transfer.Layers, Models <- Param.transfer.Models,
  Sharded <- Param.transfer.Sharded, Shards <- Param.transfer.Shards,
  ShardsOf <- Param.transfer.ShardsOf, WeightChunks <- Param.transfer.WeightChunks,
  Window <- Param.transfer.Window, MaxSetups <- Param.transfer.MaxSetups,
  setups <- v1, phase <- v2, model <- v3, layers <- v4, pushing <- v5, pend <- v6, sent <- v7,
  at <- v8, wire <- v9, cur <- v10, disk <- v11, covers <- v12, dirty <- v13,
  Texts <- Param.luxtts.Texts, Multibyte <- Param.luxtts.Multibyte,
  Dictionary <- Param.luxtts.Dictionary, Digraphs <- Param.luxtts.Digraphs,
  Letters <- Param.luxtts.Letters, Phones <- Param.luxtts.Phones, Ids <- Param.luxtts.Ids, Space <- Param.luxtts.Space,
  RefLengths <- Param.luxtts.RefLengths, NoReference <- Param.luxtts.NoReference,
  Speeds <- Param.luxtts.Speeds, StepCounts <- Param.luxtts.Steps, Shift <- Param.luxtts.Shift,
  NumLayers <- Param.luxtts.NumLayers, Factors <- Param.luxtts.Factors,
  Placements <- Param.luxtts.Placements, CnnKernel <- Param.luxtts.Kernel, NFft <- Param.luxtts.NFft,
  Hop <- Param.luxtts.Hop, Modulus <- Param.luxtts.Prime,
  text <- v1, ref <- v2, speed <- v3, steps <- v4, remote <- v5, stage <- v6, tokens <- v7,
  cond <- v8, mel <- v9, hidden <- v10, orig <- v11, step <- v12, flat <- v13, wave <- v14

\* Chat and Codec, what reaches a user in pieces, with their proofs.
User == INSTANCE StreamProofs WITH
  Others <- Param.chat.Others, Readers <- Param.chat.Readers, Tui <- Param.chat.Tui,
  Widths <- Param.chat.Widths, MaxTurns <- Param.chat.MaxTurns, MaxTokens <- Param.chat.MaxTokens,
  MaxInput <- Param.chat.MaxInput,
  ui <- v1, tab <- v2, typed <- v3, cursor <- v4, turn <- v5, streaming <- v6, answer <- v7,
  reader <- v8, uich <- v9, up <- v10, lockq <- v11, holders <- v12, job <- v13, gen <- v14,
  cut <- v15, chan <- v16, open <- v17, sse <- v18,
  Ratios <- Param.codec.Ratios, Kernel <- Param.codec.Kernel, Depth <- Param.codec.Depth,
  Prime <- Param.codec.Prime, Latents <- Param.codec.Latents, MaxFrames <- Param.codec.MaxFrames,
  acoustic <- v1, semantic <- v2, latents <- v3, audio <- v4, features <- v5

Boot == INSTANCE Startup WITH
  WorkerSeq <- Param.startup.WorkerSeq, Master <- Param.startup.Master,
  NumLayers <- Param.startup.NumLayers, Archs <- Param.startup.Archs,
  Stems <- Param.startup.Stems, Files <- Param.startup.Files, Tflops <- Param.startup.Tflops,
  arch <- v1, stem <- v2, index <- v3, file <- v4, cmd <- v5, at <- v6, topo <- v7, loaded <- v8,
  placed <- v9

\* Flux, Weights and Speech, with their proofs.
Model == INSTANCE ModelProofs WITH
  Kinds <- Param.flux.Kinds, Sizes <- Param.flux.Sizes, MaxSeq <- Param.flux.MaxSeq,
  MaxClip <- Param.flux.MaxClip, MaxTokens <- Param.flux.MaxTokens,
  MaxSteps <- Param.flux.MaxSteps, Depth <- Param.flux.Depth,
  DepthSingle <- Param.flux.DepthSingle,
  kind <- v1, req <- v2, stage <- v3, held <- v4, txt <- v5, vec <- v6, img <- v7, step <- v8,
  picture <- v9, result <- v10,
  Formats <- Param.weights.Formats, Archs <- Param.weights.Archs,
  LayerSeq <- Param.weights.LayerSeq, Owners <- Param.weights.Owners,
  NumGpus <- Param.weights.NumGpus, Outs <- Param.weights.Outs, Ins <- Param.weights.Ins,
  Fit <- Param.weights.Fit, Levels <- Param.weights.Levels, GroupSize <- Param.weights.GroupSize,
  BlockSize <- Param.weights.BlockSize,
  format <- v1, arch <- v2, layout <- v3, indexed <- v4, owned <- v5, role <- v6, phase <- v7,
  served <- v8, todo <- v9, loaded <- v10,
  Versions <- Param.speech.Versions, Shardings <- Param.speech.Shardings,
  TextWindow <- Param.speech.TextWindow, SpeechWindow <- Param.speech.SpeechWindow,
  VoiceLen <- Param.speech.VoiceLen, MaxText <- Param.speech.MaxText,
  MaxFrames <- Param.speech.MaxFrames, MaxLoop <- Param.speech.MaxTokens,
  version <- v1, mode <- v2, text <- v3, cursor <- v4, left <- v5, cache <- v6, worker <- v7,
  at <- v8, last_hidden <- v9, pos_hidden <- v10, neg <- v11, conv <- v12, frames <- v13

\* Kernels, Experts and StableDiffusion, with their proofs.
Compute == INSTANCE ComputeProofs WITH
  Launches <- Param.kernels.Launches, Warps <- Param.kernels.Warps, Block <- Param.kernels.Block,
  Side <- Param.kernels.Side,
  launch <- v1, tgroup <- v2, pc <- v3, sum <- v4, shared <- v5,
  Blocks <- Param.experts.Blocks, Formats <- Param.experts.Formats,
  Dtypes <- Param.experts.Dtypes, Devices <- Param.experts.Devices,
  NumExperts <- Param.experts.NumExperts, TopK <- Param.experts.TopK,
  MaxTokens <- Param.experts.MaxTokens,
  block <- v1, format <- v2, stored <- v3, dtype <- v4, device <- v5, norm <- v6, provider <- v7,
  shards <- v8, index <- v9, cache <- v10, top <- v11, due <- v12, out <- v13, failed <- v14,
  Versions <- Param.sd.Versions, Bsizes <- Param.sd.Bsizes, MaxSteps <- Param.sd.MaxSteps,
  MaxSamples <- Param.sd.MaxSamples, Strength <- Param.sd.Strength,
  version <- v1, req <- v2, stage <- v3, emb <- v4, init <- v5, sample <- v6, step <- v7,
  latents <- v8, shown <- v9, result <- v10

\* Attention, GpuCache and ModelCache, with their proofs.
Caches == INSTANCE CachesProofs WITH
  Archs <- Param.attention.Archs, Chunked <- Param.attention.Chunked,
  NumLayers <- Param.attention.NumLayers, Period <- Param.attention.Period,
  MaxLen <- Param.attention.MaxLen, SlidingWindow <- Param.attention.SlidingWindow,
  Kernel <- Param.attention.Kernel, MaxPrompt <- Param.attention.MaxPrompt,
  MaxTurns <- Param.attention.MaxTurns,
  arch <- v1, kv <- v2, conv <- v3, rec <- v4, turn <- v5, pos <- v6, feed <- v7, block <- v8,
  ok <- v9, sees <- v10, taps <- v11,
  Addresses <- Param.gpu.Addresses, NumWeights <- Param.gpu.NumWeights, Halves <- Param.gpu.Halves,
  Fifo <- Param.gpu.Fifo,
  MaxTensors <- Param.gpu.MaxTensors, MaxViewed <- Param.gpu.MaxViewed,
  MaxBuffers <- Param.gpu.MaxBuffers,
  tensors <- v1, made <- v2, gpu <- v3, read <- v4, sat <- v5,
  RepoLayouts <- Param.cache.Layouts, Shards <- Param.cache.Shards, MaxRevs <- Param.cache.MaxRevs,
  MaxFaults <- Param.cache.MaxFaults,
  repo <- v1, rev <- v2, snaps <- v3, age <- v4, pc <- v5, dir <- v6, todo <- v7, smooth <- v8,
  result <- v9, faults <- v10

----------------------------------------------------------------------------
\* What the parts assume of their constants.
ASSUME PartsAssumption ==
  /\ Pipeline!ShardAssumption /\ Pipeline!ChunkAssumption /\ Pipeline!SetupAssumption
  /\ User!ChatAssumption
  /\ Compute!ExpertAssumption /\ Compute!SdAssumption
  /\ Model!FluxAssumption /\ Model!WeightsAssumption /\ Model!SpeechAssumption
  /\ User!CodecAssumption /\ Pipeline!LuxAssumption
  /\ Caches!CacheAssumption
  /\ Boot!StartAssumption
  /\ Compute!KernelAssumption
  /\ Caches!AttnAssumption /\ Caches!GpuAssumption

\* What a part has no use for.
Off18 == v18 = Off
Off17 == v17 = Off /\ Off18
Off16 == v16 = Off /\ Off17
Off15 == v15 = Off /\ Off16
Off14 == v14 = Off /\ Off15
Off13 == v13 = Off /\ Off14
Off12 == v12 = Off /\ Off13
Off11 == v11 = Off /\ Off12
Off10 == v10 = Off /\ Off11
Off9 == v9 = Off /\ Off10
Off8 == v8 = Off /\ Off9
Off7 == v7 = Off /\ Off8
Off6 == v6 = Off /\ Off7

Init ==
  /\ part \in Chosen
  /\ \/ part = "transfer" /\ Pipeline!Init /\ Off14
     \/ part = "chat" /\ User!Init
     \/ part = "attention" /\ Caches!AttnInit /\ Off12
     \/ part = "experts" /\ Compute!ExpertInit /\ Off15
     \/ part = "sd" /\ Compute!SdInit /\ Off11
     \/ part = "flux" /\ Model!Init /\ Off11
     \/ part = "speech" /\ Model!SpeechInit /\ Off14
     \/ part = "codec" /\ User!CodecInit /\ Off6
     \/ part = "luxtts" /\ Pipeline!LuxInit /\ Off15
     \/ part = "weights" /\ Model!WeightsInit /\ Off11
     \/ part = "cache" /\ Caches!CacheInit /\ Off11
     \/ part = "startup" /\ Boot!StartInit /\ Off10
     \/ part = "kernels" /\ Compute!KernelsInit /\ Off6
     \/ part = "gpu" /\ Caches!GpuInit /\ Off6

Rest6 == <<part, v6, v7, v8, v9, v10, v11, v12, v13, v14, v15, v16, v17, v18>>
Rest10 == <<part, v10, v11, v12, v13, v14, v15, v16, v17, v18>>
Rest11 == <<part, v11, v12, v13, v14, v15, v16, v17, v18>>
Rest12 == <<part, v12, v13, v14, v15, v16, v17, v18>>
Rest14 == <<part, v14, v15, v16, v17, v18>>
Rest15 == <<part, v15, v16, v17, v18>>

Next ==
  \/ part = "transfer" /\ Pipeline!Next /\ UNCHANGED Rest14
  \/ part = "chat" /\ User!Next /\ UNCHANGED part
  \/ part = "attention" /\ Caches!AttnNext /\ UNCHANGED Rest12
  \/ part = "experts" /\ Compute!ExpertNext /\ UNCHANGED Rest15
  \/ part = "sd" /\ Compute!SdNext /\ UNCHANGED Rest11
  \/ part = "flux" /\ Model!Next /\ UNCHANGED Rest11
  \/ part = "speech" /\ Model!SpeechNext /\ UNCHANGED Rest14
  \/ part = "codec" /\ User!CodecNext /\ UNCHANGED Rest6
  \/ part = "luxtts" /\ Pipeline!LuxNext /\ UNCHANGED Rest15
  \/ part = "weights" /\ Model!WeightsNext /\ UNCHANGED Rest11
  \/ part = "cache" /\ Caches!CacheNext /\ UNCHANGED Rest11
  \/ part = "startup" /\ Boot!StartNext /\ UNCHANGED Rest10
  \/ part = "kernels" /\ Compute!KernelsNext /\ UNCHANGED Rest6
  \/ part = "gpu" /\ Caches!GpuNext /\ UNCHANGED Rest6

Fairness ==
  /\ WF_vars(part = "transfer" /\ Pipeline!Steps /\ UNCHANGED Rest14)
  /\ WF_vars(part = "chat" /\ User!Steps /\ UNCHANGED part)

Spec == Init /\ [][Next]_vars /\ Fairness
----------------------------------------------------------------------------
\* The variables of every part have the type its module gives them.
PartsTypeOK ==
  /\ part = "transfer" => Pipeline!TypeOK
  /\ part = "chat" => User!TypeOK
  /\ part = "attention" => Caches!AttnTypeOK
  /\ part = "experts" => Compute!ExpertTypeOK
  /\ part = "sd" => Compute!SdTypeOK
  /\ part = "flux" => Model!TypeOK
  /\ part = "speech" => Model!SpeechTypeOK
  /\ part = "codec" => User!CodecTypeOK
  /\ part = "luxtts" => Pipeline!LuxTypeOK
  /\ part = "weights" => Model!WeightsTypeOK
  /\ part = "cache" => Caches!CacheTypeOK
  /\ part = "startup" => Boot!TypeOK
  /\ part = "kernels" => Compute!TypeOK
  /\ part = "gpu" => Caches!TypeOK

\* ModelTransfer: what has_valid_model_cache accepts holds the layers.
CacheSound == part = "transfer" => Pipeline!CacheSound

\* ModelTransfer: a completed transfer leaves all the layers of the assignment.
Delivered == [][part = "transfer" => Pipeline!Delivery]_vars

\* ModelTransfer: a setup that has begun ends.
SetupEnds ==
  (part = "transfer" /\ Pipeline!InSetup) ~> (part = "transfer" /\ Pipeline!SetupOver)

\* Chat: a message holds tokens of its own turn.
ChatPlaced == part = "chat" => User!Placed

\* Chat: answer and channels make up the text generated so far.
Whole == part = "chat" => User!Whole

\* Chat: the cursor stays in the line, and on its characters if they are one byte each.
CursorFits == part = "chat" => User!CursorFits

\* Chat: answers end, the lock comes free.
Answered ==
  /\ (part = "chat" /\ User!Streams) ~> (part = "chat" /\ ~User!Streams)
  /\ (part = "chat" /\ User!Fetches) ~> (part = "chat" /\ ~User!Fetches)
  /\ \A o \in Param.chat.Others \ {Param.chat.Tui} :
       (part = "chat" /\ User!Waits(o)) ~> (part = "chat" /\ User!Served(o))

\* Attention: a row is computed from its own and earlier tokens of its request, and a
\* pass fails only when it does not fit.
Attended == part = "attention" => Caches!Causal /\ Caches!FailsAtLimit

\* Experts: an output row mixes the right experts.
Mixed == part = "experts" => Compute!Mixed

\* StableDiffusion, Flux: what is shown was computed from the request.
Rendered ==
  /\ part = "sd" => Compute!Painted /\ Compute!Complete
  /\ part = "flux" => Model!Drawn

\* Flux: one large component is held at a time.
OneAtATime == part = "flux" => Model!OneAtATime

\* Speech: a frame of speech is sampled from what it should depend on.
Conditioned == part = "speech" => Model!Conditioned

\* Codec: streaming decodes and encodes without a seam.
Seamless == part = "codec" => User!Seamless

\* LuxTTS: every frame is computed from its own place and time.
Voiced == part = "luxtts" => Pipeline!Voiced

\* Weights: the layers hold the checkpoint's values.
Faithful == part = "weights" => Model!Faithful

\* ModelCache: a pull that meets no failure returns a complete snapshot.
Healed == part = "cache" => Caches!Healed

\* Startup: every layer is computed where it is loaded.
Started == part = "startup" => Boot!Placed

\* Startup: a file without layers leaves them to the master.
Decided == part = "startup" => Boot!MasterDecides

\* Kernels: a launch computes every element, from the right operands.
Computed == part = "kernels" => Compute!Computed

\* GpuCache: a dispatch reads what its operands hold.
Current == part = "gpu" => Caches!Current
=============================================================================
