# Cake: models, checks and proofs

Cake runs a model on several machines: a *master* keeps the embedding, the head
and some of the blocks; *workers* keep the others; for every token the hidden
state travels master → worker → master → worker … once through all blocks. This
directory holds TLA+ models of that system, the TLC runs that check them on
small instances and TLAPS proofs that hold for every instance. Source paths
below are relative to `src/cake-core/src/` unless they start with `cake-cli/`.

* [Inventory](#inventory) — the parts of the system and who models them
* [Plan](#plan) — the order of the work, and what is left
* The distributed core: [Inference](#inference), [Layer assignment](#layer-assignment),
  [Cluster setup](#cluster-setup), [Model transfer](#model-transfer), [Chat and API](#chat-and-api),
  [Start-up](#start-up)
* Models and storage: [Attention](#attention), [Experts](#experts), [Images](#images),
  [Speech](#speech), [Weights](#weights), [Model cache](#model-cache)
* Devices: [Kernels](#kernels), [Vulkan buffers](#vulkan-buffers)
* [Runs](#runs), [Bounds](#bounds), [Fairness](#fairness), [Proofs](#proofs),
  [Behaviour worth knowing](#behaviour-worth-knowing), [Not modelled](#not-modelled)

To repeat: `tlc -config components.cfg MCComponents`, and so on for the other
runs of the table below; `tlapm InferenceProofs.tla` and so on for the proofs.

## Inventory

| Part | State it keeps | What is hard | What makes it correct | Module |
|---|---|---|---|---|
| Master and generation loop (`cake/sharding/master.rs`, `models/common/text_model.rs`) | tokens, counters, history, own KV caches | counters kept in three places; any step may fail half way | each token computed from the whole prefix of its own request; nothing left over for the next | `Inference` |
| Client (`cake/sharding/client.rs`) | one TCP stream per remote block | no ids on messages, no timeout, no reconnection | the reply read belongs to the message sent | `Inference` |
| Worker (`cake/sharding/worker.rs`) | per connection: a KV cache and a task | an op failing inside a batch; dying; a second setup | a goodbye forgets everything; one reply per message | `Inference`, `ClusterSetup` |
| API (`cake/sharding/api/`) and chat client (`cake-cli/src/chat.rs`) | the lock, a token channel, the event stream, the reader's channel | three channels between two processes; detached task; users who leave | an answer is the text generated for it, whole; the lock comes free | `Chat`, `Inference` |
| Layer assignment (`cake/sharding/default.rs`) | — | rounding, caps, redistribution | one owner per layer, memory respected | `LayerAssignment` |
| Topology and start-up (`cake/sharding/topology.rs`, `cake/mod.rs`, `cake-cli/src/main.rs`) | node → layers | files, names and prefixes that differ between machines | a layer is sent where it was loaded | `Startup` |
| Cluster setup, authentication, discovery (`cake/sharding/mod.rs`, `worker.rs`, `auth.rs`, `discovery.rs`) | assignment, a task per worker, one connection per worker, datagrams | loss, retries, two masters, one of several workers failing | a cluster forms of workers that are ready, or not at all; nobody waits forever | `ClusterSetup`, `Formation` |
| Model transfer (`cake/sharding/mod.rs`) | files in the worker's cache directory | dying in the middle, truncation, a partial cache that looks valid | a cache accepted as valid is complete | `ModelTransfer` |
| Attention and KV cache (`models/common/`, `models/gemma3`, `exaone4`, `qwen3_5`) | keys, values, convolution and recurrent state per block | masks against trimmed caches, windows, three caches reset together | a row sees exactly its own prefix, or its window | `Attention` |
| Experts (`models/common/*_expert_provider.rs`, `models/qwen3_moe`, `qwen3_5_moe`, `utils/tensor_storage.rs`) | shards, cache of experts | byte offsets, four layouts, scatter by flattened index | an output mixes the chosen experts by its own weights | `Experts` |
| Image generators (`models/sd`, `models/flux`) | loaded components, latents, step | guidance pairs, position ids, components that do not fit together | a picture is what its prompt, seed and every step make | `StableDiffusion`, `Flux` |
| Speech (`models/vibevoice`, `models/luxtts`) | two or four streams of caches, codec caches | streams that advance at different points, seams between chunks, index shifts | a frame depends on the right context; streaming equals batch | `Speech`, `Codec`, `LuxTTS` |
| Weights (`utils/split.rs`, `utils/mod.rs`, `gptq.rs`, `fp8.rs`, `gguf.rs`) | shards, index, loaded tensors | prefixes, packed words, groups, names that collide | what is loaded is what was stored | `Weights` |
| Model cache (`utils/hf.rs`, `utils/models.rs`) | snapshots on disk | interrupted pulls and removals, new revisions | a pull heals what earlier ones left | `ModelCache` |
| Kernels (`backends/cuda`, `metal`, `vulkan`) | shared memory of a workgroup | barriers, tiles and tails, strides | every element once, from the right operands | `Kernels` |
| Vulkan buffers (`backends/vulkan/mod.rs`) | a pool and four caches | reuse of ids and addresses | a dispatch reads what its operands hold | `GpuCache` |
| Wire protocol (`cake/sharding/proto/`) | — | partial reads | round trip | messages only |
| Mobile apps (`cake-mobile`) | — | — | — | not modelled |

How they interact: `main` decides what a process is (`Startup`). A master
without a topology file discovers workers, assigns layers (`LayerAssignment`)
and sets the workers up (`ClusterSetup`), which includes sending them model data
(`ModelTransfer`) that it may first have downloaded (`ModelCache`). Both sides
load weights (`Weights`). The API serves requests under one lock (`Chat`); a
request runs through local blocks and clients (`Inference`), blocks compute
attention and experts (`Attention`, `Experts`) on a backend (`Kernels`,
`GpuCache`). Images and speech use the same lock and transport with their own
pipelines. The models are joined where the properties are about several parts:
`Inference` has handler, master, clients, workers and caches in one module;
`ClusterSetup` discovery, authentication, masters and workers; `Chat` server and
client; `Startup` command line, topology, workers and master. The other parts
share no state: `Components` puts them side by side, one run checks them, and
`ComponentsProofs` carries what is proved of each over to the whole.

`PROJECT.json` lists the parts with their status, and under `hazards` the places
in the code where something can go wrong that a test would hardly reach.

## Plan

The order was: inference and its abstract specification `Generation`; layer
assignment; setup and transfer; API and chat; what one block keeps between
passes; the pipelines of images and speech; storage; devices. All are done to
the extent the sections below say. Left for later:

* composing `Startup` and `ClusterSetup` with `Inference`, so that `Owner` is a
  variable and not a constant;
* the framing of messages, to model handlers dropped inside a frame;
* a proof of `PartsTypeOK`, the one invariant of a run that has none (see
  [Proofs](#proofs)).

## Inference

`Inference.tla` is the whole path of a chat request. State and actions:

| Model | Code |
|---|---|
| `phase` | where `generate_text_blocking` is: waiting for the lock, in the loop of `Master::generate_text`, in `forward` between blocks, awaiting a reply, in `goodbye` |
| `dialog`, `tokens`, `promptLen`, `generated`, `indexPos` | chat history and the fields of `TextModelBase` |
| `index`, `sampleLen`, `genOk` | the loop of `generate_text` and its result |
| `cache`, `kv` | `Cache` of the master, and of every worker task |
| `up`, `toWorker`, `toMaster` | the TCP connection of the `Client` of a remote block |
| `task` | the batch `handle_master_client` is executing |
| `answers` | history, not in the code: what the callers were given |
| `Begin` | lock taken, `Master::reset`, history set |
| `NextToken`, `EncodeFails` | start of `next_token`, with `prepare_prompt` |
| `LocalBlock`, `SendBatch`, `RecvTensor` and the failures beside them | iterations of `forward` |
| `Sample`, `SampleFails` | the end of `next_token` |
| `GoodbyeLocal`, `GoodbyeSend`, `GoodbyeAck`, `GoodbyeFails`, `GoodbyeDone` | `TextModelBase::goodbye`, and the handler returning |
| `TakeBatch`, `RunOp`, `FailOp`, `SendResult`, `HandleGoodbye` | the message loop of a worker task |
| `Crash`, `ConnLost`, `Cancel` | a worker process dies, a connection breaks, a non-streaming handler is dropped at an await |

**Data.** A hidden state is known by what it is the hidden state *of*: request,
position, number of tokens, and how many blocks have been applied. A KV cache is
known by the request whose first `len` tokens it holds. Whatever the code would
compute from a wrong combination is `Garbage`, respectively `Mixed`. The program
itself cannot notice; `SoundLogits` says it never comes to that. A batch is
executed op by op, so a crash or an error between two ops leaves the caches of
the blocks of one worker different from each other, as it does in the code.

**Connections.** The master opens one connection per remote block, but `forward`
sends a run of neighbouring blocks with the same owner over the connection of
its first block; the caches behind the others stay empty. `goodbye`, however,
goes over every connection. The master never reconnects a `Client`: once a
connection is broken it stays broken.

**Abstract specification.** `Generation.tla` is what a caller is promised: one
process, requests one at a time, each token computed from all tokens before it,
a request successful only when it ran to its limit or to an end-of-stream token,
a failed one leaving no trace. `SingleProcess` says `Inference` implements it
under `busy <- phase # "idle"`, `limit <- sampleLen`, `stream <- tokens`. Tokens
of a failed request are kept in `answers` only as history: the handler answers
with the error.

**Fairness.** `FairSpec` and `FairLossySpec` assume that the runtime keeps
polling the handler (after it has the lock) and each worker task, and that the
read of a closed connection returns: an established connection never stays
silent forever while its peer is alive, and a dead peer is reported. The code
has no read timeout, so without the last assumption nothing could be promised;
this is listed as a hazard. Nothing is assumed of arrivals or failures.

**Invariant.** `InferenceInv.tla` strengthens the safety properties to an
inductive invariant. Exactly one message is outstanding, and it is where the
master waits (`Quiet`, `WaitInv`, `ByeInv`); the counters agree (`GenInv`,
`PassInv`); caches below the pass's frontier hold one token more than those
above it (`LocalKv`, `RemoteKv`). The difficulty is `RemoteKv`: a `goodbye` that
stops at a dead worker leaves an old request's keys and values in the workers
behind it. They are harmless because a pass never crosses a dead worker either,
which is what `Blocked` says and `SharedFate` (all connections of a process
break together) is needed for. When single connections can break, the argument
fails, and so does the property: see the run `stale`.

## Layer assignment

`LayerAssignment.tla` is `DefaultStrategy::assign_layers` with one action per
loop iteration: `Plan` and `Assign` for the proportional split, `PlanHalf` and
`HalfStep` when no compute power is known, `Push` for the redistribution of what
the master cannot hold. Quotients rounded in `f64` are exact quotients rounded
either way on a tie; TFLOPS are small integers; memory is counted in layers.
What a worker can hold is an input (`max_layers_for_gpus` computes it from GPU
data); a worker without GPU data has neither power nor limit, which `Init` says.
The result is the map from blocks to owners that `Inference` takes as `Owner`:
`Partition` is why that is a function. `Owner` need not be contiguous, as the
run `contiguous` shows, which is why `lossy` has a placement that is not.

## Cluster setup

`ClusterSetup.tla` is a zero-config cluster from the first query to the first
inference connection: several masters (each one run of a master process), worker
processes that start, die and start again.

| Model | Code |
|---|---|
| `mphase`, `task`, `asg`, `tries` | where `run_as_master` is, the tasks `master_setup` spawns, their assignments and attempts |
| `air`, `found`, `adv` | discovery datagrams, the workers collected, the listener thread |
| `proc`, `backlog`, `end`, `blocks` | the worker process, its accept queue, its end of each connection, its layers |
| `toW`, `toM` | messages under way |
| `by`, `pledged` | history: who set a worker up, who declared itself ready to whom |
| `MQuery`, `WAnswer`, `WSilent`, `MFind` | `discover_workers`, `advertise_worker`, `DiscoveryListener::drop` |
| `MAssign`, `MConnect`, `MRefused`, `MAuth`, `MAckNeeds`, `MAckCached`, `MPush`, `MReady`, `MTaskErr` | `master_setup` and its tasks, `authenticate_as_master` |
| `MTopology`, `MAbort`, `MServe`, `MInfo` | the awaited handles, `Context::from_args`, `Client::new` |
| `WStart`, `WAccept`, `WAssignNeeds`, `WAssignCached`, `WData`, `WSetupErr`, `WLoad` | `worker_setup`, `Worker::new` |
| `WReassign`, `WHello`, `WHandlerEnds` | `Worker::run` and the handler of a serving worker |
| `MCrash`, `WCrash` | a process dies |

A datagram that was sent may arrive at any time, any number of times or never.
HMAC is ideal, so the handshake is its messages and their failures. A dead peer
is noticed as a closed connection after the messages it sent. The transfer is
one message (`ModelTransfer` has it chunk by chunk).

`Formation.tla` is what `master_setup` promises: a cluster is formed of all the
workers that were given layers, each of which has declared itself ready *to this
master*, or not at all. `Formed` says that `ClusterSetup` implements it.
`Routed` is the other half: a connection on which a serving master sends layers
leads to a worker that holds them, unless another master set that worker up.

## Model transfer

`ModelTransfer.tla` is one worker machine's cache directories (named by the hash
of `config.json`, so by the model) and the setup connections that fill them, one
after the other, by masters that come with different models and layers. `disk`
holds the chunks of each file, `covers` the layers the index file refers to,
`wire` the chunks in the connection. `Assign` is `worker_setup` from the
`LayerAssignment` on, with `has_valid_model_cache`; `PushChunk` and `PushDone`
are `push_model_data`; `ReceiveChunk`, `WriteFails` and `ReceiveDone` are
`receive_model_data`, where a file is created anew when its name differs from
the current one and appended to otherwise; `Break` and `Die` end the connection
or the worker between any two chunks. `dirty` is the history of directories a
transfer was cut short in: for those `has_valid_model_cache` may be wrong (it
looks for names, not sizes), and `CacheSound` says that for all others it never
is, whatever sequence of models, shards and layers went before. `Delivered` says
that a transfer that completes repairs whatever broken ones left.

## Chat and API

`Chat.tla` puts the terminal chat (`cake-cli/src/chat.rs`) in front of the API
(`cake/sharding/api`). `lockq` and `holders` are the fair `RwLock` all handlers
queue for; `job` is where each handler is; `gen`, `chan`, `open` the detached
task of a streaming handler and its token channel; `sse` the event stream;
`reader`, `uich` the chat's reader thread and its channel; `ui`, `typed`,
`cursor`, `turn`, `streaming`, `answer` the event loop. `Enter`, `Post`,
`ReadEvent`, `Receive` follow an answer on the client's side, `Acquire`, `Token`,
`EmptyToken`, `GenerationEnds`, `Goodbye`, `Emit` on the server's. `Others` are
other clients: blocking completions, images and audio hold the lock
exclusively, look-ups share it; their handlers may be dropped (`Dropped`), and
the server may die. A token whose text is empty ends the stream but not the
generation (`cut`); what comes after it is not part of the answer, which `Text`
says.

## Start-up

`Startup.tla` follows every machine from its command line to where it serves or
fails: `Role`, `Refuse`, `Discover` (`cake-cli/src/main.rs`), `Setup` (zero-config,
with `Share` for the proportional split), `Context` (`Context::from_args`:
topology file, ranges, automatic assignment), `StartWorker` (`Worker::new`,
`NodeOf`), `LoadLocal` and `Connect` (`TextModelBase::load`). Layer names carry
the prefix of the checkpoint, of the configuration or of the assignment, which
need not agree. `Placed` says that a master that serves sends each layer to a
machine that has loaded it.

## Attention

`Attention.tla` has the blocks of the text models with their state between
forward passes: `kv`, `conv` and `rec` per layer. `Layouts` gives each
architecture its layers as the configurations and `block.rs` files do. `Feed` is
a call with some tokens, `Attend`, `Overrun` and `Recur` are one layer each,
`Reset` is `Cache::clear` at the next request, whatever state the last one was
left in. A key is known by its token, a row by the tokens its mask lets through.
`Causal` compares each row with the tokens it should see: all before it, or in a
sliding-window layer exactly the window, except in the first call, which nothing
cuts to the window (`cache.rs:192`).

## Experts

`Experts.tla` has both MoE blocks. A shard is a sequence of cells behind a
header; `Slice`, `TensorBytes`, `GptqWeight`, `AffineWeight`, `StackedWeight` and
`PlainWeight` are the ways `DiskExpertProvider` finds an expert in it,
`GetExpert` adds its cache, `Own` is the resident providers. `Begin`, `Batched`,
`Direct`, `Dispatch` and `Return` are the paths through the pass. `Mixed` says
that all of them give a token the same sum.

## Images

`StableDiffusion.tla`: `Generate`, `Embed`, `EncodeImage`, `Begin`, `Denoise`,
`Final`. A latent image is known by what it started from and the steps made on
it, a noise prediction by the latent and the prompt it was made for, so that
`Painted` notices a swapped pair of guidance, a step made twice or left out, or a
picture of another sample. `Complete` says what a request returns and when it
may fail. Calls to a component go through packed tensors, local or not.

`Flux.tla` has both FLUX generators: `Generate`, `LoadEncoder` … `Decode`, each of
which may fail. `held` is what is loaded: `OneAtATime`. `Drawn` follows every
pixel's latent back to the patch, the position it was rotated with, what it
attended to and the schedule.

## Speech

`Speech.tla` has both VibeVoice models: streams of KV caches with their
positions, the windows of the streaming model (`ReadText`, `SpeakInWindow`,
`EndWindow`, `SpeakOn`) and the token loop of the other (`Prefill`,
`StartOfSpeech`, `Speak`, `EndOfSpeech`). A hidden state is the entries that were
in the cache; `Conditioned` says what each frame depends on.

`Codec.tla` has the streaming convolutions of encoder and decoder with their
slots, as arithmetic modulo a prime with distinct weights; `Seamless` compares
them with the batch definitions. Both networks are sequences of layers (`Network`)
that `Batch` and `Streamed` run through; one has the state of the slots, the other
the padding.

`LuxTTS.tla` is one utterance from text to samples in the same way; `Voiced`
compares the packed, downsampled and shifted computation of the code with the
decoder written directly (`Velocity`). The loops of the phonemizer, which skip what they have
used, are scans (`Scan`): `Cuts` looks at the places `rules_fallback` slices its word
at, and at no others.

## Weights

`Weights.tla`: any cut of a checkpoint into shards, `cake split`, the shards each
role or GPU opens (`Opened`), the names a var builder answers, and dequantization
(`Fp8`, `Gptq`, `Affine`) of words packed by `Pack` and read back by the code's
shifts. What the quantizer stores of a matrix is `Tensor`; a dequantizer looks only
at what is stored. `Faithful` compares every loaded matrix with the quantizer's numbers.
`Selection.tla` has the members of a sequence that are in a set, for this module and
`Speech`.

## Model cache

`ModelCache.tla`: `Pull` with `Optional`, `Index`, `Single`, `ListFiles`, `Shard`
for the downloads, `FindModel` and `RemoveFile`, a repository that publishes
revisions, failures and deaths between any two files. `age` orders the snapshot
directories by their last change, which decides between complete ones. `hf-hub` is external: it
moves a file into the snapshot only when it is whole. `Healed`: a pull in which
nothing failed returns a complete snapshot, whatever was left behind.

## Kernels

`Kernels.tla` has, for each kernel of the three GPU backends, which thread writes
which element (`Covered`), which operands it reads (`Agrees`, against the CPU
backend), and how SIMD groups reduce through shared memory, step by step between
barriers (`RowWide`). One column stands for the 32 a group reads at once.

## Vulkan buffers

`GpuCache.tla`: tensors with ids and heap addresses that are reused, the pool of
output buffers, the activation cache of the last outputs, the weight caches by
id and by address. `Compute`, `Operation`, `PreprocessWeight`, `Transpose` and
`Drop` are what models do with tensors; `GetOrUpload` is the look-up. `Current`:
what a dispatch reads is what its operands hold, and no buffer is both free and
cached.

## Runs

| Run | Question | Result |
|---|---|---|
| `crash` | workers die as processes and ops fail, at any point: are tokens sound, caches equal, replies matched, requests separate, and is the single-process promise kept? | holds |
| `lossy` | single connections break too, and a worker is visited twice per pass, over two connections with a cache each: is every request answered, do replies match, are the reachable workers clean? | holds |
| `stale` | …and does a prompt always start on empty caches ("make sure we start clean")? | violated |
| `cancel` | a non-streaming handler is dropped: is the next reply still our own? | violated |
| `layers` | `assign_layers`: one owner per layer, limits respected, proportional, master relieved | holds |
| `full` | are all workers full when layers are reported as unassignable? | violated |
| `contiguous` | are assignments contiguous ranges? | violated |
| `setup` | two masters, two workers, restarts and a death: one session per worker, `Routed`, `Formed`, and does every setup end? | holds |
| `components` | the properties of the fourteen other models | hold |
| `kernels_race` | Metal's fused attention over two positions and two SIMD groups: does every group use the whole row's sum? | violated |
| `uneven` | a topology file without layers: does a worker load what the master decided? | violated |
| `gpu_stale` | views of activations: does a dispatch read what its operands hold? | violated |

The seven violations are the `findings` of `PROJECT.json`, each with the line it
contradicts. `stale` needs a worker with two neighbouring blocks whose second,
otherwise unused, connection breaks: requests go on being served, but `goodbye`
stops there. `cancel` needs only that the HTTP client of a blocking request
disconnects while a worker is computing. `kernels_race` needs a SIMD group that
is one loop iteration ahead. `gpu_stale` needs an allocator that reuses an
address, and FLUX.2's fused feed-forward. `uneven` needs a master whose GPU is slower
than a worker's: both distribute the layers, each as if it were the master
(`cake/mod.rs:197`), and the master serves with a worker that has not loaded what it
will be sent: `Started` fails on this instance too.

`components` runs `Components.tla` with the constants of `MCComponents.tla`: one record,
`Param`, has those of every part. The parts run one at a time: `part` is chosen in the
initial state, and the parts take turns in the variables `v1` … `v18`, since they share
no state and would only multiply each other's. Its properties are named after those of
the modules: `Attended` is `Causal` and `FailsAtLimit` of `Attention`; `Mixed` of
`Experts`; `Rendered` is `Painted` and `Complete` of `StableDiffusion` and `Drawn` of
`Flux`; `Started` and `Decided` are `Placed` and `MasterDecides` of `Startup`; the
others have their names.

## Bounds

*Inference.* `N = 4` blocks and two workers are enough for a local block, a run
of two blocks (hence an idle second connection) and a worker behind another one;
a fifth block in `SplitOwner` puts one worker around another. That tokens are sound and
caches agree is proved for every such placement. `MaxReq = 2` requests, since every
property relates a request to the one before it. `PromptLens = {2}`: a prompt
differs from a single token. `SampleLens = {0, 1, 3}`: no token, the prompt's
only, and two incremental steps. Failures are not bounded: a process or a
connection fails at most once anyway.

*Layers.* Three workers make first, middle and last, powers and limits include 0,
equal and unequal ones and unlimited, and up to nine layers are fewer, as many
and more than there are workers, and enough for rounding errors to add up.
`Proportional` says that every share is within one layer of its exact part, about
the shares before the redistribution and while no memory limit bites; the weaker
bound for more than three workers is proved only.

*Setup.* Two masters with different plans that both want one worker; two
workers, so that one fails while the other goes on; two starts per worker and one
death are enough for a worker that forgot its first setup; two connection
attempts for a retry.

*Components.* Transfer: three setups, so that a good one follows a broken one that
follows a good one; a sharded and a single-file model; a layer in one shard and one in
two. Chat: two turns of two tokens, another client that works and one that reads,
characters of one byte and of two; nothing is typed after the last turn. Attention: four
layers make two periods, seven positions exceed the window of three and reach the limit.
Experts: three experts, two chosen, so that one is idle; blocks on the GPU, where a
weight left on the CPU is told apart. Images: three steps, no sample to two; batches of
one picture and of three with guidance, of none and of two without, and of none to two
where the version decides; a size that is a
multiple of the patch and one that is not. Speech: windows of two, a text and a length
that end inside a window; the layers on the master and on a worker. Codec: two stages
with different strides and four frames. LuxTTS: stacks of one and two layers at rates
one and two, odd lengths, no block on a worker and one in the middle. Weights: layers
`1` and `10` (a prefix that is none) and a worker with two GPUs that owns none, one or
both of them, words of two values, groups smaller than a row, llama and Gemma 3. Cache:
two revisions and two faults. Kernels: sizes around each tile and workgroup, rows wider
than a workgroup, two passes, strided operands. Buffers: five tensors at three
addresses, an activation cache of one, four buffers, views of the first three tensors:
enough for a weight, an operand that is dropped, and an operation on another one at its
address, and for an F16 weight whose copy's address gets an activation and a view of it.
A view that finds what one of an activation left needs a sixth tensor; run `gpu_stale`
has it.

`CHECK_DEADLOCK` is on for inference, layers and setup, where `AllServed`,
`Returned` and `Settled` are the states with nothing left to do. The parts of
`components` run out of steps in many ways that are no deadlock (a request is
served, a process has exited); what must not stay waiting there is stated by
`SetupEnds` and `Answered`.

## Fairness

`FairSpec` and `FairLossySpec` of `Inference` assume that the runtime keeps
polling the handler and each worker task, and that the read of a closed
connection returns. `ClusterSetup`, `ModelTransfer` and `Chat` assume of their
`Steps` (what runs by itself: tasks, accept loops, handlers, the reader thread and
the event loop) that some goes on while one can; this is weaker than fairness to
each, and enough because nothing in them can go on forever. Nothing is assumed of
users, other clients, datagrams or failures. The code has no read timeout, so a
peer that is gone without a closed connection would wait forever: the models
assume that a dead peer is reported, and the hazard is listed.

## Proofs

All proofs are complete. They assume only the named ASSUMEs: at least one block, `Owner`
a function from blocks to workers or the master, prompts of at least one token; for
layers, natural numbers and a limit `Unlimited` above every number of layers; for the
setup, nothing. For the parts of `Components` the assumptions are hypotheses of the
theorems, and `PartsAssumption` of `Components` states them of the constants of every
instance, so that TLC evaluates them: every layer has a shard and the shards have names
of their own (transfer, model cache), at least one revision, and for attention positive
sizes, EXAONE 4 with local layers too, and chunked feeding only of architectures with
plain layers; for kernels, launches of the ranks in `Shaped`; for the pictures a
positive number of steps, and a transformer with a double block; for the codec a ratio
above 1; for LuxTTS stacks with a layer or more at a rate of 1 or more, an odd kernel,
and a window longer than the hop by an even number; for weights, layers named by their
digits, and words that hold values of one row and one group only. No bound of the runs
is used, in particular not `MaxReq`, `N`, `Window`, `MaxSetups`, `MaxTurns` or the
number of masters, machines or tensors.

| Module | Theorems | Argument |
|---|---|---|
| `InferenceProofs` | `Typing`, `TypingLossy`, `TypingCancel`; `Inductive`: `Spec => []IInv` and its consequences `SoundLogitsAlways`, `KvAgreesAlways`, `ReplyPairedAlways`, `CleanHandoverAlways`, `StartsCleanAlways`; `Implements`; `LossyInductive`, `ReplyPairedLossy`, `CleanHandoverLossy` | one lemma per action and, under it, one step per conjunct it can disturb; `Implements` maps `Begin`, `Sample` and the two ends of `goodbye` to `Begin`, `Emit` and `Finish`, all other steps to stuttering |
| `SetupProofs` | `AssignmentInvariant`, `OneOwner`, `NeverOverfull`, `MasterRelievedAlways`, `ProportionalAlways` (LayerAssignment) | `Giving`: handing out the next `count` layers keeps the partition and adds `count` to one share; the error of each rounding, below; the rest is counting |
| `SetupProofs` | `SetupSafe`, `RoutedSafe`, `SetupForms` (ClusterSetup) | the cell invariant below; `SetupForms` maps the states to `Formation`'s and takes each action to a step of it or a stutter |
| `PipelineProofs` | `CacheSafe`, `DeliveredWhole` (ModelTransfer); for LuxTTS, whose theorem is `VoicedAlways`, the invariant and its steps | the stream invariant; what each operation makes of a signal of n frames, and where in the stacks a step has come; below |
| `StreamProofs` | `MessagesPlaced`, `NothingLost`, `CursorInLine` (Chat); for Codec, whose theorem is `SeamlessAlways`, the invariant and its steps | what is in each of three channels; every layer goes on where its slot says it stopped; below |
| `CachesProofs` | `BuffersCurrent`, `RowsCausal`, `PullHeals` | a buffer is in one place; a cache is the end of the prefix; where a pull stands tells what is in the snapshot; below |
| `ComputeProofs` | `KernelsCompute`, `ExpertsMix`, `PicturesPainted` | quotients and remainders of indices, and the barriers that keep the groups of a workgroup in step; where an expert is in a file, and what a path has added so far; what a packed tensor unpacks to, and what a latent image has been through; below |
| `ModelProofs` | `PictureDrawn` (Flux), `WeightsFaithful` (Weights), `SpeechConditioned` (Speech) | what the rows of the transformer are after some of its blocks, and what a patch has been through; what is packed comes out, and who opens which shards; what a conversation has heard; below |
| `ComponentsProofs` | `CacheSoundAlways`, `DeliveredAlways`, `HealedAlways`, `ChatPlacedAlways`, `WholeAlways`, `CursorFitsAlways`, `AttendedAlways`, `CurrentAlways`, `ComputedAlways`, `MixedAlways`, `RenderedAlways`, `FaithfulAlways`, `ConditionedAlways`, `SeamlessAlways`, `VoicedAlways`, `OneAtATimeAlways`, `StartedAlways`, `DecidedAlways` | the step lemmas of the parts, carried over; start-up and what FLUX holds in memory are proved here |

**Inference.** `IInv` is the invariant described under [Inference](#inference).
It does not survive single connections breaking: a worker that lives on keeps
caches the master can no longer reach, so nothing can be said of them, and
`StartsClean` is false (run `stale`). `LossyInv` is what remains: nothing is under
way while the master is elsewhere (`Quiet`); while it waits, its batch is running, on
the way, answered or lost with its connection (`OneBatch`); and a `goodbye` leaves
behind it only empty caches where it could pass (`ByeInv`, `LeavingKv`). That is
enough for `ReplyPaired` and `CleanHandover`.

**Layers.** `Proportional` compares the shares at the end with exact parts; `Rounds`
is what holds before. If the layers that are left are `e` away from the part of the
workers to come, a round that rounds with error `d` leaves the worker's share and the
rest at averages of `d` and `e` (`OneRound`, `Average`), so the errors add up at most.
Rounding is half a layer off, and a whole one where the minimum of one layer per
worker applies; then, with up to three workers, the layers are used up (`RoundFits`),
which is why their errors stay within one layer. Powers add up in the order of the workers
(`Power` is a recursive function; `PowerWithout` takes one worker out of the sum).

**Setup.** None of the properties is inductive: that a serving master's worker
is pledged to it follows from which messages can be under way. The invariant
looks at one master and one worker at a time. `Cell` lists, for each state of
the master's task, the states the worker's end can be in with the messages then
under way in both directions; a step changes one cell, so a proof per action and
task state is enough, and the crash of either side is one more row (the end is
`none` and what was sent may still be read). `Ends`, `Queued` and `OneSession`
tie the cells of one worker together, for its process can serve several masters
once it serves, but sets itself up with one; `Origin` says where its blocks come
from, which makes `Routed` a consequence.

**Transfer.** What is in the connection is a piece of a stream of files. The
invariant says there are numbers for the chunks under way such that within the
piece they count on and a file begins when the one before is over (`Stream`),
the first goes on where the receiver's file ends (`Reading`) and the last where
the sender is (`Writing`). Then a file that was sent and is not under way has
arrived (`Arrived`), and when `ModelDataDone` is read nothing is under way, so
all of them have. A stale file of an earlier transfer does no harm because a
chunk numbered one is always of another file than `current_file`, which is why
it is truncated. `CacheSound` needs in addition that a sharded model's directory
never holds `model.safetensors` (`NoSingle`), for has_valid_model_cache would
take it for the whole model.

**Model cache.** `Underway` has a line for each place in the pull. That a
complete newest snapshot exists where `find_cached_model` finds any is the
well-foundedness of the natural numbers.

**Chat.** An answer's text is spread over the server's token channel, the
response body, the reader thread's channel and the message on the screen. `Flow`
says that these, put one after the other, are the tokens of the turn up to some
goal, all of them while the server lives; `Ended` where the end marker is, given
who has stopped reading or writing. `Streaming` has the three ways a turn under
way can be: not posted, refused, or posted with such a chain; when none is, no
reader thread is left, although nothing joins it, because the event loop leaves
`streaming` only on what that thread sends last. `Begun` and `Queued` say that a
request not posted has left nothing anywhere and that the lock's queue holds a
handler once. Of the cursor (`CursorInLine`): it is the number of keystrokes, and a line of
n characters has at least n bytes, so it stays in the line; only with one byte each are
the two equal.

**Start-up.** The layers a serving master sends and the layers a worker has loaded
come from files that different processes read at different times. `BootHolds`
says what follows from the stage a process is in: whose workers the master's
topology names (`Sends`), that whoever opened a topology file has the same
topology and a worker that was set up its part of the master's (`Topology`), what
a worker has loaded (`Holds`) and the master keeps (`Local`). The hypothesis
`Even` says that the file lists some layer, or that all machines are equally
fast; run `uneven` shows what happens without it.

**FLUX.** `FxHolds` is the list of the stages with what is loaded in each, for both
variants; a failure in any of them frees everything. For the picture, `After` says what
the transformer's rows are after `b` blocks of either kind: each is itself, rotated with
its own position, and has seen every row. `OneBlock` adds a block, and an induction over
the blocks of each kind (`DoublesIs`, `SinglesIs`), which are recursive functions, takes the
text and the image apart and puts them together again (`Halved`). `DrawInv` says that every patch
has made the first `step` moves along the schedule (`Denoised`); `SigmaIs` that these moves
join pure noise and none; `PatchAt` that the decoder finds a patch's four latents at
its place. `FluxAssumption` asks for at least one double block.

**Stable Diffusion.** The networks get what `pack_tensors` made of their inputs.
`UnpackIs`: whatever was packed, `unpack_tensors` gives back, for any number of tensors
whose data fills their dims (`Sound`). Where a tensor begins is computed from those
before it, so this goes by induction over them (`JoinedReads`). `PredictionIs` is then
one call of the UNet: it runs if the latents are as many as the embeddings, and the
halves of its answer are the two guesses for each latent image, under the prompts that
`repeat` has left in the two rows (`Met`). `PaintInv` says what has been shown so far
(`Gallery`: in order, each once, at exactly the moments that are past) and that a latent
image has made the steps before `step` (`Denoising`).

**Vulkan buffers.** A look-up is right if a cached buffer holds what its key
says (`Sound`) and the key is not reused. Ids are not, addresses are, so the views
need that the weight under an address lives as long as the entry. A buffer is in
one place (`Apart`): in one cache entry, in the pool, or held by the dispatch; this is
what makes evicting an activation safe while another entry is in use. A view of an
activation, which FLUX.2 makes, and an F16 weight, the default type, break the condition: the
entry outlives the storage. What remains, and is proved with both, is that such a
read gets what a view at this address holds or once held (`sat`, the storages that sat
there), in the same layout; run `gpu_stale` shows that it need not be what it holds
now.

**Attention.** `AttnHolds` says of every layer that has run in this pass, and of
those that have not, how many tokens they have taken in (`Taken`), that the keys
and values are the end of that many first tokens of the request, as long as the
kind of layer keeps (`KvHolds`), and that the convolution state and the recurrent state are
those of the same prefix (`RecHolds`). The masks are then arithmetic: `Row` looks
at the cache by index from its end, and the window of a row lies in what is kept.

**Kernels.** `KernelAssumption` asks for positive sizes of workgroups, an even `Side`,
and that a launch has the rank its kernel wants, with some output and an even head
dimension to rotate. Nothing is asked of the width of rows or of strides: where the
kernels go wrong, `Computed` says how. `PointwiseAgrees` is an equivalence: of
strided operands Metal's kernels read the first row as the CPU does and no
other. `Summed` says that a row that fits (`RowFits`) is scaled by its whole
sum, and any other by one of the sums in `Sums`: none, parts of the row with slots nobody
wrote, or what the groups that are a pass ahead have left there.
`Covered` and `Agrees` are arithmetic: an index built from a group, a thread and
a place in it is taken apart again by quotient and remainder (`Quotients`, `Tiled`),
and the tile of a GEMM thread has the rows and columns that this gives for its
element. `RowWide` needs an invariant. `InStep` says that no SIMD group is past a
barrier another has not come to; `SlotsHold` whose sum a slot of the shared array
holds: the one its group put there in this pass, which stays until the group puts the next,
and in slot 0 the total from the moment the first group has added it up;
`SumsHold` that a group comes to the last step of a pass with the sum of the
row. The passes of one array do not meet: there is one pass, or one group,
or (Metal's softmax) an array for each.

**Experts.** A file is the tensors' bytes one after the other, and the header of
its shard says where each begins: that a slice read there is the tensor
(`ShardAt`, `SliceIs`) is shown for the file built so far, by induction on the number of
tensors in it. The induction is a lemma about a set of numbers (`AllNumbers`, from the
least number outside it), which needs no operator for a parameter; the same lemma gives
what `FlattenSeq` returns (`FlattenIs`, `FlattenEven`). `ReadsOwn` puts them together
for the formats: an expert is read with its own scales, from its own place. For the
passes `Filled` says that the cache of a disk provider holds, under an expert's
number, that expert, and `OnPath` what has been added to the rows when a loop is at its
`n`-th expert: for each token, the shares of its chosen experts among the first `n`
(batched and dispatched) or its first `n` choices (one token).

**Weights.** A word is read back by dividing it `k` times, and was built from its last
value to its first: the remainder left after `k` divisions is the word of the values
from `k` on (`UnpackIs`), so `Unpacked` holds for any number of values of any number of
levels. A dequantizer applied to what is stored is then the checkpoint's matrix
(`GptqContent`, `AffineContent`, `Fp8Content`): rows, groups and blocks are quotients, and
no word is in two groups because a group is a whole number of words (`SameGroup`).
`WithinIs` says that the prefix test with its dot finds the tensors of exactly the
layers it is given, so that layer `1` does not bring those of `10`. `LayersOnAre` adds
up the GPUs: each layer of the worker is on exactly one. `WInv` has what a role needs
on disk, in the shards that its GPUs opened (`Supplied`), and keeps what is loaded
and what is still to load together equal to the layers of the role. A node that fails
(`Faithful` lists when) is a worker that wants a GGUF file on several GPUs (`Stranded`), has an
fp8 checkpoint without whole blocks, over which the reshape of
`dequantize_fp8_blockwise` fails, or a GGUF file of Gemma 3, in which no tensor gets the
name of the norm before the feed-forward (`Unloadable`).

**Speech.** `Hears(c, t, fed)` says of a conversation that its positions have no gap
and that it has the first `t` tokens of the text and the frames `fed`, each in order; a
lemma per kind of entry says what it hears when entries follow it. In the 0.5B model
(`Streaming`) both conversations have all frames that were fed back, and the condition
of a window (`WindowHeld`) is as many frames behind as the window has spoken: what
keeps it within the window is that these and the frames left to speak are together
at most its size. In the 1.5B model (`Talking`) the negative conversation has a
placeholder for each frame of the positive one since speech last started, and the codec
remembers the frames since speech last started or ended; `SinceAppend` says how "since" moves
when an entry follows. With the layers on a worker both conversations are the one in
its cache (`Shared`), and `FrameMixed` says what a frame is then made of: `StreamingMixed` and
`TalkingMixed` follow the one cache through the windows and the frames. What runs
locally never changes (`LocalStays`), so the two invariants do not meet.

**Seams.** Take the signals between the layers for all that was streamed since the
clear, each the causal output of its layer for the whole signal before (`Through`).
`CodecInv` says that such signals exist, from the frames to the samples and from the
samples to the features, that signal k has the rate the ratios give it, and that
slot k is the end of the input of layer k (`Memories`). More input changes nothing in the
outputs there were, and the new ones are what the layer computes from its slot
(`Grows`, with a lemma for each kind of layer: `Windowed` for the two that combine a
window, and for a transposed one that past the samples of the cached end its output
is the end of the whole output). `Goes` takes this through the layers by
induction. Batch decoding is causal, so it is `Through` itself; batch encoding pads on the
right, so each of its signals has at most one sample more (`Trails`, `TrailsAll`), and
at the end exactly one, because a layer with a ratio above 1 has put one there. That some
ratio is above 1 is the only assumption on the ratios (the code has 8, 5, 5, 4, 2, 2); with none,
no strided layer pads and the two encodings are equal.

**Voice.** `Sig(n)` is the signals of n frames, and a lemma per operation says that it
keeps them or what their number becomes. Where the code and the decoder written directly differ,
a lemma says that they do not: row i of the shifted table is distance j - i
(`WeightsIs`), what is unpacked behind the time embedding is the layer's output for the
frames (`ZipformerIs`), padding to a whole number of groups and summing reads the last
frame where the direct sum does (`DownIs`), and widening narrowed to the frames there were
gives frame i group i \div ds, which exists (`LowIs`, `UpsampledIs`). `StackIs` inverts the
counting of blocks, so a block is layer l of stack s, and `Reached(s, l)` says what the decoder
holds before it: the input of the stack in `orig`, and the first l layers of the direct run
of that stack. `ForwardWrites` takes it over one block, to the next layer, the next stack
or the velocity. `IstftIs` and `DoubledIs` count the samples. A scan ends because
each step uses at least one element (`ScanIs`), and with characters of one byte each it cuts
none (`OffsetIs`, `CutsIs`).

**Composition.** `PartStays` says that the part that was chosen runs alone, and a
`…Steps` lemma per part that a step of the whole is a step of the part or leaves its
variables alone. A part's invariant, conditional on `part`, is then one of
`Components`.

**Not proved.** Liveness (`EveryRequestAnswered`, `Settles`, `SetupEnds`,
`Answered`).
`PartsTypeOK` has no proof as a whole.

## Behaviour worth knowing

What the models showed beyond the findings. The first nine entries are inputs that
users or models produce; the runs have them, and the property named says
exactly which of them go wrong and in which way, so that it holds of the code as
it is and fails if anything else goes wrong. For three of them a line of the
repository says otherwise, which is quoted.

* **LuxTTS on workers.** A block given to a worker fails on its first forward pass: the
  velocity is never computed. `docs/voice_generation.md:15` says "Supports distributed
  inference — the 16 FM decoder layers can be sharded across workers.", line 94 "The FM
  decoder layers can be split across workers", with a topology for it, line 143
  "**Shardable** across workers", and `docs/models.md:61` "enabling distributed
  inference". `Voiced` says that a run with a placed block ends at the first of them,
  after the local ones before it, and that no saved audio has been through one. A
  reference shorter than a window and a word outside the dictionary with a character of
  more than one byte end a run too.
* **VibeVoice on workers.** `vibevoice_1_5b.rs:61` says "The LM backbone (28 Qwen2
  layers) can be sharded across workers using topology." A worker has one cache per
  connection, and two conversations, the condition and the negative one, use it; the
  voice prompt is put into the master's caches only. `FrameMixed` says what the frames
  are then sampled from: both conversations in one, without the voice.
* **Images API.** `docs/image_generation.md:95` says that `/v1/images/generations`
  "returns raw PNG by default". `ImageGenerationArgs::from_prompt` leaves `num_samples`
  0 (`lib.rs:424`), so the loop over samples does not run, and with Stable Diffusion the
  answer is 500, "No image generated" (`api/image.rs:194`). `Complete` has this case:
  the request ends well and shows nothing.
* **Guided batches.** `sd.rs:417` repeats the pair of embeddings, [negative, prompt,
  negative, prompt], where the latents are [all, all]. `Met` says which two prompts a
  picture meets: in a batch of even size (`--sd-bsize`) one prompt twice, so that it is
  not guided at all; in one of odd size the pictures at even places have the two
  swapped.
* **Cursor.** The chat's cursor counts keystrokes, `String::insert` and `remove` take
  bytes (`cake-cli/src/chat.rs:998`): after a character of more than one byte the next
  key can end the chat. `CursorFits` says that it is off a boundary only with such a
  character in the line, and never outside the line.
* **GGUF on several GPUs.** A worker with more than one CUDA GPU and more than one layer
  opens its shards once more for each GPU, by `model.safetensors.index.json` under the
  data path (`worker.rs:147`), which for a GGUF checkpoint is a file: it fails and never
  starts (`Stranded`). `Faithful` says that this and `Unloadable` are all that fails.
* **GGUF norms.** For Gemma 3 two tensors map to one name, and which one is kept depends
  on the order of a hash map (`HfName`, `Clashing`); either way the norm before the
  feed-forward is missing, and no layer loads (`Unloadable`).
* **Strides and wide rows.** Metal's pointwise kernels take the offset of an operand and
  not its strides: of the halves of a fused projection (`mlp.rs:26`,
  `flux2_model.rs:220`) all rows but the first are wrong (`PointwiseAgrees`). Metal rows
  above 1024 and CUDA's gated norm at 1024 columns or more have more groups than the
  last step adds up, or none that does; Vulkan's softmax writes the sums of its second
  pass into the array from which another group may still have to read the maximum
  (`ops.wgsl:424`, `437`: no barrier between them). `Sums` says by what such rows are
  scaled, `RowFits` which rows are scaled by their whole sum.
* **Views on Vulkan.** A view is found by address and layout: one of an activation, as
  FLUX.2 makes, or of an F16 weight, whose F32 copy is freed, outlives its storage.
  `ReadsRight` bounds what is read; run `gpu_stale` is the finding. The weight caches
  are never emptied.

The rest is left out of the runs, or no property of theirs states it; where a line says
otherwise, the entry names it.

* **Four workers.** With powers 27, 18, 17, 1 and 41 layers the shares are 18, 12, 10
  and 1: the third is more than a layer below its part of 11.06, since each round
  divides what the rounding of the earlier ones left (`default.rs:87`).
* **Broken transfers.** `ReadyHolds`, "has valid model data" (`mod.rs:764`, `906`),
  fails for a directory a transfer was cut short in: sizes are not looked at.
  `CacheSound` is about the other directories.
* **A second master.** `RoutedAlways` fails: a serving worker acknowledges any
  assignment and keeps its layers (`worker.rs:316`). `Routed` is about a worker that one
  master set up.
* **Chunked prefill.** A second call of several tokens starts the convolution of a
  Qwen3.5 layer from zeros; only VibeVoice's models, which have no such layer, make one
  (`Chunked`).
* **Long prompts.** More tokens than CLIP has positions (FLUX.1) or than the encoder's
  limit (FLUX.2) end in an error, respectively are cut.
* **Topology files.** `needs_auto_sharding` is documented as "any node" and implemented
  as all (`topology.rs:195`), so a file that lists the layers of some nodes leaves the
  rest to the master. A layer listed twice belongs to whichever node the map yields
  first.
* **Tokenizer.** A download of `tokenizer.json` that fails is taken for a repository
  without one (`hf.rs:148`) and the snapshot counts as complete.

## Not modelled

* Framing and encoding of messages, compression and checksums of chunks, HMAC.
  A handler dropped in the middle of a frame is therefore not modelled; `cancel`
  drops it between frames.
* Floating point: sampling, activations, the arithmetic inside a layer; a value is
  known by where it comes from, or is a number modulo a prime.
* Device initialisation, GPU detection, estimates of power and memory: inputs.
* User interfaces beyond the chat's event loop, HTTP parsing, model lists, the
  mobile apps (bindings around `worker_setup` and `Worker::run`), tools and scripts.
* Attaching a second master to the same workers for inference: it gets
  connections, tasks and caches of its own; its setup is in `ClusterSetup`.
