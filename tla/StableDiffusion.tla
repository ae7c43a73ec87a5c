--------------------------- MODULE StableDiffusion --------------------------
(***************************************************************************)
(* The Stable Diffusion image generator: the text embeddings of one or two *)
(* CLIP models, classifier-free guidance over a batch of latents, image to *)
(* image, and the packed tensors that carry a call to a component, which   *)
(* may be served by a worker: local or not, its forward is the same.       *)
(*                                                                         *)
(* Data abstraction.  A tensor is its dims and its cells: one for a latent *)
(* image, an embedded prompt or a number.  A latent image is known by what *)
(* it started from and the steps made on it; a step by its timestep and    *)
(* the noise predictions it used; a prediction by the latent image and the *)
(* prompt the UNet saw for it.  A strength s stands for s / Strength.      *)
(***************************************************************************)
EXTENDS Integers, Sequences, FiniteSets, SequencesExt

CONSTANTS Versions,   \* subset of {"v1_5", "v2_1", "xl", "turbo"}
          Bsizes,     \* guidance ("on", "off", "default") -> batch sizes asked for
          MaxSteps,   \* bound: n_steps (and the default of 30)
          MaxSamples, \* bound: num_samples
          Strength    \* bound: the strength 1

\* The versions of main's Args; a schedule holds a step.  A batch or a number
\* of samples of 0 is what ImageGenerationArgs::from_prompt asks for.
SdAssumption ==
  /\ Versions \subseteq {"v1_5", "v2_1", "xl", "turbo"}
  /\ DOMAIN Bsizes = {"on", "off", "default"} /\ \A g \in DOMAIN Bsizes : Bsizes[g] \subseteq Nat
  /\ MaxSteps \in Nat \ {0} /\ MaxSamples \in Nat /\ Strength \in Nat \ {0}

VARIABLES
  version,  \* sd_version
  req,      \* the request being served, Nothing when there is none
  stage,    \* what is done next
  emb,      \* text_embeddings
  init,     \* init_latent_dist_sample
  sample,   \* idx
  step,     \* timestep_index
  latents,  \* the batch being denoised
  shown,    \* batches of images given to the callback
  result    \* of the last request: "ok" or "error"

svars == <<version, req, stage, emb, init, sample, step, latents, shown, result>>

Nothing == <<>>

-----------------------------------------------------------------------------
(* Tensors, and their packing into one.                                    *)

Tensor(dims, data) == [dims |-> dims, data |-> data]
Volume(dims) ==
  LET upto[i \in 0 .. Len(dims)] == IF i = 0 THEN 1 ELSE upto[i - 1] * dims[i]
  IN  upto[Len(dims)]
Pack(ts) == <<Len(ts)>> \o FlattenSeq([i \in DOMAIN ts |-> <<Len(ts[i].dims)>> \o ts[i].dims \o ts[i].data])
\* The tensor at a place of x, and where the next one is.
Read(x, at) ==
  LET dims == SubSeq(x, at + 1, at + x[at])
      from == at + x[at] + 1
      next == from + Volume(dims)
  IN  [tensor |-> Tensor(dims, SubSeq(x, from, next - 1)), next |-> next]
Unpack(x) ==
  LET part[i \in 1 .. x[1]] == Read(x, IF i = 1 THEN 2 ELSE part[i - 1].next)
  IN  [i \in 1 .. x[1] |-> part[i].tensor]

Latents(rows)   == Tensor(<<Len(rows), 1, 1, 1>>, rows)
Embeddings(es)  == Tensor(<<Len(es), 1, 1>>, es)
Scalar(n)       == Tensor(<<1>>, <<n>>)

-----------------------------------------------------------------------------
(* Components.                                                             *)

Clip(m, prompt) == [clip |-> m, prompt |-> prompt]

\* UNet::forward of the packed [latents, text, timestep]; it cannot run when
\* the two batches differ.
UNetRuns(x) == LET u == Unpack(x) IN Len(u[1].data) = Len(u[2].data)
UNet(x) ==
  LET u == Unpack(x)
  IN  [i \in DOMAIN u[1].data |->
         [of |-> u[1].data[i].from, done |-> Len(u[1].data[i].steps),
          under |-> u[2].data[i], at |-> u[3].data[1]]]

\* VAE::forward of the packed [direction, input].
Vae(x) == LET u == Unpack(x)
          IN  IF u[1].data[1] = 1 THEN [i \in DOMAIN u[2].data |-> [encoded |-> u[2].data[i]]]
                                  ELSE [i \in DOMAIN u[2].data |-> [decoded |-> u[2].data[i]]]
Encode(image) == Vae(Pack(<<Scalar(1), Latents(<<image>>)>>))[1]
Decode(rows)  == Vae(Pack(<<Scalar(0), Latents(rows)>>))

-----------------------------------------------------------------------------
(* A request.                                                              *)

Requests == {r \in [guidance : {"on", "off", "default"}, steps : 0 .. MaxSteps + 1,
                    samples : 0 .. MaxSamples, bsize : UNION {Bsizes[g] : g \in DOMAIN Bsizes},
                    img2img : BOOLEAN, strength : 0 .. Strength + 1, every : 0 .. 2,
                    long : {"none", "prompt", "negative"}] :
               /\ r.bsize \in Bsizes[r.guidance]
               /\ r.img2img \/ r.strength = Strength}

DefaultOn    == version # "turbo"
DefaultSteps == IF version = "turbo" THEN 1 ELSE MaxSteps
\* steps = MaxSteps + 1 stands for the n_steps that is not given.
Steps   == IF req.steps > MaxSteps THEN DefaultSteps ELSE req.steps
Guided  == req.guidance = "on" \/ (req.guidance = "default" /\ DefaultOn)
TStart  == IF req.img2img THEN Steps - (Steps * req.strength) \div Strength ELSE 0
Models  == IF version \in {"xl", "turbo"} THEN <<1, 2>> ELSE <<1>>

Conclude(how) == stage' = "done" /\ result' = how

SdInit ==
  /\ version \in Versions
  /\ req = Nothing /\ stage = "idle" /\ emb = <<>> /\ init = Nothing
  /\ sample = 0 /\ step = 0 /\ latents = <<>> /\ shown = <<>> /\ result = "ok"

\* generate_image: the strength is checked before anything runs.
Generate ==
  /\ stage = "idle"
  /\ req' \in Requests
  /\ IF req'.strength > Strength THEN Conclude("error") ELSE stage' = "embed" /\ UNCHANGED result
  /\ UNCHANGED <<version, emb, init, sample, step, latents, shown>>

\* Mutant of EmbeddingsOf: the prompt comes first.
PromptFirst(m) ==
  <<Clip(m, "prompt")>> \o (IF Guided THEN <<Clip(m, "negative")>> ELSE <<>>)
\* text_embeddings of one model: the negative prompt comes first.
EmbeddingsOf(m) ==
  (IF Guided THEN <<Clip(m, "negative")>> ELSE <<>>) \o <<Clip(m, "prompt")>>
TooLong == req.long = "prompt" \/ (req.long = "negative" /\ Guided)

\* How often repeat has its tensor: asked for none, it leaves it as it is.
Times == IF req.bsize = 0 THEN 1 ELSE req.bsize
\* cat of the models on the last dim, then repeat on the first.
Repeated(es, n) == FlattenSeq([i \in 1 .. n |-> es])
Embed ==
  /\ stage = "embed"
  /\ IF TooLong THEN Conclude("error") /\ UNCHANGED emb
     ELSE /\ emb' = Repeated([i \in DOMAIN EmbeddingsOf(1) |->
                                [m \in DOMAIN Models |-> EmbeddingsOf(Models[m])[i]]], Times)
          /\ stage' = "encode" /\ UNCHANGED result
  /\ UNCHANGED <<version, req, init, sample, step, latents, shown>>

\* The image to start from is encoded; build_scheduler divides by n_steps.
EncodeImage ==
  /\ stage = "encode"
  /\ init' = IF req.img2img THEN Encode("image") ELSE Nothing
  /\ IF Steps = 0 THEN Conclude("error") ELSE stage' = "sample" /\ UNCHANGED result
  /\ UNCHANGED <<version, req, emb, sample, step, latents, shown>>

Noise(s, row)     == [noise |-> s, row |-> row]
Noised(from, s, t) == [image |-> from, noise |-> s, at |-> t]
Fresh(from)       == [from |-> from, steps |-> <<>>]
BeginSample ==
  /\ stage = "sample"
  /\ IF sample = req.samples THEN Conclude("ok") /\ UNCHANGED <<step, latents>>
     ELSE /\ latents' = CASE ~ req.img2img -> [i \in 1 .. req.bsize |-> Fresh(Noise(sample, i))]
                          [] req.img2img /\ TStart < Steps -> <<Fresh(Noised(init, sample, TStart))>>
                          [] OTHER -> <<Fresh(init)>>
          /\ step' = TStart
          /\ stage' = "denoise" /\ UNCHANGED result
  /\ UNCHANGED <<version, req, emb, init, sample, shown>>

\* split_images: the batch is decoded and cut into bsize images, which fails
\* on a smaller batch.
Splits(rows) == Len(rows) >= req.bsize
Show(rows, at) == [sample |-> sample, at |-> at, images |-> SubSeq(Decode(rows), 1, req.bsize)]

\* Halves of the prediction of a guided batch, or the prediction.
Chunks(pred) == LET h == Len(pred) \div 2
                IN  IF Guided THEN [i \in 1 .. h |-> <<pred[i], pred[h + i]>>]
                              ELSE [i \in DOMAIN pred |-> <<pred[i]>>]
Input == IF Guided THEN latents \o latents ELSE latents
Packed == Pack(<<Latents(Input), Embeddings(emb), Scalar(step)>>)
Stepped == [i \in DOMAIN latents |->
              [latents[i] EXCEPT !.steps = Append(@, [at |-> step, used |-> Chunks(UNet(Packed))[i]])]]
\* Mutant of Due: steps are counted from the first that runs.
FromStart == req.every # 0 /\ (step - TStart) % req.every = 0
\* index % every == 0, counted from the first timestep of the schedule.
Due == req.every # 0 /\ step % req.every = 0

Denoise ==
  /\ stage = "denoise" /\ step < Steps
  /\ IF UNetRuns(Packed) /\ (Due => Splits(latents))
     THEN /\ latents' = Stepped
          /\ step' = step + 1
          /\ shown' = IF Due THEN Append(shown, Show(Stepped, step)) ELSE shown
          /\ UNCHANGED <<stage, result>>
     ELSE Conclude("error") /\ UNCHANGED <<latents, step, shown>>
  /\ UNCHANGED <<version, req, emb, init, sample>>

Final ==
  /\ stage = "denoise" /\ step >= Steps
  /\ IF Splits(latents)
     THEN /\ shown' = Append(shown, Show(latents, Steps))
          /\ sample' = sample + 1 /\ stage' = "sample" /\ UNCHANGED result
     ELSE Conclude("error") /\ UNCHANGED <<shown, sample>>
  /\ UNCHANGED <<version, req, emb, init, step, latents>>

\* generate_image returns, and its locals are dropped.
ReturnImages ==
  /\ stage = "done"
  /\ stage' = "idle"
  /\ req' = Nothing /\ emb' = <<>> /\ init' = Nothing /\ sample' = 0 /\ step' = 0
  /\ latents' = <<>> /\ shown' = <<>> /\ result' = "ok"
  /\ UNCHANGED version

SdNext == ReturnImages \/ Generate \/ Embed \/ EncodeImage \/ BeginSample \/ Denoise \/ Final
SdSpec == SdInit /\ [][SdNext]_svars

-----------------------------------------------------------------------------

SdTypeOK ==
  /\ version \in Versions
  /\ req = Nothing \/ req \in Requests
  /\ stage \in {"idle", "embed", "encode", "sample", "denoise", "done"} /\ result \in {"ok", "error"}
  /\ sample \in 0 .. MaxSamples /\ step \in 0 .. MaxSteps

\* The latent image that picture j of a batch should show, after the steps
\* below `to`.
Start(s, j) == CASE ~ req.img2img -> Noise(s, j)
                 [] req.img2img /\ TStart < Steps -> Noised(init, s, TStart)
                 [] OTHER -> init
Both(prompt) == [m \in DOMAIN Models |-> Clip(Models[m], prompt)]
Seen(from, n, prompt) == [of |-> from, done |-> n, under |-> Both(prompt), at |-> TStart + n]
\* What repeat leaves in row i of the embeddings of a guided batch: the pair
\* is repeated as a whole, and never the negative prompts before the prompts.
RowPrompt(i) == IF i % 2 = 1 THEN "negative" ELSE "prompt"
\* What picture j meets as the negative prompt and as the prompt.
Met(j) == IF Guided THEN <<RowPrompt(j), RowPrompt(Times + j)>> ELSE <<"prompt">>
Wanted(s, j, to) ==
  LET from == Start(s, j)
  IN  [from |-> from,
       steps |-> [k \in 1 .. to - TStart |->
                    [at |-> TStart + k - 1,
                     used |-> [i \in DOMAIN Met(j) |-> Seen(from, k - 1, Met(j)[i])]]]]

\* Every picture handed out is its own latent image after every timestep from
\* t_start on, each made once and in order from the predictions for that very
\* latent image: unguided under the prompt; guided, under the two prompts of
\* Met.  These are the negative prompt and the prompt for the pictures at odd
\* places of a batch of odd size; those at even places have the two swapped,
\* and a batch of even size guides each picture from a prompt to itself.
Painted ==
  \A i \in DOMAIN shown :
    /\ Len(shown[i].images) = req.bsize
    /\ \A j \in DOMAIN shown[i].images :
         LET to == IF shown[i].at = Steps THEN Steps ELSE shown[i].at + 1
         IN  shown[i].images[j] = [decoded |-> Wanted(shown[i].sample, j, to)]

Before(a, b) == a.sample < b.sample \/ (a.sample = b.sample /\ a.at < b.at)
\* When pictures of a sample are handed out.
Moments == {Steps} \cup {t \in TStart .. Steps - 1 : req.every # 0 /\ t % req.every = 0}

\* A finished request gave every sample its final pictures and the
\* intermediate ones that were asked for, in order and each once; one that
\* failed was too long, had no steps or a strength out of range, or asked for
\* samples of a batch image to image or of an empty one from text.  Asked for
\* no samples, as for /v1/images/generations, it ends well and shows nothing.
Complete ==
  stage = "done" =>
    IF result = "ok"
    THEN /\ \A i, j \in DOMAIN shown : i < j => Before(shown[i], shown[j])
         /\ {<<b.sample, b.at>> : b \in ToSet(shown)} = (0 .. req.samples - 1) \X Moments
    ELSE TooLong \/ Steps = 0 \/ req.strength > Strength
         \/ (req.samples > 0 /\ (IF req.img2img THEN req.bsize > 1 ELSE req.bsize = 0))
=============================================================================
