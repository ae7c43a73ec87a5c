-------------------------------- MODULE Flux --------------------------------
(***************************************************************************)
(* The FLUX.1-dev and FLUX.2-klein image generators: components that are   *)
(* loaded (or reached at a worker) one after the other and dropped as soon *)
(* as they have run, the encoded prompt, the flow-matching schedule, the   *)
(* double and single stream transformer, and the way from patches to       *)
(* pixels.                                                                 *)
(*                                                                         *)
(* Data abstraction.  A row of a tensor is a token or a patch, known by    *)
(* its name; what a block computes for a row by the position it was        *)
(* rotated with and by the rows it attended to; a patch of the image being *)
(* denoised by the noise it began as and the Euler steps made on it.       *)
(***************************************************************************)
EXTENDS Integers, Sequences, FiniteSets, SequencesExt

CONSTANTS Kinds,     \* subset of {"flux1", "flux2"}
          Sizes,     \* <<height, width>> of the picture asked for
          MaxSeq,    \* MAX_SEQ_LEN, T5_MAX_LEN
          MaxClip,   \* max_position_embeddings of CLIP-L
          MaxTokens, \* bound: tokens of a prompt
          MaxSteps,  \* bound: n_steps
          Depth, DepthSingle \* blocks of the transformer

\* Of both kinds of block, the transformer has double ones at least.
FluxAssumption ==
  /\ Kinds \subseteq {"flux1", "flux2"} /\ Sizes \subseteq Nat \X Nat
  /\ MaxSeq \in Nat /\ MaxTokens \in Nat /\ MaxSteps \in Nat
  /\ Depth \in Nat \ {0} /\ DepthSingle \in Nat

VARIABLES
  kind,     \* the generator that was started
  req,      \* the request being served, None when there is none
  stage,    \* what is done next
  held,     \* components that are loaded, or connected to
  txt, vec, \* the encoded prompt: a row for a token, and CLIP's summary
  img,      \* rows being denoised
  step,
  picture,  \* what the callback got
  result    \* of the request: "ok" or "error"

fvars == <<kind, req, stage, held, txt, vec, img, step, picture, result>>

None == <<>>
Pad  == 0

Components == {"clip", "t5", "flux1_transformer", "flux1_vae",
               "flux_text_encoder", "flux_transformer", "flux_vae"}

Finish(how) == stage' = "done" /\ result' = how /\ held' = {}
\* A component that cannot be loaded or reached, or fails, ends the request.
Fault == Finish("error") /\ UNCHANGED <<txt, vec, img, step, picture>>

-----------------------------------------------------------------------------
(* The prompt.                                                             *)

\* FLUX.2: the chat tokens resized to MaxSeq; a causal encoder that does not
\* see the padding, if there is any.
Resized(n) == [i \in 1 .. MaxSeq |-> IF i <= n THEN i ELSE Pad]
Masked(n, j) == n > 0 /\ n < MaxSeq /\ j > n
Encoded2(n) == [i \in 1 .. MaxSeq |->
                  [token |-> Resized(n)[i],
                   sees  |-> {Resized(n)[j] : j \in {j \in 1 .. i : ~ Masked(n, j)}}]]
\* FLUX.1: T5 sees the whole of the truncated prompt.
T5Len(n) == IF n > MaxSeq THEN MaxSeq ELSE n
Encoded1(n) == [i \in 1 .. T5Len(n) |-> [token |-> i, sees |-> 1 .. T5Len(n)]]
\* CLIP has no position for a token past its limit.
ClipRuns(n) == n <= MaxClip

-----------------------------------------------------------------------------
(* Patches, their positions, and the schedule.                             *)

Half(px)  == (px + 15) \div 16
Rows      == Half(req.size[1])
Cols      == Half(req.size[2])
Patches   == [i \in 1 .. Rows * Cols |-> <<(i - 1) \div Cols, (i - 1) % Cols>>]
Noise(p)  == [patch |-> p, steps |-> <<>>]

\* FLUX.2 has four axes, the last for the text; FLUX.1 three, none for it.
At(p)     == IF kind = "flux2" THEN <<0, p[1], p[2], 0>> ELSE <<0, p[1], p[2]>>
TextAt(i) == IF kind = "flux2" THEN <<0, 0, 0, i - 1>> ELSE <<0, 0, 0>>
ImgIds    == [i \in DOMAIN Patches |-> At(Patches[i])]

\* linspace(1, 0, N) and a terminal 0; FLUX.1 has the N + 1 points of N steps.
Sigma(n) ==
  LET last == IF n > 1 THEN n - 1 ELSE 1
  IN  IF kind = "flux2" THEN [i \in 1 .. n |-> <<last + 1 - i, last>>] \o <<<<0, last>>>>
                        ELSE [i \in 1 .. n + 1 |-> <<n + 1 - i, n>>]

-----------------------------------------------------------------------------
(* The transformer.                                                        *)

\* Attention of the joint rows: a row, what it was rotated with, whom it saw.
Attend(rows, pe) == [i \in DOMAIN rows |->
  [row |-> rows[i].row, at |-> rows[i].at \cup {pe[i]}, saw |-> {rows[j].row : j \in DOMAIN rows}]]
Row(r) == [row |-> r, at |-> {}, saw |-> {}]

\* Text first, image last; each half goes back to its own stream.
Streams(rows, n) == [txt |-> SubSeq(rows, 1, n), img |-> SubSeq(rows, n + 1, Len(rows))]
DoubleBlock(s, pe) == Streams(Attend(s.txt \o s.img, pe), Len(s.txt))
SingleBlock(merged, pe) == Attend(merged, pe)
Doubles(s, pe) ==
  LET after[b \in 0 .. Depth] == IF b = 0 THEN s ELSE DoubleBlock(after[b - 1], pe)
  IN  after[Depth]
Singles(merged, pe) ==
  LET after[b \in 0 .. DepthSingle] == IF b = 0 THEN merged ELSE SingleBlock(after[b - 1], pe)
  IN  after[DepthSingle]

\* Mutant of Positions: the image's positions come first.
ImgFirst(x) == x.img_ids \o x.txt_ids
\* forward of [img, img_ids, txt, txt_ids, t, vec, guidance].
Positions(x) == x.txt_ids \o x.img_ids
Transformer(x) ==
  LET pe     == Positions(x)
      start  == [txt |-> [i \in DOMAIN x.txt |-> Row(x.txt[i])], img |-> [i \in DOMAIN x.img |-> Row([patch |-> x.img[i].patch])]]
      double == Doubles(start, pe)
      single == Singles(double.txt \o double.img, pe)
      out    == SubSeq(single, Len(x.txt) + 1, Len(single))
  IN  [i \in DOMAIN out |-> [of |-> out[i], t |-> x.t, vec |-> x.vec, guidance |-> x.guidance]]

Call == [img |-> img, img_ids |-> ImgIds, txt |-> txt, txt_ids |-> [i \in DOMAIN txt |-> TextAt(i)],
         t |-> Sigma(req.steps)[step + 1], vec |-> vec,
         guidance |-> IF kind = "flux1" THEN req.guidance ELSE None]

-----------------------------------------------------------------------------
(* From patches to pixels.                                                 *)

\* Latent (y, x) of the unpatchified image is cell (y % 2, x % 2) of a row.
Unpatchify(rows) == [p \in (0 .. 2 * Rows - 1) \X (0 .. 2 * Cols - 1) |->
  [from |-> rows[(p[1] \div 2) * Cols + (p[2] \div 2) + 1], cell |-> <<p[1] % 2, p[2] % 2>>]]
\* Three of the four up blocks of the decoder double the size.
Upsampled(n) ==
  LET after[b \in 0 .. 4] == IF b = 0 THEN n ELSE IF b < 4 THEN 2 * after[b - 1] ELSE after[b - 1]
  IN  after[4]
Decoded(rows) == [height |-> Upsampled(2 * Rows), width |-> Upsampled(2 * Cols), latents |-> Unpatchify(rows)]

-----------------------------------------------------------------------------

Init ==
  /\ kind \in Kinds
  /\ req = None /\ stage = "idle" /\ held = {} /\ txt = <<>> /\ vec = None
  /\ img = <<>> /\ step = 0 /\ picture = None /\ result = "ok"

Generate ==
  /\ stage = "idle"
  /\ req' \in [tokens : 1 .. MaxTokens, clip : 1 .. MaxTokens, steps : 0 .. MaxSteps,
               size : Sizes, guidance : {"given", "default"}]
  /\ kind = "flux2" => req'.clip = 1 /\ req'.guidance = "default"
  /\ stage' = "encode"
  /\ UNCHANGED <<kind, held, txt, vec, img, step, picture, result>>

\* A component is held from here on.
Load(next, c) ==
  /\ stage' = next /\ held' = held \cup {c}
  /\ UNCHANGED <<txt, vec, img, step, picture, result>>

LoadEncoder ==
  /\ stage = "encode"
  /\ Load("encoding", IF kind = "flux1" THEN "clip" ELSE "flux_text_encoder") \/ Fault
  /\ UNCHANGED <<kind, req>>

\* encode_clip returns its summary, and its model is gone.
EncodeClip ==
  /\ kind = "flux1" /\ stage = "encoding" /\ held = {"clip"}
  /\ \/ /\ ClipRuns(req.clip)
        /\ vec' = req.clip /\ held' = {}
        /\ UNCHANGED <<stage, txt, img, step, picture, result>>
     \/ Fault
  /\ UNCHANGED <<kind, req>>

LoadT5 ==
  /\ kind = "flux1" /\ stage = "encoding" /\ held = {}
  /\ Load("encoding", "t5") \/ Fault
  /\ UNCHANGED <<kind, req>>

\* Mutant of Dropped: nothing is dropped.
Keeps(c)   == held
\* The prompt is encoded, and the encoder dropped.
Dropped(c) == held \ {c}
Encode ==
  /\ stage = "encoding" /\ held \in {{"t5"}, {"flux_text_encoder"}}
  /\ \/ /\ txt' = IF kind = "flux1" THEN Encoded1(req.tokens) ELSE Encoded2(req.tokens)
        /\ held' = Dropped(IF kind = "flux1" THEN "t5" ELSE "flux_text_encoder")
        /\ stage' = "transformer"
        /\ UNCHANGED <<vec, img, step, picture, result>>
     \/ Fault
  /\ UNCHANGED <<kind, req>>

\* The noise and the transformer.
LoadTransformer ==
  /\ stage = "transformer"
  /\ \/ /\ img' = [i \in DOMAIN Patches |-> Noise(Patches[i])]
        /\ step' = 0
        /\ held' = held \cup {IF kind = "flux1" THEN "flux1_transformer" ELSE "flux_transformer"}
        /\ stage' = "denoise"
        /\ UNCHANGED <<txt, vec, picture, result>>
     \/ Fault
  /\ UNCHANGED <<kind, req>>

\* An Euler step: img + pred * (t_prev - t_curr).
Euler(r, pred) == [r EXCEPT !.steps = Append(@,
  [from |-> Sigma(req.steps)[step + 1], to |-> Sigma(req.steps)[step + 2], pred |-> pred])]
Denoise ==
  /\ stage = "denoise" /\ step < Len(Sigma(req.steps)) - 1
  /\ \/ /\ img' = [i \in DOMAIN img |-> Euler(img[i], Transformer(Call)[i])]
        /\ step' = step + 1
        /\ UNCHANGED <<stage, held, txt, vec, picture, result>>
     \/ Fault
  /\ UNCHANGED <<kind, req>>

DropTransformer ==
  /\ stage = "denoise" /\ step = Len(Sigma(req.steps)) - 1
  /\ held' = Dropped(IF kind = "flux1" THEN "flux1_transformer" ELSE "flux_transformer")
  /\ stage' = "vae"
  /\ UNCHANGED <<kind, req, txt, vec, img, step, picture, result>>

LoadVae ==
  /\ stage = "vae"
  /\ Load("decode", IF kind = "flux1" THEN "flux1_vae" ELSE "flux_vae") \/ Fault
  /\ UNCHANGED <<kind, req>>

Decode ==
  /\ stage = "decode"
  /\ \/ /\ picture' = Decoded(img)
        /\ Finish("ok") /\ UNCHANGED <<txt, vec, img, step>>
     \/ Fault
  /\ UNCHANGED <<kind, req>>

\* generate_image returns, and its locals are dropped.
Return ==
  /\ stage = "done"
  /\ stage' = "idle" /\ req' = None /\ txt' = <<>> /\ vec' = None /\ img' = <<>>
  /\ step' = 0 /\ picture' = None /\ result' = "ok"
  /\ UNCHANGED <<kind, held>>

Next == \/ Generate \/ LoadEncoder \/ EncodeClip \/ LoadT5 \/ Encode \/ LoadTransformer
        \/ Denoise \/ DropTransformer \/ LoadVae \/ Decode \/ Return
Spec == Init /\ [][Next]_fvars

-----------------------------------------------------------------------------

TypeOK ==
  /\ kind \in Kinds
  /\ held \subseteq Components
  /\ stage \in {"idle", "encode", "encoding", "transformer", "denoise", "vae", "decode", "done"}
  /\ step \in 0 .. MaxSteps /\ result \in {"ok", "error"}

\* Two components never share the device's memory, and none stays in it after
\* the request, however it ended.
OneAtATime == Cardinality(held) <= 1 /\ (stage \in {"idle", "done"} => held = {})

\* What the prompt became: each token that fits knows the ones it may see,
\* and never the padding.
Heard(rows) ==
  LET n == T5Len(req.tokens)
  IN  \A i \in 1 .. n : rows[i].token = i /\ rows[i].sees = IF kind = "flux1" THEN 1 .. n ELSE 1 .. i

\* The picture is as large as asked for, rounded up to whole patches; every
\* latent is its own cell of the patch at its place, which went from pure
\* noise down to none in n steps that join, each predicted for that patch,
\* rotated by its own position in every block, under the time of the step,
\* from the whole prompt and all the patches.
Drawn ==
  stage = "done" /\ result = "ok" =>
    /\ Heard(txt)
    /\ picture.height = 16 * Rows /\ picture.width = 16 * Cols
    /\ 16 * Rows \in req.size[1] .. req.size[1] + 15
    /\ \A p \in DOMAIN picture.latents :
         LET l == picture.latents[p]
             s == l.from.steps
             here == <<p[1] \div 2, p[2] \div 2>>
         IN  /\ l.from.patch = here /\ l.cell = <<p[1] % 2, p[2] % 2>>
             /\ Len(s) = req.steps
             /\ s # <<>> => s[1].from[1] = s[1].from[2] /\ s[Len(s)].to[1] = 0
             /\ \A k \in DOMAIN s :
                  /\ k > 1 => s[k].from = s[k - 1].to
                  /\ s[k].pred.t = s[k].from /\ s[k].pred.vec = vec
                  /\ s[k].pred.of = [row |-> [patch |-> here], at |-> {At(here)},
                                     saw |-> ToSet(txt) \cup {[patch |-> q] : q \in ToSet(Patches)}]
=============================================================================
