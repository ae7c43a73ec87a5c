------------------------------- MODULE LuxTTS -------------------------------
(***************************************************************************)
(* One LuxTTS utterance, from the text to the samples that are saved       *)
(* (models/luxtts, run by run_master_luxtts): phonemes, the conditions of  *)
(* every frame, the flow-matching steps through the stacks of Zipformer    *)
(* blocks, the vocoder.  A frame is a number below Modulus, and each layer *)
(* weighs its inputs by their distance, so that a frame computed from a    *)
(* wrong neighbour, token or time has a wrong value.  Frames are numbered  *)
(* from 0, as in the code.                                                 *)
(***************************************************************************)
EXTENDS Integers, Sequences, FiniteSets

CONSTANTS Texts,       \* texts to speak: sequences of words, which are sequences of characters
          Multibyte,   \* characters of more than one byte
          Dictionary,  \* word -> phonemes, from cmudict
          Digraphs,    \* pair of letters -> phonemes
          Letters,     \* letter -> phonemes, <<>> when it has none
          Phones,      \* the phonemes
          Ids,         \* sequence of phonemes -> token id, from tokens.txt
          Space,       \* the token between words
          RefLengths,  \* samples of the reference audio; NoReference for none
          NoReference,
          Speeds,      \* values of --tts-speed, as <<numerator, denominator>>
          StepCounts,  \* values of --tts-diffusion-steps
          Shift,       \* --tts-t-shift
          NumLayers,   \* fm_decoder_num_layers
          Factors,     \* fm_decoder_downsampling_factor
          Placements,  \* sets of blocks the topology may give to workers
          CnnKernel, NFft, Hop, Modulus

LuxAssumption ==
  /\ Texts \subseteq Seq(Seq(DOMAIN Letters))
  /\ Dictionary \in [DOMAIN Dictionary -> Seq(Phones)] /\ Digraphs \in [DOMAIN Digraphs -> Seq(Phones)]
  /\ Letters \in [DOMAIN Letters -> Seq(Phones)]
  /\ Space \in 0..Modulus - 1 /\ Ids \in [DOMAIN Ids -> 0..Modulus - 1]
  /\ RefLengths \ {NoReference} \subseteq Nat /\ Speeds \subseteq (Nat \ {0}) \X (Nat \ {0})
  /\ StepCounts \subseteq Nat /\ Shift \in Nat \ {0}
  /\ NumLayers \in Seq(Nat \ {0}) /\ NumLayers # <<>>
  /\ Factors \in Seq(Nat \ {0}) /\ Len(Factors) = Len(NumLayers)
  /\ CnnKernel \in Nat /\ CnnKernel % 2 = 1 /\ Modulus \in Nat \ {0}
  /\ Hop \in Nat \ {0} /\ NFft \in Nat /\ NFft - Hop \in Nat /\ (NFft - Hop) % 2 = 0

VARIABLES text, ref, speed, steps, remote,  \* the request and the topology
          stage,    \* the next thing generate_speech does
          tokens,   \* token_ids
          cond,     \* [text, speech]: text_cond_expanded and speech_cond
          mel,      \* the frames being generated
          hidden,   \* the frames inside the decoder
          orig,     \* src_orig of the stack being run
          step, flat,
          wave

Requested == <<text, ref, speed, steps, remote>>
lvars == <<Requested, stage, tokens, cond, mel, hidden, orig, step, flat, wave>>

Count(f) == Cardinality(DOMAIN f)
None == [i \in {} |-> 0]
\* (The comparison makes TLC compute the frames once.)
Frames(f) == LET g == [i \in DOMAIN f |-> f[i] % Modulus] IN IF g = None THEN None ELSE g
Total(f) ==
  LET sum[k \in 0..Count(f)] == IF k = 0 THEN 0 ELSE (sum[k - 1] + f[k - 1]) % Modulus
  IN  sum[Count(f)]

----------------------------------------------------------------------------
\* Phonemizer.

\* What the steps of a scan put out, from the first element to the end: a step
\* skips the elements it has used.
Scan(steps_at) ==
  LET from[i \in 1..Len(steps_at) + 1] ==
        IF i > Len(steps_at) THEN <<>> ELSE steps_at[i].out \o from[i + steps_at[i].used]
  IN  from[1]

\* map_ipa_to_tokens: the longest token of up to 3 phonemes, unknown ones skipped.
Matches(ipa, i) == {n \in 1..3 : i + n - 1 <= Len(ipa) /\ SubSeq(ipa, i, i + n - 1) \in DOMAIN Ids}
ToTokens(ipa) ==
  Scan([i \in DOMAIN ipa |->
    IF Matches(ipa, i) = {} THEN [used |-> 1, out |-> <<>>]
    ELSE LET n == CHOOSE m \in Matches(ipa, i) : \A k \in Matches(ipa, i) : k <= m
         IN  [used |-> n, out |-> <<Ids[SubSeq(ipa, i, i + n - 1)]>>]])

\* rules_fallback: a pair of letters with a sound of its own, or a letter.
IsPair(word, i) == i < Len(word) /\ SubSeq(word, i, i + 1) \in DOMAIN Digraphs
Advance(word, i) == IF IsPair(word, i) THEN 2 ELSE 1
Rules(word) ==
  Scan([i \in DOMAIN word |->
    [used |-> Advance(word, i),
     out  |-> IF IsPair(word, i) THEN Digraphs[SubSeq(word, i, i + 1)] ELSE Letters[word[i]]]])

\* It counts characters and slices bytes: it panics when a slice it takes would
\* cut a character.  (Up to there the two counts agree.)
Width(c) == IF c \in Multibyte THEN 2 ELSE 1
Offset(word, n) ==
  LET offset[k \in 0..Len(word)] == IF k = 0 THEN 0 ELSE offset[k - 1] + Width(word[k])
  IN  offset[n]
Boundary(word, i) == \E k \in 0..Len(word) : Offset(word, k) = i
Visited(word) == Scan([i \in DOMAIN word |-> [used |-> Advance(word, i), out |-> <<i - 1>>]])
Cuts(word) ==
  \E k \in DOMAIN Visited(word) :
    LET i == Visited(word)[k]
    IN  \/ ~Boundary(word, i)
        \/ i + 2 <= Offset(word, Len(word)) /\ ~Boundary(word, i + 2)

Known(word) == word \in DOMAIN Dictionary
Spoken(word) == ToTokens(IF Known(word) THEN Dictionary[word] ELSE Rules(word))

----------------------------------------------------------------------------
\* One Zipformer layer.

\* make_pos_emb and rel_shift: column c of the table is distance c - (n - 1),
\* and row i of the shifted scores starts at column n - 1 - i.
Distance(n) == [c \in 0..2 * n - 2 |-> c - (n - 1)]
\* Mutant of RelShift: the shift starts one column late.
LateShift(n, i, j) == IF n = 1 THEN 0 ELSE (n - i + j) % (2 * n - 1)
RelShift(n, i, j) == IF n = 1 THEN 0 ELSE n - 1 - i + j

Position(d) == d * d + 3 * d + 5
Weights(f) ==
  LET n == Count(f)
  IN  [i \in DOMAIN f |-> [j \in DOMAIN f |->
         (f[i] * f[j] + f[i] * Position(Distance(n)[RelShift(n, i, j)])) % Modulus]]

Attend(w, f) == Frames([i \in DOMAIN f |-> Total([j \in DOMAIN f |-> w[i][j] * f[j]])])

\* Zero padding on both sides keeps the number of frames.
Convolve(f) ==
  Frames([i \in DOMAIN f |-> Total([k \in 0..CnnKernel - 1 |->
    LET j == i + k - (CnnKernel \div 2) IN IF j \in DOMAIN f THEN (k + 1) * f[j] ELSE 0])])
FeedForward(f) == Frames([i \in DOMAIN f |-> f[i] * (f[i] + 1)])
Plus(f, g) == Frames([i \in DOMAIN f |-> f[i] + g[i]])
Shifted(f, te) == Frames([i \in DOMAIN f |-> f[i] + te])
\* x + scale * (module_out - x)
Bypass(f, g) == Frames([i \in DOMAIN f |-> f[i] + 2 * (g[i] - f[i])])

\* ZipformerEncoderLayer::forward, given the attention weights of its input:
\* the time embedding is added before each of three groups of modules.
Attended(w, f, te) ==
  LET a == Shifted(f, te)
      b == Plus(a, FeedForward(a))
      c == Plus(b, Attend(w, b))
  IN  c
Convolved(f, te) ==
  LET a == Shifted(f, te)
      b == Plus(a, Convolve(a))
  IN  Plus(b, FeedForward(b))
Layer(w, f, te) ==
  LET mid == Bypass(f, Convolved(Attended(w, f, te), te))
  IN  Bypass(f, Convolved(Plus(mid, Attend(w, mid)), te))

\* ZipformerBlock::forward: the first frame of its input is the time embedding.
Pack(te, f) == [i \in 0..Count(f) |-> IF i = 0 THEN te ELSE f[i - 1]]
\* Mutant of Unpack: the frames are taken from the start of the block's output.
WithTime(p, n) == [i \in 0..n - 1 |-> p[i]]
Unpack(p, n) == [i \in 0..n - 1 |-> p[i + 1]]
Zipformer(p) ==
  LET data == Unpack(p, Count(p) - 1)
  IN  Pack(p[0], Layer(Weights(data), data, p[0]))

----------------------------------------------------------------------------
\* The decoder.

\* flat_to_stack, as [stack, layer].
LayersBefore(s) ==
  LET before[k \in 0..Len(NumLayers)] == IF k = 0 THEN 0 ELSE before[k - 1] + NumLayers[k]
  IN  before[s - 1]
Blocks == 0..LayersBefore(Len(NumLayers) + 1) - 1
StackOf(b) == CHOOSE s \in DOMAIN NumLayers : LayersBefore(s) <= b /\ b < LayersBefore(s + 1)
Opening(b) == b = LayersBefore(StackOf(b))
Closing(b) == b + 1 = LayersBefore(StackOf(b) + 1)

\* simple_downsample: the last frame repeated up to a multiple of ds, then one
\* weighted sum per group.  Mutant of Downsample: padding with zeros.
Groups(f, ds, pad) ==
  Frames([k \in 0..(Count(f) + ds - 1) \div ds - 1 |-> Total([c \in 0..ds - 1 |->
    (c + 2) * (IF k * ds + c \in DOMAIN f THEN f[k * ds + c] ELSE pad)])])
ZeroPadded(f, ds) == Groups(f, ds, 0)
Downsample(f, ds) == Groups(f, ds, f[Count(f) - 1])
\* simple_upsample, narrowed to the frames there were.
Upsample(f, ds, n) == [i \in 0..n - 1 |-> f[i \div ds]]

\* time_schedule: i / n shifted, as a number modulo Modulus; one step of the solver.
Recip(d) ==
  LET inverses == {v \in 0..Modulus - 1 : (v * d) % Modulus = 1}
  IN  IF inverses = {} THEN 0 ELSE CHOOSE v \in inverses : TRUE
Time(i) == (Shift * i * Recip((steps + (Shift - 1) * i) % Modulus)) % Modulus
Embedded(t) == t * t + 4 * t + 2
StackTime(s, t) == (Embedded(t) * (s + 2) + 1) % Modulus
InProj(f) == Frames([i \in DOMAIN f |-> f[i] + 5 * cond.text[i] + 11 * cond.speech[i]])
Euler(f, v) == Frames([i \in DOMAIN f |-> f[i] + (Time(step + 1) - Time(step)) * v[i]])

\* mel_spectrogram of the reference, whose sample s is s + 1: one frame per hop
\* that has NFft samples.
MelFrames(n) == IF n >= NFft THEN (n - NFft) \div Hop + 1 ELSE 0
Stft(n) ==
  Frames([t \in 0..MelFrames(n) - 1 |-> Total([i \in 0..NFft - 1 |-> (i + 1) * (t * Hop + i + 1)])])
Mel(n) == LET f == Stft(n) IN Frames([t \in DOMAIN f |-> f[t] * f[t] + 1])

\* Nearest earlier index: n frames spread over m.
Spread(f, m) == [i \in 0..m - 1 |-> f[(i * Count(f)) \div m]]

\* The text encoder, whose layers get no time embedding.
EncodeText(ids) ==
  LET f == [i \in 0..Len(ids) - 1 |-> ids[i + 1]] IN Layer(Weights(f), f, 0)

\* Vocos: an embedding convolution, then residual blocks.
ConvNeXt(f) == Plus(f, FeedForward(Convolve(f)))
Vocos(f) == ConvNeXt(Convolve(f))

\* istft: overlapping windows, divided by the sum of the squared windows, without
\* the samples of half a window less half a hop on each side; upsample doubles.
Hann(i) == i + 1
Reaches(i, s) == s - i * Hop \in 0..NFft - 1
Overlapped(f, s) ==
  Total([i \in DOMAIN f |->
    IF Reaches(i, s) THEN Hann(s - i * Hop) * f[i] * (s - i * Hop + 3) ELSE 0])
Overlap(f, s) ==
  Total([i \in DOMAIN f |-> IF Reaches(i, s) THEN Hann(s - i * Hop) * Hann(s - i * Hop) ELSE 0])
Istft(f) ==
  LET pad == (NFft - Hop) \div 2
      n   == (Count(f) - 1) * Hop + NFft
      all == Frames([s \in 0..n - 1 |-> Overlapped(f, s) * Recip(Overlap(f, s))])
  IN  IF pad > 0 /\ n > 2 * pad THEN [s \in 0..n - 2 * pad - 1 |-> all[s + pad]] ELSE all
Doubled(f) ==
  Frames([i \in 0..2 * Count(f) - 1 |->
    LET k == i \div 2
    IN  IF i % 2 = 0 \/ k + 1 \notin DOMAIN f THEN f[k] ELSE (f[k] + f[k + 1]) * Recip(2)])

----------------------------------------------------------------------------
LuxInit ==
  /\ text \in Texts /\ ref \in RefLengths /\ speed \in Speeds /\ steps \in StepCounts
  /\ remote \in Placements
  /\ stage = "tokenize" /\ tokens = <<>> /\ cond = [text |-> None, speech |-> None]
  /\ mel = None /\ hidden = None /\ orig = None /\ step = 0 /\ flat = 0 /\ wave = None

Fail ==
  /\ stage' = "failed"
  /\ UNCHANGED <<Requested, tokens, cond, mel, hidden, orig, step, flat, wave>>

\* tokenize panics, or gives nothing to encode (make_pos_emb of 0 frames).
Phonemes ==
  LET upto[k \in 0..Len(text)] ==
        IF k = 0 THEN <<>> ELSE upto[k - 1] \o (IF k = 1 THEN <<>> ELSE <<Space>>) \o Spoken(text[k])
  IN  upto[Len(text)]
Panics == \E k \in DOMAIN text : ~Known(text[k]) /\ Cuts(text[k])
Tokenize ==
  /\ stage = "tokenize"
  /\ ~Panics /\ Phonemes # <<>>
  /\ tokens' = Phonemes
  /\ stage' = "condition"
  /\ UNCHANGED <<Requested, cond, mel, hidden, orig, step, flat, wave>>
TokenizeFails == stage = "tokenize" /\ (Panics \/ Phonemes = <<>>) /\ Fail

\* A reference shorter than a window has no frame to spread.
Target == LET n == (Len(tokens) * speed[2]) \div speed[1] IN IF n = 0 THEN 1 ELSE n
Noise(n) == Frames([i \in 0..n - 1 |-> 7 * i + 3])
Condition ==
  /\ stage = "condition"
  /\ ref = NoReference \/ MelFrames(ref) > 0
  /\ cond' = [text |-> Spread(EncodeText(tokens), Target),
              speech |-> IF ref = NoReference THEN [i \in 0..Target - 1 |-> 0]
                         ELSE Spread(Mel(ref), Target)]
  /\ mel' = Noise(Target)
  /\ stage' = IF steps = 0 THEN "vocode" ELSE "project"
  /\ UNCHANGED <<Requested, tokens, hidden, orig, step, flat, wave>>
ConditionFails ==
  /\ stage = "condition"
  /\ ref # NoReference /\ MelFrames(ref) = 0
  /\ Fail

Project ==
  /\ stage = "project"
  /\ hidden' = InProj(mel) /\ flat' = 0
  /\ stage' = "block"
  /\ UNCHANGED <<Requested, tokens, cond, mel, orig, step, wave>>

\* One block, with the entry into its stack before the first and the way out
\* after the last.
Entered == LET ds == Factors[StackOf(flat)]
           IN  IF Opening(flat) /\ ds > 1 THEN Downsample(hidden, ds) ELSE hidden
Left(f, o) == LET ds == Factors[StackOf(flat)]
              IN  IF Closing(flat) /\ ds > 1 THEN Bypass(o, Upsample(f, ds, Count(o))) ELSE f
Forward ==
  /\ stage = "block"
  /\ flat \notin remote
  /\ orig' = IF Opening(flat) THEN hidden ELSE orig
  /\ LET te == StackTime(StackOf(flat), Time(step))
     IN  hidden' = Left(Unpack(Zipformer(Pack(te, Entered)), Count(Entered)), orig')
  /\ flat' = flat + 1
  /\ stage' = IF flat + 1 \in Blocks THEN "block" ELSE "euler"
  /\ UNCHANGED <<Requested, tokens, cond, mel, step, wave>>
\* forward, not forward_mut: the one of a Client always fails.
ForwardFails == stage = "block" /\ flat \in remote /\ Fail

EulerStep ==
  /\ stage = "euler"
  /\ mel' = Euler(mel, hidden)
  /\ step' = step + 1
  /\ hidden' = None /\ orig' = None
  /\ stage' = IF step + 1 = steps THEN "vocode" ELSE "project"
  /\ UNCHANGED <<Requested, tokens, cond, flat, wave>>

Vocode ==
  /\ stage = "vocode"
  /\ wave' = Doubled(Istft(Vocos(mel)))
  /\ stage' = "saved"
  /\ UNCHANGED <<Requested, tokens, cond, mel, hidden, orig, step, flat>>

LuxNext ==
  \/ Tokenize \/ TokenizeFails \/ Condition \/ ConditionFails
  \/ Project \/ Forward \/ ForwardFails \/ EulerStep \/ Vocode

LuxSpec == LuxInit /\ [][LuxNext]_lvars

----------------------------------------------------------------------------
Residues == 0..Modulus - 1
LuxTypeOK ==
  /\ stage \in {"tokenize", "condition", "project", "block", "euler", "vocode", "saved", "failed"}
  /\ \A f \in {mel, hidden, orig, wave, cond.text, cond.speech} :
       \A i \in DOMAIN f : i \in Nat /\ f[i] \in Residues
  /\ step \in 0..steps /\ flat \in 0..Cardinality(Blocks)

\* The decoder written directly: frame i of a layer attends frame j at distance
\* j - i, a stack at rate ds reads frames k * ds .. k * ds + ds - 1 (or the last
\* one), and frame i gets back the result of group i \div ds.
DirectWeights(f) ==
  [i \in DOMAIN f |-> [j \in DOMAIN f |-> (f[i] * f[j] + f[i] * Position(j - i)) % Modulus]]
DirectLow(f, ds) ==
  LET n == Count(f)
  IN  IF ds = 1 THEN f
      ELSE Frames([k \in 0..(n - 1) \div ds |-> Total([c \in 0..ds - 1 |->
             (c + 2) * f[IF k * ds + c < n THEN k * ds + c ELSE n - 1]])])
DirectRun(f, s, t) ==
  LET run[l \in 0..NumLayers[s]] ==
        IF l = 0 THEN DirectLow(f, Factors[s])
        ELSE Layer(DirectWeights(run[l - 1]), run[l - 1], StackTime(s, t))
  IN  run
DirectStack(f, s, t) ==
  LET out == DirectRun(f, s, t)[NumLayers[s]]
  IN  IF Factors[s] = 1 THEN out ELSE Bypass(f, [i \in DOMAIN f |-> out[i \div Factors[s]]])
DirectStacks(f, t) ==
  LET after[s \in 0..Len(NumLayers)] ==
        IF s = 0 THEN InProj(f) ELSE DirectStack(after[s - 1], s, t)
  IN  after
Velocity(f, t) == DirectStacks(f, t)[Len(NumLayers)]

(***************************************************************************)
(* Voiced.  Before each step of the solver, the decoder has computed the   *)
(* velocity of the current frames at the current time, frame by frame, as  *)
(* written directly above: the time embedding packed in front never leaks  *)
(* into the frames, and downsampling, padding, upsampling and narrowing    *)
(* put every frame back where it was.  The saved audio has two hops per    *)
(* frame, and no block that made it was on a worker: a run ends at the     *)
(* first block that is (docs/voice_generation.md says that they can be),   *)
(* or on a word whose bytes are cut, a reference without a frame or a text *)
(* without a token, and on nothing else.                                   *)
(***************************************************************************)
Voiced ==
  /\ stage = "euler" => hidden = Velocity(mel, Time(step))
  /\ stage = "saved" => /\ Count(wave) = 2 * Hop * Target /\ step = steps
                        /\ remote \cap Blocks = {} \/ steps = 0
  /\ stage = "failed" =>
       \/ mel # None /\ flat \in remote /\ \A b \in 0..flat - 1 : b \notin remote
       \/ \E k \in DOMAIN text : ~Known(text[k]) /\ \E j \in DOMAIN text[k] : text[k][j] \in Multibyte
       \/ ref # NoReference /\ ref < NFft
       \/ Phonemes = <<>>
=============================================================================
