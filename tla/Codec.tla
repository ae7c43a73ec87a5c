-------------------------------- MODULE Codec --------------------------------
(***************************************************************************)
(* The streaming audio codec of VibeVoice 1.5B: one frame at a time is     *)
(* decoded to samples (models/vibevoice/vae_decoder.rs) and the samples    *)
(* encoded again as feedback (vae_encoder.rs).  Between calls every        *)
(* convolution keeps the end of its input in a slot of a                   *)
(* StreamingConvCache; slots are handed out in the order the layers run.   *)
(*                                                                         *)
(* A signal is a sequence of numbers modulo Prime and a layer combines     *)
(* neighbours with fixed, distinct weights, so that a sample computed from *)
(* a wrong neighbour has a wrong value.                                    *)
(***************************************************************************)
EXTENDS Integers, Sequences

CONSTANTS Ratios,     \* decoder_ratios, in the order of the configuration
          Kernel,     \* the kernel of the stride-1 convolutions, 7 in the code
          Depth,      \* blocks of a stage
          Prime,      \* bound: samples are numbers modulo Prime
          Latents,    \* the values of a frame
          MaxFrames   \* bound: frames decoded between two clears

CodecAssumption ==
  /\ Ratios \in Seq(Nat \ {0}) /\ Kernel \in Nat \ {0} /\ Depth \in Nat
  /\ \E k \in DOMAIN Ratios : Ratios[k] > 1
  /\ Prime \in Nat \ {0, 1} /\ Latents \subseteq 0..Prime - 1 /\ MaxFrames \in Nat

VARIABLES acoustic,  \* acoustic_cache.states, a sequence: <<>> for None
          semantic,  \* semantic_cache.states
          latents,   \* the frames since the caches were cleared
          audio,     \* the samples they were decoded to
          features   \* what those samples were encoded to

cvars == <<acoustic, semantic, latents, audio, features>>

Zeros(n) == [k \in 1..n |-> 0]
From(s, n) == SubSeq(s, Len(s) - n + 1, Len(s))            \* the last n
AtMost(s, n) == IF Len(s) > n THEN From(s, n) ELSE s        \* at most n of the end

----------------------------------------------------------------------------
\* The layers.

\* The weighted sum of the samples in a window, with a bias.
Weighted(w) ==
  LET sum[k \in 0..Len(w)] == IF k = 0 THEN 1 ELSE (sum[k - 1] + (k + 1) * w[k]) % Prime
  IN  sum[Len(w)]

\* conv1d without padding: one output for every step of the window.
Conv(x, kernel, stride) ==
  [t \in 1..(Len(x) - kernel) \div stride + 1 |->
     Weighted(SubSeq(x, (t - 1) * stride + 1, (t - 1) * stride + kernel))]

\* conv_transpose1d: an input reaches the 2 * stride outputs from its own place on,
\* so that an output has the input at its place and the one before.
Tap(x, i, k) == IF i \in DOMAIN x THEN (k + 2) * x[i] ELSE 0
ConvTranspose(x, stride) ==
  [t \in 1..(Len(x) + 1) * stride |->
     LET i == (t - 1) \div stride + 1
         k == (t - 1) % stride
     IN  (1 + Tap(x, i, k) + Tap(x, i - 1, k + stride)) % Prime]

\* causal_trim: the outputs past the last input are dropped.
Trim(x, n) == IF n > 0 /\ Len(x) > n THEN SubSeq(x, 1, Len(x) - n) ELSE x

\* A block: norm, depthwise convolution over the given context, residual, and a
\* pointwise network.
Normed(x) == [k \in DOMAIN x |-> (3 * x[k]) % Prime]
Mixed(x, context) ==
  LET h == Conv(context \o Normed(x), Kernel, 1)
  IN  [k \in DOMAIN x |-> ((x[k] + h[k]) * (x[k] + h[k] + 1)) % Prime]

\* The context a block keeps: the last Kernel - 1 of context and input.
NextContext(x, context) ==
  LET n == Kernel - 1
      h == Normed(x)
  IN  IF Len(h) >= n THEN From(h, n)
      ELSE SubSeq(context, n - (n - Len(h)) + 1, n) \o h

----------------------------------------------------------------------------
\* The two networks, as sequences of layers: a convolution (with its stride and
\* the padding on its left), a transposed one, or a block.
Plain == [op |-> "conv", stride |-> 1, kernel |-> Kernel, pad |-> Kernel - 1]
Strided(r) == [op |-> "conv", stride |-> r, kernel |-> 2 * r, pad |-> r]
Transposed(r) == [op |-> "up", stride |-> r, kernel |-> 2 * r, pad |-> 2 * r - 1]
Block == [op |-> "block", stride |-> 1, kernel |-> Kernel, pad |-> Kernel - 1]

\* Stages of Depth blocks, each after a layer that changes the rate (a plain one
\* before the first), and a plain layer as the head.
Network(rated) ==
  [k \in 1..(Len(rated) + 1) * (Depth + 1) + 1 |->
     LET stage == (k - 1) \div (Depth + 1)
     IN  CASE (k - 1) % (Depth + 1) # 0 -> Block
           [] (k - 1) % (Depth + 1) = 0 /\ stage \in DOMAIN rated -> rated[stage]
           [] OTHER -> Plain]
Decoder == Network([k \in DOMAIN Ratios |-> Transposed(Ratios[k])])
Encoder == Network([k \in DOMAIN Ratios |-> Strided(Ratios[Len(Ratios) + 1 - k])])

\* decode and encode: everything at once.  A strided layer of the encoder also pads
\* on the right, up to one step past the last whole window.
RightPad(x, l) ==
  LET n == (Len(x) - l.kernel) \div l.stride + 1
  IN  IF l.stride > 1 THEN n * l.stride + l.kernel - Len(x) ELSE 0
BatchLayer(x, l) ==
  LET padded == Zeros(l.pad) \o x
  IN  CASE l.op = "conv"  -> Conv(padded \o Zeros(RightPad(padded, l)), l.kernel, l.stride)
        [] l.op = "up"    -> Trim(ConvTranspose(x, l.stride), l.stride)
        [] l.op = "block" -> Mixed(x, Zeros(l.pad))
Batch(layers, x) ==
  LET after[k \in 0..Len(layers)] == IF k = 0 THEN x ELSE BatchLayer(after[k - 1], layers[k])
  IN  after[Len(layers)]
Decode(x) == Batch(Decoder, x)
Encode(x) == Batch(Encoder, x)

----------------------------------------------------------------------------
\* Streaming: [h, states, slot], where slot is the number of slots taken so far.
Context(st, l) ==
  LET s == st.states[st.slot + 1] IN IF s = <<>> THEN Zeros(l.pad) ELSE s
Stored(st, s, h) == [h |-> h, states |-> [st.states EXCEPT ![st.slot + 1] = s], slot |-> st.slot + 1]

StreamConv(st, l) ==
  LET padded == Context(st, l) \o st.h
  IN  Stored(st, AtMost(padded, l.pad), Conv(padded, l.kernel, l.stride))

\* Mutant of StreamBlock: the context of a block is the end of its input only.
KeepsInput(st, l) ==
  LET c == Context(st, l)
      h == Normed(st.h)
  IN  Stored(st, IF Len(h) >= l.pad THEN From(h, l.pad) ELSE Zeros(l.pad - Len(h)) \o h,
             Mixed(st.h, c))
StreamBlock(st, l) ==
  LET c == Context(st, l) IN Stored(st, NextContext(st.h, c), Mixed(st.h, c))

StreamUp(st, l) ==
  LET cached == st.states[st.slot + 1]
      full   == cached \o st.h
      out    == Trim(ConvTranspose(full, l.stride), l.stride)
  IN  Stored(st, AtMost(full, l.pad),
             IF cached = <<>> THEN out ELSE From(out, Len(st.h) * l.stride))

StreamLayer(st, l) ==
  CASE l.op = "conv"  -> StreamConv(st, l)
    [] l.op = "up"    -> StreamUp(st, l)
    [] l.op = "block" -> StreamBlock(st, l)

\* decode_streaming and encode_streaming: reset_counter, then the layers in order.
Streamed(layers, states, x) ==
  LET after[k \in 0..Len(layers)] ==
        IF k = 0 THEN [h |-> x, states |-> states, slot |-> 0]
        ELSE StreamLayer(after[k - 1], layers[k])
  IN  after[Len(layers)]

Cleared(layers) == [k \in DOMAIN layers |-> <<>>]

----------------------------------------------------------------------------
CodecInit ==
  /\ acoustic = Cleared(Decoder) /\ semantic = Cleared(Encoder)
  /\ latents = <<>> /\ audio = <<>> /\ features = <<>>

\* A frame is sampled: decoded to samples, which are encoded as feedback.
Speak(v) ==
  LET chunk == Streamed(Decoder, acoustic, <<v>>)
      heard == Streamed(Encoder, semantic, chunk.h)
  IN  /\ Len(latents) < MaxFrames
      /\ acoustic' = chunk.states /\ semantic' = heard.states
      /\ latents' = Append(latents, v)
      /\ audio' = audio \o chunk.h
      /\ features' = features \o heard.h

\* SPEECH_START_ID or SPEECH_END_ID: both caches are cleared.
Clear ==
  /\ acoustic' = Cleared(Decoder) /\ semantic' = Cleared(Encoder)
  /\ latents' = <<>> /\ audio' = <<>> /\ features' = <<>>

CodecNext == (\E v \in Latents : Speak(v)) \/ Clear

CodecSpec == CodecInit /\ [][CodecNext]_cvars

----------------------------------------------------------------------------
Samples == Seq(0..Prime - 1)

CodecTypeOK ==
  /\ \A k \in DOMAIN Decoder : acoustic[k] \in Samples
  /\ \A k \in DOMAIN Encoder : semantic[k] \in Samples
  /\ latents \in Seq(Latents) /\ audio \in Samples /\ features \in Samples

(***************************************************************************)
(* Streaming is seamless: the chunks decoded since the caches were cleared *)
(* are the batch decoding of all their frames, and the features are those  *)
(* of the batch encoding of all their samples, which has one frame more    *)
(* (vae_encoder.rs:337 pads a whole step when the length already fits).    *)
(***************************************************************************)
Seamless ==
  /\ audio = Decode(latents) \/ latents = <<>>
  /\ latents # <<>> =>
       /\ Len(features) = Len(latents)
       /\ \E v \in 0..Prime - 1 : Encode(audio) = Append(features, v)
=============================================================================
