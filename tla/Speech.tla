------------------------------- MODULE Speech -------------------------------
(***************************************************************************)
(* Text to speech with VibeVoice (models/vibevoice/vibevoice.rs, the       *)
(* "0.5B" streaming model, and vibevoice_1_5b.rs, the "1.5B" one).         *)
(*                                                                         *)
(* Both keep two conversations with one language model: the positive one   *)
(* hears the text and every frame produced so far, the negative one only   *)
(* the frames.  A frame of speech is sampled from the last hidden state of *)
(* each, then fed back to both.  A hidden state is modelled by what it can *)
(* depend on: the entries, with their positions, that were in the layer's  *)
(* KV cache when it was computed.                                          *)
(*                                                                         *)
(* One layer stands for all.  Sharded says that the topology gives it to a *)
(* worker: its cache is then the worker's, one per connection, whatever    *)
(* conversation the call belongs to.  The worker never sees the voice      *)
(* prompt, which is put into the caches of the master.                     *)
(***************************************************************************)
EXTENDS Integers, Sequences, SequencesExt, Selection

CONSTANTS Versions,      \* the models: a subset of {"0.5B", "1.5B"}
          Shardings,     \* whether the layer may run on a worker, on the master
          TextWindow,    \* TTS_TEXT_WINDOW_SIZE
          SpeechWindow,  \* TTS_SPEECH_WINDOW_SIZE
          VoiceLen,      \* entries of the voice prompt (0.5B)
          MaxText,       \* bound: tokens of the text
          MaxFrames,     \* bound: max_frames (0.5B)
          MaxLoop      \* bound: max_tokens (1.5B)

SpeechAssumption ==
  /\ Versions \subseteq {"0.5B", "1.5B"}
  /\ Shardings \subseteq BOOLEAN
  /\ {TextWindow, SpeechWindow} \subseteq Nat \ {0}
  /\ {VoiceLen, MaxText, MaxFrames, MaxLoop} \subseteq Nat

VARIABLES version,  \* the model that runs
          mode,     \* where generate is
          text,     \* the number of tokens of the text
          cursor,   \* text_cursor (0.5B)
          left,     \* iterations left: of the speech window, or of the loop
          cache,    \* stream -> the entries of its KV cache (pos_cache, ...)
          worker,   \* language model -> the entries of the worker's cache; none without a worker
          at,       \* stream -> index_pos of the next call (pos_pos, ...)
          last_hidden,     \* pos_last (0.5B), with the EOS classifier's answer
          pos_hidden,     \* pos_hidden: the condition a speech window uses (0.5B)
          neg,      \* neg_cond
          conv,     \* frames the streaming VAE caches remember (1.5B)
          frames    \* audio_latents / audio_chunks

svars == <<version, mode, text, cursor, left, cache, worker, at, last_hidden, pos_hidden,
            neg, conv, frames>>

Sharded == DOMAIN worker # {}

Conversations == {"base", "pos", "neg"}
Model(stream) == IF stream = "base" THEN "base" ELSE "tts"
EntryKinds == {"voice", "text", "start", "end", "diff", "frame"}

Items(sort, m, n) == [k \in 1..n - m + 1 |-> [of |-> sort, n |-> m + k - 1]]
Item(sort, n) == Items(sort, n, n)
Placed(items, pos) ==
  [k \in 1..Len(items) |-> [of |-> items[k].of, n |-> items[k].n, pos |-> pos + k - 1]]

\* inject_kv_cache: the caches start with the entries of the voice prompt.
Injected == Placed(Items("voice", 1, VoiceLen), 0)

\* What the layers see in one call of forward_layers: their cache, then the new entries.
Context(stream) == IF Sharded THEN worker[Model(stream)] ELSE cache[stream]

\* One pass through the layers: the cache, local or the worker's, grows by the
\* new entries and the last hidden state depends on all of it.
Seen(stream, items) == Context(stream) \o Placed(items, at[stream])
Grown(w, c, stream, items) ==
  LET seen == Seen(stream, items) IN
  [worker |-> IF Sharded THEN [w EXCEPT ![Model(stream)] = seen] ELSE w,
   cache  |-> IF Sharded THEN c ELSE [c EXCEPT ![stream] = seen]]

\* Two passes in a row, through the positive and the negative conversation.
Both(items) ==
  LET one  == Grown(worker, cache, "pos", items)
      ctx  == IF Sharded THEN one.worker["tts"] ELSE one.cache["neg"]
      seen == ctx \o Placed(items, at["neg"])
  IN  [pos    |-> Seen("pos", items),
       neg    |-> seen,
       worker |-> IF Sharded THEN [one.worker EXCEPT !["tts"] = seen] ELSE one.worker,
       cache  |-> IF Sharded THEN one.cache ELSE [one.cache EXCEPT !["neg"] = seen]]

\* Mutant of Latent: the rows of the batch are read back in the other order.
RowsSwapped(pos, uncond) == [cond |-> uncond, neg |-> pos]

\* sample_speech_latent: the two conditions are the rows of one batch; row 0 is
\* read back as the conditional prediction, row 1 as the unconditional one.
Latent(pos, uncond) ==
  LET condition == <<pos, uncond>> IN [cond |-> condition[1], neg |-> condition[2]]

\* A hidden state of the positive conversation and what should_stop says of it:
\* the classifier is a function, so one state gets one answer.
Hidden(seen, stop) == [seen |-> seen, stop |-> stop]
NoHidden == Hidden(<<>>, FALSE)

\* A frame, what it was sampled and decoded from, and whether the classifier
\* called it the last one: it is then not fed back.
Frame(pos, uncond, window, stop) ==
  LET l == Latent(pos, uncond) IN [cond |-> l.cond, neg |-> l.neg, conv |-> window, stop |-> stop]

----------------------------------------------------------------------------
SpeechInit ==
  /\ version \in Versions
  /\ text \in 1..MaxText
  /\ mode = "prefill"
  /\ cursor = 0
  /\ left = 0
  /\ cache = [s \in Conversations |-> IF version = "0.5B" THEN Injected ELSE <<>>]
  /\ \E sharded \in Shardings : worker = [m \in IF sharded THEN {"base", "tts"} ELSE {} |-> <<>>]
  /\ at = [s \in Conversations |-> IF version = "0.5B" THEN VoiceLen ELSE 0]
  /\ last_hidden = NoHidden
  /\ pos_hidden = NoHidden
  /\ neg = IF version = "0.5B" THEN Injected ELSE <<>>
  /\ conv = <<>>
  /\ frames = <<>>

----------------------------------------------------------------------------
\* The 0.5B model: a window of text, a window of speech, and so on; then speech only.

\* The next text tokens go through the base model, then through the TTS model.
ReadText ==
  LET end   == IF cursor + TextWindow < text THEN cursor + TextWindow ELSE text
      items == Items("text", cursor + 1, end)
      base  == Grown(worker, cache, "base", items)
      tts   == Grown(base.worker, base.cache, "pos", items)
      n     == Len(items)
  IN  /\ version = "0.5B" /\ mode = "prefill"
      /\ IF Len(frames) >= MaxFrames
         THEN mode' = "done" /\ UNCHANGED <<cursor, left, cache, worker, at, last_hidden, pos_hidden>>
         ELSE \E stop \in BOOLEAN :
              /\ n > 0
              /\ cache' = tts.cache /\ worker' = tts.worker
              /\ at' = [at EXCEPT !["base"] = @ + n, !["pos"] = @ + n]
              /\ last_hidden' = Hidden(Seen("pos", items), stop)
              /\ pos_hidden' = last_hidden'
              /\ cursor' = end
              /\ left' = SpeechWindow
              /\ mode' = "window"
      /\ UNCHANGED <<version, text, neg, conv, frames>>

\* The frame just sampled is fed back to both conversations.
FeedBack(frame) ==
  LET fed == Both(Item("frame", frame)) IN
  \E stop \in BOOLEAN :
    /\ cache' = fed.cache /\ worker' = fed.worker
    /\ at' = [at EXCEPT !["pos"] = @ + 1, !["neg"] = @ + 1]
    /\ last_hidden' = Hidden(fed.pos, stop)
    /\ neg' = fed.neg

\* One frame of a speech window: the condition is the one cloned before the loop.
SpeakInWindow ==
  /\ version = "0.5B" /\ mode = "window"
  /\ left > 0 /\ Len(frames) < MaxFrames
  /\ frames' = Append(frames, Frame(pos_hidden.seen, neg, <<>>, pos_hidden.stop))
  /\ IF pos_hidden.stop
     THEN left' = 0 /\ UNCHANGED <<cache, worker, at, last_hidden, neg>>
     ELSE left' = left - 1 /\ FeedBack(Len(frames) + 1)
  /\ UNCHANGED <<version, mode, text, cursor, pos_hidden, conv>>

\* The window is over, by its size, by max_frames or by the classifier.
EndWindow ==
  /\ version = "0.5B" /\ mode = "window"
  /\ left = 0 \/ Len(frames) >= MaxFrames
  /\ mode' = IF cursor >= text THEN "tail" ELSE "prefill"
  /\ UNCHANGED <<version, text, cursor, left, cache, worker, at, last_hidden, pos_hidden, neg, conv, frames>>

\* One turn of the speech-only loop, with the newest condition.
SpeakOn ==
  /\ version = "0.5B" /\ mode = "tail"
  /\ IF Len(frames) >= MaxFrames
     THEN mode' = "done" /\ UNCHANGED <<cache, worker, at, last_hidden, neg, frames>>
     ELSE /\ frames' = Append(frames, Frame(last_hidden.seen, neg, <<>>, last_hidden.stop))
          /\ IF last_hidden.stop
             THEN mode' = "done" /\ UNCHANGED <<cache, worker, at, last_hidden, neg>>
             ELSE FeedBack(Len(frames) + 1) /\ UNCHANGED mode
  /\ UNCHANGED <<version, text, cursor, left, pos_hidden, conv>>

----------------------------------------------------------------------------
\* The 1.5B model: one token at a time, of which some are frames of speech.

\* The prompt in the positive conversation, one speech_start in the negative one.
Prefill ==
  LET prompt == Grown(worker, cache, "pos", Items("text", 1, text) \o Item("start", 0))
      ctx    == IF Sharded THEN prompt.worker["tts"] ELSE <<>>
      seen   == ctx \o Placed(Item("start", 0), 0)
  IN  /\ version = "1.5B" /\ mode = "prefill"
      /\ cache' = IF Sharded THEN cache ELSE [prompt.cache EXCEPT !["neg"] = seen]
      /\ worker' = IF Sharded THEN [worker EXCEPT !["tts"] = seen] ELSE worker
      /\ at' = [at EXCEPT !["pos"] = text + 1, !["neg"] = 1]
      /\ last_hidden' = Hidden(Seen("pos", Items("text", 1, text) \o Item("start", 0)), FALSE)
      /\ left' = MaxLoop
      /\ mode' = "loop"
      /\ UNCHANGED <<version, text, cursor, pos_hidden, neg, conv, frames>>

\* The token chosen is not a frame: only the positive conversation hears it.
Hear(w, c, token) ==
  LET seen == (IF Sharded THEN w["tts"] ELSE c["pos"]) \o Placed(Item(token, 0), at["pos"]) IN
  /\ last_hidden' = Hidden(seen, FALSE)
  /\ worker' = IF Sharded THEN [w EXCEPT !["tts"] = seen] ELSE w
  /\ cache' = IF Sharded THEN c ELSE [c EXCEPT !["pos"] = seen]

\* SPEECH_END_ID: the streaming caches are cleared.
EndOfSpeech ==
  /\ version = "1.5B" /\ mode = "loop" /\ left > 0
  /\ conv' = <<>>
  /\ Hear(worker, cache, "end")
  /\ at' = [at EXCEPT !["pos"] = @ + 1]
  /\ left' = left - 1
  /\ UNCHANGED <<version, mode, text, cursor, pos_hidden, neg, frames>>

\* SPEECH_START_ID: a new negative cache, which hears one speech_start.
StartOfSpeech ==
  LET ctx  == IF Sharded THEN worker["tts"] ELSE <<>>
      seen == ctx \o Placed(Item("start", 0), 0)
  IN  /\ version = "1.5B" /\ mode = "loop" /\ left > 0
      /\ conv' = <<>>
      /\ Hear(IF Sharded THEN [worker EXCEPT !["tts"] = seen] ELSE worker,
              IF Sharded THEN cache ELSE [cache EXCEPT !["neg"] = seen], "start")
      /\ at' = [at EXCEPT !["pos"] = @ + 1, !["neg"] = 1]
      /\ left' = left - 1
      /\ UNCHANGED <<version, mode, text, cursor, pos_hidden, neg, frames>>

\* SPEECH_DIFFUSION_ID: the negative conversation hears the placeholder, a frame
\* is sampled and decoded with the streaming caches, the positive one hears it.
Speak ==
  LET heard == Grown(worker, cache, "neg", Item("diff", 0))
      seen  == Seen("neg", Item("diff", 0))
      next  == Item("frame", Len(frames) + 1)
      after == (IF Sharded THEN heard.worker["tts"] ELSE cache["pos"]) \o Placed(next, at["pos"])
  IN  /\ version = "1.5B" /\ mode = "loop" /\ left > 0
      /\ conv' = Append(conv, Len(frames) + 1)
      /\ frames' = Append(frames, Frame(last_hidden.seen, seen, conv', FALSE))
      /\ last_hidden' = Hidden(after, FALSE)
      /\ worker' = IF Sharded THEN [worker EXCEPT !["tts"] = after] ELSE worker
      /\ cache' = IF Sharded THEN cache ELSE [heard.cache EXCEPT !["pos"] = after]
      /\ at' = [at EXCEPT !["pos"] = @ + 1, !["neg"] = @ + 1]
      /\ neg' = seen
      /\ left' = left - 1
      /\ UNCHANGED <<version, mode, text, cursor, pos_hidden>>

\* EOS_ID, or the steps are used up.
EndLoop ==
  /\ version = "1.5B" /\ mode = "loop"
  /\ mode' = "done"
  /\ UNCHANGED <<version, text, cursor, left, cache, worker, at, last_hidden, pos_hidden, neg, conv, frames>>

SpeechNext ==
  \/ ReadText \/ SpeakInWindow \/ EndWindow \/ SpeakOn
  \/ Prefill \/ EndOfSpeech \/ StartOfSpeech \/ Speak \/ EndLoop

SpeechSpec == SpeechInit /\ [][SpeechNext]_svars

----------------------------------------------------------------------------
Entry == [of : EntryKinds, n : Nat, pos : Nat]

SpeechTypeOK ==
  /\ version \in Versions
  /\ mode \in {"prefill", "window", "tail", "loop", "done"}
  /\ text \in 1..MaxText /\ cursor \in 0..text
  /\ left \in 0..(MaxLoop + SpeechWindow)
  /\ \A s \in Conversations : cache[s] \in Seq(Entry) /\ at[s] \in Nat
  /\ \A m \in DOMAIN worker : worker[m] \in Seq(Entry)
  /\ \A h \in {last_hidden, pos_hidden} : h.seen \in Seq(Entry) /\ h.stop \in BOOLEAN
  /\ neg \in Seq(Entry) /\ conv \in Seq(Nat)
  /\ Len(frames) <= MaxFrames + MaxLoop

\* The entries after the last one of the given kinds.
Since(context, kinds) ==
  LET marks == {k \in DOMAIN context : context[k].of \in kinds}
      m   == IF marks = {} THEN 0 ELSE CHOOSE k \in marks : \A j \in marks : j <= k
  IN  SubSeq(context, m + 1, Len(context))
Only(context, sort) == Among(context, [of : {sort}, n : Nat, pos : Nat])
NumbersOf(context) == [k \in DOMAIN context |-> context[k].n]
UpTo(n) == [k \in 1..n |-> k]

\* The entries of a hidden state sit at the positions they were rotated to,
\* with nothing missing, doubled or foreign among them.
InOrder(context) == \A k \in DOMAIN context : context[k].pos = k - 1

\* The frames before the j-th that were fed back.
FedBack(j) == Among(UpTo(j - 1), {k \in DOMAIN frames : ~frames[k].stop})

(***************************************************************************)
(* What each frame of speech depends on.  Its positive condition heard the *)
(* voice or the prompt and the text in order, its negative condition no    *)
(* text.  The 1.5B model's positive condition heard every earlier frame,   *)
(* its negative one as many placeholders as the positive one heard frames  *)
(* since speech last started, and its decoder remembers exactly the frames *)
(* since speech last started or ended.  In the 0.5B model the negative     *)
(* condition heard every frame that was fed back, the positive one may be  *)
(* behind by the others of its window: vibevoice.rs:321 clones the         *)
(* condition before the loop that advances it.                             *)
(***************************************************************************)
FrameOK(j) ==
  LET f == frames[j]
      heard == NumbersOf(Only(f.cond, "frame"))
      fed   == FedBack(j)
  IN  /\ InOrder(f.cond) /\ InOrder(f.neg)
      /\ Only(f.neg, "text") = <<>>
      /\ NumbersOf(Only(f.cond, "text")) = UpTo(Len(Only(f.cond, "text")))
      /\ IsPrefix(heard, fed)
      /\ \/ /\ version = "1.5B"
            /\ heard = UpTo(j - 1)
            /\ Len(Only(f.neg, "diff")) = 1 + Len(Only(Since(f.cond, {"start"}), "frame"))
            /\ f.conv = NumbersOf(Only(Since(f.cond, {"start", "end"}), "frame")) \o <<j>>
         \/ /\ version = "0.5B"
            /\ Len(heard) > Len(fed) - SpeechWindow
            /\ Len(Only(f.cond, "voice")) = VoiceLen
            /\ NumbersOf(Only(f.neg, "frame")) = fed

Doubled(s) == [k \in 1..2 * Len(s) |-> s[(k + 1) \div 2]]

(***************************************************************************)
(* With the layers on a worker both conversations are one, its cache's:    *)
(* the text and the frames still come in order, but the voice is never     *)
(* heard, and the negative condition heard the text as well.  The 1.5B     *)
(* model's negative condition is the positive one and a placeholder, after *)
(* a prefill behind a second start; the 0.5B model's both heard the frames *)
(* that were fed back twice, except that its first negative one is the     *)
(* prompt's own.                                                           *)
(***************************************************************************)
FrameMixed(j) ==
  LET f == frames[j]
      told  == NumbersOf(Only(f.cond, "text"))
      heard == NumbersOf(Only(f.cond, "frame"))
      fed   == FedBack(j)
  IN  /\ told # <<>> /\ told = UpTo(Len(told))
      /\ Only(f.cond, "voice") = <<>>
      /\ \/ /\ version = "1.5B"
            /\ heard = UpTo(j - 1)
            /\ IsPrefix(f.cond, f.neg) /\ Len(f.neg) - Len(f.cond) \in {1, 2}
            /\ f.conv = NumbersOf(Only(Since(f.cond, {"start", "end"}), "frame")) \o <<j>>
         \/ /\ version = "0.5B"
            /\ IsPrefix(heard, Doubled(fed)) /\ Len(heard) > 2 * (Len(fed) - SpeechWindow)
            /\ IF fed = <<>> THEN f.neg = Injected
               ELSE Only(f.neg, "text") # <<>> /\ NumbersOf(Only(f.neg, "frame")) = Doubled(fed)

Conditioned == \A j \in DOMAIN frames : IF Sharded THEN FrameMixed(j) ELSE FrameOK(j)
=============================================================================
