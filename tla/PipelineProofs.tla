--------------------------- MODULE PipelineProofs ---------------------------
(***************************************************************************)
(* Proofs about ModelTransfer and LuxTTS.  ModelTransfer, for all models,  *)
(* layers, shards, chunk counts and buffers, and any number of setups,     *)
(* broken transfers and restarts: a transfer that is signalled done left   *)
(* everything the layers need, and has_valid_model_cache is right about    *)
(* directories that were not left half filled.  LuxTTS, for every text,    *)
(* dictionary, list of stacks, kernel and window: the decoder's blocks     *)
(* compute what the layers compute when written frame by frame.            *)
(***************************************************************************)
EXTENDS ModelTransfer, LuxTTS, SequenceTheorems, FiniteSetTheorems, WellFoundedInduction, TLAPS

Assumed == ShardAssumption /\ ChunkAssumption /\ SetupAssumption

-----------------------------------------------------------------------------
(* The inductive invariant.                                                *)
(*                                                                         *)
(* What is in the connection while a transfer runs is a piece of a stream: *)
(* file after file, each with its chunks in order.  n numbers the chunks   *)
(* of the piece within their files.                                        *)

\* The chunks are numbered on; a file begins when the one before is over.
Stream(n) ==
  /\ \A i \in 1 .. Len(wire) : ~ wire[i].done =>
       /\ wire[i].file \in ToSend(model, layers)
       /\ n[i] <= Chunks(wire[i].file)
       /\ wire[i].file \in pend => wire[i].file = at
  /\ \A i, j \in 1 .. Len(wire) :
       i < j /\ wire[i].file = wire[j].file => n[i] < n[j]
  /\ \A i \in 1 .. Len(wire) - 1 :
       /\ ~ wire[i].done
       /\ IF n[i] < Chunks(wire[i].file)
            THEN /\ ~ wire[i + 1].done /\ wire[i + 1].file = wire[i].file
                 /\ n[i + 1] = n[i] + 1
            ELSE n[i + 1] = 1

\* The receiver is where the stream goes on.
Reading(n) ==
  wire # <<>> /\ ~ wire[1].done =>
    IF n[1] = 1 THEN wire[1].file # cur
                ELSE wire[1].file = cur /\ disk[model][cur] = n[1] - 1

\* And so is the sender.
Writing(n) ==
  IF wire = <<>>
    THEN pushing /\ (at # NoFile => cur = at /\ disk[model][at] = sent)
    ELSE /\ wire[Len(wire)].done <=> ~ pushing
         /\ pushing => IF at = NoFile
                         THEN n[Len(wire)] = Chunks(wire[Len(wire)].file)
                         ELSE /\ wire[Len(wire)].file = at
                              /\ n[Len(wire)] = sent

\* What the sender has still to do.
Sending ==
  /\ pend \subseteq ToSend(model, layers)
  /\ IF at = NoFile THEN sent = 0
                    ELSE at \in pend /\ 0 < sent /\ sent < Chunks(at)
  /\ ~ pushing => pend = {}
  /\ cur \in pend => cur = at

\* A file that was sent and is not under way has arrived.
Arrived ==
  \A f \in ToSend(model, layers) \ pend :
    (\A i \in 1 .. Len(wire) : wire[i].file # f) =>
      Complete(model, f) /\ (f = "index" => covers[model] = layers)

Numbers == [1 .. Len(wire) -> 1 .. WeightChunks]

Transferring ==
  /\ \E n \in Numbers : Stream(n) /\ Reading(n) /\ Writing(n)
  /\ Sending /\ Arrived /\ model \in dirty

\* A sharded model has no single weight file.
NoSingle == \A m \in Sharded : ~ Exists(m, "single")

\* Chunks are of files, ModelDataDone is of none.
Messages == \A i \in 1 .. Len(wire) : wire[i].done <=> wire[i].file = NoFile

IInv == /\ TypeOK /\ Messages /\ NoSingle /\ CacheSound
        /\ phase = "receive" => Transferring
        /\ pushing => phase = "receive"

-----------------------------------------------------------------------------
(* Files. *)

LEMMA FileFacts ==
  ASSUME Assumed
  PROVE  /\ NoFile \notin Files
         /\ \A f \in Files : Chunks(f) \in 1 .. WeightChunks
         /\ WeightChunks \in Nat
         /\ \A m \in Models, ls \in SUBSET Layers : ToSend(m, ls) \subseteq Files
         /\ \A m \in Sharded, ls \in SUBSET Layers : "single" \notin ToSend(m, ls)
         /\ "single" \in Files /\ "config" \in Files /\ "index" \in Files
<1>1. Shards \cap {"config", "tokenizer", "index", "single", NoFile} = {}
  BY DEF Assumed, ShardAssumption, Small
<1>2. NoFile \notin Files
  BY <1>1 DEF Files, Small, NoFile
<1>3. WeightChunks \in Nat \ {0}
  BY DEF Assumed, ChunkAssumption
<1>4. \A f \in Files : Chunks(f) \in 1 .. WeightChunks
  BY <1>3 DEF Chunks
<1>5. \A ls \in SUBSET Layers : UNION {ShardsOf[l] : l \in ls} \subseteq Shards
  BY DEF Assumed, ShardAssumption
<1>6. \A m \in Models, ls \in SUBSET Layers : ToSend(m, ls) \subseteq Files
  BY <1>5 DEF ToSend, WeightFiles, Files, Small
<1>7. \A m \in Sharded, ls \in SUBSET Layers : "single" \notin ToSend(m, ls)
  BY <1>1, <1>5 DEF ToSend, WeightFiles
<1>8. QED
  BY <1>2, <1>3, <1>4, <1>6, <1>7 DEF Files, Small

-----------------------------------------------------------------------------
(* Type correctness. *)

Message == [file : Files \cup {NoFile}, done : BOOLEAN]

LEMMA MessageTypes ==
  /\ \A f \in Files : /\ Chunk(f) \in Message /\ Chunk(f).file = f
                      /\ Chunk(f).done = FALSE
  /\ Done \in Message /\ Done.file = NoFile /\ Done.done = TRUE
  BY DEF Chunk, Done, Message

\* What happens to the connection.
LEMMA Taken ==
  ASSUME NEW s \in Seq(Message), s # <<>>
  PROVE  /\ Head(s) = s[1] /\ s[1] \in Message /\ Len(s) \in Nat \ {0}
         /\ Tail(s) \in Seq(Message) /\ Len(Tail(s)) = Len(s) - 1
         /\ \A i \in 1 .. Len(s) - 1 : Tail(s)[i] = s[i + 1]
  OBVIOUS

LEMMA Put ==
  ASSUME NEW s \in Seq(Message), NEW e \in Message
  PROVE  /\ Append(s, e) \in Seq(Message) /\ Len(Append(s, e)) = Len(s) + 1
         /\ Len(s) \in Nat
         /\ \A i \in 1 .. Len(s) : Append(s, e)[i] = s[i]
         /\ Append(s, e)[Len(s) + 1] = e /\ Append(s, e) # <<>>
  OBVIOUS

LEMMA Empty == <<>> \in Seq(Message)
  OBVIOUS

LEMMA NoLength == ASSUME NEW s \in Seq(Message), Len(s) = 0 PROVE s = <<>>
  OBVIOUS

LEMMA WireType == TypeOK => wire \in Seq(Message)
  BY DEF TypeOK, Message

LEMMA InitType == ASSUME Assumed, Init PROVE TypeOK
<1>1. /\ <<>> \in Seq(Message) /\ model \in Models
  BY Empty DEF Init, Assumed, ShardAssumption
<1>2. disk \in [Models -> [Files -> Nat \cup {Absent}]]
  BY DEF Init
<1>3. /\ setups \in 0 .. MaxSetups /\ covers \in [Models -> SUBSET Layers]
  BY DEF Init, Assumed, SetupAssumption
<1>4. QED
  BY <1>1, <1>2, <1>3 DEF Init, TypeOK, Message

\* What a chunk that is read does to the directory.
LEMMA OpenedType ==
  ASSUME TypeOK, NEW f \in Files
  PROVE  Opened(f) \in Nat \cup {Absent} /\ Opened(f) + 1 \in Nat \cup {Absent}
<1>1. disk[model][f] \in Nat \cup {Absent}
  BY DEF TypeOK
<1>2. QED
  BY <1>1 DEF Opened, Absent

LEMMA NextType == ASSUME Assumed, TypeOK, [Next]_vars PROVE TypeOK'
<1>1. wire \in Seq(Message)
  BY WireType
<1>2. CASE Start
  <2>1. setups' \in 0 .. MaxSetups
    BY <1>2 DEF Start, TypeOK, Assumed, SetupAssumption
  <2>2. QED
    BY <1>2, <2>1 DEF Start, TypeOK, sender, store
<1>3. ASSUME NEW m \in Models, NEW ls \in (SUBSET Layers) \ {{}}, Assign(m, ls)
      PROVE  TypeOK'
  <2>1. <<>> \in Seq(Message)
    BY Empty
  <2>2. ToSend(m, ls) \subseteq Files
    BY FileFacts
  <2>3. CASE HasValidCache(m, ls)
    BY <1>3, <2>1, <2>3 DEF Assign, TypeOK, store, Message
  <2>4. CASE ~ HasValidCache(m, ls)
    BY <1>3, <2>1, <2>2, <2>4 DEF Assign, TypeOK, store, Message
  <2>5. QED
    BY <2>3, <2>4
<1>4. ASSUME NEW f \in pend, PushChunk(f) PROVE TypeOK'
  <2>1. f \in Files
    BY DEF TypeOK
  <2>2. Append(wire, Chunk(f)) \in Seq(Message)
    BY <1>1, <2>1, Put, MessageTypes
  <2>3. /\ pend' \subseteq Files /\ sent' \in Nat /\ at' \in Files \cup {NoFile}
    BY <1>4, <2>1 DEF PushChunk, TypeOK
  <2>4. QED
    BY <1>4, <2>2, <2>3 DEF PushChunk, TypeOK, session, receiver, store, Message
<1>5. CASE PushDone
  <2>1. Append(wire, Done) \in Seq(Message)
    BY <1>1, Put, MessageTypes
  <2>2. QED
    BY <1>5, <2>1 DEF PushDone, TypeOK, session, receiver, store, Message
<1>6. CASE ReceiveChunk
  <2> PICK f : f = Head(wire).file
    OBVIOUS
  <2>1. /\ f \in Files \cup {NoFile} /\ Tail(wire) \in Seq(Message)
    BY <1>1, <1>6, Taken DEF ReceiveChunk, Message
  <2>2. CASE f \in Files
    <3>1. /\ disk' \in [Models -> [Files -> Nat \cup {Absent}]]
          /\ covers' \in [Models -> SUBSET Layers]
      <4>1. /\ disk' = [disk EXCEPT ![model][f] = Opened(f) + 1]
            /\ covers' = IF f = "index" THEN [covers EXCEPT ![model] = layers] ELSE covers
            /\ layers \in SUBSET Layers
        BY <1>6 DEF ReceiveChunk, TypeOK
      <4>2. Opened(f) + 1 \in Nat \cup {Absent}
        BY <2>2, OpenedType
      <4>3. QED
        BY <2>2, <4>1, <4>2 DEF TypeOK
    <3>2. QED
      BY <1>6, <2>1, <3>1 DEF ReceiveChunk, TypeOK, session, sender, Message
  <2>3. CASE f = NoFile
    <3>1. [disk EXCEPT ![model][f] = Opened(f) + 1] = disk
      BY <2>3, FileFacts DEF TypeOK
    <3>2. disk' = disk /\ covers' = covers
      BY <1>6, <2>3, <3>1 DEF ReceiveChunk, NoFile
    <3>3. QED
      BY <1>6, <2>1, <3>2 DEF ReceiveChunk, TypeOK, session, sender, Message
  <2>4. QED
    BY <2>1, <2>2, <2>3
<1>7. CASE WriteFails
  <2> PICK f : f = Head(wire).file
    OBVIOUS
  <2>1. f \in Files \cup {NoFile} /\ <<>> \in Seq(Message)
    BY <1>1, <1>7, Taken, Empty DEF WriteFails, Message
  <2>2. CASE f \in Files
    <3>1. /\ disk' \in [Models -> [Files -> Nat \cup {Absent}]]
          /\ covers' \in [Models -> SUBSET Layers]
      <4>1. /\ disk' = [disk EXCEPT ![model][f] = Opened(f)]
            /\ covers' = IF f = "index" THEN [covers EXCEPT ![model] = {}] ELSE covers
        BY <1>7 DEF WriteFails
      <4>2. Opened(f) \in Nat \cup {Absent}
        BY <2>2, OpenedType
      <4>3. QED
        BY <2>2, <4>1, <4>2 DEF TypeOK
    <3>2. QED
      BY <1>7, <2>1, <3>1 DEF WriteFails, TypeOK, session, Message
  <2>3. CASE f = NoFile
    <3>1. [disk EXCEPT ![model][f] = Opened(f)] = disk
      BY <2>3, FileFacts DEF TypeOK
    <3>2. disk' = disk /\ covers' = covers
      BY <1>7, <2>3, <3>1 DEF WriteFails, NoFile
    <3>3. QED
      BY <1>7, <2>1, <3>2 DEF WriteFails, TypeOK, session, Message
  <2>4. QED
    BY <2>1, <2>2, <2>3
<1>8. CASE ReceiveDone
  <2>1. Tail(wire) \in Seq(Message)
    BY <1>1, <1>8, Taken DEF ReceiveDone
  <2>2. QED
    BY <1>8, <2>1 DEF ReceiveDone, TypeOK, session, sender, store, Message
<1>9. CASE Break
  <2>1. <<>> \in Seq(Message)
    BY Empty
  <2>2. QED
    BY <1>9, <2>1 DEF Break, TypeOK, session, store, Message
<1>10. CASE Load \/ Die
  BY <1>10 DEF Load, Die, TypeOK, session, sender, store
<1>11. CASE UNCHANGED vars
  BY <1>11 DEF vars, TypeOK, session, sender, receiver, store
<1>12. QED
  BY <1>2, <1>3, <1>4, <1>5, <1>6, <1>7, <1>8, <1>9, <1>10, <1>11
  DEF Next, AnyAssign, AnyPush

-----------------------------------------------------------------------------
(* A transfer. *)

LEMMA PushChunkStep ==
  ASSUME Assumed, TypeOK, Messages, Transferring, pushing,
         NEW f \in pend, PushChunk(f)
  PROVE  Messages' /\ Transferring'
<1>1. wire \in Seq(Message) /\ f \in Files /\ f # NoFile /\ sent \in Nat
  BY WireType, FileFacts DEF TypeOK
<1>2. PICK n \in Numbers : Stream(n) /\ Reading(n) /\ Writing(n)
  BY DEF Transferring
<1>3. PICK L : L = Len(wire)
  OBVIOUS
<1>4. /\ L \in Nat /\ Len(wire') = L + 1 /\ wire' # <<>>
      /\ \A i \in 1 .. L : wire'[i] = wire[i]
      /\ wire'[L + 1].file = f /\ ~ wire'[L + 1].done
      /\ wire = <<>> <=> L = 0
  BY <1>1, <1>3, Put, MessageTypes DEF PushChunk
<1>5. /\ UNCHANGED <<model, layers, cur, disk, covers, dirty, pushing>>
      /\ at = NoFile \/ f = at
      /\ IF sent + 1 = Chunks(f)
           THEN pend' = pend \ {f} /\ sent' = 0 /\ at' = NoFile
           ELSE sent' = sent + 1 /\ at' = f /\ pend' = pend
  BY DEF PushChunk, session, receiver, store
<1>6. /\ pend \subseteq ToSend(model, layers) /\ NoFile \notin pend
      /\ IF at = NoFile THEN sent = 0
                        ELSE at \in pend /\ 0 < sent /\ sent < Chunks(at)
      /\ cur \in pend => cur = at
  BY FileFacts DEF Transferring, Sending, TypeOK
<1>7. Chunks(f) \in 1 .. WeightChunks /\ WeightChunks \in Nat /\ sent + 1 <= Chunks(f)
  BY <1>1, <1>5, <1>6, FileFacts
<1>8. PICK k : k = [i \in 1 .. L + 1 |-> IF i <= L THEN n[i] ELSE sent + 1]
  OBVIOUS
<1>9. /\ \A i \in 1 .. L : k[i] = n[i] /\ n[i] \in 1 .. WeightChunks
      /\ k[L + 1] = sent + 1
  BY <1>2, <1>3, <1>4, <1>8 DEF Numbers
<1>10. k \in Numbers'
  <2>1. sent + 1 \in 1 .. WeightChunks
    BY <1>1, <1>7
  <2>2. \A i \in 1 .. L + 1 : k[i] \in 1 .. WeightChunks
    BY <1>4, <1>9, <2>1
  <2>3. k = [i \in 1 .. L + 1 |-> k[i]]
    BY <1>8
  <2>4. k \in [1 .. L + 1 -> 1 .. WeightChunks]
    BY <2>2, <2>3
  <2>5. QED
    BY <1>4, <2>4 DEF Numbers
<1>11. \A i \in 1 .. L : wire[i].file = f => at = f /\ n[i] <= sent
  <2> SUFFICES ASSUME NEW i \in 1 .. L, wire[i].file = f
               PROVE  at = f /\ n[i] <= sent
    OBVIOUS
  <2>1. ~ wire[i].done
    BY <1>1, <1>3 DEF Messages
  <2>2. at = f
    BY <1>3, <1>2, <2>1 DEF Stream
  <2>3. wire[L].file = at /\ n[L] = sent
    BY <1>2, <1>3, <1>4, <1>1, <2>2 DEF Writing
  <2>4. i < L => n[i] < n[L]
    BY <1>2, <1>3, <1>4, <2>2, <2>3 DEF Stream
  <2>5. QED
    BY <1>4, <1>9, <2>2, <2>3, <2>4
<1>12. Stream(k)'
  <2>1. ASSUME NEW i \in 1 .. L + 1, ~ wire'[i].done
        PROVE  /\ wire'[i].file \in ToSend(model, layers)
               /\ k[i] <= Chunks(wire'[i].file)
               /\ wire'[i].file \in pend' => wire'[i].file = at'
    <3>1. CASE i = L + 1
      BY <1>4, <1>5, <1>6, <1>7, <1>9, <3>1
    <3>2. CASE i \in 1 .. L
      <4>1. /\ wire[i].file \in ToSend(model, layers) /\ n[i] <= Chunks(wire[i].file)
            /\ wire[i].file \in pend => wire[i].file = at
        BY <1>2, <1>3, <1>4, <2>1, <3>2 DEF Stream
      <4>2. wire[i].file \in pend' => wire[i].file = at'
        BY <1>5, <1>6, <4>1
      <4>3. QED
        BY <1>4, <1>9, <3>2, <4>1, <4>2
    <3>3. QED
      BY <1>4, <3>1, <3>2
  <2>2. ASSUME NEW i \in 1 .. L + 1, NEW j \in 1 .. L + 1, i < j,
               wire'[i].file = wire'[j].file
        PROVE  k[i] < k[j]
    <3>1. i \in 1 .. L
      BY <1>4, <2>2
    <3>2. CASE j = L + 1
      <4>1. n[i] <= sent
        BY <1>4, <1>11, <2>2, <3>1, <3>2
      <4>2. QED
        BY <1>1, <1>9, <3>1, <3>2, <4>1
    <3>3. CASE j \in 1 .. L
      BY <1>2, <1>3, <1>4, <1>9, <2>2, <3>1, <3>3 DEF Stream
    <3>4. QED
      BY <1>4, <3>2, <3>3
  <2>3. ASSUME NEW i \in 1 .. L
        PROVE  /\ ~ wire'[i].done
               /\ IF k[i] < Chunks(wire'[i].file)
                    THEN /\ ~ wire'[i + 1].done /\ wire'[i + 1].file = wire'[i].file
                         /\ k[i + 1] = k[i] + 1
                    ELSE k[i + 1] = 1
    <3>1. CASE i = L
      <4>1. ~ wire[L].done
        BY <1>2, <1>3, <1>4, <3>1 DEF Writing
      <4>2. CASE at = NoFile
        <5>1. n[L] = Chunks(wire[L].file) /\ sent = 0
          BY <1>2, <1>3, <1>4, <1>6, <3>1, <4>2 DEF Writing
        <5>2. ~ (k[i] < Chunks(wire'[i].file)) /\ k[i + 1] = 1
          <6>1. k[i] = Chunks(wire'[i].file) /\ k[i] \in Int
            BY <1>4, <1>9, <3>1, <5>1
          <6>2. QED
            BY <1>9, <3>1, <5>1, <6>1
        <5>3. QED
          BY <1>4, <3>1, <4>1, <5>2
      <4>3. CASE at # NoFile
        <5>1. /\ n[L] = sent /\ wire[L].file = f /\ f = at /\ sent < Chunks(f)
          BY <1>2, <1>3, <1>4, <1>5, <1>6, <3>1, <4>3 DEF Writing
        <5>2. QED
          BY <1>4, <1>9, <3>1, <4>1, <5>1
      <4>4. QED
        BY <4>2, <4>3
    <3>2. CASE i # L
      <4>1. i \in 1 .. L - 1 /\ i + 1 \in 1 .. L /\ i \in 1 .. L
        BY <1>4, <3>2
      <4>2. /\ ~ wire[i].done
            /\ IF n[i] < Chunks(wire[i].file)
                 THEN /\ ~ wire[i + 1].done /\ wire[i + 1].file = wire[i].file
                      /\ n[i + 1] = n[i] + 1
                 ELSE n[i + 1] = 1
        BY <1>2, <1>3, <4>1 DEF Stream
      <4>3. wire'[i] = wire[i] /\ wire'[i + 1] = wire[i + 1] /\ k[i] = n[i] /\ k[i + 1] = n[i + 1]
        BY <1>4, <1>9, <4>1
      <4>4. QED
        BY <4>2, <4>3
    <3>3. QED
      BY <3>1, <3>2
  <2>4. 1 .. Len(wire') - 1 = 1 .. L /\ 1 .. Len(wire') = 1 .. L + 1
    BY <1>4
  <2>5. UNCHANGED <<model, layers>> /\ UNCHANGED ToSend(model, layers)
    BY <1>5 DEF ToSend, WeightFiles
  <2>6. QED
    BY <2>1, <2>2, <2>3, <2>4, <2>5 DEF Stream
<1>13. Reading(k)'
  <2>1. CASE L = 0
    <3>1. k[1] = sent + 1 /\ wire'[1].file = f
      BY <1>4, <1>9, <2>1
    <3>2. CASE at = NoFile
      BY <1>5, <1>6, <3>1, <3>2 DEF Reading
    <3>3. CASE at # NoFile
      <4>1. cur = f /\ disk[model][cur] = sent /\ sent # 0
        BY <1>2, <1>4, <1>5, <1>6, <2>1, <3>3 DEF Writing
      <4>2. k[1] # 1 /\ k[1] - 1 = sent
        BY <1>1, <3>1, <4>1
      <4>3. QED
        BY <1>5, <3>1, <4>1, <4>2 DEF Reading
    <3>4. QED
      BY <3>2, <3>3
  <2>2. CASE L # 0
    <3>1. 1 \in 1 .. L
      BY <1>4, <2>2
    <3>2. wire'[1] = wire[1] /\ k[1] = n[1]
      BY <1>4, <1>9, <3>1
    <3>3. QED
      BY <1>2, <1>4, <1>5, <2>2, <3>2 DEF Reading
  <2>3. QED
    BY <2>1, <2>2
<1>14. Writing(k)'
  <2>1. /\ Len(wire') = L + 1 /\ pushing' /\ ~ wire'[Len(wire')].done
        /\ wire'[Len(wire')].file = f /\ k[Len(wire')] = sent + 1
    BY <1>4, <1>5, <1>9
  <2>2. IF at' = NoFile THEN sent + 1 = Chunks(f) ELSE f = at' /\ sent + 1 = sent'
    BY <1>1, <1>5
  <2>3. QED
    BY <1>4, <2>1, <2>2 DEF Writing
<1>15. Sending'
  <2>1. UNCHANGED ToSend(model, layers)
    BY <1>5 DEF ToSend, WeightFiles
  <2>2. IF at' = NoFile THEN sent' = 0
                        ELSE at' \in pend' /\ 0 < sent' /\ sent' < Chunks(at')
    BY <1>1, <1>5, <1>7
  <2>3. cur \in pend' => cur = at'
    BY <1>5, <1>6
  <2>4. QED
    BY <1>5, <1>6, <2>1, <2>2, <2>3 DEF Sending
<1>16. Arrived'
  <2> SUFFICES ASSUME NEW g \in ToSend(model, layers) \ pend',
                      \A i \in 1 .. Len(wire') : wire'[i].file # g
               PROVE  Complete(model, g) /\ (g = "index" => covers[model] = layers)
    BY <1>5 DEF Arrived, Complete, ToSend, WeightFiles
  <2>1. g # f
    <3>1. L + 1 \in 1 .. Len(wire')
      BY <1>4
    <3>2. QED
      BY <1>4, <3>1
  <2>2. \A i \in 1 .. L : wire[i].file # g
    BY <1>4
  <2>3. g \notin pend
    BY <1>5, <2>1
  <2>4. QED
    BY <1>3, <2>2, <2>3 DEF Transferring, Arrived
<1>17. Messages'
  <2> SUFFICES ASSUME NEW i \in 1 .. L + 1
               PROVE  wire'[i].done <=> wire'[i].file = NoFile
    BY <1>4 DEF Messages
  <2>1. CASE i = L + 1
    BY <1>1, <1>4, <2>1
  <2>2. CASE i \in 1 .. L
    BY <1>3, <1>4, <2>2 DEF Messages
  <2>3. QED
    BY <1>4, <2>1, <2>2
<1>18. QED
  BY <1>5, <1>10, <1>12, <1>13, <1>14, <1>15, <1>16, <1>17 DEF Transferring

LEMMA PushDoneStep ==
  ASSUME Assumed, TypeOK, Messages, Transferring, PushDone
  PROVE  Messages' /\ Transferring'
<1>1. wire \in Seq(Message)
  BY WireType
<1>2. PICK n \in Numbers : Stream(n) /\ Reading(n) /\ Writing(n)
  BY DEF Transferring
<1>3. PICK L : L = Len(wire)
  OBVIOUS
<1>4. /\ L \in Nat /\ Len(wire') = L + 1 /\ wire' # <<>>
      /\ \A i \in 1 .. L : wire'[i] = wire[i]
      /\ wire'[L + 1].file = NoFile /\ wire'[L + 1].done
      /\ wire = <<>> <=> L = 0
  BY <1>1, <1>3, Put, MessageTypes DEF PushDone
<1>5. /\ UNCHANGED <<model, layers, cur, disk, covers, dirty, pend, sent, at>>
      /\ pushing /\ ~ pushing' /\ pend = {}
  BY DEF PushDone, session, receiver, store
<1>6. at = NoFile /\ sent = 0
  BY <1>5 DEF Transferring, Sending
<1>7. WeightChunks \in Nat /\ 1 \in 1 .. WeightChunks
  BY DEF Assumed, ChunkAssumption
<1>8. PICK k : k = [i \in 1 .. L + 1 |-> IF i <= L THEN n[i] ELSE 1]
  OBVIOUS
<1>9. /\ \A i \in 1 .. L : k[i] = n[i] /\ n[i] \in 1 .. WeightChunks
      /\ k[L + 1] = 1
  BY <1>2, <1>3, <1>4, <1>8 DEF Numbers
<1>10. k \in Numbers'
  <2>1. \A i \in 1 .. L + 1 : i \in 1 .. L \/ i = L + 1
    BY <1>4
  <2>2. \A i \in 1 .. L + 1 : k[i] \in 1 .. WeightChunks
    BY <1>7, <1>9, <2>1
  <2>3. k \in [1 .. L + 1 -> 1 .. WeightChunks]
    BY <1>8, <2>2
  <2>4. QED
    BY <1>4, <2>3 DEF Numbers
<1>11. \A i \in 1 .. L : ~ wire[i].done /\ wire[i].file # NoFile
  <2> SUFFICES ASSUME NEW i \in 1 .. L PROVE ~ wire[i].done
    BY <1>3 DEF Messages
  <2>1. CASE i = L
    BY <1>2, <1>3, <1>4, <1>5, <2>1 DEF Writing
  <2>2. CASE i # L
    <3>1. i \in 1 .. L - 1
      BY <1>4, <2>2
    <3>2. QED
      BY <1>2, <1>3, <3>1 DEF Stream
  <2>3. QED
    BY <2>1, <2>2
<1>12. Stream(k)'
  <2>1. ASSUME NEW i \in 1 .. L + 1, ~ wire'[i].done
        PROVE  /\ wire'[i].file \in ToSend(model, layers)
               /\ k[i] <= Chunks(wire'[i].file)
               /\ wire'[i].file \in pend' => wire'[i].file = at'
    <3>1. i \in 1 .. L
      BY <1>4, <2>1
    <3>2. QED
      BY <1>2, <1>3, <1>4, <1>5, <1>9, <1>11, <3>1 DEF Stream
  <2>2. ASSUME NEW i \in 1 .. L + 1, NEW j \in 1 .. L + 1, i < j,
               wire'[i].file = wire'[j].file
        PROVE  k[i] < k[j]
    <3>1. i \in 1 .. L /\ j \in 1 .. L
      BY <1>4, <1>11, <2>2
    <3>2. QED
      BY <1>2, <1>3, <1>4, <1>9, <2>2, <3>1 DEF Stream
  <2>3. ASSUME NEW i \in 1 .. L
        PROVE  /\ ~ wire'[i].done
               /\ IF k[i] < Chunks(wire'[i].file)
                    THEN /\ ~ wire'[i + 1].done /\ wire'[i + 1].file = wire'[i].file
                         /\ k[i + 1] = k[i] + 1
                    ELSE k[i + 1] = 1
    <3>1. CASE i = L
      <4>1. n[L] = Chunks(wire[L].file)
        BY <1>2, <1>3, <1>4, <1>5, <1>6, <3>1 DEF Writing
      <4>2. k[i] = Chunks(wire'[i].file) /\ k[i] \in Int /\ k[i + 1] = 1
        BY <1>4, <1>9, <3>1, <4>1
      <4>3. QED
        BY <1>4, <1>11, <4>2
    <3>2. CASE i # L
      <4>1. i \in 1 .. L - 1 /\ i + 1 \in 1 .. L /\ i \in 1 .. L
        BY <1>4, <3>2
      <4>2. /\ ~ wire[i].done
            /\ IF n[i] < Chunks(wire[i].file)
                 THEN /\ ~ wire[i + 1].done /\ wire[i + 1].file = wire[i].file
                      /\ n[i + 1] = n[i] + 1
                 ELSE n[i + 1] = 1
        BY <1>2, <1>3, <4>1 DEF Stream
      <4>3. wire'[i] = wire[i] /\ wire'[i + 1] = wire[i + 1] /\ k[i] = n[i] /\ k[i + 1] = n[i + 1]
        BY <1>4, <1>9, <4>1
      <4>4. QED
        BY <4>2, <4>3
    <3>3. QED
      BY <3>1, <3>2
  <2>4. 1 .. Len(wire') - 1 = 1 .. L /\ 1 .. Len(wire') = 1 .. L + 1
    BY <1>4
  <2>5. UNCHANGED ToSend(model, layers)
    BY <1>5 DEF ToSend, WeightFiles
  <2>6. QED
    BY <2>1, <2>2, <2>3, <2>4, <2>5 DEF Stream
<1>13. Reading(k)'
  <2>1. CASE L = 0
    BY <1>4, <2>1 DEF Reading
  <2>2. CASE L # 0
    <3>1. 1 \in 1 .. L
      BY <1>4, <2>2
    <3>2. wire'[1] = wire[1] /\ k[1] = n[1]
      BY <1>4, <1>9, <3>1
    <3>3. QED
      BY <1>2, <1>4, <1>5, <2>2, <3>2 DEF Reading
  <2>3. QED
    BY <2>1, <2>2
<1>14. Writing(k)'
  BY <1>4, <1>5 DEF Writing
<1>15. Sending'
  <2>1. UNCHANGED ToSend(model, layers)
    BY <1>5 DEF ToSend, WeightFiles
  <2>2. QED
    BY <1>5, <1>6, <2>1 DEF Transferring, Sending
<1>16. Arrived'
  <2> SUFFICES ASSUME NEW g \in ToSend(model, layers) \ pend,
                      \A i \in 1 .. Len(wire') : wire'[i].file # g
               PROVE  Complete(model, g) /\ (g = "index" => covers[model] = layers)
    BY <1>5 DEF Arrived, Complete, ToSend, WeightFiles
  <2>1. \A i \in 1 .. L : wire[i].file # g
    BY <1>4
  <2>2. QED
    BY <1>3, <2>1 DEF Transferring, Arrived
<1>17. Messages'
  <2> SUFFICES ASSUME NEW i \in 1 .. L + 1
               PROVE  wire'[i].done <=> wire'[i].file = NoFile
    BY <1>4 DEF Messages
  <2>1. CASE i = L + 1
    BY <1>4, <2>1
  <2>2. CASE i \in 1 .. L
    BY <1>3, <1>4, <2>2 DEF Messages
  <2>3. QED
    BY <1>4, <2>1, <2>2
<1>18. QED
  BY <1>5, <1>10, <1>12, <1>13, <1>14, <1>15, <1>16, <1>17 DEF Transferring

\* The chunk that is read is the next of its file.
LEMMA ReceiveStep ==
  ASSUME Assumed, TypeOK, Messages, Transferring, ReceiveChunk
  PROVE  Messages' /\ Transferring'
<1>1. wire \in Seq(Message) /\ wire # <<>> /\ ~ wire[1].done
  BY WireType, Taken DEF ReceiveChunk
<1>2. PICK n \in Numbers : Stream(n) /\ Reading(n) /\ Writing(n)
  BY DEF Transferring
<1>3. PICK L : L = Len(wire)
  OBVIOUS
<1>4. /\ L \in Nat /\ L # 0 /\ Len(wire') = L - 1 /\ 1 \in 1 .. L
      /\ \A i \in 1 .. L - 1 : wire'[i] = wire[i + 1]
      /\ wire' = <<>> <=> L = 1
  <2>1. wire' = Tail(wire)
    BY DEF ReceiveChunk
  <2>2. /\ Len(wire) \in Nat \ {0} /\ Len(wire') = Len(wire) - 1
        /\ wire' \in Seq(Message)
        /\ \A i \in 1 .. Len(wire) - 1 : wire'[i] = wire[i + 1]
    BY <1>1, <2>1, Taken
  <2>3. wire' = <<>> <=> Len(wire') = 0
    BY <2>2
  <2>4. QED
    BY <1>3, <2>2, <2>3
<1>5. PICK f : f = wire[1].file
  OBVIOUS
<1>6. /\ UNCHANGED <<model, layers, pushing, pend, sent, at, dirty>>
      /\ cur' = f
      /\ disk' = [disk EXCEPT ![model][f] = Opened(f) + 1]
      /\ covers' = IF f = "index" THEN [covers EXCEPT ![model] = layers] ELSE covers
  BY <1>1, <1>5, Taken DEF ReceiveChunk, session, sender
<1>7. /\ f \in ToSend(model, layers) /\ f \in Files
      /\ f \in pend => f = at
      /\ n[1] <= Chunks(f)
  BY <1>1, <1>2, <1>3, <1>4, <1>5, FileFacts DEF Stream, TypeOK
<1>8. Opened(f) + 1 = n[1] /\ n[1] \in 1 .. WeightChunks /\ WeightChunks \in Nat
  <2>1. n[1] \in 1 .. WeightChunks /\ WeightChunks \in Nat
    BY <1>2, <1>3, <1>4, FileFacts DEF Numbers
  <2>2. IF n[1] = 1 THEN f # cur ELSE f = cur /\ disk[model][cur] = n[1] - 1
    BY <1>1, <1>2, <1>5 DEF Reading
  <2>3. QED
    BY <2>1, <2>2 DEF Opened
<1>9. /\ disk'[model][f] = n[1]
      /\ \A g \in Files : g # f => disk'[model][g] = disk[model][g]
      /\ f = "index" => covers'[model] = layers
      /\ f # "index" => covers' = covers
  BY <1>6, <1>7, <1>8 DEF TypeOK
<1>10. PICK k : k = [i \in 1 .. L - 1 |-> n[i + 1]]
  OBVIOUS
<1>11. \A i \in 1 .. L - 1 : k[i] = n[i + 1] /\ i + 1 \in 1 .. L /\ n[i + 1] \in 1 .. WeightChunks
  BY <1>2, <1>3, <1>4, <1>10 DEF Numbers
<1>12. k \in Numbers'
  BY <1>4, <1>10, <1>11 DEF Numbers
<1>13. UNCHANGED ToSend(model, layers)
  BY <1>6 DEF ToSend, WeightFiles
<1>14. Stream(k)'
  <2>1. ASSUME NEW i \in 1 .. L - 1, ~ wire'[i].done
        PROVE  /\ wire'[i].file \in ToSend(model, layers)
               /\ k[i] <= Chunks(wire'[i].file)
               /\ wire'[i].file \in pend' => wire'[i].file = at'
    BY <1>2, <1>3, <1>4, <1>6, <1>11, <2>1 DEF Stream
  <2>2. ASSUME NEW i \in 1 .. L - 1, NEW j \in 1 .. L - 1, i < j,
               wire'[i].file = wire'[j].file
        PROVE  k[i] < k[j]
    <3>1. i + 1 < j + 1
      BY <2>2
    <3>2. QED
      BY <1>2, <1>3, <1>4, <1>11, <2>2, <3>1 DEF Stream
  <2>3. ASSUME NEW i \in 1 .. L - 2
        PROVE  /\ ~ wire'[i].done
               /\ IF k[i] < Chunks(wire'[i].file)
                    THEN /\ ~ wire'[i + 1].done /\ wire'[i + 1].file = wire'[i].file
                         /\ k[i + 1] = k[i] + 1
                    ELSE k[i + 1] = 1
    <3>1. i \in 1 .. L - 1 /\ i + 1 \in 1 .. L - 1
      BY <1>4
    <3>2. /\ ~ wire[i + 1].done
          /\ IF n[i + 1] < Chunks(wire[i + 1].file)
               THEN /\ ~ wire[i + 1 + 1].done /\ wire[i + 1 + 1].file = wire[i + 1].file
                    /\ n[i + 1 + 1] = n[i + 1] + 1
               ELSE n[i + 1 + 1] = 1
      BY <1>2, <1>3, <3>1 DEF Stream
    <3>3. /\ wire'[i] = wire[i + 1] /\ wire'[i + 1] = wire[i + 1 + 1]
          /\ k[i] = n[i + 1] /\ k[i + 1] = n[i + 1 + 1]
      BY <1>4, <1>11, <3>1
    <3>4. QED
      BY <3>2, <3>3
  <2>4. 1 .. Len(wire') - 1 = 1 .. L - 2 /\ 1 .. Len(wire') = 1 .. L - 1
    BY <1>4
  <2>5. QED
    BY <1>13, <2>1, <2>2, <2>3, <2>4 DEF Stream
\* What comes next, if anything is under way.
<1>15. ASSUME L # 1
       PROVE  /\ wire'[1] = wire[2] /\ k[1] = n[2] /\ n[2] \in 1 .. WeightChunks
              /\ IF n[1] < Chunks(f)
                   THEN ~ wire[2].done /\ wire[2].file = f /\ n[2] = n[1] + 1
                   ELSE n[2] = 1 /\ wire[2].file # f
  <2>1. 1 \in 1 .. L - 1 /\ 1 + 1 = 2 /\ 2 \in 1 .. L
    BY <1>4, <1>15
  <2>2. /\ wire'[1] = wire[2] /\ k[1] = n[2] /\ n[2] \in 1 .. WeightChunks
    BY <1>4, <1>11, <2>1
  <2>3. IF n[1] < Chunks(f)
          THEN ~ wire[2].done /\ wire[2].file = f /\ n[2] = n[1] + 1
          ELSE n[2] = 1
    BY <1>2, <1>3, <1>5, <2>1 DEF Stream
  <2>4. wire[2].file = f => n[1] < n[2]
    BY <1>2, <1>3, <1>4, <1>5, <2>1 DEF Stream
  <2>5. QED
    BY <1>8, <2>2, <2>3, <2>4
<1>16. Reading(k)'
  <2>1. CASE L = 1
    BY <1>4, <2>1 DEF Reading
  <2>2. CASE L # 1
    <3>1. CASE n[1] < Chunks(f)
      <4>1. k[1] = n[1] + 1 /\ wire'[1].file = cur' /\ disk'[model'][cur'] = k[1] - 1
            /\ k[1] # 1
        BY <1>6, <1>8, <1>9, <1>15, <2>2, <3>1
      <4>2. QED
        BY <4>1 DEF Reading
    <3>2. CASE ~ (n[1] < Chunks(f))
      <4>1. k[1] = 1 /\ wire'[1].file # cur'
        BY <1>6, <1>15, <2>2, <3>2
      <4>2. QED
        BY <4>1 DEF Reading
    <3>3. QED
      BY <3>1, <3>2
  <2>3. QED
    BY <2>1, <2>2
<1>17. Writing(k)'
  <2>1. CASE L = 1
    <3>1. pushing /\ (at # NoFile => f = at /\ n[1] = sent)
      BY <1>1, <1>2, <1>3, <1>5, <2>1 DEF Writing
    <3>2. QED
      BY <1>4, <1>6, <1>9, <2>1, <3>1 DEF Writing
  <2>2. CASE L # 1
    <3>1. L - 1 \in 1 .. L - 1 /\ (L - 1) + 1 = L
      BY <1>4, <2>2
    <3>2. wire'[Len(wire')] = wire[L] /\ k[Len(wire')] = n[L] /\ wire' # <<>>
      BY <1>4, <1>11, <2>2, <3>1
    <3>3. QED
      BY <1>1, <1>2, <1>3, <1>6, <3>2 DEF Writing
  <2>3. QED
    BY <2>1, <2>2
<1>18. Sending'
  BY <1>6, <1>7, <1>13 DEF Transferring, Sending
<1>19. Arrived'
  <2> SUFFICES ASSUME NEW g \in ToSend(model, layers) \ pend,
                      \A i \in 1 .. L - 1 : wire'[i].file # g
               PROVE  /\ disk'[model][g] = Chunks(g)
                      /\ g = "index" => covers'[model] = layers
    BY <1>4, <1>6, <1>13 DEF Arrived, Complete
  <2>1. g \in Files
    BY FileFacts DEF TypeOK
  <2>2. CASE g = f
    <3>1. n[1] = Chunks(f)
      <4>1. CASE L = 1
        <5>1. pushing /\ at = NoFile
          <6>1. pushing /\ (at # NoFile => f = at)
            BY <1>1, <1>2, <1>3, <1>5, <4>1 DEF Writing
          <6>2. at # NoFile => at \in pend
            BY DEF Transferring, Sending
          <6>3. QED
            BY <2>2, <6>1, <6>2
        <5>2. QED
          BY <1>1, <1>2, <1>3, <1>5, <4>1, <5>1 DEF Writing
      <4>2. CASE L # 1
        <5>1. 1 \in 1 .. L - 1
          BY <1>4, <4>2
        <5>2. wire[2].file # f
          BY <1>15, <2>2, <4>2, <5>1
        <5>3. ~ (n[1] < Chunks(f))
          BY <1>15, <4>2, <5>2
        <5>4. Chunks(f) \in 1 .. WeightChunks
          BY <1>7, FileFacts
        <5>5. QED
          BY <1>7, <1>8, <5>3, <5>4
      <4>3. QED
        BY <4>1, <4>2
    <3>2. QED
      BY <1>9, <2>2, <3>1
  <2>3. CASE g # f
    <3>1. \A i \in 1 .. L : wire[i].file # g
      <4> SUFFICES ASSUME NEW i \in 1 .. L, i # 1 PROVE wire[i].file # g
        BY <1>5, <2>3
      <4>1. i - 1 \in 1 .. L - 1 /\ (i - 1) + 1 = i
        BY <1>4
      <4>2. wire'[i - 1] = wire[i]
        BY <1>4, <4>1
      <4>3. QED
        BY <4>1, <4>2
    <3>2. disk[model][g] = Chunks(g) /\ (g = "index" => covers[model] = layers)
      BY <1>3, <3>1 DEF Transferring, Arrived, Complete
    <3>3. QED
      BY <1>9, <2>1, <2>3, <3>2
  <2>4. QED
    BY <2>2, <2>3
<1>20. Messages'
  BY <1>3, <1>4, <1>11 DEF Messages
<1>21. QED
  BY <1>6, <1>12, <1>14, <1>16, <1>17, <1>18, <1>19, <1>20 DEF Transferring

LEMMA AssignStep ==
  ASSUME Assumed, TypeOK, NEW m \in Models, NEW ls \in (SUBSET Layers) \ {{}},
         Assign(m, ls), phase' = "receive"
  PROVE  Transferring'
<1>1. /\ wire' = <<>> /\ cur' = NoFile /\ sent' = 0 /\ at' = NoFile /\ pushing'
      /\ model' = m /\ layers' = ls /\ pend' = ToSend(m, ls) /\ m \in dirty'
  BY DEF Assign
<1>2. NoFile \notin ToSend(m, ls)
  BY FileFacts
<1>3. ToSend(model, layers)' = ToSend(m, ls)
  BY <1>1 DEF ToSend, WeightFiles
<1>4. Len(wire') = 0
  BY <1>1
<1>5. PICK k : k = [i \in 1 .. 0 |-> 1]
  OBVIOUS
<1>6. k \in Numbers' /\ Stream(k)'
  BY <1>4, <1>5 DEF Numbers, Stream
<1>7. Reading(k)' /\ Writing(k)'
  BY <1>1 DEF Reading, Writing
<1>8. Sending'
  BY <1>1, <1>2, <1>3 DEF Sending
<1>9. Arrived'
  BY <1>1, <1>3 DEF Arrived
<1>10. QED
  BY <1>1, <1>6, <1>7, <1>8, <1>9 DEF Transferring

\* ModelDataDone is the last message of the connection.
LEMMA LastMessage ==
  ASSUME Assumed, TypeOK, Messages, Transferring, ReceiveDone
  PROVE  Len(wire) = 1 /\ wire[1].done /\ Tail(wire) = <<>> /\ ~ pushing
<1>1. wire \in Seq(Message) /\ wire # <<>> /\ wire[1].done
  BY WireType, Taken DEF ReceiveDone
<1>2. PICK n \in Numbers : Stream(n) /\ Reading(n) /\ Writing(n)
  BY DEF Transferring
<1>3. Len(wire) = 1
  <2> PICK L : L = Len(wire)
    OBVIOUS
  <2>1. L \in Nat \ {0}
    BY <1>1, Taken
  <2>2. ~ (1 \in 1 .. L - 1)
    BY <1>1, <1>2 DEF Stream
  <2>3. QED
    BY <2>1, <2>2
<1>4. ~ pushing
  BY <1>1, <1>2, <1>3 DEF Writing
<1>5. Tail(wire) = <<>>
  <2>1. Tail(wire) \in Seq(Message) /\ Len(Tail(wire)) = 0
    BY <1>1, <1>3, Taken
  <2>2. QED
    BY <2>1, NoLength
<1>6. QED
  BY <1>1, <1>3, <1>4, <1>5

\* With it everything that was to be sent is there.
LEMMA AllArrived ==
  ASSUME Assumed, TypeOK, Messages, Transferring, ReceiveDone
  PROVE  \A f \in ToSend(model, layers) :
           Complete(model, f) /\ (f = "index" => covers[model] = layers)
<1>1. Len(wire) = 1 /\ wire[1].done /\ ~ pushing
  BY LastMessage
<1>2. pend = {}
  BY <1>1 DEF Transferring, Sending
<1>3. NoFile \notin ToSend(model, layers)
  BY FileFacts DEF TypeOK
<1>4. wire[1].file = NoFile
  BY <1>1 DEF Messages
<1>5. QED
  BY <1>1, <1>2, <1>3, <1>4 DEF Transferring, Arrived

LEMMA DoneCovers ==
  ASSUME Assumed, TypeOK, Messages, Transferring, ReceiveDone, model \in Sharded
  PROVE  covers[model] = layers
  BY AllArrived DEF ToSend

LEMMA DoneHolds ==
  ASSUME Assumed, TypeOK, Messages, Transferring, ReceiveDone
  PROVE  Holds(model, layers)'
<1>1. \A f \in ToSend(model, layers) :
        Complete(model, f) /\ (f = "index" => covers[model] = layers)
  BY AllArrived
<1>2. UNCHANGED <<model, layers, disk, covers>>
  BY DEF ReceiveDone, session, store
<1>3. /\ Complete(model, "config")
      /\ model \in Sharded => Complete(model, "index") /\ layers \subseteq covers[model]
      /\ \A f \in WeightFiles(model, layers) : Complete(model, f)
  BY <1>1 DEF ToSend
<1>4. QED
  BY <1>2, <1>3 DEF Holds, Complete, WeightFiles

-----------------------------------------------------------------------------
(* The directories. *)

\* What is said of a directory depends on it alone.
LEMMA SameDirectory ==
  ASSUME NEW m \in Models, disk'[m] = disk[m], covers'[m] = covers[m], NEW ls
  PROVE  /\ HasValidCache(m, ls)' = HasValidCache(m, ls)
         /\ Holds(m, ls)' = Holds(m, ls)
  BY DEF HasValidCache, Holds, Exists, Complete, WeightFiles

LEMMA SameStore ==
  ASSUME NoSingle, CacheSound, UNCHANGED store, dirty \subseteq dirty',
         Assumed
  PROVE  NoSingle' /\ CacheSound'
<1>1. UNCHANGED <<disk, covers>> /\ Sharded \subseteq Models
  BY DEF store, Assumed, ShardAssumption
<1>2. NoSingle'
  BY <1>1 DEF NoSingle, Exists
<1>3. CacheSound'
  <2> SUFFICES ASSUME NEW m \in Models \ dirty', NEW ls \in (SUBSET Layers) \ {{}},
                      HasValidCache(m, ls)'
               PROVE  Holds(m, ls)'
    BY DEF CacheSound
  <2>1. HasValidCache(m, ls)' = HasValidCache(m, ls) /\ Holds(m, ls)' = Holds(m, ls)
    BY <1>1, SameDirectory
  <2>2. QED
    BY <2>1 DEF CacheSound
<1>4. QED
  BY <1>2, <1>3

\* A chunk, whole or cut short, goes to the directory of a transfer begun.
LEMMA ChunkStore ==
  ASSUME Assumed, TypeOK, NoSingle, CacheSound, Transferring,
         ReceiveChunk \/ WriteFails
  PROVE  NoSingle' /\ CacheSound'
<1>1. wire \in Seq(Message) /\ wire # <<>> /\ ~ wire[1].done /\ Head(wire) = wire[1]
  BY WireType, Taken DEF ReceiveChunk, WriteFails
<1>2. PICK n \in Numbers : Stream(n)
  BY DEF Transferring
<1>3. PICK f : f = wire[1].file
  OBVIOUS
<1>4. f \in ToSend(model, layers)
  <2>1. 1 \in 1 .. Len(wire)
    BY <1>1, Taken
  <2>2. QED
    BY <1>1, <1>2, <1>3, <2>1 DEF Stream
<1>5. PICK v : disk' = [disk EXCEPT ![model][f] = v]
  BY <1>1, <1>3 DEF ReceiveChunk, WriteFails
<1>6. \A m \in Models : m # model => disk'[m] = disk[m] /\ covers'[m] = covers[m]
  BY <1>1, <1>3, <1>5 DEF ReceiveChunk, WriteFails, TypeOK
<1>7. dirty' = dirty /\ model \in dirty
  BY DEF ReceiveChunk, WriteFails, Transferring
<1>8. NoSingle'
  <2> SUFFICES ASSUME NEW m \in Sharded PROVE disk'[m]["single"] = Absent
    BY DEF NoSingle, Exists
  <2>1. m \in Models /\ "single" \in Files /\ disk[m]["single"] = Absent
    BY FileFacts DEF NoSingle, Exists, Assumed, ShardAssumption
  <2>2. m = model => f # "single"
    BY <1>4, FileFacts DEF TypeOK
  <2>3. QED
    BY <1>5, <2>1, <2>2 DEF TypeOK
<1>9. CacheSound'
  <2> SUFFICES ASSUME NEW m \in Models \ dirty, NEW ls \in (SUBSET Layers) \ {{}},
                      HasValidCache(m, ls)'
               PROVE  Holds(m, ls)'
    BY <1>7 DEF CacheSound
  <2>1. disk'[m] = disk[m] /\ covers'[m] = covers[m]
    BY <1>6, <1>7
  <2>2. HasValidCache(m, ls)' = HasValidCache(m, ls) /\ Holds(m, ls)' = Holds(m, ls)
    BY <2>1, SameDirectory
  <2>3. QED
    BY <2>2 DEF CacheSound
<1>10. QED
  BY <1>8, <1>9

\* The transfer is complete: its directory is what it looks like, for any
\* layers it may be asked for.
LEMMA DoneStore ==
  ASSUME Assumed, TypeOK, Messages, NoSingle, CacheSound, Transferring, ReceiveDone
  PROVE  NoSingle' /\ CacheSound'
<1>1. UNCHANGED <<disk, covers, model, layers>> /\ dirty' = dirty \ {model}
  BY DEF ReceiveDone, session, store
<1>2. NoSingle'
  BY <1>1 DEF NoSingle, Exists
<1>3. Holds(model, layers)
  <2>1. Holds(model, layers)'
    BY DoneHolds
  <2>2. QED
    BY <1>1, <2>1 DEF Holds, Complete, WeightFiles
<1>4. ASSUME NEW ls \in (SUBSET Layers) \ {{}}, HasValidCache(model, ls)
      PROVE  Holds(model, ls)
  <2>1. CASE model \in Sharded
    <3>1. ~ Exists(model, "single")
      BY <2>1 DEF NoSingle
    <3>2. ls \subseteq covers[model]
      BY <1>4, <3>1 DEF HasValidCache
    <3>3. covers[model] = layers
      BY <1>3, <2>1, DoneCovers
    <3>4. \A f \in WeightFiles(model, ls) : f \in WeightFiles(model, layers)
      BY <2>1, <3>2, <3>3 DEF WeightFiles
    <3>5. QED
      BY <1>3, <2>1, <3>2, <3>4 DEF Holds
  <2>2. CASE model \notin Sharded
    BY <1>3, <2>2 DEF Holds, WeightFiles
  <2>3. QED
    BY <2>1, <2>2
<1>5. CacheSound'
  <2> SUFFICES ASSUME NEW m \in Models \ dirty', NEW ls \in (SUBSET Layers) \ {{}},
                      HasValidCache(m, ls)'
               PROVE  Holds(m, ls)'
    BY DEF CacheSound
  <2>1. HasValidCache(m, ls)' = HasValidCache(m, ls) /\ Holds(m, ls)' = Holds(m, ls)
    BY <1>1, SameDirectory
  <2>2. QED
    BY <1>1, <1>4, <2>1 DEF CacheSound
<1>6. QED
  BY <1>2, <1>5

LEMMA NextInv == ASSUME Assumed, IInv, [Next]_vars PROVE IInv'
<1>1. TypeOK'
  BY NextType DEF IInv
<1>2. CASE Start \/ Load \/ Die \/ UNCHANGED vars
  <2>1. /\ UNCHANGED <<store, dirty, wire, cur, pushing>>
        /\ phase' = "receive" => phase = "receive" /\ UNCHANGED vars
        /\ ~ UNCHANGED vars => phase # "receive"
    BY <1>2 DEF Start, Load, Die, vars, session, sender, receiver
  <2>2. NoSingle' /\ CacheSound'
    BY <2>1, SameStore DEF IInv
  <2>3. Messages'
    BY <2>1 DEF IInv, Messages
  <2>4. phase' = "receive" => Transferring'
    <3> SUFFICES ASSUME phase' = "receive" PROVE Transferring'
      OBVIOUS
    <3>1. UNCHANGED vars /\ Transferring
      BY <2>1 DEF IInv
    <3>2. QED
      BY <3>1 DEF Transferring, Numbers, Stream, Reading, Writing, Sending, Arrived,
                  ToSend, WeightFiles, Complete, vars, session, sender, receiver, store
  <2>5. pushing' => phase' = "receive"
    BY <2>1 DEF IInv, vars, receiver
  <2>6. QED
    BY <1>1, <2>2, <2>3, <2>4, <2>5 DEF IInv
<1>3. ASSUME NEW m \in Models, NEW ls \in (SUBSET Layers) \ {{}}, Assign(m, ls)
      PROVE  IInv'
  <2>1. /\ UNCHANGED store /\ dirty \subseteq dirty' /\ wire' = <<>>
        /\ pushing' => phase' = "receive"
    BY <1>3 DEF Assign
  <2>2. NoSingle' /\ CacheSound'
    BY <2>1, SameStore DEF IInv
  <2>3. Messages'
    BY <2>1 DEF Messages
  <2>4. phase' = "receive" => Transferring'
    BY <1>3, AssignStep DEF IInv
  <2>5. QED
    BY <1>1, <2>1, <2>2, <2>3, <2>4 DEF IInv
<1>4. CASE AnyPush \/ PushDone
  <2>1. /\ UNCHANGED <<store, dirty, phase>> /\ pushing
    BY <1>4 DEF AnyPush, PushChunk, PushDone, receiver
  <2>2. NoSingle' /\ CacheSound'
    BY <2>1, SameStore DEF IInv
  <2>3. Messages' /\ Transferring' /\ phase = "receive"
    BY <1>4, <2>1, PushChunkStep, PushDoneStep DEF AnyPush, IInv
  <2>4. QED
    BY <1>1, <2>1, <2>2, <2>3 DEF IInv
<1>5. CASE ReceiveChunk
  <2>1. phase = "receive" /\ phase' = phase
    BY <1>5 DEF ReceiveChunk
  <2>2. Messages' /\ Transferring' /\ NoSingle' /\ CacheSound'
    BY <1>5, <2>1, ReceiveStep, ChunkStore DEF IInv
  <2>3. QED
    BY <1>1, <2>1, <2>2 DEF IInv
<1>6. CASE WriteFails
  <2>1. phase = "receive" /\ phase' = "down" /\ ~ pushing' /\ wire' = <<>>
    BY <1>6 DEF WriteFails
  <2>2. NoSingle' /\ CacheSound'
    BY <1>6, <2>1, ChunkStore DEF IInv
  <2>3. Messages'
    BY <2>1 DEF Messages
  <2>4. QED
    BY <1>1, <2>1, <2>2, <2>3 DEF IInv
<1>7. CASE ReceiveDone
  <2>1. phase = "receive" /\ phase' = "load" /\ UNCHANGED pushing /\ wire' = Tail(wire)
    BY <1>7 DEF ReceiveDone, sender
  <2>2. NoSingle' /\ CacheSound'
    BY <1>7, <2>1, DoneStore DEF IInv
  <2>3. Messages' /\ ~ pushing'
    BY <1>7, <2>1, LastMessage DEF IInv, Messages
  <2>4. QED
    BY <1>1, <2>1, <2>2, <2>3 DEF IInv
<1>8. CASE Break
  <2>1. phase' = "down" /\ ~ pushing' /\ wire' = <<>> /\ UNCHANGED <<store, dirty>>
    BY <1>8 DEF Break
  <2>2. NoSingle' /\ CacheSound'
    BY <2>1, SameStore DEF IInv
  <2>3. Messages'
    BY <2>1 DEF Messages
  <2>4. QED
    BY <1>1, <2>1, <2>2, <2>3 DEF IInv
<1>9. QED
  BY <1>2, <1>3, <1>4, <1>5, <1>6, <1>7, <1>8 DEF Next, AnyAssign

LEMMA InitInv == ASSUME Assumed, Init PROVE IInv
<1>1. TypeOK
  BY InitType
<1>2. Messages
  BY DEF Init, Messages
<1>3. \A m \in Models, f \in Files : ~ Exists(m, f)
  BY DEF Init, Exists
<1>4. NoSingle
  BY <1>3, FileFacts DEF NoSingle, Assumed, ShardAssumption
<1>5. CacheSound
  BY <1>3, FileFacts DEF CacheSound, HasValidCache
<1>6. QED
  BY <1>1, <1>2, <1>4, <1>5 DEF Init, IInv

-----------------------------------------------------------------------------
(* What the worker's machine can rely on. *)

\* has_valid_model_cache is right about every directory in which no transfer
\* was cut short: where it spares the transfer, the files of all layers asked
\* for are there, whatever was assigned, sent or broken off before.
THEOREM CacheSafe == ASSUME Assumed PROVE Spec => []CacheSound
<1>1. Init => IInv
  BY InitInv
<1>2. IInv /\ [Next]_vars => IInv'
  BY NextInv
<1>3. IInv => CacheSound
  BY DEF IInv
<1>4. QED
  BY <1>1, <1>2, <1>3, PTL DEF Spec

\* A transfer that receive_model_data takes to be over has brought every file
\* of the assignment to its end, over whatever earlier transfers left.
THEOREM DeliveredWhole == ASSUME Assumed PROVE Spec => Delivered
<1>1. Init => IInv
  BY InitInv
<1>2. IInv /\ [Next]_vars => IInv'
  BY NextInv
<1>3. IInv /\ [Next]_vars => [Delivery]_vars
  <2>1. ASSUME IInv, ReceiveDone PROVE Holds(model, layers)'
    <3>1. phase = "receive"
      BY <2>1 DEF ReceiveDone
    <3>2. QED
      BY <2>1, <3>1, DoneHolds DEF IInv
  <2>2. QED
    BY <2>1 DEF Delivery
<1>4. QED
  BY <1>1, <1>2, <1>3, PTL DEF Spec, Delivered

\* Induction, for a set of numbers.
LEMMA AllUpTo ==
  ASSUME NEW N \in Nat, NEW S, 0 \in S, \A n \in 0 .. N : n # 0 /\ n - 1 \in S => n \in S
  PROVE  0 .. N \subseteq S
<1> DEFINE Bad == (0 .. N) \ S
<1>1. SUFFICES ASSUME Bad # {} PROVE FALSE
  OBVIOUS
<1>2. Bad \subseteq Nat
  OBVIOUS
<1>3. PICK x \in Bad : \A y \in Bad : ~ (<<y, x>> \in OpToRel(<, Nat))
  BY <1>1, <1>2, WFMin, NatLessThanWellFounded
<1>4. \A a, b \in Nat : a < b => <<a, b>> \in OpToRel(<, Nat)
  BY DEF OpToRel
<1>5. x \in 0 .. N /\ x # 0
  OBVIOUS
<1>6. x - 1 \in Nat /\ x \in Nat /\ x - 1 < x /\ x - 1 \in 0 .. N
  BY <1>5
<1>7. x - 1 \notin Bad
  BY <1>3, <1>4, <1>6, Zenon
<1>8. x \in S
  BY <1>5, <1>6, <1>7
<1>9. QED
  BY <1>8

Iterates(f, N, S, x, next) ==
  f \in [0 .. N -> S] /\ f[0] = x /\ \A n \in 1 .. N : f[n] = next[<<n, f[n - 1]>>]

\* A recursion over 0 .. N with values in S has a function.
LEMMA Recursion ==
  ASSUME NEW N \in Nat, NEW S, NEW x \in S, NEW next \in [(1 .. N) \X S -> S]
  PROVE  \E f : Iterates(f, N, S, x, next)
<1> DEFINE Upto(f, n) == f[0] = x /\ \A k \in 1 .. n : f[k] = next[<<k, f[k - 1]>>]
           Good == {n \in 0 .. N : \E f \in [0 .. n -> S] : Upto(f, n)}
<1>1. 0 \in Good
  <2> DEFINE c == [i \in 0 .. 0 |-> x]
  <2>1. c \in [0 .. 0 -> S] /\ c[0] = x /\ \A k \in 1 .. 0 : FALSE
    OBVIOUS
  <2>2. Upto(c, 0) /\ 0 \in 0 .. N
    BY <2>1
  <2> HIDE DEF c, Upto
  <2>3. QED
    BY <2>1, <2>2, Zenon
<1>2. ASSUME NEW n \in 0 .. N, n # 0, n - 1 \in Good PROVE n \in Good
  <2>1. PICK f \in [0 .. n - 1 -> S] : Upto(f, n - 1)
    BY <1>2
  <2> DEFINE h == [i \in 0 .. n |-> IF i = n THEN next[<<n, f[n - 1]>>] ELSE f[i]]
  <2>2. f[n - 1] \in S /\ next[<<n, f[n - 1]>>] \in S
    BY <1>2
  <2>3. h \in [0 .. n -> S] /\ h[n] = next[<<n, f[n - 1]>>] /\ \A i \in 0 .. n - 1 : h[i] = f[i]
    <3>1. \A i \in 0 .. n : i # n => i \in 0 .. n - 1
      BY <1>2
    <3>2. \A i \in 0 .. n : (IF i = n THEN next[<<n, f[n - 1]>>] ELSE f[i]) \in S
      BY <2>2, <3>1
    <3>3. n \in 0 .. n /\ \A i \in 0 .. n - 1 : i \in 0 .. n /\ i # n
      BY <1>2
    <3>4. QED
      BY <3>2, <3>3
  <2> HIDE DEF h
  <2>4. h[0] = x
    BY <1>2, <2>1, <2>3
  <2>5. ASSUME NEW k \in 1 .. n PROVE h[k] = next[<<k, h[k - 1]>>]
    <3>1. CASE k = n
      BY <2>3, <3>1
    <3>2. CASE k # n
      <4>1. k \in 1 .. n - 1 /\ k - 1 \in 0 .. n - 1 /\ k \in 0 .. n - 1
        BY <3>2
      <4>2. h[k] = f[k] /\ h[k - 1] = f[k - 1]
        BY <2>3, <4>1
      <4>3. QED
        BY <2>1, <4>1, <4>2
    <3>3. QED
      BY <3>1, <3>2
  <2>6. QED
    BY <2>3, <2>4, <2>5
<1>3. 0 .. N \subseteq Good
  <2> HIDE DEF Good
  <2>1. QED
    BY <1>1, <1>2, AllUpTo
<1>4. N \in Good
  BY <1>3
<1>5. QED
  BY <1>4 DEF Iterates


-----------------------------------------------------------------------------
(* Frames and sums.                                                        *)

Sig(n) == [0 .. n - 1 -> Residues]

LEMMA ModulusIs == ASSUME LuxAssumption PROVE Modulus \in Nat \ {0} /\ 0 \in Residues /\ Residues \subseteq Nat
  BY DEF LuxAssumption, Residues

LEMMA Remainder == ASSUME LuxAssumption, NEW a \in Int PROVE a % Modulus \in Residues
<1>1. Modulus \in Nat \ {0}
  BY ModulusIs
<1>2. a % Modulus \in 0 .. Modulus - 1
  BY <1>1
<1>3. QED
  BY <1>2 DEF Residues

LEMMA QuotientIs ==
  ASSUME NEW d \in Nat \ {0}, NEW q \in Int, NEW r \in 0 .. d - 1
  PROVE  (q * d + r) \div d = q /\ (q * d + r) % d = r
  OBVIOUS

LEMMA CountIs == ASSUME NEW n \in Nat, NEW f, DOMAIN f = 0 .. n - 1 PROVE Count(f) = n
<1>1. Cardinality(0 .. n - 1) = IF 0 > n - 1 THEN 0 ELSE n - 1 - 0 + 1
  BY FS_Interval
<1>2. QED
  BY <1>1 DEF Count

LEMMA FramesIs ==
  ASSUME LuxAssumption, NEW n \in Nat, NEW f \in [0 .. n - 1 -> Int]
  PROVE  Frames(f) \in Sig(n)
<1> DEFINE g == [i \in DOMAIN f |-> f[i] % Modulus]
<1>1. g \in Sig(n)
  <2>1. \A i \in 0 .. n - 1 : f[i] % Modulus \in Residues
    BY Remainder
  <2>2. QED
    BY <2>1 DEF Sig
<1>2. Frames(f) = g
  BY Zenon DEF Frames
<1>3. QED
  BY <1>1, <1>2

LEMMA TotalIs ==
  ASSUME LuxAssumption, NEW n \in Nat, NEW w \in [0 .. n - 1 -> Int]
  PROVE  Total(w) \in Residues
<1> DEFINE F(f) == [k \in 0 .. n |-> IF k = 0 THEN 0 ELSE (f[k - 1] + w[k - 1]) % Modulus]
           sum == CHOOSE f : f = F(f)
           next == [p \in (1 .. n) \X Residues |-> (p[2] + w[p[1] - 1]) % Modulus]
<1>1. Count(w) = n
  BY CountIs
<1>2. Total(w) = sum[n]
  BY <1>1 DEF Total
<1>3. ASSUME NEW k \in 1 .. n, NEW a \in Residues PROVE (a + w[k - 1]) % Modulus \in Residues
  <2>1. k - 1 \in 0 .. n - 1 /\ a \in Int
    BY ModulusIs
  <2>2. w[k - 1] \in Int
    BY <2>1
  <2>3. a + w[k - 1] \in Int
    BY <2>1, <2>2
  <2>4. QED
    BY <2>3, Remainder
<1>4. next \in [(1 .. n) \X Residues -> Residues]
  BY <1>3
<1>5. \A k \in 1 .. n, a \in Residues : next[<<k, a>>] = (a + w[k - 1]) % Modulus
  OBVIOUS
<1> HIDE DEF next
<1>6. PICK f : Iterates(f, n, Residues, 0, next)
  <2>1. 0 \in Residues
    BY ModulusIs
  <2>2. QED
    BY <1>4, <2>1, Recursion, Zenon
<1>7. f = F(f)
  <2>1. f = [k \in 0 .. n |-> f[k]] /\ f[0] = 0 /\ \A k \in 0 .. n : f[k] \in Residues
    BY <1>6 DEF Iterates
  <2>2. \A k \in 0 .. n : f[k] = IF k = 0 THEN 0 ELSE (f[k - 1] + w[k - 1]) % Modulus
    <3> TAKE k \in 0 .. n
    <3>1. k # 0 => k \in 1 .. n /\ k - 1 \in 0 .. n
      OBVIOUS
    <3>2. k # 0 => f[k] = next[<<k, f[k - 1]>>] /\ f[k - 1] \in Residues
      BY <1>6, <2>1, <3>1 DEF Iterates
    <3>3. QED
      BY <1>5, <2>1, <3>1, <3>2
  <2>3. QED
    BY <2>1, <2>2, Zenon
<1>8. sum = F(sum)
  BY <1>7, Zenon
<1> HIDE DEF sum
<1>9. \A k \in 0 .. n : sum[k] = IF k = 0 THEN 0 ELSE (sum[k - 1] + w[k - 1]) % Modulus
  BY <1>8, Zenon
<1> DEFINE Good == {k \in 0 .. n : sum[k] \in Residues}
<1>10. 0 \in Good
  BY <1>9, ModulusIs
<1>11. ASSUME NEW k \in 0 .. n, k # 0, k - 1 \in Good PROVE k \in Good
  <2>1. k \in 1 .. n /\ sum[k - 1] \in Residues
    BY <1>11
  <2>2. sum[k] = (sum[k - 1] + w[k - 1]) % Modulus
    BY <1>9, <1>11, Zenon
  <2>3. QED
    BY <1>3, <2>1, <2>2
<1>12. 0 .. n \subseteq Good
  <2> HIDE DEF Good
  <2>1. QED
    BY <1>10, <1>11, AllUpTo
<1>13. QED
  BY <1>2, <1>12

-----------------------------------------------------------------------------
(* One layer.                                                              *)

LEMMA SigIs ==
  ASSUME LuxAssumption, NEW n \in Nat, NEW f \in Sig(n)
  PROVE  DOMAIN f = 0 .. n - 1 /\ Count(f) = n /\ \A i \in 0 .. n - 1 : f[i] \in Residues /\ f[i] \in Int
<1>1. DOMAIN f = 0 .. n - 1 /\ \A i \in 0 .. n - 1 : f[i] \in Residues
  BY DEF Sig
<1>2. QED
  BY <1>1, CountIs, ModulusIs

\* Frames of whole numbers.
LEMMA SigOf ==
  ASSUME LuxAssumption, NEW n \in Nat, NEW g, g = [i \in 0 .. n - 1 |-> g[i]], \A i \in 0 .. n - 1 : g[i] \in Int
  PROVE  Frames(g) \in Sig(n)
<1>1. g \in [0 .. n - 1 -> Int]
  OBVIOUS
<1>2. QED
  BY <1>1, FramesIs

Square(w, n) == w \in [0 .. n - 1 -> [0 .. n - 1 -> Residues]]

LEMMA AttendIs ==
  ASSUME LuxAssumption, NEW n \in Nat, NEW f \in Sig(n), NEW w, Square(w, n)
  PROVE  Attend(w, f) \in Sig(n)
<1> DEFINE R(i) == [j \in DOMAIN f |-> w[i][j] * f[j]]
           g == [i \in DOMAIN f |-> Total(R(i))]
<1>1. DOMAIN f = 0 .. n - 1 /\ \A i \in 0 .. n - 1 : f[i] \in Int
  BY SigIs
<1>2. ASSUME NEW i \in 0 .. n - 1 PROVE Total(R(i)) \in Int
  <2>1. \A j \in 0 .. n - 1 : w[i][j] \in Int
    BY ModulusIs DEF Square
  <2>2. R(i) \in [0 .. n - 1 -> Int]
    BY <1>1, <2>1
  <2> HIDE DEF R
  <2>3. Total(R(i)) \in Residues
    BY <2>2, TotalIs
  <2>4. QED
    BY <2>3, ModulusIs
<1> HIDE DEF R
<1>3. g \in [0 .. n - 1 -> Int]
  BY <1>1, <1>2
<1>4. Attend(w, f) = Frames(g)
  BY Zenon DEF Attend, R
<1> HIDE DEF g
<1>5. QED
  BY <1>3, <1>4, FramesIs

LEMMA ConvolveIs ==
  ASSUME LuxAssumption, NEW n \in Nat, NEW f \in Sig(n)
  PROVE  Convolve(f) \in Sig(n)
<1> DEFINE R(i) == [k \in 0 .. CnnKernel - 1 |->
                      LET j == i + k - (CnnKernel \div 2) IN IF j \in DOMAIN f THEN (k + 1) * f[j] ELSE 0]
           g == [i \in DOMAIN f |-> Total(R(i))]
<1>1. DOMAIN f = 0 .. n - 1 /\ \A i \in 0 .. n - 1 : f[i] \in Int
  BY SigIs
<1>2. ASSUME NEW i \in 0 .. n - 1 PROVE Total(R(i)) \in Int
  <2>1. CnnKernel \in Nat
    BY DEF LuxAssumption
  <2>2. ASSUME NEW k \in 0 .. CnnKernel - 1, NEW j PROVE (IF j \in DOMAIN f THEN (k + 1) * f[j] ELSE 0) \in Int
    BY <1>1, <2>1
  <2>3. R(i) \in [0 .. CnnKernel - 1 -> Int]
    <3>1. \A k \in 0 .. CnnKernel - 1 : R(i)[k] \in Int
      BY <2>2
    <3>2. QED
      BY <3>1
  <2> HIDE DEF R
  <2>4. Total(R(i)) \in Residues
    BY <2>1, <2>3, TotalIs
  <2>5. QED
    BY <2>4, ModulusIs
<1> HIDE DEF R
<1>3. g \in [0 .. n - 1 -> Int]
  BY <1>1, <1>2
<1>4. Convolve(f) = Frames(g)
  BY Zenon DEF Convolve, R
<1> HIDE DEF g
<1>5. QED
  BY <1>3, <1>4, FramesIs

LEMMA FeedForwardIs == ASSUME LuxAssumption, NEW n \in Nat, NEW f \in Sig(n) PROVE FeedForward(f) \in Sig(n)
<1> DEFINE g == [i \in DOMAIN f |-> f[i] * (f[i] + 1)]
<1>1. DOMAIN f = 0 .. n - 1 /\ \A i \in 0 .. n - 1 : f[i] \in Int
  BY SigIs
<1>2. g \in [0 .. n - 1 -> Int]
  BY <1>1
<1> HIDE DEF g
<1>3. QED
  BY <1>2, FramesIs DEF FeedForward, g

LEMMA PlusIs ==
  ASSUME LuxAssumption, NEW n \in Nat, NEW f \in Sig(n), NEW h \in Sig(n) PROVE Plus(f, h) \in Sig(n)
<1> DEFINE g == [i \in DOMAIN f |-> f[i] + h[i]]
<1>1. DOMAIN f = 0 .. n - 1 /\ \A i \in 0 .. n - 1 : f[i] \in Int /\ h[i] \in Int
  BY SigIs
<1>2. g \in [0 .. n - 1 -> Int]
  BY <1>1
<1> HIDE DEF g
<1>3. QED
  BY <1>2, FramesIs DEF Plus, g

LEMMA ShiftedIs ==
  ASSUME LuxAssumption, NEW n \in Nat, NEW f \in Sig(n), NEW te \in Int PROVE Shifted(f, te) \in Sig(n)
<1> DEFINE g == [i \in DOMAIN f |-> f[i] + te]
<1>1. DOMAIN f = 0 .. n - 1 /\ \A i \in 0 .. n - 1 : f[i] \in Int
  BY SigIs
<1>2. g \in [0 .. n - 1 -> Int]
  BY <1>1
<1> HIDE DEF g
<1>3. QED
  BY <1>2, FramesIs DEF Shifted, g

LEMMA BypassIs ==
  ASSUME LuxAssumption, NEW n \in Nat, NEW f \in Sig(n), NEW h \in Sig(n) PROVE Bypass(f, h) \in Sig(n)
<1> DEFINE g == [i \in DOMAIN f |-> f[i] + 2 * (h[i] - f[i])]
<1>1. DOMAIN f = 0 .. n - 1 /\ \A i \in 0 .. n - 1 : f[i] \in Int /\ h[i] \in Int
  BY SigIs
<1>2. g \in [0 .. n - 1 -> Int]
  BY <1>1
<1> HIDE DEF g
<1>3. QED
  BY <1>2, FramesIs DEF Bypass, g

LEMMA ConvolvedIs ==
  ASSUME LuxAssumption, NEW n \in Nat, NEW f \in Sig(n), NEW te \in Int PROVE Convolved(f, te) \in Sig(n)
<1> DEFINE a == Shifted(f, te)
           b == Plus(a, Convolve(a))
<1>1. a \in Sig(n)
  BY ShiftedIs
<1>2. b \in Sig(n)
  <2> HIDE DEF a
  <2>1. QED
    BY <1>1, ConvolveIs, PlusIs
<1>3. Plus(b, FeedForward(b)) \in Sig(n)
  <2> HIDE DEF b
  <2>1. QED
    BY <1>2, FeedForwardIs, PlusIs
<1>4. QED
  BY <1>3 DEF Convolved

LEMMA AttendedIs ==
  ASSUME LuxAssumption, NEW n \in Nat, NEW f \in Sig(n), NEW te \in Int, NEW w, Square(w, n)
  PROVE  Attended(w, f, te) \in Sig(n)
<1> DEFINE a == Shifted(f, te)
           b == Plus(a, FeedForward(a))
<1>1. a \in Sig(n)
  BY ShiftedIs
<1>2. b \in Sig(n)
  <2> HIDE DEF a
  <2>1. QED
    BY <1>1, FeedForwardIs, PlusIs
<1>3. Plus(b, Attend(w, b)) \in Sig(n)
  <2> HIDE DEF b
  <2>1. QED
    BY <1>2, AttendIs, PlusIs
<1>4. QED
  BY <1>3 DEF Attended

LEMMA LayerIs ==
  ASSUME LuxAssumption, NEW n \in Nat, NEW f \in Sig(n), NEW te \in Int, NEW w, Square(w, n)
  PROVE  Layer(w, f, te) \in Sig(n)
<1> DEFINE a == Convolved(Attended(w, f, te), te)
           mid == Bypass(f, a)
           b == Plus(mid, Attend(w, mid))
<1>1. a \in Sig(n)
  BY AttendedIs, ConvolvedIs
<1>2. mid \in Sig(n)
  <2> HIDE DEF a
  <2>1. QED
    BY <1>1, BypassIs
<1>3. b \in Sig(n)
  <2> HIDE DEF mid
  <2>1. QED
    BY <1>2, AttendIs, PlusIs
<1>4. Bypass(f, Convolved(b, te)) \in Sig(n)
  <2> HIDE DEF b
  <2>1. QED
    BY <1>3, ConvolvedIs, BypassIs
<1>5. QED
  BY <1>4 DEF Layer

\* rel_shift: row i, column j of the shifted scores is distance j - i.
LEMMA WeightsIs ==
  ASSUME LuxAssumption, NEW n \in Nat, NEW f \in Sig(n)
  PROVE  Weights(f) = DirectWeights(f) /\ Square(Weights(f), n)
<1>1. DOMAIN f = 0 .. n - 1 /\ Count(f) = n /\ \A i \in 0 .. n - 1 : f[i] \in Int
  BY SigIs
<1>2. ASSUME NEW i \in 0 .. n - 1, NEW j \in 0 .. n - 1 PROVE Distance(n)[RelShift(n, i, j)] = j - i
  <2>1. RelShift(n, i, j) = n - 1 - i + j
    BY DEF RelShift
  <2>2. n - 1 - i + j \in 0 .. 2 * n - 2
    OBVIOUS
  <2>3. Distance(n)[n - 1 - i + j] = n - 1 - i + j - (n - 1)
    BY <2>2 DEF Distance
  <2>4. QED
    BY <2>1, <2>3
<1> DEFINE W(i, j) == (f[i] * f[j] + f[i] * Position(Distance(n)[RelShift(n, i, j)])) % Modulus
           D(i, j) == (f[i] * f[j] + f[i] * Position(j - i)) % Modulus
<1>3. \A i, j \in 0 .. n - 1 : W(i, j) = D(i, j)
  BY <1>2
<1>4. ASSUME NEW i \in 0 .. n - 1, NEW j \in 0 .. n - 1 PROVE D(i, j) \in Residues
  <2>1. f[i] \in Int /\ f[j] \in Int /\ Position(j - i) \in Int
    BY <1>1 DEF Position
  <2>2. f[i] * f[j] \in Int /\ f[i] * Position(j - i) \in Int
    BY <2>1
  <2>3. f[i] * f[j] + f[i] * Position(j - i) \in Int
    BY <2>2
  <2>4. QED
    BY <2>3, Remainder
<1>5. Weights(f) = [i \in 0 .. n - 1 |-> [j \in 0 .. n - 1 |-> W(i, j)]]
  BY <1>1, Zenon DEF Weights
<1>6. DirectWeights(f) = [i \in 0 .. n - 1 |-> [j \in 0 .. n - 1 |-> D(i, j)]]
  BY <1>1, Zenon DEF DirectWeights
<1> HIDE DEF W, D
<1>7. \A i \in 0 .. n - 1 : [j \in 0 .. n - 1 |-> W(i, j)] = [j \in 0 .. n - 1 |-> D(i, j)]
  BY <1>3
<1>8. Weights(f) = DirectWeights(f)
  BY <1>5, <1>6, <1>7
<1>9. Square(Weights(f), n)
  BY <1>4, <1>6, <1>8 DEF Square
<1>10. QED
  BY <1>8, <1>9

\* The time embedding in front of the frames reaches the layer as such, and no frame.
LEMMA ZipformerIs ==
  ASSUME LuxAssumption, NEW n \in Nat, NEW f \in Sig(n), NEW te \in Int
  PROVE  /\ Unpack(Zipformer(Pack(te, f)), Count(f)) = Layer(DirectWeights(f), f, te)
         /\ Layer(DirectWeights(f), f, te) \in Sig(n)
<1>1. DOMAIN f = 0 .. n - 1 /\ Count(f) = n /\ f = [i \in 0 .. n - 1 |-> f[i]]
  BY SigIs DEF Sig
<1> DEFINE p == Pack(te, f)
<1>2. p = [i \in 0 .. n |-> IF i = 0 THEN te ELSE f[i - 1]]
  BY <1>1 DEF Pack
<1>3. p[0] = te /\ \A i \in 0 .. n - 1 : p[i + 1] = f[i]
  <2>1. \A i \in 0 .. n - 1 : i + 1 \in 0 .. n /\ i + 1 # 0 /\ i + 1 - 1 = i
    OBVIOUS
  <2>2. 0 \in 0 .. n
    OBVIOUS
  <2>3. QED
    BY <1>2, <2>1, <2>2
<1>4. Count(p) = n + 1
  <2>1. DOMAIN p = 0 .. (n + 1) - 1 /\ n + 1 \in Nat
    BY <1>2
  <2> HIDE DEF p
  <2>2. QED
    BY <2>1, CountIs
<1> HIDE DEF p
<1>5. Unpack(p, n) = f
  BY <1>1, <1>3 DEF Unpack
<1>6. Count(p) - 1 = n
  BY <1>4
<1> DEFINE out == Layer(DirectWeights(f), f, te)
<1>7. out \in Sig(n)
  BY WeightsIs, LayerIs
<1>8. Zipformer(p) = Pack(te, out)
  BY <1>3, <1>5, <1>6, WeightsIs DEF Zipformer
<1> HIDE DEF out
<1>9. DOMAIN out = 0 .. n - 1 /\ Count(out) = n /\ out = [i \in 0 .. n - 1 |-> out[i]]
  BY <1>7, SigIs DEF Sig
<1> DEFINE z == Pack(te, out)
<1>10. z = [i \in 0 .. n |-> IF i = 0 THEN te ELSE out[i - 1]]
  BY <1>9 DEF Pack
<1>11. \A i \in 0 .. n - 1 : z[i + 1] = out[i]
  <2>1. \A i \in 0 .. n - 1 : i + 1 \in 0 .. n /\ i + 1 # 0 /\ i + 1 - 1 = i
    OBVIOUS
  <2>2. QED
    BY <1>10, <2>1
<1> HIDE DEF z
<1>12. Unpack(z, n) = out
  BY <1>9, <1>11 DEF Unpack
<1>13. Unpack(Zipformer(p), n) = out
  BY <1>8, <1>12 DEF z
<1>14. QED
  BY <1>1, <1>7, <1>13 DEF out, p

-----------------------------------------------------------------------------
(* Changes of rate.                                                        *)

LEMMA Divides ==
  ASSUME NEW a \in Nat, NEW d \in Nat \ {0}
  PROVE  a = (a \div d) * d + (a % d) /\ a \div d \in Nat /\ a % d \in 0 .. d - 1
  OBVIOUS

LEMMA TimesNat == ASSUME NEW a \in Nat, NEW b \in Nat PROVE a * b \in Nat
  OBVIOUS

LEMMA Distributes == ASSUME NEW a \in Int, NEW b \in Int, NEW d \in Int PROVE (a + b) * d = a * d + b * d /\ a * d \in Int
  OBVIOUS

LEMMA DivGrows ==
  ASSUME NEW a \in Nat, NEW b \in Nat, a <= b, NEW d \in Nat \ {0}
  PROVE  a \div d <= b \div d
<1> DEFINE q == b \div d
           p == a \div d
<1>1. a = p * d + (a % d) /\ p \in Nat /\ a % d \in 0 .. d - 1
  BY Divides
<1>2. b = q * d + (b % d) /\ q \in Nat /\ b % d \in 0 .. d - 1
  BY Divides
<1> HIDE DEF p, q
<1>3. SUFFICES ASSUME p > q PROVE FALSE
  BY <1>1, <1>2 DEF p, q
<1> DEFINE k == p - q - 1
<1>4. k \in Nat /\ p = k + (q + 1)
  BY <1>1, <1>2, <1>3
<1> HIDE DEF k
<1>5. p * d = k * d + (q + 1) * d /\ (q + 1) * d = q * d + 1 * d /\ q * d \in Int
  BY <1>2, <1>4, Distributes
<1>6. k * d \in Nat
  BY <1>4, TimesNat
<1>7. QED
  BY <1>1, <1>2, <1>5, <1>6

Low(n, ds) == (n - 1) \div ds + 1

LEMMA LowIs ==
  ASSUME NEW n \in Nat \ {0}, NEW ds \in Nat \ {0}
  PROVE  /\ Low(n, ds) \in Nat \ {0} /\ (n + ds - 1) \div ds = Low(n, ds)
         /\ \A i \in 0 .. n - 1 : i \div ds \in 0 .. Low(n, ds) - 1
         /\ ds = 1 => Low(n, ds) = n
<1> DEFINE q == (n - 1) \div ds
           r == (n - 1) % ds
<1>1. n - 1 = q * ds + r /\ q \in Nat /\ r \in 0 .. ds - 1
  <2>1. n - 1 \in Nat
    OBVIOUS
  <2>2. QED
    BY <2>1, Divides
<1>2. Low(n, ds) = q + 1
  BY DEF Low
<1>3. \A i \in 0 .. n - 1 : i \div ds \in 0 .. q
  <2> TAKE i \in 0 .. n - 1
  <2>1. i \in Nat /\ n - 1 \in Nat /\ i <= n - 1
    OBVIOUS
  <2>2. i \div ds <= q /\ i \div ds \in Nat
    BY <2>1, DivGrows, Divides
  <2>3. QED
    BY <1>1, <2>2
<1>4. ds = 1 => q = n - 1
  OBVIOUS
<1> HIDE DEF q, r
<1>5. (n + ds - 1) \div ds = q + 1
  <2>1. (q + 1) * ds = q * ds + 1 * ds /\ q * ds \in Int
    BY <1>1, Distributes
  <2>2. n + ds - 1 = (q + 1) * ds + r
    BY <1>1, <2>1
  <2>3. q + 1 \in Int
    BY <1>1
  <2>4. ((q + 1) * ds + r) \div ds = q + 1
    BY <1>1, <2>3, QuotientIs
  <2>5. QED
    BY <2>2, <2>4
<1>6. QED
  BY <1>1, <1>2, <1>3, <1>4, <1>5

\* Downsampling, with the last frame repeated, is the direct sum of each group.
LEMMA DownIs ==
  ASSUME LuxAssumption, NEW n \in Nat \ {0}, NEW f \in Sig(n), NEW ds \in Nat \ {0}
  PROVE  /\ (IF ds > 1 THEN Downsample(f, ds) ELSE f) = DirectLow(f, ds)
         /\ DirectLow(f, ds) \in Sig(Low(n, ds))
<1>1. DOMAIN f = 0 .. n - 1 /\ Count(f) = n /\ \A i \in 0 .. n - 1 : f[i] \in Int
  BY SigIs
<1> DEFINE m == Low(n, ds)
           R(k) == [c \in 0 .. ds - 1 |-> (c + 2) * (IF k * ds + c \in 0 .. n - 1 THEN f[k * ds + c] ELSE f[n - 1])]
           D(k) == [c \in 0 .. ds - 1 |-> (c + 2) * f[IF k * ds + c < n THEN k * ds + c ELSE n - 1]]
           g == [k \in 0 .. m - 1 |-> Total(R(k))]
           h == [k \in 0 .. m - 1 |-> Total(D(k))]
<1>2. m \in Nat \ {0} /\ (n + ds - 1) \div ds = m /\ (n - 1) \div ds = m - 1
  <2>1. (n - 1) \div ds \in Nat
    <3>1. n - 1 \in Nat
      OBVIOUS
    <3>2. QED
      BY <3>1, Divides
  <2>2. (n - 1) \div ds = m - 1
    BY <2>1 DEF Low
  <2>3. QED
    BY <2>2, LowIs
<1> HIDE DEF m
<1>3. ASSUME NEW k \in 0 .. m - 1 PROVE R(k) = D(k) /\ Total(D(k)) \in Int
  <2>1. k * ds \in Nat
    BY <1>2, TimesNat
  <2>2. ASSUME NEW c \in 0 .. ds - 1
        PROVE  /\ (IF k * ds + c \in 0 .. n - 1 THEN f[k * ds + c] ELSE f[n - 1]) = f[IF k * ds + c < n THEN k * ds + c ELSE n - 1]
               /\ f[IF k * ds + c < n THEN k * ds + c ELSE n - 1] \in Int
    <3> DEFINE a == k * ds + c
    <3>1. a \in Nat
      BY <2>1
    <3> HIDE DEF a
    <3>2. (IF a \in 0 .. n - 1 THEN f[a] ELSE f[n - 1]) = f[IF a < n THEN a ELSE n - 1]
          /\ f[IF a < n THEN a ELSE n - 1] \in Int
      BY <1>1, <3>1
    <3>3. QED
      BY <3>2 DEF a
  <2>3. R(k) = D(k)
    BY <2>2
  <2>4. D(k) \in [0 .. ds - 1 -> Int]
    <3>1. \A c \in 0 .. ds - 1 : (c + 2) * f[IF k * ds + c < n THEN k * ds + c ELSE n - 1] \in Int
      <4> TAKE c \in 0 .. ds - 1
      <4> DEFINE y == f[IF k * ds + c < n THEN k * ds + c ELSE n - 1]
      <4>1. y \in Int
        BY <2>2
      <4> HIDE DEF y
      <4>2. (c + 2) * y \in Int
        BY <4>1
      <4>3. QED
        BY <4>2 DEF y
    <3>2. QED
      BY <3>1
  <2> HIDE DEF R, D
  <2>5. Total(D(k)) \in Residues
    BY <2>4, TotalIs
  <2>6. QED
    BY <2>3, <2>5, ModulusIs
<1> HIDE DEF R, D
<1>4. g = h
  BY <1>3
<1>5. Downsample(f, ds) = Frames(g)
  BY <1>1, <1>2, Zenon DEF Downsample, Groups, R
<1>6. ds # 1 => DirectLow(f, ds) = Frames(h)
  BY <1>1, <1>2, Zenon DEF DirectLow, D
<1>7. Frames(h) \in Sig(m)
  <2>1. h \in [0 .. m - 1 -> Int] /\ m \in Nat
    BY <1>2, <1>3
  <2> HIDE DEF h
  <2>2. QED
    BY <2>1, FramesIs
<1> HIDE DEF g, h
<1>8. CASE ds = 1
  BY <1>8, LowIs DEF DirectLow
<1>9. CASE ds # 1
  <2>1. ds > 1
    BY <1>9
  <2>2. QED
    BY <1>4, <1>5, <1>6, <1>7, <1>9, <2>1 DEF m
<1>10. QED
  BY <1>8, <1>9

LEMMA UpsampledIs ==
  ASSUME LuxAssumption, NEW n \in Nat \ {0}, NEW ds \in Nat \ {0}, NEW h \in Sig(Low(n, ds)), NEW f \in Sig(n)
  PROVE  /\ Upsample(h, ds, Count(f)) = [i \in DOMAIN f |-> h[i \div ds]]
         /\ Upsample(h, ds, Count(f)) \in Sig(n)
<1>1. DOMAIN f = 0 .. n - 1 /\ Count(f) = n
  BY SigIs
<1>2. Low(n, ds) \in Nat /\ \A i \in 0 .. n - 1 : i \div ds \in 0 .. Low(n, ds) - 1
  BY LowIs
<1>3. \A i \in 0 .. n - 1 : h[i \div ds] \in Residues
  BY <1>2, SigIs
<1>4. QED
  BY <1>1, <1>3 DEF Upsample, Sig

-----------------------------------------------------------------------------
(* Stacks.                                                                 *)

LEMMA StacksAre ==
  ASSUME LuxAssumption
  PROVE  /\ Len(NumLayers) \in Nat \ {0} /\ DOMAIN NumLayers = 1 .. Len(NumLayers)
         /\ \A s \in 1 .. Len(NumLayers) : NumLayers[s] \in Nat \ {0} /\ Factors[s] \in Nat \ {0}
<1>1. NumLayers \in Seq(Nat \ {0}) /\ NumLayers # <<>> /\ Factors \in Seq(Nat \ {0}) /\ Len(Factors) = Len(NumLayers)
  BY DEF LuxAssumption
<1>2. QED
  BY <1>1

LEMMA BeforeIs ==
  ASSUME LuxAssumption
  PROVE  /\ LayersBefore(1) = 0
         /\ \A s \in 1 .. Len(NumLayers) :
              LayersBefore(s) \in Nat /\ LayersBefore(s + 1) = LayersBefore(s) + NumLayers[s]
<1> DEFINE n == Len(NumLayers)
           F(f) == [k \in 0 .. n |-> IF k = 0 THEN 0 ELSE f[k - 1] + NumLayers[k]]
           before == CHOOSE f : f = F(f)
           next == [p \in (1 .. n) \X Nat |-> p[2] + NumLayers[p[1]]]
<1>1. n \in Nat /\ \A k \in 1 .. n : NumLayers[k] \in Nat
  BY StacksAre
<1>2. \A s : LayersBefore(s) = before[s - 1]
  BY DEF LayersBefore
<1> HIDE DEF n
<1>3. next \in [(1 .. n) \X Nat -> Nat] /\ \A k \in 1 .. n, a \in Nat : next[<<k, a>>] = a + NumLayers[k]
  BY <1>1
<1> HIDE DEF next
<1>4. PICK f : Iterates(f, n, Nat, 0, next)
  BY <1>1, <1>3, Recursion, Zenon
<1>5. f = F(f)
  <2>1. f = [k \in 0 .. n |-> f[k]] /\ f[0] = 0 /\ \A k \in 0 .. n : f[k] \in Nat
    BY <1>4 DEF Iterates
  <2>2. \A k \in 0 .. n : f[k] = IF k = 0 THEN 0 ELSE f[k - 1] + NumLayers[k]
    <3> TAKE k \in 0 .. n
    <3>1. k # 0 => k \in 1 .. n /\ k - 1 \in 0 .. n
      BY <1>1
    <3>2. k # 0 => f[k] = next[<<k, f[k - 1]>>] /\ f[k - 1] \in Nat
      BY <1>4, <2>1, <3>1 DEF Iterates
    <3>3. QED
      BY <1>3, <2>1, <3>1, <3>2
  <2>3. QED
    BY <2>1, <2>2, Zenon
<1>6. before = F(before)
  BY <1>5, Zenon
<1> HIDE DEF before
<1>7. \A k \in 0 .. n : before[k] = IF k = 0 THEN 0 ELSE before[k - 1] + NumLayers[k]
  BY <1>6, Zenon
<1> DEFINE Good == {k \in 0 .. n : before[k] \in Nat}
<1>8. 0 \in Good
  BY <1>1, <1>7
<1>9. ASSUME NEW k \in 0 .. n, k # 0, k - 1 \in Good PROVE k \in Good
  <2>1. k \in 1 .. n /\ before[k - 1] \in Nat
    BY <1>1, <1>9
  <2>2. before[k] = before[k - 1] + NumLayers[k]
    BY <1>7, <1>9, Zenon
  <2>3. QED
    BY <1>1, <2>1, <2>2
<1>10. 0 .. n \subseteq Good
  <2> HIDE DEF Good
  <2>1. QED
    BY <1>1, <1>8, <1>9, AllUpTo
<1>11. ASSUME NEW s \in 1 .. n
       PROVE  LayersBefore(s) \in Nat /\ LayersBefore(s + 1) = LayersBefore(s) + NumLayers[s]
  <2>1. s - 1 \in 0 .. n /\ s \in 0 .. n /\ s # 0 /\ s + 1 - 1 = s
    BY <1>1
  <2>2. before[s] = before[s - 1] + NumLayers[s]
    BY <1>7, <2>1, Zenon
  <2>3. LayersBefore(s + 1) = before[s]
    BY <1>2, <2>1
  <2>4. QED
    BY <1>2, <1>10, <2>1, <2>2, <2>3
<1>12. LayersBefore(1) = 0
  <2>1. LayersBefore(1) = before[0]
    <3>1. 1 - 1 = 0
      OBVIOUS
    <3>2. QED
      BY <1>2, <3>1
  <2>2. 0 \in 0 .. n
    BY <1>1
  <2>3. QED
    BY <1>7, <2>1, <2>2
<1>13. QED
  BY <1>11, <1>12 DEF n

LEMMA BeforeGrows ==
  ASSUME LuxAssumption, NEW a \in 1 .. Len(NumLayers) + 1, NEW b \in 1 .. Len(NumLayers) + 1, a <= b
  PROVE  LayersBefore(a) <= LayersBefore(b) /\ LayersBefore(a) \in Nat
<1> DEFINE n == Len(NumLayers)
           Good == {k \in 0 .. n + 1 - a : LayersBefore(a) <= LayersBefore(a + k) /\ LayersBefore(a + k) \in Nat}
<1>1. n \in Nat \ {0} /\ \A s \in 1 .. n : NumLayers[s] \in Nat
  BY StacksAre
<1>2. \A s \in 1 .. n : LayersBefore(s) \in Nat /\ LayersBefore(s + 1) = LayersBefore(s) + NumLayers[s]
  BY BeforeIs
<1> HIDE DEF n
<1>3. a \in 1 .. n + 1 /\ b \in 1 .. n + 1
  BY DEF n
<1>4. LayersBefore(a) \in Nat
  <2>1. CASE a \in 1 .. n
    BY <1>2, <2>1
  <2>2. CASE a = n + 1
    BY <1>1, <1>2, <2>2
  <2>3. QED
    BY <1>1, <1>3, <2>1, <2>2
<1>5. 0 \in Good
  <2>1. a + 0 = a /\ 0 \in 0 .. n + 1 - a
    BY <1>1, <1>3
  <2>2. QED
    BY <1>4, <2>1
<1>6. ASSUME NEW k \in 0 .. n + 1 - a, k # 0, k - 1 \in Good PROVE k \in Good
  <2>1. a + (k - 1) \in 1 .. n /\ a + (k - 1) + 1 = a + k
    BY <1>1, <1>3, <1>6
  <2>2. LayersBefore(a) <= LayersBefore(a + (k - 1)) /\ LayersBefore(a + (k - 1)) \in Nat
    BY <1>6
  <2>3. LayersBefore(a + k) = LayersBefore(a + (k - 1)) + NumLayers[a + (k - 1)]
    BY <1>2, <2>1
  <2>4. QED
    BY <1>1, <1>4, <2>1, <2>2, <2>3
<1>7. 0 .. n + 1 - a \subseteq Good
  <2>1. n + 1 - a \in Nat
    BY <1>1, <1>3
  <2> HIDE DEF Good
  <2>2. QED
    BY <1>5, <1>6, <2>1, AllUpTo
<1>8. b - a \in Good /\ a + (b - a) = b
  <2>1. b - a \in 0 .. n + 1 - a /\ a + (b - a) = b
    BY <1>1, <1>3
  <2> HIDE DEF Good
  <2>2. QED
    BY <1>7, <2>1
<1>9. QED
  BY <1>4, <1>8

\* Layer l of stack s, counted through.
LEMMA StackIs ==
  ASSUME LuxAssumption, NEW s \in 1 .. Len(NumLayers), NEW l \in 0 .. NumLayers[s] - 1
  PROVE  /\ StackOf(LayersBefore(s) + l) = s
         /\ LayersBefore(s) + l \in Blocks
         /\ Opening(LayersBefore(s) + l) <=> l = 0
         /\ Closing(LayersBefore(s) + l) <=> l + 1 = NumLayers[s]
<1> DEFINE n == Len(NumLayers)
           b == LayersBefore(s) + l
<1>1. n \in Nat \ {0} /\ DOMAIN NumLayers = 1 .. n /\ NumLayers[s] \in Nat
  BY StacksAre
<1>2. LayersBefore(s) \in Nat /\ LayersBefore(s + 1) = LayersBefore(s) + NumLayers[s]
  BY BeforeIs
<1>3. s \in 1 .. n + 1 /\ s + 1 \in 1 .. n + 1 /\ n + 1 \in 1 .. n + 1
  BY <1>1
<1>4. b \in Nat /\ LayersBefore(s) <= b /\ b < LayersBefore(s + 1)
  BY <1>1, <1>2
<1> HIDE DEF b, n
<1>5. ASSUME NEW z \in 1 .. n, LayersBefore(z) <= b, b < LayersBefore(z + 1) PROVE z = s
  <2>1. z \in 1 .. n + 1 /\ z + 1 \in 1 .. n + 1
    BY <1>1
  <2>2. CASE z < s
    <3>1. LayersBefore(z + 1) <= LayersBefore(s) /\ LayersBefore(z + 1) \in Nat
      <4>1. z + 1 <= s
        BY <1>3, <2>1, <2>2
      <4>2. QED
        BY <1>3, <2>1, <4>1, BeforeGrows DEF n
    <3>2. QED
      BY <1>2, <1>4, <1>5, <3>1
  <2>3. CASE s < z
    <3>1. LayersBefore(s + 1) <= LayersBefore(z) /\ LayersBefore(z) \in Nat
      <4>1. s + 1 <= z
        BY <1>3, <2>1, <2>3
      <4>2. LayersBefore(s + 1) <= LayersBefore(z)
        BY <1>1, <1>3, <2>1, <4>1, BeforeGrows DEF n
      <4>3. LayersBefore(z) \in Nat
        BY <1>5, BeforeIs DEF n
      <4>4. QED
        BY <4>2, <4>3
    <3>2. LayersBefore(s + 1) \in Nat
      BY <1>1, <1>2
    <3>3. QED
      BY <1>4, <1>5, <3>1, <3>2
  <2>4. QED
    BY <1>1, <1>3, <2>1, <2>2, <2>3
<1>6. StackOf(b) = s
  <2>1. StackOf(b) = CHOOSE z \in 1 .. n : LayersBefore(z) <= b /\ b < LayersBefore(z + 1)
    BY <1>1 DEF StackOf
  <2>2. s \in 1 .. n
    BY DEF n
  <2>3. QED
    BY <1>4, <1>5, <2>1, <2>2
<1>7. b \in Blocks
  <2>1. LayersBefore(s + 1) <= LayersBefore(n + 1) /\ LayersBefore(s + 1) \in Nat
    <3>1. s + 1 <= n + 1
      BY <1>1, <1>3
    <3>2. QED
      BY <1>3, <3>1, BeforeGrows DEF n
  <2>2. LayersBefore(n + 1) \in Nat
    BY <1>1, <1>3, BeforeGrows DEF n
  <2>3. QED
    BY <1>4, <2>1, <2>2 DEF Blocks, n
<1>8. Opening(b) <=> l = 0
  BY <1>1, <1>2, <1>6 DEF Opening, b
<1>9. Closing(b) <=> l + 1 = NumLayers[s]
  BY <1>1, <1>2, <1>6 DEF Closing, b
<1>10. QED
  BY <1>6, <1>7, <1>8, <1>9 DEF b

-----------------------------------------------------------------------------
(* The decoder written directly.                                           *)

LEMMA RecipIs == ASSUME LuxAssumption, NEW d PROVE Recip(d) \in Int
<1> DEFINE inverses == {v \in 0 .. Modulus - 1 : (v * d) % Modulus = 1}
<1>1. Recip(d) = IF inverses = {} THEN 0 ELSE CHOOSE v \in inverses : TRUE
  BY DEF Recip
<1>2. inverses \subseteq Int
  BY ModulusIs
<1> HIDE DEF inverses
<1>3. CASE inverses = {}
  BY <1>1, <1>3
<1>4. CASE inverses # {}
  <2>1. PICK v : v \in inverses
    BY <1>4
  <2>2. (CHOOSE u \in inverses : TRUE) \in inverses
    BY <2>1, Zenon
  <2>3. Recip(d) \in inverses
    BY <1>1, <1>4, <2>2
  <2>4. QED
    BY <1>2, <2>3
<1>5. QED
  BY <1>3, <1>4

LEMMA TimeIs == ASSUME LuxAssumption, steps \in Nat, NEW i \in Nat PROVE Time(i) \in Int
<1> DEFINE R == Recip((steps + (Shift - 1) * i) % Modulus)
<1>1. R \in Int
  BY RecipIs
<1>2. Shift \in Int
  BY DEF LuxAssumption
<1>3. Shift * i \in Int
  BY <1>2
<1> HIDE DEF R
<1>4. Shift * i * R \in Int
  BY <1>1, <1>3
<1>5. (Shift * i * R) % Modulus \in Residues
  BY <1>4, Remainder
<1>6. QED
  BY <1>5, ModulusIs DEF Time, R

LEMMA StackTimeIs == ASSUME LuxAssumption, NEW s \in Int, NEW t \in Int PROVE StackTime(s, t) \in Int
<1>1. Embedded(t) \in Int
  <2>1. t * t \in Int
    OBVIOUS
  <2>2. QED
    BY <2>1 DEF Embedded
<1> DEFINE e == Embedded(t)
<1>2. e \in Int
  BY <1>1
<1> HIDE DEF e
<1>3. e * (s + 2) \in Int
  BY <1>2
<1>4. e * (s + 2) + 1 \in Int
  BY <1>3
<1>5. (e * (s + 2) + 1) % Modulus \in Residues
  BY <1>4, Remainder
<1>6. QED
  BY <1>5, ModulusIs DEF StackTime, e

Conditioned(n) == cond.text \in Sig(n) /\ cond.speech \in Sig(n)

LEMMA InProjIs == ASSUME LuxAssumption, NEW n \in Nat, NEW f \in Sig(n), Conditioned(n) PROVE InProj(f) \in Sig(n)
<1> DEFINE a == cond.text
           b == cond.speech
           g == [i \in DOMAIN f |-> f[i] + 5 * a[i] + 11 * b[i]]
<1>1. DOMAIN f = 0 .. n - 1 /\ \A i \in 0 .. n - 1 : f[i] \in Int
  BY SigIs
<1>2. a \in Sig(n) /\ b \in Sig(n)
  BY DEF Conditioned
<1>3. InProj(f) = Frames(g)
  BY Zenon DEF InProj
<1> HIDE DEF a, b
<1>4. \A i \in 0 .. n - 1 : a[i] \in Int /\ b[i] \in Int
  BY <1>2, SigIs
<1>5. g \in [0 .. n - 1 -> Int]
  BY <1>1, <1>4
<1> HIDE DEF g
<1>6. QED
  BY <1>3, <1>5, FramesIs

LEMMA DirectLayerIs ==
  ASSUME LuxAssumption, NEW n \in Nat, NEW f \in Sig(n), NEW te \in Int
  PROVE  Layer(DirectWeights(f), f, te) \in Sig(n)
  BY WeightsIs, LayerIs

Runs(run, f, s, t, m) ==
  /\ run[0] = DirectLow(f, Factors[s])
  /\ \A l \in 1 .. NumLayers[s] :
       run[l] = Layer(DirectWeights(run[l - 1]), run[l - 1], StackTime(s, t))
  /\ \A l \in 0 .. NumLayers[s] : run[l] \in Sig(m)

LEMMA RunIs ==
  ASSUME LuxAssumption, NEW n \in Nat \ {0}, NEW f \in Sig(n), NEW s \in 1 .. Len(NumLayers), NEW t \in Int
  PROVE  Runs(DirectRun(f, s, t), f, s, t, Low(n, Factors[s]))
<1> DEFINE N == NumLayers[s]
           m == Low(n, Factors[s])
           S == Sig(m)
           low == DirectLow(f, Factors[s])
           te == StackTime(s, t)
           Step(g) == Layer(DirectWeights(g), g, te)
           F(g) == [l \in 0 .. N |-> IF l = 0 THEN low ELSE Step(g[l - 1])]
           run == CHOOSE g : g = F(g)
           next == [p \in (1 .. N) \X S |-> Step(p[2])]
<1>1. N \in Nat /\ Factors[s] \in Nat \ {0}
  BY StacksAre
<1>2. m \in Nat /\ low \in S
  BY <1>1, LowIs, DownIs
<1>3. te \in Int
  BY StackTimeIs
<1>4. DirectRun(f, s, t) = run
  BY DEF DirectRun
<1> HIDE DEF N, m, low, te
<1>5. \A g \in S : Step(g) \in S
  BY <1>2, <1>3, DirectLayerIs
<1> HIDE DEF S, Step
<1>6. next \in [(1 .. N) \X S -> S] /\ \A k \in 1 .. N, a \in S : next[<<k, a>>] = Step(a)
  BY <1>5
<1> HIDE DEF next
<1>7. PICK h : Iterates(h, N, S, low, next)
  BY <1>1, <1>2, <1>6, Recursion, Zenon
<1>8. h = F(h)
  <2>1. h = [k \in 0 .. N |-> h[k]] /\ h[0] = low /\ \A k \in 0 .. N : h[k] \in S
    BY <1>7 DEF Iterates
  <2>2. \A k \in 0 .. N : h[k] = IF k = 0 THEN low ELSE Step(h[k - 1])
    <3> TAKE k \in 0 .. N
    <3>1. k # 0 => k \in 1 .. N /\ k - 1 \in 0 .. N
      BY <1>1
    <3>2. k # 0 => h[k] = next[<<k, h[k - 1]>>] /\ h[k - 1] \in S
      BY <1>7, <2>1, <3>1 DEF Iterates
    <3>3. QED
      BY <1>6, <2>1, <3>1, <3>2
  <2>3. QED
    BY <2>1, <2>2, Zenon
<1>9. run = F(run)
  BY <1>8, Zenon
<1> HIDE DEF run
<1>10. \A k \in 0 .. N : run[k] = IF k = 0 THEN low ELSE Step(run[k - 1])
  BY <1>9, Zenon
<1>11. run[0] = low
  BY <1>1, <1>10
<1> DEFINE Good == {k \in 0 .. N : run[k] \in S}
<1>12. 0 \in Good
  BY <1>1, <1>2, <1>11
<1>13. \A k \in 1 .. N : run[k] = Step(run[k - 1])
  <2> TAKE k \in 1 .. N
  <2>1. k \in 0 .. N /\ k # 0
    BY <1>1
  <2>2. QED
    BY <1>10, <2>1, Zenon
<1>14. ASSUME NEW k \in 0 .. N, k # 0, k - 1 \in Good PROVE k \in Good
  <2>1. k \in 1 .. N /\ run[k - 1] \in S
    BY <1>1, <1>14
  <2>2. QED
    BY <1>5, <1>13, <2>1
<1>15. 0 .. N \subseteq Good
  <2> HIDE DEF Good
  <2>1. QED
    BY <1>1, <1>12, <1>14, AllUpTo
<1>16. \A k \in 0 .. N : run[k] \in S
  BY <1>15
<1>17. QED
  BY <1>4, <1>11, <1>13, <1>16, Zenon DEF Runs, N, S, m, low, te, Step

LEMMA DirectStackIs ==
  ASSUME LuxAssumption, NEW n \in Nat \ {0}, NEW f \in Sig(n), NEW s \in 1 .. Len(NumLayers), NEW t \in Int
  PROVE  DirectStack(f, s, t) \in Sig(n)
<1> DEFINE ds == Factors[s]
           out == DirectRun(f, s, t)[NumLayers[s]]
<1>1. NumLayers[s] \in Nat \ {0} /\ ds \in Nat \ {0}
  BY StacksAre
<1>2. out \in Sig(Low(n, ds))
  BY <1>1, RunIs DEF Runs
<1>3. DirectStack(f, s, t) = IF ds = 1 THEN out ELSE Bypass(f, [i \in DOMAIN f |-> out[i \div ds]])
  BY DEF DirectStack
<1> HIDE DEF ds, out
<1>4. ds = 1 => Low(n, ds) = n
  BY LowIs
<1>5. Bypass(f, [i \in DOMAIN f |-> out[i \div ds]]) \in Sig(n)
  <2>1. /\ Upsample(out, ds, Count(f)) = [i \in DOMAIN f |-> out[i \div ds]]
        /\ Upsample(out, ds, Count(f)) \in Sig(n)
    BY <1>1, <1>2, UpsampledIs
  <2>2. QED
    BY <2>1, BypassIs
<1>6. QED
  BY <1>2, <1>3, <1>4, <1>5

Stacked(after, f, t, n) ==
  /\ after[0] = InProj(f)
  /\ \A s \in 1 .. Len(NumLayers) : after[s] = DirectStack(after[s - 1], s, t)
  /\ \A s \in 0 .. Len(NumLayers) : after[s] \in Sig(n)

LEMMA StackedIs ==
  ASSUME LuxAssumption, NEW n \in Nat \ {0}, NEW f \in Sig(n), NEW t \in Int, Conditioned(n)
  PROVE  Stacked(DirectStacks(f, t), f, t, n)
<1> DEFINE N == Len(NumLayers)
           S == Sig(n)
           x == InProj(f)
           Step(s, g) == DirectStack(g, s, t)
           F(g) == [s \in 0 .. N |-> IF s = 0 THEN x ELSE Step(s, g[s - 1])]
           after == CHOOSE g : g = F(g)
           next == [p \in (1 .. N) \X S |-> Step(p[1], p[2])]
<1>1. N \in Nat
  BY StacksAre
<1>2. x \in S
  BY InProjIs
<1>3. DirectStacks(f, t) = after
  BY DEF DirectStacks
<1>4. \A s \in 1 .. N, g \in S : Step(s, g) \in S
  BY DirectStackIs
<1> HIDE DEF N, x, S, Step
<1>5. next \in [(1 .. N) \X S -> S] /\ \A k \in 1 .. N, a \in S : next[<<k, a>>] = Step(k, a)
  BY <1>4
<1> HIDE DEF next
<1>6. PICK h : Iterates(h, N, S, x, next)
  BY <1>1, <1>2, <1>5, Recursion, Zenon
<1>7. h = F(h)
  <2>1. h = [k \in 0 .. N |-> h[k]] /\ h[0] = x /\ \A k \in 0 .. N : h[k] \in S
    BY <1>6 DEF Iterates
  <2>2. \A k \in 0 .. N : h[k] = IF k = 0 THEN x ELSE Step(k, h[k - 1])
    <3> TAKE k \in 0 .. N
    <3>1. k # 0 => k \in 1 .. N /\ k - 1 \in 0 .. N
      BY <1>1
    <3>2. k # 0 => h[k] = next[<<k, h[k - 1]>>] /\ h[k - 1] \in S
      BY <1>6, <2>1, <3>1 DEF Iterates
    <3>3. QED
      BY <1>5, <2>1, <3>1, <3>2
  <2>3. QED
    BY <2>1, <2>2, Zenon
<1>8. after = F(after)
  BY <1>7, Zenon
<1> HIDE DEF after
<1>9. \A k \in 0 .. N : after[k] = IF k = 0 THEN x ELSE Step(k, after[k - 1])
  BY <1>8, Zenon
<1>10. after[0] = x
  BY <1>1, <1>9
<1>11. \A k \in 1 .. N : after[k] = Step(k, after[k - 1])
  <2> TAKE k \in 1 .. N
  <2>1. k \in 0 .. N /\ k # 0
    BY <1>1
  <2>2. QED
    BY <1>9, <2>1, Zenon
<1> DEFINE Good == {k \in 0 .. N : after[k] \in S}
<1>12. 0 \in Good
  BY <1>1, <1>2, <1>10
<1>13. ASSUME NEW k \in 0 .. N, k # 0, k - 1 \in Good PROVE k \in Good
  <2>1. k \in 1 .. N /\ after[k - 1] \in S
    BY <1>1, <1>13
  <2>2. QED
    BY <1>4, <1>11, <2>1
<1>14. 0 .. N \subseteq Good
  <2> HIDE DEF Good
  <2>1. QED
    BY <1>1, <1>12, <1>13, AllUpTo
<1>15. \A k \in 0 .. N : after[k] \in S
  BY <1>14
<1>16. QED
  BY <1>3, <1>10, <1>11, <1>15, Zenon DEF Stacked, N, S, x, Step

-----------------------------------------------------------------------------
(* Phonemes.                                                               *)

\* A step of a scan stays within what there is to scan.
Scans(w, m, S) ==
  /\ w = [i \in 1 .. m |-> w[i]]
  /\ \A i \in 1 .. m : w[i].used \in 1 .. m + 1 - i /\ w[i].out \in Seq(S)

LEMMA ScanIs ==
  ASSUME NEW m \in Nat, NEW S, NEW w, Scans(w, m, S)
  PROVE  Scan(w) \in Seq(S)
<1> DEFINE T == Seq(S)
           Said(i, r) == w[i].out \o r
           Then(i) == i + w[i].used
           F(f) == [i \in 1 .. m + 1 |-> IF i > m THEN <<>> ELSE Said(i, f[Then(i)])]
           from == CHOOSE f : f = F(f)
           Upto(f, k) == \A i \in m + 1 - k .. m + 1 : f[i] = IF i > m THEN <<>> ELSE Said(i, f[Then(i)])
           Found == {k \in 0 .. m : \E f \in [m + 1 - k .. m + 1 -> T] : Upto(f, k)}
<1>1. Scan(w) = from[1]
  <2>1. DOMAIN w = 1 .. m
    BY DEF Scans
  <2>2. w \in Seq({w[i] : i \in 1 .. m})
    BY DEF Scans
  <2>3. Len(w) = m
    BY <2>1, <2>2
  <2>4. QED
    BY <2>3, Zenon DEF Scan
<1>2. \A i \in 1 .. m : Then(i) \in i + 1 .. m + 1
  <2> TAKE i \in 1 .. m
  <2>1. w[i].used \in 1 .. m + 1 - i
    BY DEF Scans
  <2>2. QED
    BY <2>1
<1>3. \A i \in 1 .. m, r \in T : Said(i, r) \in T
  <2> TAKE i \in 1 .. m, r \in T
  <2>1. w[i].out \in Seq(S)
    BY DEF Scans
  <2>2. QED
    BY <2>1, ConcatProperties
<1>4. <<>> \in T
  OBVIOUS
<1> HIDE DEF T, Said, Then
<1>5. 0 \in Found
  <2> DEFINE c == [i \in m + 1 .. m + 1 |-> <<>>]
  <2>1. c \in [m + 1 - 0 .. m + 1 -> T] /\ \A i \in m + 1 - 0 .. m + 1 : i > m /\ c[i] = <<>>
    BY <1>4
  <2> HIDE DEF c
  <2>2. Upto(c, 0) /\ 0 \in 0 .. m
    BY <2>1
  <2> HIDE DEF Upto
  <2>3. QED
    BY <2>1, <2>2
<1>6. ASSUME NEW k \in 0 .. m, k # 0, k - 1 \in Found PROVE k \in Found
  <2> DEFINE j == m + 1 - k
  <2>1. j \in 1 .. m /\ m + 1 - (k - 1) = j + 1
    BY <1>6
  <2>2. PICK f \in [j + 1 .. m + 1 -> T] : Upto(f, k - 1)
    BY <1>6, <2>1
  <2>3. \A i \in j + 1 .. m + 1 : f[i] = IF i > m THEN <<>> ELSE Said(i, f[Then(i)])
    BY <2>1, <2>2
  <2> HIDE DEF j, Upto
  <2> DEFINE h == [i \in j .. m + 1 |-> IF i = j THEN Said(j, f[Then(j)]) ELSE f[i]]
  <2>4. Said(j, f[Then(j)]) \in T
    BY <1>2, <1>3, <2>1
  <2>5. h[j] = Said(j, f[Then(j)]) /\ \A i \in j + 1 .. m + 1 : h[i] = f[i]
    <3>1. j \in j .. m + 1 /\ \A i \in j + 1 .. m + 1 : i \in j .. m + 1 /\ i # j
      BY <2>1
    <3>2. QED
      BY <3>1
  <2>6. h \in [j .. m + 1 -> T]
    <3>1. \A i \in j .. m + 1 : i # j => i \in j + 1 .. m + 1
      BY <2>1
    <3>2. \A i \in j .. m + 1 : (IF i = j THEN Said(j, f[Then(j)]) ELSE f[i]) \in T
      BY <2>4, <3>1
    <3>3. QED
      BY <3>2
  <2> HIDE DEF h
  <2>7. ASSUME NEW i \in j .. m + 1 PROVE h[i] = IF i > m THEN <<>> ELSE Said(i, h[Then(i)])
    <3>1. CASE i = j
      <4>1. Then(j) \in j + 1 .. m + 1 /\ ~ (j > m)
        BY <1>2, <2>1
      <4>2. h[Then(j)] = f[Then(j)]
        BY <2>5, <4>1
      <4>3. QED
        BY <2>5, <3>1, <4>1, <4>2
    <3>2. CASE i # j
      <4>1. i \in j + 1 .. m + 1
        BY <2>1, <3>2
      <4>2. ~ (i > m) => Then(i) \in j + 1 .. m + 1
        <5>1. ~ (i > m) => i \in 1 .. m
          BY <2>1, <4>1
        <5>2. ~ (i > m) => Then(i) \in i + 1 .. m + 1
          BY <1>2, <5>1
        <5>3. QED
          BY <2>1, <4>1, <5>2
      <4>3. h[i] = f[i] /\ (~ (i > m) => h[Then(i)] = f[Then(i)])
        BY <2>5, <4>1, <4>2
      <4>4. f[i] = IF i > m THEN <<>> ELSE Said(i, f[Then(i)])
        BY <2>3, <4>1, Zenon
      <4>5. QED
        BY <4>3, <4>4
    <3>3. QED
      BY <3>1, <3>2
  <2>8. Upto(h, k)
    BY <2>7 DEF Upto, j
  <2>9. QED
    BY <2>6, <2>8 DEF j
<1>7. m \in Found
  <2> HIDE DEF Found
  <2>1. 0 .. m \subseteq Found
    BY <1>5, <1>6, AllUpTo
  <2>2. QED
    BY <2>1
<1>8. PICK f \in [1 .. m + 1 -> T] : \A i \in 1 .. m + 1 : f[i] = IF i > m THEN <<>> ELSE Said(i, f[Then(i)])
  <2>1. m + 1 - m = 1
    OBVIOUS
  <2>2. QED
    BY <1>7, <2>1
<1>9. from = F(from)
  <2>1. f = [i \in 1 .. m + 1 |-> f[i]]
    OBVIOUS
  <2>2. f = F(f)
    BY <1>8, <2>1, Zenon
  <2>3. QED
    BY <2>2, Zenon
<1> HIDE DEF from
<1>10. \A i \in 1 .. m + 1 : from[i] = IF i > m THEN <<>> ELSE Said(i, from[Then(i)])
  BY <1>9, Zenon
<1> DEFINE Good == {k \in 0 .. m : \A i \in m + 1 - k .. m + 1 : from[i] \in T}
<1>11. 0 \in Good
  <2>1. \A i \in m + 1 - 0 .. m + 1 : i \in 1 .. m + 1 /\ i > m
    OBVIOUS
  <2>2. \A i \in m + 1 - 0 .. m + 1 : from[i] = <<>>
    BY <1>10, <2>1
  <2>3. QED
    BY <1>4, <2>2
<1>12. ASSUME NEW k \in 0 .. m, k # 0, k - 1 \in Good PROVE k \in Good
  <2> DEFINE j == m + 1 - k
  <2>1. j \in 1 .. m /\ m + 1 - (k - 1) = j + 1 /\ j \in 1 .. m + 1 /\ ~ (j > m)
    BY <1>12
  <2>2. \A i \in j + 1 .. m + 1 : from[i] \in T
    BY <1>12, <2>1
  <2>3. from[j] \in T
    <3>1. from[j] = Said(j, from[Then(j)])
      BY <1>10, <2>1
    <3>2. from[Then(j)] \in T
      BY <1>2, <2>1, <2>2
    <3>3. QED
      BY <1>3, <2>1, <3>1, <3>2
  <2>4. \A i \in j .. m + 1 : i = j \/ i \in j + 1 .. m + 1
    BY <2>1
  <2>5. QED
    BY <2>2, <2>3, <2>4
<1>13. m \in Good
  <2> HIDE DEF Good
  <2>1. 0 .. m \subseteq Good
    BY <1>11, <1>12, AllUpTo
  <2>2. QED
    BY <2>1
<1>14. from[1] \in T
  <2>1. 1 \in m + 1 - m .. m + 1
    OBVIOUS
  <2>2. QED
    BY <1>13, <2>1
<1>15. QED
  BY <1>1, <1>14 DEF T

LEMMA SeqIs == ASSUME NEW S, NEW s \in Seq(S) PROVE Len(s) \in Nat /\ DOMAIN s = 1 .. Len(s) /\ \A i \in 1 .. Len(s) : s[i] \in S
  OBVIOUS

LEMMA ToTokensIs ==
  ASSUME LuxAssumption, NEW ipa \in Seq(Phones)
  PROVE  ToTokens(ipa) \in Seq(Residues)
<1> DEFINE m == Len(ipa)
           n(i) == CHOOSE k \in Matches(ipa, i) : \A l \in Matches(ipa, i) : l <= k
           st(i) == IF Matches(ipa, i) = {} THEN [used |-> 1, out |-> <<>>]
                    ELSE [used |-> n(i), out |-> <<Ids[SubSeq(ipa, i, i + n(i) - 1)]>>]
           w == [i \in 1 .. m |-> st(i)]
<1>1. m \in Nat /\ DOMAIN ipa = 1 .. m
  BY SeqIs
<1>2. ToTokens(ipa) = Scan(w)
  BY <1>1, Zenon DEF ToTokens
<1> HIDE DEF m
<1>3. ASSUME NEW i \in 1 .. m PROVE st(i).used \in 1 .. m + 1 - i /\ st(i).out \in Seq(Residues)
  <2>1. CASE Matches(ipa, i) = {}
    <3>1. st(i).used = 1 /\ st(i).out = <<>>
      BY <2>1
    <3>2. 1 \in 1 .. m + 1 - i
      BY <1>1
    <3>3. QED
      BY <3>1, <3>2
  <2>2. CASE Matches(ipa, i) # {}
    <3> DEFINE f == Matches(ipa, i)
    <3>1. f \subseteq 1 .. 3 /\ f # {}
      BY <2>2 DEF Matches
    <3>2. \E k \in f : \A l \in f : l <= k
      <4> HIDE DEF f
      <4>1. CASE 3 \in f
        BY <3>1, <4>1
      <4>2. CASE 3 \notin f /\ 2 \in f
        BY <3>1, <4>2
      <4>3. CASE 3 \notin f /\ 2 \notin f
        <5>1. \A l \in f : l = 1
          BY <3>1, <4>3
        <5>2. PICK k : k \in f
          BY <3>1
        <5>3. QED
          BY <5>1, <5>2
      <4>4. QED
        BY <4>1, <4>2, <4>3
    <3>3. n(i) \in f
      <4> HIDE DEF f
      <4>1. n(i) = CHOOSE k \in f : \A l \in f : l <= k
        BY DEF f
      <4> HIDE DEF n
      <4>2. QED
        BY <3>2, <4>1, Zenon
    <3> DEFINE k == n(i)
    <3>4. k \in 1 .. 3 /\ i + k - 1 <= m /\ SubSeq(ipa, i, i + k - 1) \in DOMAIN Ids
      BY <3>3 DEF Matches, m
    <3>5. st(i).used = k /\ st(i).out = <<Ids[SubSeq(ipa, i, i + k - 1)]>>
      BY <2>2
    <3> HIDE DEF k, st
    <3>6. Ids[SubSeq(ipa, i, i + k - 1)] \in Residues
      BY <3>4 DEF LuxAssumption, Residues
    <3>7. k \in 1 .. m + 1 - i
      BY <1>1, <3>4
    <3>8. QED
      BY <3>5, <3>6, <3>7
  <2>3. QED
    BY <2>1, <2>2
<1> HIDE DEF st
<1>4. Scans(w, m, Residues)
  BY <1>3 DEF Scans
<1> HIDE DEF w
<1>5. QED
  BY <1>1, <1>2, <1>4, ScanIs

LEMMA RulesAre ==
  ASSUME LuxAssumption, NEW word \in Seq(DOMAIN Letters)
  PROVE  Rules(word) \in Seq(Phones) /\ Visited(word) \in Seq(0 .. Len(word) - 1)
<1> DEFINE m == Len(word)
           sound(i) == [used |-> Advance(word, i),
                        out  |-> IF IsPair(word, i) THEN Digraphs[SubSeq(word, i, i + 1)] ELSE Letters[word[i]]]
           place(i) == [used |-> Advance(word, i), out |-> <<i - 1>>]
           w == [i \in 1 .. m |-> sound(i)]
           z == [i \in 1 .. m |-> place(i)]
<1>1. m \in Nat /\ DOMAIN word = 1 .. m /\ \A i \in 1 .. m : word[i] \in DOMAIN Letters
  BY SeqIs
<1>2. Rules(word) = Scan(w) /\ Visited(word) = Scan(z)
  BY <1>1, Zenon DEF Rules, Visited
<1>3. ASSUME NEW i \in 1 .. m PROVE Advance(word, i) \in 1 .. m + 1 - i
  BY <1>1 DEF Advance, IsPair
<1>4. ASSUME NEW i \in 1 .. m PROVE sound(i).used \in 1 .. m + 1 - i /\ sound(i).out \in Seq(Phones)
  <2>1. IsPair(word, i) => Digraphs[SubSeq(word, i, i + 1)] \in Seq(Phones)
    BY DEF IsPair, LuxAssumption
  <2>2. Letters[word[i]] \in Seq(Phones)
    BY <1>1 DEF LuxAssumption
  <2>3. QED
    BY <1>3, <2>1, <2>2
<1>5. ASSUME NEW i \in 1 .. m PROVE place(i).used \in 1 .. m + 1 - i /\ place(i).out \in Seq(0 .. m - 1)
  <2>1. i - 1 \in 0 .. m - 1
    BY <1>1
  <2>2. QED
    BY <1>3, <2>1
<1> HIDE DEF sound, place
<1>6. Scans(w, m, Phones) /\ Scans(z, m, 0 .. m - 1)
  BY <1>4, <1>5 DEF Scans
<1> HIDE DEF w, z
<1>7. QED
  BY <1>1, <1>2, <1>6, ScanIs

LEMMA SpokenIs == ASSUME LuxAssumption, NEW word \in Seq(DOMAIN Letters) PROVE Spoken(word) \in Seq(Residues)
<1>1. Known(word) => Dictionary[word] \in Seq(Phones)
  BY DEF Known, LuxAssumption
<1>2. (IF Known(word) THEN Dictionary[word] ELSE Rules(word)) \in Seq(Phones)
  BY <1>1, RulesAre
<1>3. QED
  BY <1>2, ToTokensIs DEF Spoken

LEMMA PhonemesAre == ASSUME LuxAssumption, text \in Texts PROVE Phonemes \in Seq(Residues)
<1> DEFINE N == Len(text)
           S == Seq(Residues)
           gap(k) == IF k = 1 THEN <<>> ELSE <<Space>>
           Said(k, r) == r \o gap(k) \o Spoken(text[k])
           F(f) == [k \in 0 .. N |-> IF k = 0 THEN <<>> ELSE Said(k, f[k - 1])]
           upto == CHOOSE f : f = F(f)
           next == [p \in (1 .. N) \X S |-> Said(p[1], p[2])]
<1>0. text \in Seq(Seq(DOMAIN Letters))
  BY DEF LuxAssumption
<1>1. N \in Nat /\ \A k \in 1 .. N : text[k] \in Seq(DOMAIN Letters)
  BY <1>0, SeqIs
<1>2. Phonemes = upto[N]
  BY DEF Phonemes
<1>3. ASSUME NEW k \in 1 .. N, NEW r \in S PROVE Said(k, r) \in S
  <2>1. gap(k) \in S
    <3>1. Space \in Residues
      BY DEF LuxAssumption, Residues
    <3>2. <<Space>> \in S /\ <<>> \in S
      BY <3>1
    <3>3. QED
      BY <3>2, Zenon
  <2>2. Spoken(text[k]) \in S
    BY <1>1, SpokenIs
  <2> HIDE DEF gap
  <2>3. r \o gap(k) \in S
    BY <2>1, ConcatProperties
  <2>4. QED
    BY <2>2, <2>3, ConcatProperties
<1>4. <<>> \in S
  OBVIOUS
<1> HIDE DEF N, S, Said
<1>5. next \in [(1 .. N) \X S -> S] /\ \A k \in 1 .. N, a \in S : next[<<k, a>>] = Said(k, a)
  BY <1>3
<1> HIDE DEF next
<1>6. PICK h : Iterates(h, N, S, <<>>, next)
  BY <1>1, <1>4, <1>5, Recursion, Zenon
<1>7. h = F(h)
  <2>1. h = [k \in 0 .. N |-> h[k]] /\ h[0] = <<>> /\ \A k \in 0 .. N : h[k] \in S
    BY <1>6 DEF Iterates
  <2>2. \A k \in 0 .. N : h[k] = IF k = 0 THEN <<>> ELSE Said(k, h[k - 1])
    <3> TAKE k \in 0 .. N
    <3>1. k # 0 => k \in 1 .. N /\ k - 1 \in 0 .. N
      BY <1>1
    <3>2. k # 0 => h[k] = next[<<k, h[k - 1]>>] /\ h[k - 1] \in S
      BY <1>6, <2>1, <3>1 DEF Iterates
    <3>3. QED
      BY <1>5, <2>1, <3>1, <3>2
  <2>3. QED
    BY <2>1, <2>2, Zenon
<1>8. upto = F(upto)
  BY <1>7, Zenon
<1> HIDE DEF upto
<1>9. \A k \in 0 .. N : upto[k] = IF k = 0 THEN <<>> ELSE Said(k, upto[k - 1])
  BY <1>8, Zenon
<1> DEFINE Good == {k \in 0 .. N : upto[k] \in S}
<1>10. 0 \in Good
  BY <1>1, <1>4, <1>9
<1>11. ASSUME NEW k \in 0 .. N, k # 0, k - 1 \in Good PROVE k \in Good
  <2>1. k \in 1 .. N /\ upto[k - 1] \in S
    BY <1>1, <1>11
  <2>2. upto[k] = Said(k, upto[k - 1])
    BY <1>9, <1>11, Zenon
  <2>3. QED
    BY <1>3, <2>1, <2>2
<1>12. 0 .. N \subseteq Good
  <2> HIDE DEF Good
  <2>1. QED
    BY <1>1, <1>10, <1>11, AllUpTo
<1>13. upto[N] \in S
  BY <1>1, <1>12
<1>14. QED
  BY <1>2, <1>13 DEF S

\* Where all characters are one byte long, no slice cuts one.
LEMMA OffsetIs ==
  ASSUME NEW S, NEW word \in Seq(S), \A k \in 1 .. Len(word) : word[k] \notin Multibyte
  PROVE  \A k \in 0 .. Len(word) : Offset(word, k) = k
<1> DEFINE N == Len(word)
           F(f) == [k \in 0 .. N |-> IF k = 0 THEN 0 ELSE f[k - 1] + Width(word[k])]
           offset == CHOOSE f : f = F(f)
           id == [k \in 0 .. N |-> k]
<1>1. N \in Nat /\ \A k \in 1 .. N : Width(word[k]) = 1
  BY SeqIs DEF Width
<1>2. \A k : Offset(word, k) = offset[k]
  BY DEF Offset
<1> HIDE DEF N
<1>3. id = F(id)
  <2>1. \A k \in 0 .. N : k = IF k = 0 THEN 0 ELSE id[k - 1] + Width(word[k])
    <3> TAKE k \in 0 .. N
    <3>1. k # 0 => k \in 1 .. N /\ k - 1 \in 0 .. N /\ (k - 1) + 1 = k
      BY <1>1
    <3>2. k # 0 => id[k - 1] = k - 1
      BY <3>1
    <3> HIDE DEF id
    <3>3. QED
      BY <1>1, <3>1, <3>2
  <2>2. QED
    BY <2>1
<1>4. offset = F(offset)
  BY <1>3, Zenon
<1> HIDE DEF offset
<1>5. \A k \in 0 .. N : offset[k] = IF k = 0 THEN 0 ELSE offset[k - 1] + Width(word[k])
  BY <1>4, Zenon
<1> DEFINE Good == {k \in 0 .. N : offset[k] = k}
<1>6. 0 \in Good
  BY <1>1, <1>5
<1>7. ASSUME NEW k \in 0 .. N, k # 0, k - 1 \in Good PROVE k \in Good
  <2>1. k \in 1 .. N /\ offset[k - 1] = k - 1
    BY <1>1, <1>7
  <2>2. offset[k] = offset[k - 1] + Width(word[k])
    BY <1>5, <1>7, Zenon
  <2>3. QED
    BY <1>1, <2>1, <2>2
<1>8. 0 .. N \subseteq Good
  <2> HIDE DEF Good
  <2>1. QED
    BY <1>1, <1>6, <1>7, AllUpTo
<1>9. QED
  BY <1>2, <1>8 DEF N

LEMMA CutsIs ==
  ASSUME LuxAssumption, NEW word \in Seq(DOMAIN Letters), Cuts(word)
  PROVE  \E k \in DOMAIN word : word[k] \in Multibyte
<1>1. Len(word) \in Nat /\ DOMAIN word = 1 .. Len(word)
  BY SeqIs
<1>2. SUFFICES ASSUME \A k \in 1 .. Len(word) : word[k] \notin Multibyte PROVE FALSE
  BY <1>1
<1>3. \A k \in 0 .. Len(word) : Offset(word, k) = k
  BY <1>2, OffsetIs
<1>4. \A i \in 0 .. Len(word) : Boundary(word, i)
  BY <1>3 DEF Boundary
<1> DEFINE v == Visited(word)
<1>5. PICK k \in DOMAIN v : LET i == v[k] IN ~ Boundary(word, i)
                              \/ (i + 2 <= Offset(word, Len(word)) /\ ~ Boundary(word, i + 2))
  BY DEF Cuts
<1>6. v[k] \in 0 .. Len(word) - 1
  <2>1. v \in Seq(0 .. Len(word) - 1)
    BY RulesAre
  <2> HIDE DEF v
  <2>2. QED
    BY <2>1
<1> DEFINE i == v[k]
<1>7. i \in 0 .. Len(word) - 1 /\ (~ Boundary(word, i) \/ (i + 2 <= Offset(word, Len(word)) /\ ~ Boundary(word, i + 2)))
  BY <1>5, <1>6
<1> HIDE DEF i
<1>8. i \in 0 .. Len(word) /\ Len(word) \in 0 .. Len(word)
  BY <1>1, <1>7
<1>9. i + 2 <= Len(word) /\ ~ Boundary(word, i + 2)
  BY <1>3, <1>4, <1>7, <1>8
<1>10. i + 2 \in 0 .. Len(word)
  BY <1>1, <1>7, <1>9
<1>11. QED
  BY <1>4, <1>9, <1>10

-----------------------------------------------------------------------------
(* Conditions, steps of the solver and the vocoder.                        *)

LEMMA EncodeTextIs ==
  ASSUME LuxAssumption, NEW ids \in Seq(Residues)
  PROVE  EncodeText(ids) \in Sig(Len(ids))
<1> DEFINE n == Len(ids)
           f == [i \in 0 .. n - 1 |-> ids[i + 1]]
<1>1. n \in Nat /\ \A i \in 1 .. n : ids[i] \in Residues
  BY SeqIs
<1>2. f \in Sig(n)
  <2>1. \A i \in 0 .. n - 1 : i + 1 \in 1 .. n
    BY <1>1
  <2>2. QED
    BY <1>1, <2>1 DEF Sig
<1>3. EncodeText(ids) = Layer(Weights(f), f, 0)
  BY DEF EncodeText
<1> HIDE DEF f, n
<1>4. Layer(Weights(f), f, 0) \in Sig(n)
  BY <1>1, <1>2, WeightsIs, LayerIs
<1>5. QED
  BY <1>3, <1>4 DEF n

LEMMA DivBelow ==
  ASSUME NEW n \in Nat \ {0}, NEW m \in Nat, NEW i \in 0 .. m - 1
  PROVE  (i * n) \div m \in 0 .. n - 1
<1> DEFINE a == i * n
           q == a \div m
<1>1. m \in Nat \ {0} /\ a \in Nat
  BY TimesNat
<1>2. a = q * m + (a % m) /\ q \in Nat /\ a % m \in 0 .. m - 1
  <2> HIDE DEF a
  <2>1. QED
    BY <1>1, Divides
<1> DEFINE j == m - i - 1
<1>3. j \in Nat /\ m = i + (1 + j)
  OBVIOUS
<1> HIDE DEF j
<1>4. m * n = i * n + (1 + j) * n /\ (1 + j) * n = 1 * n + j * n
  BY <1>3, Distributes
<1>5. j * n \in Nat
  BY <1>3, TimesNat
<1>6. a < m * n /\ m * n = n * m
  BY <1>3, <1>4, <1>5
<1> HIDE DEF a, q
<1>7. SUFFICES ASSUME q >= n PROVE FALSE
  BY <1>2 DEF a, q
<1> DEFINE k == q - n
<1>8. k \in Nat /\ q = n + k
  BY <1>2, <1>7
<1> HIDE DEF k
<1>9. q * m = n * m + k * m
  BY <1>8, Distributes
<1>10. k * m \in Nat /\ n * m \in Nat
  BY <1>8, TimesNat
<1>11. QED
  BY <1>1, <1>2, <1>6, <1>9, <1>10

LEMMA SpreadIs ==
  ASSUME LuxAssumption, NEW n \in Nat \ {0}, NEW f \in Sig(n), NEW m \in Nat
  PROVE  Spread(f, m) \in Sig(m)
<1>1. Count(f) = n /\ \A i \in 0 .. n - 1 : f[i] \in Residues
  BY SigIs
<1>2. \A i \in 0 .. m - 1 : f[(i * n) \div m] \in Residues
  BY <1>1, DivBelow
<1>3. Spread(f, m) = [i \in 0 .. m - 1 |-> f[(i * n) \div m]]
  BY <1>1 DEF Spread
<1>4. QED
  BY <1>2, <1>3 DEF Sig

LEMMA WindowFits ==
  ASSUME LuxAssumption
  PROVE  /\ Hop \in Nat \ {0} /\ NFft \in Nat \ {0} /\ (NFft - Hop) \div 2 \in Nat
         /\ NFft = Hop + 2 * ((NFft - Hop) \div 2)
<1> DEFINE d == NFft - Hop
<1>1. Hop \in Nat \ {0} /\ d \in Nat /\ d % 2 = 0
  BY DEF LuxAssumption
<1>3. NFft = Hop + d /\ NFft \in Int
  BY DEF LuxAssumption
<1> HIDE DEF d
<1>4. d = 2 * (d \div 2) /\ d \div 2 \in Nat
  BY <1>1
<1>5. QED
  BY <1>1, <1>3, <1>4 DEF d

LEMMA MelFramesIs ==
  ASSUME LuxAssumption, NEW n \in Nat
  PROVE  MelFrames(n) \in Nat /\ (MelFrames(n) = 0 => n < NFft)
<1>1. Hop \in Nat \ {0} /\ NFft \in Nat
  BY WindowFits
<1>2. CASE n >= NFft
  <2>1. n - NFft \in Nat
    BY <1>1, <1>2
  <2>2. (n - NFft) \div Hop \in Nat
    BY <1>1, <2>1, Divides
  <2>3. MelFrames(n) = (n - NFft) \div Hop + 1
    BY <1>2 DEF MelFrames
  <2>4. QED
    BY <2>2, <2>3
<1>3. CASE ~ (n >= NFft)
  BY <1>1, <1>3 DEF MelFrames
<1>4. QED
  BY <1>2, <1>3

LEMMA MelIs == ASSUME LuxAssumption, NEW n \in Nat PROVE Mel(n) \in Sig(MelFrames(n))
<1> DEFINE m == MelFrames(n)
           R(t) == [i \in 0 .. NFft - 1 |-> (i + 1) * (t * Hop + i + 1)]
           g == [t \in 0 .. m - 1 |-> Total(R(t))]
           f == Stft(n)
           h == [t \in DOMAIN f |-> f[t] * f[t] + 1]
<1>1. m \in Nat /\ Hop \in Nat /\ NFft \in Nat
  BY MelFramesIs, WindowFits
<1>2. f = Frames(g)
  BY DEF Stft
<1> HIDE DEF m, f
<1>3. ASSUME NEW t \in 0 .. m - 1 PROVE Total(R(t)) \in Int
  <2>1. t * Hop \in Int
    BY <1>1
  <2>2. \A i \in 0 .. NFft - 1 : (i + 1) * (t * Hop + i + 1) \in Int
    <3> TAKE i \in 0 .. NFft - 1
    <3> DEFINE y == t * Hop + i + 1
    <3>1. y \in Int
      BY <2>1
    <3> HIDE DEF y
    <3>2. (i + 1) * y \in Int
      BY <3>1
    <3>3. QED
      BY <3>2 DEF y
  <2>3. R(t) \in [0 .. NFft - 1 -> Int]
    BY <2>2
  <2> HIDE DEF R
  <2>4. Total(R(t)) \in Residues
    BY <1>1, <2>3, TotalIs
  <2>5. QED
    BY <2>4, ModulusIs
<1> HIDE DEF R
<1>4. f \in Sig(m)
  <2>1. g \in [0 .. m - 1 -> Int]
    BY <1>3
  <2> HIDE DEF g
  <2>2. QED
    BY <1>1, <1>2, <2>1, FramesIs
<1>5. DOMAIN f = 0 .. m - 1 /\ \A i \in 0 .. m - 1 : f[i] \in Int
  BY <1>1, <1>4, SigIs
<1>6. h \in [0 .. m - 1 -> Int]
  <2>1. \A t \in 0 .. m - 1 : f[t] * f[t] \in Int
    BY <1>5
  <2>2. \A t \in 0 .. m - 1 : f[t] * f[t] + 1 \in Int
    BY <2>1
  <2>3. QED
    BY <1>5, <2>2
<1>7. Mel(n) = Frames(h)
  BY Zenon DEF Mel, f
<1> HIDE DEF h
<1>8. QED
  BY <1>1, <1>6, <1>7, FramesIs DEF m

LEMMA NoiseIs == ASSUME LuxAssumption, NEW n \in Nat PROVE Noise(n) \in Sig(n)
<1> DEFINE g == [i \in 0 .. n - 1 |-> 7 * i + 3]
<1>1. g \in [0 .. n - 1 -> Int]
  OBVIOUS
<1> HIDE DEF g
<1>2. QED
  BY <1>1, FramesIs DEF Noise, g

LEMMA TargetIs ==
  ASSUME LuxAssumption, speed \in Speeds, NEW ids \in Seq(Residues), tokens = ids
  PROVE  Target \in Nat \ {0}
<1> DEFINE a == Len(tokens) * speed[2]
           q == a \div speed[1]
<1>1. speed[1] \in Nat \ {0} /\ speed[2] \in Nat /\ Len(tokens) \in Nat
  BY SeqIs DEF LuxAssumption
<1>2. a \in Nat
  BY <1>1, TimesNat
<1> HIDE DEF a
<1>3. q \in Nat
  BY <1>1, <1>2, Divides
<1>4. Target = IF q = 0 THEN 1 ELSE q
  BY DEF Target, a
<1>5. QED
  BY <1>3, <1>4

LEMMA EulerIs ==
  ASSUME LuxAssumption, steps \in Nat, step \in Nat, NEW n \in Nat, NEW f \in Sig(n), NEW v \in Sig(n)
  PROVE  Euler(f, v) \in Sig(n)
<1> DEFINE d == Time(step + 1) - Time(step)
           g == [i \in DOMAIN f |-> f[i] + d * v[i]]
<1>1. d \in Int
  BY TimeIs
<1>2. DOMAIN f = 0 .. n - 1 /\ \A i \in 0 .. n - 1 : f[i] \in Int /\ v[i] \in Int
  BY SigIs
<1>3. Euler(f, v) = Frames(g)
  BY DEF Euler
<1> HIDE DEF d
<1>4. \A i \in 0 .. n - 1 : d * v[i] \in Int
  BY <1>1, <1>2
<1>5. \A i \in 0 .. n - 1 : f[i] + d * v[i] \in Int
  BY <1>2, <1>4
<1>6. g \in [0 .. n - 1 -> Int]
  BY <1>2, <1>5
<1> HIDE DEF g
<1>7. QED
  BY <1>3, <1>6, FramesIs

LEMMA VocosIs == ASSUME LuxAssumption, NEW n \in Nat, NEW f \in Sig(n) PROVE Vocos(f) \in Sig(n)
<1> DEFINE a == Convolve(f)
           b == FeedForward(Convolve(a))
<1>1. a \in Sig(n)
  BY ConvolveIs
<1>2. b \in Sig(n)
  <2> HIDE DEF a
  <2>1. QED
    BY <1>1, ConvolveIs, FeedForwardIs
<1>3. Vocos(f) = Plus(a, b)
  BY DEF Vocos, ConvNeXt
<1> HIDE DEF a, b
<1>4. QED
  BY <1>1, <1>2, <1>3, PlusIs

LEMMA OverlapIs ==
  ASSUME LuxAssumption, NEW n \in Nat, NEW f \in Sig(n), NEW s \in Int
  PROVE  Overlapped(f, s) \in Int /\ Overlap(f, s) \in Int
<1> DEFINE y(i) == s - i * Hop
           g == [i \in DOMAIN f |-> IF Reaches(i, s) THEN Hann(y(i)) * f[i] * (y(i) + 3) ELSE 0]
           h == [i \in DOMAIN f |-> IF Reaches(i, s) THEN Hann(y(i)) * Hann(y(i)) ELSE 0]
<1>1. DOMAIN f = 0 .. n - 1 /\ \A i \in 0 .. n - 1 : f[i] \in Int
  BY SigIs
<1>2. Hop \in Int
  BY WindowFits
<1>3. Overlapped(f, s) = Total(g) /\ Overlap(f, s) = Total(h)
  BY DEF Overlapped, Overlap
<1>4. ASSUME NEW i \in 0 .. n - 1
      PROVE  Hann(y(i)) * f[i] * (y(i) + 3) \in Int /\ Hann(y(i)) * Hann(y(i)) \in Int
  <2>1. i * Hop \in Int
    BY <1>2
  <2>2. y(i) \in Int
    BY <2>1
  <2> HIDE DEF y
  <2>3. Hann(y(i)) \in Int
    BY <2>2 DEF Hann
  <2>4. Hann(y(i)) * f[i] \in Int
    BY <1>1, <2>3
  <2>5. Hann(y(i)) * f[i] * (y(i) + 3) \in Int
    BY <2>2, <2>4
  <2>6. Hann(y(i)) * Hann(y(i)) \in Int
    BY <2>3
  <2>7. QED
    BY <2>5, <2>6
<1> HIDE DEF y
<1>5. g \in [0 .. n - 1 -> Int] /\ h \in [0 .. n - 1 -> Int]
  BY <1>1, <1>4
<1> HIDE DEF g, h
<1>6. Total(g) \in Residues /\ Total(h) \in Residues
  BY <1>5, TotalIs
<1>7. QED
  BY <1>3, <1>6, ModulusIs

\* istft leaves one hop per frame.
LEMMA IstftIs ==
  ASSUME LuxAssumption, NEW n \in Nat \ {0}, NEW f \in Sig(n)
  PROVE  Istft(f) \in Sig(n * Hop) /\ n * Hop \in Nat
<1> DEFINE pad == (NFft - Hop) \div 2
           N == (Count(f) - 1) * Hop + NFft
           g == [s \in 0 .. N - 1 |-> Overlapped(f, s) * Recip(Overlap(f, s))]
           all == Frames(g)
           h == [s \in 0 .. N - 2 * pad - 1 |-> all[s + pad]]
<1>1. Hop \in Nat \ {0} /\ NFft \in Nat /\ pad \in Nat /\ NFft = Hop + 2 * pad
  BY WindowFits
<1>2. Count(f) = n
  BY SigIs
<1>3. n * Hop \in Nat /\ n * Hop > 0 /\ N = n * Hop + 2 * pad
  <2> DEFINE m == n - 1
  <2>1. m \in Nat /\ n = m + 1
    OBVIOUS
  <2> HIDE DEF m
  <2>2. n * Hop = m * Hop + 1 * Hop /\ m * Hop \in Nat
    BY <1>1, <2>1, Distributes, TimesNat
  <2>3. N = m * Hop + NFft
    BY <1>2, <2>1
  <2> HIDE DEF N, pad
  <2>4. QED
    BY <1>1, <2>2, <2>3
<1>4. Istft(f) = IF pad > 0 /\ N > 2 * pad THEN h ELSE all
  BY DEF Istft
<1> HIDE DEF pad, N
<1> DEFINE m == n * Hop
<1>5. m \in Nat /\ m > 0 /\ N = m + 2 * pad
  BY <1>3
<1> HIDE DEF m
<1>6. all \in Sig(N)
  <2>1. \A s \in 0 .. N - 1 : Overlapped(f, s) * Recip(Overlap(f, s)) \in Int
    <3> TAKE s \in 0 .. N - 1
    <3>1. Overlapped(f, s) \in Int /\ Recip(Overlap(f, s)) \in Int
      <4>1. s \in Int
        BY <1>1, <1>5
      <4>2. QED
        BY <4>1, OverlapIs, RecipIs
    <3>2. QED
      BY <3>1
  <2>2. g \in [0 .. N - 1 -> Int] /\ N \in Nat
    BY <1>1, <1>5, <2>1
  <2> HIDE DEF g
  <2>3. QED
    BY <2>2, FramesIs
<1> HIDE DEF all
<1>7. CASE pad > 0
  <2>1. Istft(f) = h
    BY <1>1, <1>4, <1>5, <1>7
  <2>2. N - 2 * pad - 1 = m - 1
    BY <1>1, <1>5
  <2>3. \A s \in 0 .. m - 1 : s + pad \in 0 .. N - 1
    BY <1>1, <1>5
  <2>4. \A s \in 0 .. m - 1 : all[s + pad] \in Residues
    BY <1>6, <2>3 DEF Sig
  <2>5. QED
    BY <1>3, <2>1, <2>2, <2>4 DEF Sig, m
<1>8. CASE ~ (pad > 0)
  <2>1. pad = 0 /\ N = m
    BY <1>1, <1>5, <1>8
  <2>2. QED
    BY <1>3, <1>4, <1>6, <1>8, <2>1 DEF m
<1>9. QED
  BY <1>7, <1>8

LEMMA DoubledIs ==
  ASSUME LuxAssumption, NEW m \in Nat, NEW f \in Sig(m)
  PROVE  Doubled(f) \in Sig(2 * m)
<1> DEFINE e(i) == LET k == i \div 2
                   IN  IF i % 2 = 0 \/ k + 1 \notin DOMAIN f THEN f[k] ELSE (f[k] + f[k + 1]) * Recip(2)
           g == [i \in 0 .. 2 * Count(f) - 1 |-> e(i)]
<1>1. DOMAIN f = 0 .. m - 1 /\ Count(f) = m /\ \A i \in 0 .. m - 1 : f[i] \in Int
  BY SigIs
<1>2. Recip(2) \in Int
  BY RecipIs
<1>3. ASSUME NEW i \in 0 .. 2 * m - 1 PROVE e(i) \in Int
  <2> DEFINE k == i \div 2
  <2>1. k \in 0 .. m - 1
    OBVIOUS
  <2>2. e(i) = IF i % 2 = 0 \/ k + 1 \notin DOMAIN f THEN f[k] ELSE (f[k] + f[k + 1]) * Recip(2)
    OBVIOUS
  <2> HIDE DEF e, k
  <2>3. k + 1 \in DOMAIN f => (f[k] + f[k + 1]) * Recip(2) \in Int
    <3>1. SUFFICES ASSUME k + 1 \in DOMAIN f PROVE (f[k] + f[k + 1]) * Recip(2) \in Int
      OBVIOUS
    <3>2. f[k] + f[k + 1] \in Int
      BY <1>1, <2>1, <3>1
    <3>3. QED
      BY <1>2, <3>2
  <2>4. QED
    BY <1>1, <2>1, <2>2, <2>3
<1>4. Doubled(f) = Frames(g)
  BY DEF Doubled
<1> HIDE DEF e
<1>5. g \in [0 .. 2 * m - 1 -> Int]
  BY <1>1, <1>3
<1> HIDE DEF g
<1>6. 2 * m \in Nat
  OBVIOUS
<1>7. QED
  BY <1>4, <1>5, <1>6, FramesIs

-----------------------------------------------------------------------------
(* The invariant: where in the decoder a step of the solver has come.      *)

Framed(f) == \A i \in DOMAIN f : i \in Nat /\ f[i] \in Residues
Asked == text \in Texts /\ ref \in RefLengths /\ speed \in Speeds /\ steps \in StepCounts /\ remote \in Placements
Prepared == tokens \in Seq(Residues) /\ Conditioned(Target) /\ mel \in Sig(Target)
\* What enters stack s.
Entry(s) == DirectStacks(mel, Time(step))[s - 1]
\* Layer l of stack s is next.
Reached(s, l) ==
  /\ s \in 1 .. Len(NumLayers) /\ l \in 0 .. NumLayers[s] - 1 /\ flat = LayersBefore(s) + l
  /\ l = 0 => hidden = Entry(s)
  /\ l # 0 => orig = Entry(s) /\ hidden = DirectRun(Entry(s), s, Time(step))[l]
Passed == \A b \in 0 .. flat - 1 : b \notin remote
NoneRemote == remote \cap Blocks = {}
Failing ==
  \/ mel # None /\ flat \in remote /\ Passed
  \/ \E k \in DOMAIN text : ~Known(text[k]) /\ \E j \in DOMAIN text[k] : text[k][j] \in Multibyte
  \/ ref # NoReference /\ ref < NFft
  \/ Phonemes = <<>>

Progress ==
  /\ stage \in {"tokenize", "condition"} => step = 0
  /\ stage = "condition" => tokens \in Seq(Residues) /\ tokens # <<>>
  /\ stage \in {"project", "block", "euler", "vocode", "saved"} => Prepared
  /\ stage \in {"project", "block", "euler"} => step < steps
  /\ stage = "block" => Passed /\ \E s, l \in Int : Reached(s, l)
  /\ stage = "euler" => hidden = Velocity(mel, Time(step)) /\ NoneRemote
  /\ stage \in {"vocode", "saved"} => step = steps /\ (NoneRemote \/ steps = 0)
  /\ stage = "saved" => Count(wave) = 2 * Hop * Target
  /\ stage = "failed" => Failing

LuxInv == Asked /\ LuxTypeOK /\ Progress

Stages == {"tokenize", "condition", "project", "block", "euler", "vocode", "saved", "failed"}

LEMMA TypesAre ==
  LuxTypeOK <=> /\ stage \in Stages
                /\ Framed(mel) /\ Framed(hidden) /\ Framed(orig) /\ Framed(wave)
                /\ Framed(cond.text) /\ Framed(cond.speech)
                /\ step \in 0 .. steps /\ flat \in 0 .. Cardinality(Blocks)
  BY DEF LuxTypeOK, Framed, Stages

LEMMA FramedIs == ASSUME LuxAssumption, NEW n \in Nat, NEW f \in Sig(n) PROVE Framed(f)
<1>1. DOMAIN f = 0 .. n - 1 /\ \A i \in 0 .. n - 1 : f[i] \in Residues
  BY SigIs
<1>2. QED
  BY <1>1 DEF Framed

LEMMA NoneFramed == Framed(None)
  BY DEF Framed, None

LEMMA BlocksAre ==
  ASSUME LuxAssumption
  PROVE  /\ LayersBefore(Len(NumLayers) + 1) \in Nat
         /\ Cardinality(Blocks) = LayersBefore(Len(NumLayers) + 1)
<1> DEFINE m == LayersBefore(Len(NumLayers) + 1)
<1>1. m \in Nat
  <2>1. Len(NumLayers) + 1 \in 1 .. Len(NumLayers) + 1
    BY StacksAre
  <2>2. Len(NumLayers) + 1 <= Len(NumLayers) + 1
    BY <2>1
  <2>3. QED
    BY <2>1, <2>2, BeforeGrows
<1>2. Blocks = 0 .. m - 1
  BY DEF Blocks
<1> HIDE DEF m
<1>3. Cardinality(0 .. m - 1) = m
  <2>1. Cardinality(0 .. m - 1) = IF 0 > m - 1 THEN 0 ELSE m - 1 - 0 + 1
    BY <1>1, FS_Interval
  <2>2. QED
    BY <1>1, <2>1
<1>4. QED
  BY <1>1, <1>2, <1>3 DEF m

LEMMA AskedIs == ASSUME LuxAssumption, Asked PROVE steps \in Nat /\ (ref # NoReference => ref \in Nat)
  BY DEF LuxAssumption, Asked

LEMMA SameTarget == ASSUME UNCHANGED <<speed, tokens>> PROVE Target' = Target
  BY DEF Target

LEMMA SameTime == ASSUME UNCHANGED <<steps, step>> PROVE Time(step)' = Time(step)
  BY DEF Time, Recip

LEMMA SameEntry ==
  ASSUME UNCHANGED <<steps, step, cond, mel>>, NEW s PROVE Entry(s)' = Entry(s)
<1>1. Time(step)' = Time(step)
  BY SameTime
<1>2. QED
  BY <1>1 DEF Entry, DirectStacks, InProj

LEMMA SamePrepared == ASSUME UNCHANGED <<speed, tokens, cond, mel>>, Prepared PROVE Prepared'
<1>1. Target' = Target
  BY SameTarget
<1>2. QED
  BY <1>1 DEF Prepared, Conditioned

LEMMA LuxStarts == LuxAssumption /\ LuxInit => LuxInv
<1> SUFFICES ASSUME LuxAssumption, LuxInit PROVE LuxInv
  OBVIOUS
<1>1. Asked
  BY DEF LuxInit, Asked
<1>2. LuxTypeOK
  <2>1. Framed(mel) /\ Framed(hidden) /\ Framed(orig) /\ Framed(wave) /\ Framed(cond.text) /\ Framed(cond.speech)
    BY NoneFramed DEF LuxInit
  <2>2. 0 \in 0 .. steps /\ 0 \in 0 .. Cardinality(Blocks)
    BY <1>1, AskedIs, BlocksAre
  <2>3. stage \in Stages
    BY DEF LuxInit, Stages
  <2>4. step = 0 /\ flat = 0
    BY DEF LuxInit
  <2>5. QED
    BY <2>1, <2>2, <2>3, <2>4, TypesAre
<1>3. Progress
  BY DEF LuxInit, Progress
<1>4. QED
  BY <1>1, <1>2, <1>3 DEF LuxInv

LEMMA AskedStays == ASSUME Asked, UNCHANGED Requested PROVE Asked'
  BY DEF Asked, Requested

LEMMA TypesStay ==
  ASSUME LuxTypeOK, stage' \in Stages, UNCHANGED <<Requested, cond, mel, hidden, orig, step, flat, wave>>
  PROVE  LuxTypeOK'
<1>1. Cardinality(Blocks)' = Cardinality(Blocks)
  BY DEF Blocks, LayersBefore
<1>2. QED
  BY <1>1 DEF LuxTypeOK, Stages, Requested

\* A step that fails leaves the reason behind.
LEMMA FailKeeps == ASSUME LuxInv, Failing, Fail PROVE LuxInv'
<1>1. UNCHANGED <<Requested, tokens, cond, mel, hidden, orig, step, flat, wave>> /\ stage' = "failed"
  BY DEF Fail
<1>2. Asked'
  BY <1>1, AskedStays DEF LuxInv
<1>3. LuxTypeOK'
  BY <1>1, TypesStay DEF LuxInv, Stages
<1>4. Failing'
  <2>1. UNCHANGED <<text, ref, remote, mel, flat>>
    BY <1>1 DEF Requested
  <2>2. Phonemes' = Phonemes
    BY <2>1 DEF Phonemes
  <2>3. QED
    BY <2>1, <2>2 DEF Failing, Passed
<1>5. Progress'
  BY <1>1, <1>4 DEF Progress
<1>6. QED
  BY <1>2, <1>3, <1>5 DEF LuxInv

LEMMA TokenizeKeeps == ASSUME LuxAssumption, LuxInv, Tokenize PROVE LuxInv'
<1>1. /\ UNCHANGED <<Requested, cond, mel, hidden, orig, step, flat, wave>>
      /\ tokens' = Phonemes /\ Phonemes # <<>> /\ stage' = "condition" /\ stage = "tokenize"
  BY DEF Tokenize
<1>2. Asked'
  BY <1>1, AskedStays DEF LuxInv
<1>3. LuxTypeOK'
  BY <1>1, TypesStay DEF LuxInv, Stages
<1>4. Phonemes \in Seq(Residues)
  BY PhonemesAre DEF LuxInv, Asked
<1>5. Progress'
  BY <1>1, <1>4 DEF Progress, LuxInv, Residues
<1>6. QED
  BY <1>2, <1>3, <1>5 DEF LuxInv

LEMMA TokenizeFailsKeeps == ASSUME LuxAssumption, LuxInv, TokenizeFails PROVE LuxInv'
<1>1. Failing
  <2>1. CASE Panics
    <3>1. PICK k \in DOMAIN text : ~Known(text[k]) /\ Cuts(text[k])
      BY <2>1 DEF Panics
    <3>2. text \in Seq(Seq(DOMAIN Letters))
      BY DEF LuxInv, Asked, LuxAssumption
    <3>3. text[k] \in Seq(DOMAIN Letters)
      BY <3>1, <3>2, SeqIs
    <3>4. \E j \in DOMAIN text[k] : text[k][j] \in Multibyte
      BY <3>1, <3>3, CutsIs
    <3>5. QED
      BY <3>1, <3>4 DEF Failing
  <2>2. CASE Phonemes = <<>>
    BY <2>2 DEF Failing
  <2>3. QED
    BY <2>1, <2>2 DEF TokenizeFails
<1>2. QED
  BY <1>1, FailKeeps DEF TokenizeFails

LEMMA ConditionFailsKeeps == ASSUME LuxAssumption, LuxInv, ConditionFails PROVE LuxInv'
<1>1. ref # NoReference /\ MelFrames(ref) = 0 /\ ref \in Nat
  BY AskedIs DEF ConditionFails, LuxInv
<1>2. ref < NFft
  BY <1>1, MelFramesIs
<1>3. Failing
  BY <1>1, <1>2 DEF Failing
<1>4. QED
  BY <1>3, FailKeeps DEF ConditionFails

LEMMA ForwardFailsKeeps == ASSUME LuxAssumption, LuxInv, ForwardFails PROVE LuxInv'
<1>1. Failing
  <2>1. Prepared /\ Passed /\ flat \in remote
    BY DEF ForwardFails, LuxInv, Progress
  <2>2. Target \in Nat \ {0}
    BY <2>1, TargetIs DEF Prepared, LuxInv, Asked
  <2>3. DOMAIN mel = 0 .. Target - 1
    BY <2>1, <2>2, SigIs DEF Prepared
  <2>4. 0 \in DOMAIN mel /\ DOMAIN None = {}
    BY <2>2, <2>3 DEF None
  <2>5. QED
    BY <2>1, <2>4 DEF Failing
<1>2. QED
  BY <1>1, FailKeeps DEF ForwardFails

LEMMA ConditionKeeps == ASSUME LuxAssumption, LuxInv, Condition PROVE LuxInv'
<1> DEFINE n == Target
<1>1. /\ stage = "condition" /\ (ref = NoReference \/ MelFrames(ref) > 0)
      /\ UNCHANGED <<Requested, tokens, hidden, orig, step, flat, wave>>
      /\ cond' = [text |-> Spread(EncodeText(tokens), n),
                  speech |-> IF ref = NoReference THEN [i \in 0 .. n - 1 |-> 0] ELSE Spread(Mel(ref), n)]
      /\ mel' = Noise(n)
      /\ stage' = IF steps = 0 THEN "vocode" ELSE "project"
  BY DEF Condition
<1>2. Asked /\ Asked' /\ LuxTypeOK
  BY <1>1, AskedStays DEF LuxInv
<1>3. steps \in Nat /\ tokens \in Seq(Residues) /\ tokens # <<>> /\ step = 0
  BY <1>1, <1>2, AskedIs DEF LuxInv, Progress
<1>4. n \in Nat \ {0} /\ n' = n
  <2>1. n \in Nat \ {0}
    BY <1>2, <1>3, TargetIs DEF Asked
  <2>2. n' = n
    BY <1>1, SameTarget DEF Requested
  <2>3. QED
    BY <2>1, <2>2
<1> HIDE DEF n
<1>5. Spread(EncodeText(tokens), n) \in Sig(n)
  <2>1. EncodeText(tokens) \in Sig(Len(tokens)) /\ Len(tokens) \in Nat \ {0}
    <3>1. Len(tokens) \in Nat \ {0}
      BY <1>3
    <3>2. QED
      BY <1>3, <3>1, EncodeTextIs
  <2>2. QED
    BY <1>4, <2>1, SpreadIs
<1>6. (IF ref = NoReference THEN [i \in 0 .. n - 1 |-> 0] ELSE Spread(Mel(ref), n)) \in Sig(n)
  <2>1. [i \in 0 .. n - 1 |-> 0] \in Sig(n)
    BY ModulusIs DEF Sig
  <2>2. ASSUME ref # NoReference PROVE Spread(Mel(ref), n) \in Sig(n)
    <3>1. ref \in Nat /\ MelFrames(ref) > 0
      BY <1>1, <1>2, <2>2, AskedIs
    <3>2. MelFrames(ref) \in Nat \ {0} /\ Mel(ref) \in Sig(MelFrames(ref))
      BY <3>1, MelFramesIs, MelIs
    <3>3. QED
      BY <1>4, <3>2, SpreadIs
  <2>3. QED
    BY <2>1, <2>2
<1>7. Noise(n) \in Sig(n)
  BY <1>4, NoiseIs
<1>8. cond'.text \in Sig(n) /\ cond'.speech \in Sig(n) /\ mel' \in Sig(n)
  BY <1>1, <1>5, <1>6, <1>7
<1>9. LuxTypeOK'
  <2>1. Framed(cond'.text) /\ Framed(cond'.speech) /\ Framed(mel')
    BY <1>4, <1>8, FramedIs
  <2>2. Cardinality(Blocks)' = Cardinality(Blocks) /\ steps' = steps
    BY <1>1 DEF Blocks, LayersBefore, Requested
  <2>3. stage' \in Stages
    BY <1>1 DEF Stages
  <2>4. QED
    BY <1>1, <1>2, <2>1, <2>2, <2>3, TypesAre DEF LuxTypeOK, Stages, Framed
<1>10. Prepared'
  <2>1. tokens' = tokens /\ Target' = n
    BY <1>1, <1>4 DEF n
  <2>2. Conditioned(Target)'
    BY <1>8, <2>1 DEF Conditioned
  <2>3. mel' \in Sig(Target')
    BY <1>8, <2>1
  <2>4. QED
    BY <1>3, <2>1, <2>2, <2>3 DEF Prepared, Sig
<1>11. Progress'
  <2>1. step' = 0 /\ steps' = steps /\ tokens' = tokens
    BY <1>1, <1>3 DEF Requested
  <2>2. QED
    BY <1>1, <1>3, <1>10, <2>1 DEF Progress
<1>12. QED
  BY <1>2, <1>9, <1>11 DEF LuxInv

LEMMA ProjectKeeps == ASSUME LuxAssumption, LuxInv, Project PROVE LuxInv'
<1>1. /\ stage = "project" /\ stage' = "block" /\ hidden' = InProj(mel) /\ flat' = 0
      /\ UNCHANGED <<Requested, tokens, cond, mel, orig, step, wave>>
  BY DEF Project
<1>2. Asked /\ Asked' /\ LuxTypeOK /\ Prepared /\ step < steps
  BY <1>1, AskedStays DEF LuxInv, Progress
<1>3. Target \in Nat \ {0} /\ Conditioned(Target) /\ mel \in Sig(Target)
  BY <1>2, TargetIs DEF Prepared, Asked
<1>4. steps' = steps /\ step \in Nat /\ steps \in Nat
  BY <1>1, <1>2, AskedIs DEF Requested, LuxTypeOK
<1>5. LuxTypeOK'
  <2>1. Framed(hidden')
    BY <1>1, <1>3, InProjIs, FramedIs
  <2>2. Cardinality(Blocks)' = Cardinality(Blocks) /\ 0 \in 0 .. Cardinality(Blocks)
    BY BlocksAre DEF Blocks, LayersBefore
  <2>3. QED
    BY <1>1, <1>2, <1>4, <2>1, <2>2, TypesAre DEF LuxTypeOK, Stages, Framed
<1>6. Prepared'
  BY <1>1, <1>2, SamePrepared DEF Requested
<1>7. Reached(1, 0)'
  <2>1. Entry(1)' = InProj(mel)
    <3>1. Time(step) \in Int
      BY <1>4, TimeIs
    <3>2. DirectStacks(mel, Time(step))[0] = InProj(mel)
      BY <1>3, <3>1, StackedIs DEF Stacked
    <3>3. Entry(1) = DirectStacks(mel, Time(step))[0]
      BY DEF Entry
    <3>4. Entry(1)' = Entry(1)
      BY <1>1, <1>4, SameEntry
    <3>5. QED
      BY <3>2, <3>3, <3>4
  <2>2. 1 \in 1 .. Len(NumLayers) /\ 0 \in 0 .. NumLayers[1] - 1 /\ LayersBefore(1) = 0
    BY StacksAre, BeforeIs
  <2>3. QED
    BY <1>1, <2>1, <2>2 DEF Reached
<1>8. Passed'
  BY <1>1 DEF Passed
<1>9. Progress'
  <2>1. \E s, l \in Int : Reached(s, l)'
    BY <1>7
  <2>2. QED
    BY <1>1, <1>2, <1>4, <1>6, <1>8, <2>1 DEF Progress
<1>10. QED
  BY <1>2, <1>5, <1>9 DEF LuxInv

\* One block is one layer of the decoder written directly.
Written(s, l) ==
  LET run == DirectRun(Entry(s), s, Time(step))
  IN  /\ Entry(s) \in Sig(Target)
      /\ run[l + 1] \in Sig(Low(Target, Factors[s]))
      /\ orig' = Entry(s)
      /\ hidden' = IF l + 1 = NumLayers[s] THEN Entry(s + 1) ELSE run[l + 1]

LEMMA ForwardWrites ==
  ASSUME LuxAssumption, Asked, Prepared, step \in Nat, Forward, NEW s \in Int, NEW l \in Int, Reached(s, l)
  PROVE  Written(s, l)
<1> DEFINE n == Target
           T == Time(step)
           after == DirectStacks(mel, T)
           a == Entry(s)
           ds == Factors[s]
           run == DirectRun(a, s, T)
           te == StackTime(s, T)
           f == run[l]
           g == run[l + 1]
<1>1. /\ s \in 1 .. Len(NumLayers) /\ l \in 0 .. NumLayers[s] - 1 /\ flat = LayersBefore(s) + l
      /\ l = 0 => hidden = a
      /\ l # 0 => orig = a /\ hidden = f
  BY DEF Reached
<1>2. /\ Len(NumLayers) \in Nat \ {0} /\ NumLayers[s] \in Nat \ {0} /\ ds \in Nat \ {0}
  BY <1>1, StacksAre
<1>3. StackOf(flat) = s /\ (Opening(flat) <=> l = 0) /\ (Closing(flat) <=> l + 1 = NumLayers[s])
  BY <1>1, StackIs
<1>4. n \in Nat \ {0} /\ T \in Int
  <2>1. n \in Nat \ {0}
    BY TargetIs DEF Prepared, Asked
  <2>2. T \in Int
    BY AskedIs, TimeIs
  <2>3. QED
    BY <2>1, <2>2
<1>5. Stacked(after, mel, T, n)
  <2>1. Conditioned(n) /\ mel \in Sig(n)
    BY DEF Prepared
  <2> HIDE DEF n, T
  <2>2. QED
    BY <1>4, <2>1, StackedIs
<1>6. a = after[s - 1] /\ Entry(s + 1) = after[s]
  <2>1. s + 1 - 1 = s
    OBVIOUS
  <2>2. QED
    BY <2>1 DEF Entry
<1>7. a \in Sig(n) /\ after[s] = DirectStack(a, s, T)
  <2>1. s - 1 \in 0 .. Len(NumLayers)
    BY <1>1, <1>2
  <2> HIDE DEF n, T, after, a
  <2>2. QED
    BY <1>1, <1>5, <1>6, <2>1 DEF Stacked
<1>8. te \in Int
  BY <1>1, <1>4, StackTimeIs
<1>9. orig' = a
  BY <1>1, <1>3 DEF Forward
<1>10. hidden' = Left(Unpack(Zipformer(Pack(te, Entered)), Count(Entered)), a)
  BY <1>3, <1>9 DEF Forward
<1>11. Entered = IF l = 0 /\ ds > 1 THEN Downsample(hidden, ds) ELSE hidden
  BY <1>3 DEF Entered
<1> DEFINE O(z) == IF l + 1 = NumLayers[s] /\ ds > 1 THEN Bypass(a, Upsample(z, ds, Count(a))) ELSE z
<1>12. \A z : Left(z, a) = O(z)
  BY <1>3 DEF Left
<1>13. DirectStack(a, s, T) = IF ds = 1 THEN run[NumLayers[s]]
                              ELSE Bypass(a, [i \in DOMAIN a |-> run[NumLayers[s]][i \div ds]])
  BY DEF DirectStack
<1>14. Runs(run, a, s, T, Low(n, ds))
  <2> HIDE DEF n, T, a
  <2>1. QED
    BY <1>1, <1>4, <1>7, RunIs
<1> HIDE DEF after, a, run, te, ds, n, T
<1>15. /\ run[0] = DirectLow(a, ds)
       /\ run[l + 1] = Layer(DirectWeights(f), f, te)
       /\ f \in Sig(Low(n, ds)) /\ g \in Sig(Low(n, ds))
  <2>1. l \in 0 .. NumLayers[s] /\ l + 1 \in 1 .. NumLayers[s] /\ l + 1 \in 0 .. NumLayers[s] /\ l + 1 - 1 = l
    BY <1>1, <1>2
  <2>2. run[l + 1] = Layer(DirectWeights(run[l]), run[l], te)
    <3>1. \A k \in 1 .. NumLayers[s] : run[k] = Layer(DirectWeights(run[k - 1]), run[k - 1], te)
      BY <1>14 DEF Runs, te
    <3>2. PICK k \in 1 .. NumLayers[s] : k = l + 1 /\ k - 1 = l
      BY <2>1
    <3>3. run[k] = Layer(DirectWeights(run[k - 1]), run[k - 1], te)
      BY <3>1, Zenon
    <3>4. QED
      BY <3>2, <3>3
  <2>3. run[0] = DirectLow(a, ds)
    BY <1>14, Zenon DEF Runs, ds
  <2>4. run[l] \in Sig(Low(n, ds)) /\ run[l + 1] \in Sig(Low(n, ds))
    BY <1>14, <2>1, Zenon DEF Runs
  <2>5. QED
    BY <2>1, <2>2, <2>3, <2>4
<1>16. Low(n, ds) \in Nat
  BY <1>2, <1>4, LowIs
<1>17. Entered = f
  <2>1. CASE l = 0
    <3>1. Entered = IF ds > 1 THEN Downsample(a, ds) ELSE a
      BY <1>1, <1>11, <2>1
    <3>2. Entered = DirectLow(a, ds)
      BY <1>2, <1>4, <1>7, <3>1, DownIs
    <3>3. QED
      BY <1>15, <2>1, <3>2
  <2>2. CASE l # 0
    BY <1>1, <1>11, <2>2
  <2>3. QED
    BY <2>1, <2>2
<1> HIDE DEF f, g
<1>18. Unpack(Zipformer(Pack(te, f)), Count(f)) = Layer(DirectWeights(f), f, te)
  BY <1>8, <1>15, <1>16, ZipformerIs
<1>19. g = Layer(DirectWeights(f), f, te)
  BY <1>15 DEF g
<1>20. hidden' = O(g)
  BY <1>10, <1>12, <1>17, <1>18, <1>19
<1>21. O(g) = IF l + 1 = NumLayers[s] THEN after[s] ELSE g
  <2>1. CASE l + 1 = NumLayers[s]
    <3>1. g = run[NumLayers[s]]
      BY <2>1 DEF g
    <3>2. Upsample(g, ds, Count(a)) = [i \in DOMAIN a |-> g[i \div ds]]
      BY <1>2, <1>4, <1>7, <1>15, UpsampledIs
    <3>3. CASE ds = 1
      BY <1>7, <1>13, <2>1, <3>1, <3>3
    <3>4. CASE ds # 1
      <4>1. ds > 1
        BY <1>2, <3>4
      <4>2. O(g) = Bypass(a, Upsample(g, ds, Count(a)))
        BY <2>1, <4>1
      <4>3. after[s] = Bypass(a, [i \in DOMAIN a |-> run[NumLayers[s]][i \div ds]])
        BY <1>7, <1>13, <3>4
      <4>4. QED
        BY <2>1, <3>1, <3>2, <4>2, <4>3
    <3>5. QED
      BY <3>3, <3>4
  <2>2. CASE l + 1 # NumLayers[s]
    BY <2>2
  <2>3. QED
    BY <2>1, <2>2
<1> HIDE DEF O
<1>22. hidden' = IF l + 1 = NumLayers[s] THEN Entry(s + 1) ELSE g
  BY <1>6, <1>20, <1>21
<1>23. QED
  BY <1>7, <1>9, <1>15, <1>22 DEF Written, g, f, run, a, n, T, ds

LEMMA ForwardKeeps == ASSUME LuxAssumption, LuxInv, Forward PROVE LuxInv'
<1>1. /\ stage = "block" /\ flat \notin remote /\ flat' = flat + 1
      /\ UNCHANGED <<Requested, tokens, cond, mel, step, wave>>
      /\ stage' = IF flat + 1 \in Blocks THEN "block" ELSE "euler"
  BY DEF Forward
<1>2. Asked /\ Asked' /\ LuxTypeOK /\ Prepared /\ step < steps /\ Passed
  BY <1>1, AskedStays DEF LuxInv, Progress
<1>3. PICK s \in Int, l \in Int : Reached(s, l)
  BY <1>1 DEF LuxInv, Progress
<1>4. steps' = steps /\ steps \in Nat /\ step \in Nat /\ remote' = remote
  BY <1>1, <1>2, AskedIs DEF Requested, LuxTypeOK
<1>5. Written(s, l)
  BY <1>2, <1>3, <1>4, ForwardWrites
<1> DEFINE N == NumLayers[s]
           S == Len(NumLayers)
<1>6. /\ s \in 1 .. S /\ S \in Nat \ {0} /\ N \in Nat \ {0} /\ l \in 0 .. N - 1
      /\ flat = LayersBefore(s) + l /\ LayersBefore(s) \in Nat /\ LayersBefore(s + 1) = LayersBefore(s) + N
  BY <1>3, StacksAre, BeforeIs DEF Reached
<1>7. Target \in Nat \ {0} /\ Factors[s] \in Nat \ {0} /\ Time(step) \in Int
  BY <1>2, <1>4, <1>6, TargetIs, StacksAre, TimeIs DEF Prepared, Asked
<1>8. \A z : Entry(z)' = Entry(z)
  BY <1>1, <1>4, SameEntry
<1>9. Time(step)' = Time(step)
  BY <1>1, <1>4, SameTime
<1>10. Prepared'
  BY <1>1, <1>2, SamePrepared DEF Requested
<1>11. s + 1 \in 1 .. S + 1 /\ Entry(s + 1) \in Sig(Target)
  <2>1. s + 1 \in 1 .. S + 1 /\ s + 1 - 1 = s /\ s \in 0 .. S
    BY <1>6
  <2>2. Entry(s + 1) = DirectStacks(mel, Time(step))[s]
    BY <2>1 DEF Entry
  <2>3. Stacked(DirectStacks(mel, Time(step)), mel, Time(step), Target)
    BY <1>2, <1>7, StackedIs DEF Prepared
  <2>4. QED
    BY <2>1, <2>2, <2>3 DEF Stacked
<1> DEFINE a == Entry(s)
           g == DirectRun(a, s, Time(step))[l + 1]
<1>12. /\ a \in Sig(Target) /\ g \in Sig(Low(Target, Factors[s])) /\ orig' = a
       /\ hidden' = IF l + 1 = N THEN Entry(s + 1) ELSE g
  BY <1>5 DEF Written
<1>13. flat + 1 \in 0 .. LayersBefore(S + 1) /\ LayersBefore(S + 1) \in Nat
  <2>1. s + 1 <= S + 1 /\ S + 1 \in 1 .. S + 1
    BY <1>6
  <2>2. LayersBefore(s + 1) <= LayersBefore(S + 1)
    BY <1>11, <2>1, BeforeGrows
  <2>3. QED
    BY <1>6, <2>2, BlocksAre
<1> HIDE DEF a, g, N
<1>14. LuxTypeOK'
  <2>1. Framed(orig')
    BY <1>7, <1>12, FramedIs
  <2>2. Framed(hidden')
    <3>1. Low(Target, Factors[s]) \in Nat
      BY <1>7, LowIs
    <3>2. QED
      BY <1>7, <1>11, <1>12, <3>1, FramedIs
  <2>3. Cardinality(Blocks)' = Cardinality(Blocks) /\ flat + 1 \in 0 .. Cardinality(Blocks)
    BY <1>13, BlocksAre DEF Blocks, LayersBefore
  <2>4. QED
    BY <1>1, <1>2, <1>4, <2>1, <2>2, <2>3, TypesAre DEF LuxTypeOK, Stages, Framed
<1>15. Passed'
  <2>1. flat \in Nat
    BY <1>6
  <2>2. QED
    BY <1>1, <1>2, <1>4, <2>1 DEF Passed
<1>16. CASE l + 1 # N
  <2>1. l + 1 \in 0 .. NumLayers[s] - 1 /\ l + 1 # 0 /\ flat + 1 = LayersBefore(s) + (l + 1)
    BY <1>6, <1>16 DEF N
  <2>2. flat + 1 \in Blocks
    BY <1>6, <2>1, StackIs
  <2>3. hidden' = DirectRun(Entry(s), s, Time(step))[l + 1] /\ orig' = Entry(s)
    BY <1>12, <1>16 DEF g, a
  <2>4. orig' = Entry(s)' /\ hidden' = DirectRun(Entry(s)', s, Time(step)')[l + 1]
    BY <1>8, <1>9, <2>3
  <2>5. Reached(s, l + 1)'
    BY <1>1, <1>6, <2>1, <2>4 DEF Reached
  <2>6. stage' = "block" /\ \E y, z \in Int : Reached(y, z)'
    <3>1. l + 1 \in Int
      OBVIOUS
    <3>2. QED
      BY <1>1, <2>2, <2>5, <3>1
  <2>7. Progress'
    BY <1>1, <1>2, <1>4, <1>10, <1>15, <2>6 DEF Progress
  <2>8. QED
    BY <1>2, <1>14, <2>7 DEF LuxInv
<1>17. CASE l + 1 = N /\ s # S
  <2>1. s + 1 \in 1 .. S /\ 0 \in 0 .. NumLayers[s + 1] - 1 /\ flat + 1 = LayersBefore(s + 1) + 0
    <3>1. s + 1 \in 1 .. S
      BY <1>6, <1>17
    <3>2. NumLayers[s + 1] \in Nat \ {0}
      BY <3>1, StacksAre
    <3>3. QED
      BY <1>6, <1>17, <3>1, <3>2
  <2>2. flat + 1 \in Blocks
    BY <2>1, StackIs
  <2>3. hidden' = Entry(s + 1)'
    BY <1>8, <1>12, <1>17
  <2>4. Reached(s + 1, 0)'
    BY <1>1, <2>1, <2>3 DEF Reached
  <2>5. stage' = "block" /\ \E y, z \in Int : Reached(y, z)'
    <3>1. s + 1 \in Int
      OBVIOUS
    <3>2. QED
      BY <1>1, <2>2, <2>4, <3>1
  <2>6. Progress'
    BY <1>1, <1>2, <1>4, <1>10, <1>15, <2>5 DEF Progress
  <2>7. QED
    BY <1>2, <1>14, <2>6 DEF LuxInv
<1>18. CASE l + 1 = N /\ s = S
  <2>1. flat + 1 = LayersBefore(S + 1)
    BY <1>6, <1>18
  <2>2. Blocks = 0 .. flat
    BY <1>6, <2>1 DEF Blocks
  <2>3. stage' = "euler"
    BY <1>1, <1>6, <2>2
  <2>4. hidden' = Velocity(mel, Time(step))
    <3>1. s + 1 - 1 = S
      BY <1>6, <1>18
    <3>2. QED
      BY <1>12, <1>18, <3>1 DEF Entry, Velocity
  <2>5. NoneRemote'
    <3>1. \A b \in Blocks : b \notin remote
      BY <1>1, <1>2, <1>6, <2>2 DEF Passed
    <3>2. Blocks' = Blocks
      BY DEF Blocks, LayersBefore
    <3>3. QED
      BY <1>4, <3>1, <3>2 DEF NoneRemote
  <2>6. Velocity(mel, Time(step))' = Velocity(mel, Time(step))
    BY <1>1, <1>9 DEF Velocity, DirectStacks, InProj
  <2>7. Progress'
    BY <1>1, <1>2, <1>4, <1>10, <2>3, <2>4, <2>5, <2>6 DEF Progress
  <2>8. QED
    BY <1>2, <1>14, <2>7 DEF LuxInv
<1>19. QED
  BY <1>16, <1>17, <1>18

LEMMA EulerKeeps == ASSUME LuxAssumption, LuxInv, EulerStep PROVE LuxInv'
<1>1. /\ stage = "euler" /\ mel' = Euler(mel, hidden) /\ step' = step + 1
      /\ hidden' = None /\ orig' = None
      /\ stage' = IF step + 1 = steps THEN "vocode" ELSE "project"
      /\ UNCHANGED <<Requested, tokens, cond, flat, wave>>
  BY DEF EulerStep
<1>2. /\ Asked /\ Asked' /\ LuxTypeOK /\ Prepared /\ step < steps
      /\ hidden = Velocity(mel, Time(step)) /\ NoneRemote
  BY <1>1, AskedStays DEF LuxInv, Progress
<1>3. steps' = steps /\ steps \in Nat /\ step \in Nat /\ remote' = remote
  BY <1>1, <1>2, AskedIs DEF Requested, LuxTypeOK
<1>4. Target \in Nat \ {0} /\ Time(step) \in Int /\ Conditioned(Target) /\ mel \in Sig(Target)
  BY <1>2, <1>3, TargetIs, TimeIs DEF Prepared, Asked
<1>5. hidden \in Sig(Target)
  <2>1. Stacked(DirectStacks(mel, Time(step)), mel, Time(step), Target)
    BY <1>4, StackedIs
  <2>2. Len(NumLayers) \in 0 .. Len(NumLayers)
    BY StacksAre
  <2>3. QED
    BY <1>2, <2>1, <2>2 DEF Stacked, Velocity
<1>6. mel' \in Sig(Target)
  BY <1>1, <1>3, <1>4, <1>5, EulerIs
<1>7. Prepared'
  <2>1. tokens' = tokens /\ cond' = cond /\ Target' = Target
    BY <1>1, SameTarget DEF Requested
  <2>2. QED
    BY <1>2, <1>6, <2>1 DEF Prepared, Conditioned, Sig, Residues
<1>8. LuxTypeOK'
  <2>1. Framed(mel') /\ Framed(hidden') /\ Framed(orig')
    BY <1>1, <1>4, <1>6, FramedIs, NoneFramed
  <2>2. Cardinality(Blocks)' = Cardinality(Blocks)
    BY DEF Blocks, LayersBefore
  <2>3. step' \in 0 .. steps' /\ stage' \in Stages
    BY <1>1, <1>2, <1>3 DEF Stages
  <2>4. QED
    BY <1>1, <1>2, <1>3, <2>1, <2>2, <2>3, TypesAre DEF LuxTypeOK, Stages, Framed
<1>9. NoneRemote'
  BY <1>2, <1>3 DEF NoneRemote, Blocks, LayersBefore
<1>10. Progress'
  <2>1. CASE step + 1 = steps
    BY <1>1, <1>3, <1>7, <1>9, <2>1 DEF Progress
  <2>2. CASE step + 1 # steps
    <3>1. step' < steps'
      BY <1>1, <1>2, <1>3, <2>2
    <3>2. QED
      BY <1>1, <1>7, <2>2, <3>1 DEF Progress
  <2>3. QED
    BY <2>1, <2>2
<1>11. QED
  BY <1>2, <1>8, <1>10 DEF LuxInv

LEMMA VocodeKeeps == ASSUME LuxAssumption, LuxInv, Vocode PROVE LuxInv'
<1>1. /\ stage = "vocode" /\ wave' = Doubled(Istft(Vocos(mel))) /\ stage' = "saved"
      /\ UNCHANGED <<Requested, tokens, cond, mel, hidden, orig, step, flat>>
  BY DEF Vocode
<1>2. /\ Asked /\ Asked' /\ LuxTypeOK /\ Prepared /\ step = steps /\ (NoneRemote \/ steps = 0)
  BY <1>1, AskedStays DEF LuxInv, Progress
<1>3. steps' = steps /\ remote' = remote
  BY <1>1 DEF Requested
<1> DEFINE n == Target
           m == n * Hop
<1>4. n \in Nat \ {0} /\ mel \in Sig(n)
  BY <1>2, TargetIs DEF Prepared, Asked
<1>5. Hop \in Nat
  BY WindowFits
<1> HIDE DEF n
<1>6. wave' \in Sig(2 * m) /\ m \in Nat
  <2>1. Vocos(mel) \in Sig(n)
    BY <1>4, VocosIs
  <2>2. Istft(Vocos(mel)) \in Sig(m) /\ m \in Nat
    BY <1>4, <2>1, IstftIs
  <2> HIDE DEF m
  <2>3. QED
    BY <1>1, <2>2, DoubledIs
<1> HIDE DEF m
<1>7. 2 * m \in Nat
  BY <1>6
<1>8. Count(wave') = 2 * m
  BY <1>6, <1>7, SigIs
<1>9. 2 * m = 2 * Hop * n
  BY <1>4, <1>5 DEF m
<1>10. LuxTypeOK'
  <2>1. Framed(wave')
    BY <1>6, <1>7, FramedIs
  <2>2. Cardinality(Blocks)' = Cardinality(Blocks)
    BY DEF Blocks, LayersBefore
  <2>3. QED
    BY <1>1, <1>2, <1>3, <2>1, <2>2, TypesAre DEF LuxTypeOK, Stages, Framed
<1>11. Prepared' /\ Target' = n
  BY <1>1, <1>2, SamePrepared, SameTarget DEF Requested, n
<1>12. (NoneRemote \/ steps = 0)'
  BY <1>2, <1>3 DEF NoneRemote, Blocks, LayersBefore
<1>13. (Count(wave) = 2 * Hop * Target)'
  BY <1>8, <1>9, <1>11 DEF Count
<1>14. Progress'
  BY <1>1, <1>2, <1>3, <1>11, <1>12, <1>13 DEF Progress
<1>15. QED
  BY <1>2, <1>10, <1>14 DEF LuxInv

LEMMA LuxSteps == LuxAssumption /\ LuxInv /\ [LuxNext]_lvars => LuxInv'
<1> SUFFICES ASSUME LuxAssumption, LuxInv, [LuxNext]_lvars PROVE LuxInv'
  OBVIOUS
<1>1. CASE UNCHANGED lvars
  <2>1. UNCHANGED <<Requested, stage, tokens, cond, mel, hidden, orig, step, flat, wave>>
    BY <1>1 DEF lvars
  <2>2. Asked' /\ LuxTypeOK'
    BY <2>1, AskedStays, TypesStay DEF LuxInv, LuxTypeOK, Stages
  <2>3. Progress'
    <3>1. Progress /\ UNCHANGED <<text, ref, speed, steps, remote>>
      BY <2>1 DEF LuxInv, Requested
    <3>2. Target' = Target /\ Time(step)' = Time(step) /\ \A z : Entry(z)' = Entry(z)
      BY <2>1, <3>1, SameTarget, SameTime, SameEntry
    <3>3. Prepared => Prepared'
      BY <2>1, <3>1, SamePrepared
    <3>4. \A s, l \in Int : Reached(s, l) => Reached(s, l)'
      BY <2>1, <3>2 DEF Reached
    <3>5. Velocity(mel, Time(step))' = Velocity(mel, Time(step))
      BY <2>1, <3>2 DEF Velocity, DirectStacks, InProj
    <3>6. (Passed => Passed') /\ (NoneRemote => NoneRemote')
      BY <2>1, <3>1 DEF Passed, NoneRemote, Blocks, LayersBefore
    <3>7. Failing => Failing'
      <4>1. Phonemes' = Phonemes
        BY <3>1 DEF Phonemes
      <4>2. QED
        BY <2>1, <3>1, <3>6, <4>1 DEF Failing
    <3>8. (Count(wave) = 2 * Hop * Target)' <=> Count(wave) = 2 * Hop * Target
      BY <2>1, <3>2 DEF Count
    <3>9. (\E s, l \in Int : Reached(s, l)) => \E s, l \in Int : Reached(s, l)'
      BY <3>4
    <3>10. QED
      BY <2>1, <3>1, <3>3, <3>5, <3>6, <3>7, <3>8, <3>9 DEF Progress
  <2>4. QED
    BY <2>2, <2>3 DEF LuxInv
<1>2. CASE Tokenize
  BY <1>2, TokenizeKeeps
<1>3. CASE TokenizeFails
  BY <1>3, TokenizeFailsKeeps
<1>4. CASE Condition
  BY <1>4, ConditionKeeps
<1>5. CASE ConditionFails
  BY <1>5, ConditionFailsKeeps
<1>6. CASE Project
  BY <1>6, ProjectKeeps
<1>7. CASE Forward
  BY <1>7, ForwardKeeps
<1>8. CASE ForwardFails
  BY <1>8, ForwardFailsKeeps
<1>9. CASE EulerStep
  BY <1>9, EulerKeeps
<1>10. CASE Vocode
  BY <1>10, VocodeKeeps
<1>11. QED
  BY <1>1, <1>2, <1>3, <1>4, <1>5, <1>6, <1>7, <1>8, <1>9, <1>10 DEF LuxNext

LEMMA LuxVoices == LuxInv => Voiced
  BY DEF LuxInv, Progress, Voiced, NoneRemote, Failing, Passed
=============================================================================
