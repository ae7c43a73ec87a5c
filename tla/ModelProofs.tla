----------------------------- MODULE ModelProofs -----------------------------
(***************************************************************************)
(* Proofs about the FLUX pipelines, the weights of a node and the speech   *)
(* of the VibeVoice models.                                                *)
(*                                                                         *)
(* Flux, for prompts of any length, any number of steps, pictures of any   *)
(* size and any depth of the transformer: a request that ends well ends    *)
(* with the picture that was asked for (Drawn).  First the transformer:    *)
(* one block lets every row attend to all of them (OneBlock), so any       *)
(* number of either kind leaves the rows of After, and Transformer(x) is   *)
(* what Answer says.  Then the schedule of noise (SigmaIs) and the places  *)
(* of patches and latents (PatchAt).  The invariant DrawInv says what each *)
(* patch has been through; the schedule, the prompt and the layout of the  *)
(* picture turn that into Drawn.                                           *)
(*                                                                         *)
(* Weights, for any layers, topology, shards, GPUs and sizes: a node loads *)
(* what the checkpoint stands for (Faithful).  First the words: what is    *)
(* packed comes out again (Unpacked), so each dequantizer undoes its       *)
(* quantizer (GptqContent, AffineContent, Fp8Content).  Then the names:    *)
(* the pieces of a name come back (Pieces), and no layer is a prefix of    *)
(* another up to the dot (WithinIs).  Then who loads what: the GPUs of a   *)
(* role have its layers between them (DutiesAre) and open the shards that  *)
(* hold them (OpenedHas).  The invariant WInv puts these together.         *)
(*                                                                         *)
(* Speech, for any voice, text, windows and bounds: each frame depends on  *)
(* what it should, or with the layers on a worker on the mixture its one   *)
(* cache makes of both conversations (Conditioned).  First the sequences:  *)
(* the entries of a kind (OnlyConcat), their positions (PlacedIs) and      *)
(* those after the last of a kind (SinceAppend).  Then what a conversation *)
(* heard when entries follow it (Hears...), and what the worker's cache    *)
(* holds (Mixes...).  The invariants SpInv and MixInv, one for each        *)
(* placement of the layers, say what the caches and the condition of a     *)
(* window have heard, and SpeechInv picks the one.                         *)
(***************************************************************************)
EXTENDS Flux, Weights, Speech, SequenceTheorems, WellFoundedInduction, TLAPS

-----------------------------------------------------------------------------
(* The transformer: what becomes of the rows in its blocks.                *)

\* The rows of base after b blocks.
After(base, n, pe, b) ==
  [i \in 1 .. n |-> IF b = 0 THEN Row(base[i])
                    ELSE [row |-> base[i], at |-> {pe[i]}, saw |-> {base[j] : j \in 1 .. n}]]

\* One more block takes the rows from After b blocks to After b + 1.
LEMMA OneBlock ==
  ASSUME NEW base, NEW n \in Nat, NEW pe, NEW b \in Nat
  PROVE  Attend(After(base, n, pe, b), pe) = After(base, n, pe, b + 1)
<1> DEFINE R == After(base, n, pe, b)
<1>1. DOMAIN R = 1 .. n
  BY DEF After
<1>2. \A i \in 1 .. n : R[i].row = base[i] /\ R[i].at \cup {pe[i]} = {pe[i]}
  BY DEF After, Row
<1> HIDE DEF R
<1>3. {R[j].row : j \in DOMAIN R} = {base[j] : j \in 1 .. n}
  BY <1>1, <1>2
<1>4. Attend(R, pe) = [i \in 1 .. n |-> [row |-> base[i], at |-> {pe[i]}, saw |-> {base[j] : j \in 1 .. n}]]
  BY <1>1, <1>2, <1>3 DEF Attend
<1>5. b + 1 # 0
  OBVIOUS
<1>6. After(base, n, pe, b + 1) = [i \in 1 .. n |-> [row |-> base[i], at |-> {pe[i]}, saw |-> {base[j] : j \in 1 .. n}]]
  BY <1>5 DEF After
<1>7. QED
  BY <1>4, <1>6 DEF R

\* A row of each half of a sequence, and the sequence again.
LEMMA Halved ==
  ASSUME NEW J, NEW n \in Nat, NEW k \in 0 .. n, DOMAIN J = 1 .. n, J = [i \in 1 .. n |-> J[i]]
  PROVE  LET s == Streams(J, k)
         IN  /\ s.txt = [i \in 1 .. k |-> J[i]] /\ s.img = [i \in 1 .. n - k |-> J[k + i]]
             /\ Len(s.txt) = k /\ s.txt \o s.img = J
<1> DEFINE T == {J[i] : i \in 1 .. n}
<1>1. J \in Seq(T) /\ Len(J) = n
  OBVIOUS
<1> HIDE DEF T
<1>2. /\ SubSeq(J, 1, k) = [i \in 1 .. k |-> J[i]]
      /\ SubSeq(J, k + 1, n) = [i \in 1 .. n - k |-> J[k + i]]
  BY <1>1
<1>3. Streams(J, k) = [txt |-> SubSeq(J, 1, k), img |-> SubSeq(J, k + 1, n)]
  BY <1>1 DEF Streams
<1>4. Len(SubSeq(J, 1, k)) = k
  BY <1>1
<1>5. SubSeq(J, 1, k) \o SubSeq(J, k + 1, n) = J
  <2> DEFINE a == SubSeq(J, 1, k)
             b == SubSeq(J, k + 1, n)
  <2>1. a \in Seq(T) /\ b \in Seq(T) /\ Len(a) = k /\ Len(b) = n - k
    BY <1>1
  <2>2. /\ \A i \in 1 .. k : a[i] = J[i]
        /\ \A i \in 1 .. n - k : b[i] = J[k + i]
    BY <1>2
  <2> HIDE DEF a, b
  <2>3. /\ a \o b \in Seq(T) /\ Len(a \o b) = n
        /\ \A i \in 1 .. n : (a \o b)[i] = IF i <= k THEN a[i] ELSE b[i - k]
    <3>1. /\ a \o b \in Seq(T) /\ Len(a \o b) = Len(a) + Len(b)
          /\ \A i \in 1 .. Len(a) + Len(b) : (a \o b)[i] = IF i <= Len(a) THEN a[i] ELSE b[i - Len(a)]
      BY <2>1, ConcatProperties, Zenon
    <3>2. QED
      BY <2>1, <3>1
  <2>4. \A i \in 1 .. n : (a \o b)[i] = J[i]
    <3> SUFFICES ASSUME NEW i \in 1 .. n PROVE (a \o b)[i] = J[i]
      OBVIOUS
    <3>1. CASE i <= k
      <4>1. i \in 1 .. k
        BY <3>1
      <4>2. QED
        BY <2>2, <2>3, <3>1, <4>1, Zenon
    <3>2. CASE ~ (i <= k)
      <4>1. i - k \in 1 .. n - k /\ k + (i - k) = i
        BY <3>2
      <4>2. (a \o b)[i] = b[i - k]
        BY <2>3, <3>2, Zenon
      <4>3. QED
        BY <2>2, <4>1, <4>2, Zenon
    <3>3. QED
      BY <3>1, <3>2
  <2>5. QED
    <3> DEFINE c == a \o b
    <3>1. c \in Seq(T) /\ Len(c) = Len(J) /\ \A i \in 1 .. Len(c) : c[i] = J[i]
      <4>1. Len(c) = n
        BY <2>3, Zenon
      <4>2. QED
        BY <1>1, <2>3, <2>4, <4>1, Zenon
    <3> HIDE DEF c
    <3>2. c = J
      BY <1>1, <3>1, SeqEqual, Zenon
    <3>3. QED
      BY <3>2 DEF a, b, c
<1>6. /\ Streams(J, k).txt = SubSeq(J, 1, k)
      /\ Streams(J, k).img = SubSeq(J, k + 1, n)
  <2> DEFINE s == Streams(J, k)
  <2>1. s = [txt |-> SubSeq(J, 1, k), img |-> SubSeq(J, k + 1, n)]
    BY <1>3
  <2> HIDE DEF s
  <2>2. s.txt = SubSeq(J, 1, k) /\ s.img = SubSeq(J, k + 1, n)
    BY <2>1
  <2>3. QED
    BY <2>2 DEF s
<1>7. QED
  BY <1>2, <1>4, <1>5, <1>6, Zenon

\* Induction, for a set of numbers.
LEMMA AllUpTo ==
  ASSUME NEW N \in Nat, NEW S, 0 \in S, \A n \in 0 .. N : n # 0 /\ n - 1 \in S => n \in S
  PROVE  0 .. N \subseteq S
<1> DEFINE Bad == (0 .. N) \ S
<1>1. SUFFICES ASSUME Bad # {} PROVE FALSE
  OBVIOUS
<1>2. Bad \subseteq Nat
  OBVIOUS
<1>3. PICK x \in Bad : \A y \in Bad : ~ (<<y, x>> \in OpToRel(<, Nat))
  BY <1>1, <1>2, WFMin, NatLessThanWellFounded
<1>4. \A a, b \in Nat : a < b => <<a, b>> \in OpToRel(<, Nat)
  BY DEF OpToRel
<1>5. x \in 0 .. N /\ x # 0
  OBVIOUS
<1>6. x - 1 \in Nat /\ x \in Nat /\ x - 1 < x /\ x - 1 \in 0 .. N
  BY <1>5
<1>7. x - 1 \notin Bad
  BY <1>3, <1>4, <1>6, Zenon
<1>8. x \in S
  BY <1>5, <1>6, <1>7
<1>9. QED
  BY <1>8

\* So the double blocks, on the two streams,
LEMMA DoublesIs ==
  ASSUME FluxAssumption, NEW base, NEW n \in Nat, NEW k \in 0 .. n, NEW pe
  PROVE  Doubles(Streams(After(base, n, pe, 0), k), pe) = Streams(After(base, n, pe, Depth), k)
<1> DEFINE s == Streams(After(base, n, pe, 0), k)
           w == [b \in 0 .. Depth |-> Streams(After(base, n, pe, b), k)]
           after == CHOOSE f : f = [b \in 0 .. Depth |-> IF b = 0 THEN s ELSE DoubleBlock(f[b - 1], pe)]
<1>0. Depth \in Nat
  BY DEF FluxAssumption
<1>1. ASSUME NEW b \in Nat
      PROVE  DoubleBlock(Streams(After(base, n, pe, b), k), pe) = Streams(After(base, n, pe, b + 1), k)
  <2> DEFINE J == After(base, n, pe, b)
             t == Streams(J, k)
  <2>1. DOMAIN J = 1 .. n /\ J = [i \in 1 .. n |-> J[i]]
    BY DEF After
  <2>2. Attend(J, pe) = After(base, n, pe, b + 1)
    BY OneBlock
  <2> HIDE DEF J
  <2>3. Len(t.txt) = k /\ t.txt \o t.img = J
    BY <2>1, Halved
  <2> HIDE DEF t
  <2>4. DoubleBlock(t, pe) = Streams(Attend(J, pe), k)
    BY <2>3, Zenon DEF DoubleBlock
  <2>5. QED
    BY <2>2, <2>4, Zenon DEF J, t
<1>2. ASSUME NEW b \in 0 .. Depth
      PROVE  w[b] = IF b = 0 THEN s ELSE DoubleBlock(w[b - 1], pe)
  <2>1. CASE b = 0
    BY <2>1
  <2>2. CASE b # 0
    <3>1. b - 1 \in Nat /\ b - 1 \in 0 .. Depth /\ (b - 1) + 1 = b
      BY <1>0, <2>2
    <3>2. w[b - 1] = Streams(After(base, n, pe, b - 1), k)
      BY <3>1
    <3>3. w[b] = Streams(After(base, n, pe, b), k)
      OBVIOUS
    <3>4. DoubleBlock(Streams(After(base, n, pe, b - 1), k), pe) = Streams(After(base, n, pe, (b - 1) + 1), k)
      BY <1>1, <3>1, Zenon
    <3> HIDE DEF w
    <3>5. QED
      BY <2>2, <3>1, <3>2, <3>3, <3>4, Zenon
  <2>3. QED
    BY <2>1, <2>2
<1>3. w = [b \in 0 .. Depth |-> w[b]]
  OBVIOUS
<1> HIDE DEF w, s
<1>4. w = [b \in 0 .. Depth |-> IF b = 0 THEN s ELSE DoubleBlock(w[b - 1], pe)]
  <2>1. [b \in 0 .. Depth |-> w[b]] = [b \in 0 .. Depth |-> IF b = 0 THEN s ELSE DoubleBlock(w[b - 1], pe)]
    BY <1>2, Zenon
  <2>2. QED
    BY <1>3, <2>1, Zenon
<1>5. after = [b \in 0 .. Depth |-> IF b = 0 THEN s ELSE DoubleBlock(after[b - 1], pe)]
  BY <1>4, Zenon
<1>6. Doubles(s, pe) = after[Depth]
  BY DEF Doubles
<1> HIDE DEF after
<1>7. \A b \in 0 .. Depth : after[b] = IF b = 0 THEN s ELSE DoubleBlock(after[b - 1], pe)
  BY <1>5, Zenon
<1>8. 0 .. Depth \subseteq {b \in 0 .. Depth : after[b] = w[b]}
  <2> DEFINE S == {b \in 0 .. Depth : after[b] = w[b]}
  <2>1. 0 \in S
    BY <1>0, <1>2, <1>7
  <2>2. ASSUME NEW b \in 0 .. Depth, b # 0, b - 1 \in S PROVE b \in S
    <3>1. after[b] = DoubleBlock(after[b - 1], pe) /\ w[b] = DoubleBlock(w[b - 1], pe)
      BY <1>2, <1>7, <2>2, Zenon
    <3>2. after[b - 1] = w[b - 1]
      BY <2>2
    <3>3. QED
      BY <3>1, <3>2, Zenon
  <2> HIDE DEF S
  <2>3. QED
    BY <1>0, <2>1, <2>2, AllUpTo DEF S
<1>9. Depth \in 0 .. Depth
  BY <1>0
<1>10. after[Depth] = w[Depth]
  BY <1>8, <1>9
<1>11. w[Depth] = Streams(After(base, n, pe, Depth), k)
  BY <1>9 DEF w
<1>12. QED
  BY <1>6, <1>10, <1>11, Zenon DEF s

\* and the single ones, on the rows of both.
LEMMA SinglesIs ==
  ASSUME FluxAssumption, NEW base, NEW n \in Nat, NEW pe, NEW d \in Nat
  PROVE  Singles(After(base, n, pe, d), pe) = After(base, n, pe, d + DepthSingle)
<1> DEFINE m == After(base, n, pe, d)
           w == [b \in 0 .. DepthSingle |-> After(base, n, pe, d + b)]
           after == CHOOSE f : f = [b \in 0 .. DepthSingle |-> IF b = 0 THEN m ELSE SingleBlock(f[b - 1], pe)]
<1>0. DepthSingle \in Nat
  BY DEF FluxAssumption
<1>1. ASSUME NEW b \in 0 .. DepthSingle
      PROVE  w[b] = IF b = 0 THEN m ELSE SingleBlock(w[b - 1], pe)
  <2>1. CASE b = 0
    <3>1. d + 0 = d
      OBVIOUS
    <3>2. QED
      BY <2>1, <3>1
  <2>2. CASE b # 0
    <3>1. b - 1 \in 0 .. DepthSingle /\ d + (b - 1) \in Nat /\ (d + (b - 1)) + 1 = d + b
      BY <1>0, <2>2
    <3>2. w[b - 1] = After(base, n, pe, d + (b - 1))
      BY <3>1
    <3>3. w[b] = After(base, n, pe, d + b)
      OBVIOUS
    <3>4. Attend(After(base, n, pe, d + (b - 1)), pe) = After(base, n, pe, (d + (b - 1)) + 1)
      BY <3>1, OneBlock
    <3> HIDE DEF w
    <3>5. QED
      BY <2>2, <3>1, <3>2, <3>3, <3>4, Zenon DEF SingleBlock
  <2>3. QED
    BY <2>1, <2>2
<1>2. w = [b \in 0 .. DepthSingle |-> w[b]]
  OBVIOUS
<1> HIDE DEF w, m
<1>3. w = [b \in 0 .. DepthSingle |-> IF b = 0 THEN m ELSE SingleBlock(w[b - 1], pe)]
  <2>1. [b \in 0 .. DepthSingle |-> w[b]] = [b \in 0 .. DepthSingle |-> IF b = 0 THEN m ELSE SingleBlock(w[b - 1], pe)]
    BY <1>1, Zenon
  <2>2. QED
    BY <1>2, <2>1, Zenon
<1>4. after = [b \in 0 .. DepthSingle |-> IF b = 0 THEN m ELSE SingleBlock(after[b - 1], pe)]
  BY <1>3, Zenon
<1>5. Singles(m, pe) = after[DepthSingle]
  BY DEF Singles
<1> HIDE DEF after
<1>6. \A b \in 0 .. DepthSingle : after[b] = IF b = 0 THEN m ELSE SingleBlock(after[b - 1], pe)
  BY <1>4, Zenon
<1>7. 0 .. DepthSingle \subseteq {b \in 0 .. DepthSingle : after[b] = w[b]}
  <2> DEFINE S == {b \in 0 .. DepthSingle : after[b] = w[b]}
  <2>1. 0 \in S
    BY <1>0, <1>1, <1>6
  <2>2. ASSUME NEW b \in 0 .. DepthSingle, b # 0, b - 1 \in S PROVE b \in S
    <3>1. after[b] = SingleBlock(after[b - 1], pe) /\ w[b] = SingleBlock(w[b - 1], pe)
      BY <1>1, <1>6, <2>2, Zenon
    <3>2. after[b - 1] = w[b - 1]
      BY <2>2
    <3>3. QED
      BY <3>1, <3>2, Zenon
  <2> HIDE DEF S
  <2>3. QED
    BY <1>0, <2>1, <2>2, AllUpTo DEF S
<1>8. DepthSingle \in 0 .. DepthSingle
  BY <1>0
<1>9. after[DepthSingle] = w[DepthSingle]
  BY <1>7, <1>8
<1>10. w[DepthSingle] = After(base, n, pe, d + DepthSingle)
  BY <1>8 DEF w
<1>11. QED
  BY <1>5, <1>9, <1>10, Zenon DEF m

\* The end of two sequences one after the other.
LEMMA ConcatEnd ==
  ASSUME NEW a, NEW b, NEW n \in Nat, NEW m \in Nat,
         a = [i \in 1 .. n |-> a[i]], b = [i \in 1 .. m |-> b[i]]
  PROVE  \A i \in 1 .. m : (a \o b)[n + i] = b[i]
<1> DEFINE T == {a[i] : i \in 1 .. n} \cup {b[i] : i \in 1 .. m}
<1>1. a \in Seq(T) /\ Len(a) = n
  OBVIOUS
<1>2. b \in Seq(T) /\ Len(b) = m
  OBVIOUS
<1> HIDE DEF T
<1>3. \A i \in 1 .. Len(a) + Len(b) : (a \o b)[i] = IF i <= Len(a) THEN a[i] ELSE b[i - Len(a)]
  BY <1>1, <1>2, ConcatProperties
<1> TAKE i \in 1 .. m
<1>4. n + i \in 1 .. Len(a) + Len(b) /\ ~ (n + i <= n) /\ (n + i) - n = i
  BY <1>1, <1>2
<1>5. QED
  BY <1>1, <1>3, <1>4, Zenon

\* What the transformer is called with: m patches and the n rows of a prompt.
Called(x, n, m) ==
  /\ DOMAIN x.txt = 1 .. n /\ DOMAIN x.img = 1 .. m
  /\ x.txt = [i \in 1 .. n |-> x.txt[i]] /\ x.img = [i \in 1 .. m |-> x.img[i]]
  /\ x.txt_ids = [i \in 1 .. n |-> x.txt_ids[i]] /\ x.img_ids = [i \in 1 .. m |-> x.img_ids[i]]

\* And what it answers.
Answer(x, n, m) ==
  [i \in 1 .. m |->
     [of |-> [row |-> [patch |-> x.img[i].patch], at |-> {x.img_ids[i]},
              saw |-> {x.txt[j] : j \in 1 .. n} \cup {[patch |-> x.img[j].patch] : j \in 1 .. m}],
      t |-> x.t, vec |-> x.vec, guidance |-> x.guidance]]

\* What the transformer answers: a row per patch, that saw the whole text and
\* the whole picture.
LEMMA TransformerIs ==
  ASSUME FluxAssumption, NEW x, NEW n \in Nat, NEW m \in Nat, Called(x, n, m)
  PROVE  Transformer(x) = Answer(x, n, m)
<1> DEFINE pe    == Positions(x)
           base  == [i \in 1 .. n + m |-> IF i <= n THEN x.txt[i] ELSE [patch |-> x.img[i - n].patch]]
           start == [txt |-> [i \in DOMAIN x.txt |-> Row(x.txt[i])],
                     img |-> [i \in DOMAIN x.img |-> Row([patch |-> x.img[i].patch])]]
           d     == Depth
           R(b)  == After(base, n + m, pe, b)
<1>0. d \in Nat /\ d # 0 /\ DepthSingle \in Nat /\ d + DepthSingle # 0
  BY DEF FluxAssumption
<1> USE DEF Called
<1>1. n + m \in Nat /\ n \in 0 .. n + m /\ (n + m) - n = m /\ \A i \in 1 .. m : n + i \in 1 .. n + m /\ ~ (n + i <= n) /\ (n + i) - n = i
  OBVIOUS
<1>2. \A i \in 1 .. m : base[n + i] = [patch |-> x.img[i].patch]
  BY <1>1
<1>3. \A i \in 1 .. n : i \in 1 .. n + m /\ base[i] = x.txt[i]
  OBVIOUS
<1>4. \A i \in 1 .. m : pe[n + i] = x.img_ids[i]
  BY ConcatEnd DEF Positions
<1> HIDE DEF base, pe
<1>5. ASSUME NEW b \in Nat
      PROVE  LET s == Streams(R(b), n)
             IN  /\ s.txt = [i \in 1 .. n |-> R(b)[i]] /\ s.img = [i \in 1 .. m |-> R(b)[n + i]]
                 /\ s.txt \o s.img = R(b)
  <2> DEFINE J == R(b)
  <2>1. DOMAIN J = 1 .. n + m /\ J = [i \in 1 .. n + m |-> J[i]]
    BY DEF After
  <2> HIDE DEF J
  <2>2. LET s == Streams(J, n)
        IN  /\ s.txt = [i \in 1 .. n |-> J[i]] /\ s.img = [i \in 1 .. (n + m) - n |-> J[n + i]]
            /\ Len(s.txt) = n /\ s.txt \o s.img = J
    BY <1>1, <2>1, Halved
  <2>3. QED
    BY <1>1, <2>2, Zenon DEF J
<1>6. start = Streams(R(0), n)
  <2> DEFINE s == Streams(R(0), n)
  <2>1. s.txt = [i \in 1 .. n |-> R(0)[i]] /\ s.img = [i \in 1 .. m |-> R(0)[n + i]]
    BY <1>5
  <2>2. \A i \in 1 .. n + m : R(0)[i] = Row(base[i])
    BY DEF After
  <2>3. s = [txt |-> s.txt, img |-> s.img]
    BY DEF Streams
  <2> HIDE DEF s
  <2>4. s.txt = start.txt
    <3>1. \A i \in 1 .. n : R(0)[i] = Row(x.txt[i])
      BY <1>3, <2>2, Zenon
    <3>2. s.txt = [i \in 1 .. n |-> Row(x.txt[i])]
      BY <2>1, <3>1, Zenon
    <3>3. QED
      BY <3>2
  <2>5. s.img = start.img
    <3>1. ASSUME NEW i \in 1 .. m PROVE R(0)[n + i] = Row([patch |-> x.img[i].patch])
      <4>1. n + i \in 1 .. n + m /\ base[n + i] = [patch |-> x.img[i].patch]
        BY <1>1, <1>2
      <4>2. R(0)[n + i] = Row(base[n + i])
        BY <2>2, <4>1
      <4>3. QED
        BY <4>1, <4>2, Zenon
    <3>2. s.img = [i \in 1 .. m |-> Row([patch |-> x.img[i].patch])]
      BY <2>1, <3>1, Zenon
    <3>3. QED
      BY <3>2
  <2>6. start = [txt |-> start.txt, img |-> start.img]
    OBVIOUS
  <2> HIDE DEF start
  <2>7. start = s
    BY <2>3, <2>4, <2>5, <2>6, Zenon
  <2>8. QED
    BY <2>7 DEF s
<1>7. Doubles(start, pe) = Streams(R(d), n)
  BY <1>1, <1>6, DoublesIs
<1>8. Streams(R(d), n).txt \o Streams(R(d), n).img = R(d)
  BY <1>0, <1>5
<1>9. Singles(R(d), pe) = R(d + DepthSingle)
  BY <1>0, <1>1, SinglesIs
<1> DEFINE single == R(d + DepthSingle)
           out == SubSeq(single, n + 1, n + m)
<1>10. Len(x.txt) = n
  OBVIOUS
<1>11. DOMAIN single = 1 .. n + m /\ Len(single) = n + m
       /\ \A i \in 1 .. n + m : single[i] = [row |-> base[i], at |-> {pe[i]}, saw |-> {base[j] : j \in 1 .. n + m}]
  BY <1>0, <1>1 DEF After
<1>12. Transformer(x) = [i \in DOMAIN out |-> [of |-> out[i], t |-> x.t, vec |-> x.vec, guidance |-> x.guidance]]
  <2> HIDE DEF start
  <2>1. Transformer(x) =
          LET single2 == Singles(Doubles(start, pe).txt \o Doubles(start, pe).img, pe)
              out2 == SubSeq(single2, Len(x.txt) + 1, Len(single2))
          IN  [i \in DOMAIN out2 |-> [of |-> out2[i], t |-> x.t, vec |-> x.vec, guidance |-> x.guidance]]
    BY Zenon DEF Transformer, start, pe
  <2> HIDE DEF single
  <2>2. Singles(Doubles(start, pe).txt \o Doubles(start, pe).img, pe) = single
    BY <1>7, <1>8, <1>9, Zenon DEF single
  <2>3. QED
    BY <1>10, <1>11, <2>1, <2>2, Zenon
<1>13. out = [i \in 1 .. m |-> single[n + i]]
  <2> DEFINE s == Streams(single, n)
  <2>1. s.img = [i \in 1 .. m |-> single[n + i]]
    <3>1. d + DepthSingle \in Nat
      BY <1>0
    <3>2. QED
      BY <1>5, <3>1, Zenon
  <2> HIDE DEF single
  <2>2. s.img = out
    BY <1>11 DEF Streams
  <2>3. QED
    BY <2>1, <2>2, Zenon
<1>14. {base[j] : j \in 1 .. n + m} = {x.txt[j] : j \in 1 .. n} \cup {[patch |-> x.img[j].patch] : j \in 1 .. m}
  <2>1. ASSUME NEW j \in 1 .. n + m
        PROVE  base[j] \in {x.txt[i] : i \in 1 .. n} \cup {[patch |-> x.img[i].patch] : i \in 1 .. m}
    <3>1. CASE j \in 1 .. n
      BY <1>3, <3>1
    <3>2. CASE j \notin 1 .. n
      <4>1. j - n \in 1 .. m /\ n + (j - n) = j
        BY <3>2
      <4>2. base[j] = [patch |-> x.img[j - n].patch]
        BY <1>2, <4>1, Zenon
      <4>3. QED
        BY <4>1, <4>2, Zenon
    <3>3. QED
      BY <3>1, <3>2
  <2>2. \A i \in 1 .. n : x.txt[i] \in {base[j] : j \in 1 .. n + m}
    BY <1>3
  <2>3. \A i \in 1 .. m : [patch |-> x.img[i].patch] \in {base[j] : j \in 1 .. n + m}
    BY <1>1, <1>2, Zenon
  <2>4. QED
    BY <2>1, <2>2, <2>3, Zenon
<1> HIDE DEF single, out
<1>15. \A i \in 1 .. m : out[i] = [row |-> [patch |-> x.img[i].patch], at |-> {x.img_ids[i]},
                                    saw |-> {x.txt[j] : j \in 1 .. n} \cup {[patch |-> x.img[j].patch] : j \in 1 .. m}]
  <2> TAKE i \in 1 .. m
  <2>1. out[i] = single[n + i]
    BY <1>13
  <2>2. QED
    BY <1>1, <1>2, <1>4, <1>11, <1>14, <2>1, Zenon
<1>16. DOMAIN out = 1 .. m
  BY <1>13
<1>17. QED
  BY <1>12, <1>15, <1>16, Zenon DEF Answer

-----------------------------------------------------------------------------
(* The schedule, the prompt and the patches.                               *)

\* Append, as a function.
LEMMA AppendIs ==
  ASSUME NEW s, NEW n \in Nat, s = [k \in 1 .. n |-> s[k]], NEW e
  PROVE  Append(s, e) = [k \in 1 .. n + 1 |-> IF k = n + 1 THEN e ELSE s[k]]
<1> DEFINE T == {s[k] : k \in 1 .. n} \cup {e}
<1>1. s \in Seq(T) /\ Len(s) = n /\ e \in T
  OBVIOUS
<1> HIDE DEF T
<1>2. Append(s, e) = [k \in 1 .. n + 1 |-> IF k = n + 1 THEN e ELSE s[k]]
  BY <1>1
<1>3. QED
  BY <1>2

\* The schedule joins pure noise and none in n steps.
LEMMA SigmaIs ==
  ASSUME NEW n \in Nat
  PROVE  /\ Len(Sigma(n)) = n + 1
         /\ n # 0 => Sigma(n)[1][1] = Sigma(n)[1][2]
         /\ n # 0 => Sigma(n)[n + 1][1] = 0
<1>1. CASE kind = "flux2"
  <2> DEFINE last == IF n > 1 THEN n - 1 ELSE 1
             f    == [i \in 1 .. n |-> <<last + 1 - i, last>>]
             g    == [i \in 1 .. n + 1 |-> IF i = n + 1 THEN <<0, last>> ELSE f[i]]
  <2>0. f = [i \in 1 .. n |-> f[i]] /\ (n # 0 => f[1] = <<last, last>>)
    OBVIOUS
  <2>1. Sigma(n) = f \o <<<<0, last>>>>
    BY <1>1 DEF Sigma
  <2> HIDE DEF f, last
  <2>2. f \o <<<<0, last>>>> = Append(f, <<0, last>>)
    <3> DEFINE T == {f[i] : i \in 1 .. n} \cup {<<0, last>>}
    <3>1. f \in Seq(T) /\ <<0, last>> \in T
      BY <2>0
    <3> HIDE DEF T
    <3>2. QED
      BY <3>1, AppendIsConcat
  <2>3. Append(f, <<0, last>>) = g
    BY <2>0, AppendIs
  <2>4. Sigma(n) = g
    BY <2>1, <2>2, <2>3, Zenon
  <2>5. Len(g) = n + 1 /\ (n # 0 => g[1] = f[1]) /\ g[n + 1] = <<0, last>>
    OBVIOUS
  <2> HIDE DEF g
  <2>6. QED
    <3>0. <<last, last>>[1] = last /\ <<last, last>>[2] = last
      OBVIOUS
    <3>1. n # 0 => g[1][1] = last /\ g[1][2] = last
      BY <2>0, <2>5, <3>0, Zenon
    <3>2. g[n + 1][1] = 0
      <4>1. <<0, last>>[1] = 0
        OBVIOUS
      <4>2. QED
        BY <2>5, <4>1, Zenon
    <3>3. QED
      BY <2>4, <2>5, <3>1, <3>2, Zenon
<1>2. CASE kind # "flux2"
  <2> DEFINE g == [i \in 1 .. n + 1 |-> <<n + 1 - i, n>>]
  <2>1. Sigma(n) = g
    BY <1>2 DEF Sigma
  <2>2. Len(g) = n + 1 /\ (n # 0 => g[1] = <<n, n>>) /\ g[n + 1] = <<0, n>>
    OBVIOUS
  <2> HIDE DEF g
  <2>3. QED
    BY <2>1, <2>2
<1>3. QED
  BY <1>1, <1>2

\* Three of the four blocks of the decoder double the picture.
LEMMA UpsampledIs ==
  ASSUME NEW n \in Nat PROVE Upsampled(n) = 8 * n
<1> DEFINE w == [b \in 0 .. 4 |-> CASE b = 0 -> n [] b = 1 -> 2 * n [] b = 2 -> 4 * n [] OTHER -> 8 * n]
           after == CHOOSE f : f = [b \in 0 .. 4 |-> IF b = 0 THEN n ELSE IF b < 4 THEN 2 * f[b - 1] ELSE f[b - 1]]
<1>1. w = [b \in 0 .. 4 |-> IF b = 0 THEN n ELSE IF b < 4 THEN 2 * w[b - 1] ELSE w[b - 1]]
  <2>1. w[0] = n /\ w[1] = 2 * n /\ w[2] = 4 * n /\ w[3] = 8 * n /\ w[4] = 8 * n
    OBVIOUS
  <2>2. w = [b \in 0 .. 4 |-> w[b]]
    OBVIOUS
  <2> HIDE DEF w
  <2>3. ASSUME NEW b \in 0 .. 4 PROVE w[b] = IF b = 0 THEN n ELSE IF b < 4 THEN 2 * w[b - 1] ELSE w[b - 1]
    <3>1. b \in {0, 1, 2, 3, 4}
      OBVIOUS
    <3>2. QED
      BY <2>1, <3>1
  <2>4. [b \in 0 .. 4 |-> w[b]] = [b \in 0 .. 4 |-> IF b = 0 THEN n ELSE IF b < 4 THEN 2 * w[b - 1] ELSE w[b - 1]]
    BY <2>3, Zenon
  <2>5. QED
    BY <2>2, <2>4, Zenon
<1> HIDE DEF w
<1>2. after = [b \in 0 .. 4 |-> IF b = 0 THEN n ELSE IF b < 4 THEN 2 * after[b - 1] ELSE after[b - 1]]
  BY <1>1, Zenon
<1>3. Upsampled(n) = after[4]
  BY DEF Upsampled
<1> HIDE DEF after
<1>4. \A b \in 0 .. 4 : after[b] = IF b = 0 THEN n ELSE IF b < 4 THEN 2 * after[b - 1] ELSE after[b - 1]
  BY <1>2, Zenon
<1>5. after[0] = n
  BY <1>4
<1>6. after[1] = 2 * n
  BY <1>4, <1>5
<1>7. after[2] = 4 * n
  BY <1>4, <1>6
<1>8. after[3] = 8 * n
  BY <1>4, <1>7
<1>9. after[4] = after[3]
  BY <1>4
<1>10. QED
  BY <1>3, <1>8, <1>9

Prompt == IF kind = "flux1" THEN Encoded1(req.tokens) ELSE Encoded2(req.tokens)

\* The encoder's rows say no more than the prompt.
LEMMA PromptHeard ==
  ASSUME FluxAssumption, kind \in Kinds, req.tokens \in Nat
  PROVE  Heard(Prompt) /\ \E n \in Nat : Prompt = [i \in 1 .. n |-> Prompt[i]]
<1>0. MaxSeq \in Nat
  BY DEF FluxAssumption
<1> DEFINE t == req.tokens
           n == T5Len(t)
<1>1. n \in Nat /\ n <= t /\ n <= MaxSeq
  BY <1>0 DEF T5Len
<1>2. CASE kind = "flux1"
  <2>1. Prompt = [i \in 1 .. n |-> [token |-> i, sees |-> 1 .. n]]
    BY <1>2 DEF Prompt, Encoded1
  <2>2. QED
    BY <1>1, <1>2, <2>1 DEF Heard
<1>3. CASE kind # "flux1"
  <2>1. Prompt = Encoded2(t)
    BY <1>3 DEF Prompt
  <2>2. ASSUME NEW i \in 1 .. n
        PROVE  Encoded2(t)[i].token = i /\ Encoded2(t)[i].sees = 1 .. i
    <3>1. i \in 1 .. MaxSeq /\ \A j \in 1 .. i : j \in 1 .. MaxSeq /\ j <= t /\ ~ Masked(t, j)
      BY <1>0, <1>1 DEF Masked
    <3>2. \A j \in 1 .. i : Resized(t)[j] = j
      BY <3>1 DEF Resized
    <3>3. Encoded2(t)[i] = [token |-> Resized(t)[i], sees |-> {Resized(t)[j] : j \in {j \in 1 .. i : ~ Masked(t, j)}}]
      BY <3>1 DEF Encoded2
    <3>4. {j \in 1 .. i : ~ Masked(t, j)} = 1 .. i
      BY <3>1, Zenon
    <3>5. {Resized(t)[j] : j \in 1 .. i} = 1 .. i
      BY <3>2
    <3>6. i \in 1 .. i
      OBVIOUS
    <3>7. QED
      BY <3>2, <3>3, <3>4, <3>5, <3>6
  <2>3. Prompt = [i \in 1 .. MaxSeq |-> Prompt[i]]
    BY <2>1 DEF Encoded2
  <2>4. QED
    BY <1>0, <1>3, <2>1, <2>2, <2>3 DEF Heard
<1>4. QED
  BY <1>2, <1>3

\* Which patch a latent of the picture is from.
LEMMA PatchAt ==
  ASSUME NEW C \in Nat, NEW R \in Nat, NEW a \in 0 .. R - 1, NEW b \in 0 .. C - 1
  PROVE  /\ a * C + b + 1 \in 1 .. R * C
         /\ (a * C + b) \div C = a /\ (a * C + b) % C = b
<1>1. C \in Nat \ {0} /\ a \in Nat
  OBVIOUS
<1>2. a * C \in Nat /\ (a + 1) * C = a * C + C /\ R * C = (a + 1) * C + (R - (a + 1)) * C
  OBVIOUS
<1>3. (R - (a + 1)) * C \in Nat
  BY <1>1
<1>4. (a * C + b) % C = b /\ (a * C + b) \div C = a
  BY <1>1
<1>5. QED
  BY <1>1, <1>2, <1>3, <1>4

-----------------------------------------------------------------------------
(* What has been done to a patch.                                          *)

\* What the transformer says of patch p in step k.
Predicted(p, k) ==
  [of |-> [row |-> [patch |-> p], at |-> {At(p)},
           saw |-> ToSet(txt) \cup {[patch |-> q] : q \in ToSet(Patches)}],
   t |-> Sigma(req.steps)[k], vec |-> vec,
   guidance |-> IF kind = "flux1" THEN req.guidance ELSE None]
Move(p, k) == [from |-> Sigma(req.steps)[k], to |-> Sigma(req.steps)[k + 1], pred |-> Predicted(p, k)]
Moved(p, n) == [patch |-> p, steps |-> [k \in 1 .. n |-> Move(p, k)]]
Denoised(n) == img = [i \in DOMAIN Patches |-> Moved(Patches[i], n)]

DrawInv ==
  /\ kind \in Kinds
  /\ stage # "idle" => req.tokens \in Nat /\ req.steps \in Nat /\ req.size \in Sizes
  /\ stage \in {"transformer", "denoise", "vae", "decode"} => txt = Prompt
  /\ stage = "denoise" => step \in 0 .. req.steps /\ Denoised(step)
  /\ stage \in {"vae", "decode"} => Denoised(req.steps)
  /\ stage = "done" /\ result = "ok" => txt = Prompt /\ Denoised(req.steps) /\ picture = Decoded(img)

\* Rows of patches, and how far the picture is from the height asked for.
LEMMA Sized ==
  ASSUME FluxAssumption, req.size \in Sizes
  PROVE  Rows \in Nat /\ Cols \in Nat /\ Rows * Cols \in Nat /\ 16 * Rows \in req.size[1] .. req.size[1] + 15
<1>1. req.size[1] \in Nat /\ req.size[2] \in Nat
  BY DEF FluxAssumption
<1>2. Rows \in Nat /\ Cols \in Nat /\ 16 * Rows \in req.size[1] .. req.size[1] + 15
  BY <1>1 DEF Rows, Cols, Half
<1>3. QED
  BY <1>2

\* The prediction for the patches as they are.
LEMMA PredictedIs ==
  ASSUME FluxAssumption, kind \in Kinds, req.tokens \in Nat, req.steps \in Nat, req.size \in Sizes,
         txt = Prompt, step \in 0 .. req.steps, Denoised(step)
  PROVE  Transformer(Call) = [i \in DOMAIN Patches |-> Predicted(Patches[i], step + 1)]
<1> DEFINE m == Rows * Cols
           x == Call
<1>1. PICK n \in Nat : txt = [i \in 1 .. n |-> txt[i]]
  BY PromptHeard
<1>2. m \in Nat
  BY Sized
<1>3. DOMAIN Patches = 1 .. m /\ Patches = [i \in 1 .. m |-> Patches[i]]
  BY DEF Patches
<1>4. /\ x.img = img /\ x.txt = txt /\ x.txt_ids = [i \in DOMAIN txt |-> TextAt(i)]
      /\ x.img_ids = [i \in DOMAIN Patches |-> At(Patches[i])] /\ x.t = Sigma(req.steps)[step + 1]
      /\ x.vec = vec /\ x.guidance = IF kind = "flux1" THEN req.guidance ELSE None
  BY DEF Call, ImgIds
<1> HIDE DEF m, x
<1>5. \A i \in 1 .. m : img[i].patch = Patches[i]
  BY <1>3 DEF Denoised, Moved
<1>6. DOMAIN img = 1 .. m /\ img = [i \in 1 .. m |-> img[i]]
  BY <1>3 DEF Denoised
<1>7. DOMAIN txt = 1 .. n
  BY <1>1
<1>8. Called(x, n, m)
  BY <1>1, <1>3, <1>4, <1>6, <1>7 DEF Called
<1>9. Transformer(x) = Answer(x, n, m)
  BY <1>2, <1>8, TransformerIs, Zenon
<1>10. {x.txt[j] : j \in 1 .. n} = ToSet(txt)
  BY <1>4, <1>7 DEF ToSet
<1>11. {[patch |-> x.img[j].patch] : j \in 1 .. m} = {[patch |-> q] : q \in ToSet(Patches)}
  BY <1>3, <1>4, <1>5 DEF ToSet
<1>12. \A i \in 1 .. m : x.img[i].patch = Patches[i] /\ x.img_ids[i] = At(Patches[i])
  BY <1>3, <1>4, <1>5
<1>13. ASSUME NEW i \in 1 .. m
       PROVE  Predicted(Patches[i], step + 1) =
                [of |-> [row |-> [patch |-> x.img[i].patch], at |-> {x.img_ids[i]},
                         saw |-> {x.txt[j] : j \in 1 .. n} \cup {[patch |-> x.img[j].patch] : j \in 1 .. m}],
                 t |-> x.t, vec |-> x.vec, guidance |-> x.guidance]
  BY <1>4, <1>10, <1>11, <1>12, Zenon DEF Predicted
<1>14. QED
  BY <1>3, <1>9, <1>13, Zenon DEF x, Answer

\* A step of denoising moves every patch along the schedule.
LEMMA DenoiseDraws ==
  ASSUME FluxAssumption, DrawInv, Denoise PROVE DrawInv'
<1>1. stage = "denoise" /\ UNCHANGED <<kind, req>>
  BY DEF Denoise
<1>2. /\ kind \in Kinds /\ req.tokens \in Nat /\ req.steps \in Nat /\ req.size \in Sizes
      /\ txt = Prompt /\ step \in 0 .. req.steps /\ Denoised(step)
  BY <1>1 DEF DrawInv
<1>3. CASE Fault /\ UNCHANGED <<kind, req>>
  BY <1>2, <1>3 DEF DrawInv, Fault, Finish
<1>4. CASE /\ step < Len(Sigma(req.steps)) - 1
           /\ img' = [i \in DOMAIN img |-> Euler(img[i], Transformer(Call)[i])]
           /\ step' = step + 1
           /\ UNCHANGED <<stage, held, txt, vec, picture, result>>
  <2>1. Len(Sigma(req.steps)) = req.steps + 1
    BY <1>2, SigmaIs
  <2>2. step' \in 0 .. req.steps
    BY <1>2, <1>4, <2>1
  <2> DEFINE P == Patches
  <2>3. P = Patches' /\ DOMAIN img = DOMAIN P
    BY <1>1, <1>2 DEF Patches, Rows, Cols, Denoised
  <2>4. \A p, k : Move(p, k)' = Move(p, k)
    BY <1>1, <1>4, <2>3 DEF Move, Predicted, At, Sigma, ToSet
  <2>5. Transformer(Call) = [i \in DOMAIN P |-> Predicted(P[i], step + 1)]
    BY <1>2, PredictedIs
  <2> HIDE DEF P
  <2>6. ASSUME NEW i \in DOMAIN P
        PROVE  Euler(img[i], Transformer(Call)[i]) = Moved(P[i], step + 1)
    <3> DEFINE s == [k \in 1 .. step |-> Move(P[i], k)]
    <3>1. img[i] = [patch |-> P[i], steps |-> s]
      BY <1>2 DEF Denoised, Moved, P
    <3>2. Transformer(Call)[i] = Predicted(P[i], step + 1)
      BY <2>5
    <3>3. step \in Nat /\ (step + 1) + 1 = step + 2
      BY <1>2
    <3>4. Euler(img[i], Transformer(Call)[i]) = [patch |-> P[i], steps |-> Append(s, Move(P[i], step + 1))]
      <4>1. Move(P[i], step + 1) = [from |-> Sigma(req.steps)[step + 1], to |-> Sigma(req.steps)[step + 2], pred |-> Predicted(P[i], step + 1)]
        BY <3>3, Zenon DEF Move
      <4> HIDE DEF s
      <4>2. Euler(img[i], Transformer(Call)[i]) = [[patch |-> P[i], steps |-> s] EXCEPT !.steps = Append(@, Move(P[i], step + 1))]
        BY <3>1, <3>2, <4>1, Zenon DEF Euler
      <4>3. QED
        BY <4>2
    <3>5. Append(s, Move(P[i], step + 1)) = [k \in 1 .. step + 1 |-> IF k = step + 1 THEN Move(P[i], step + 1) ELSE s[k]]
      <4>1. s = [k \in 1 .. step |-> s[k]]
        OBVIOUS
      <4> HIDE DEF s
      <4>2. QED
        BY <3>3, <4>1, AppendIs
    <3>6. \A k \in 1 .. step + 1 : (IF k = step + 1 THEN Move(P[i], step + 1) ELSE s[k]) = Move(P[i], k)
      BY <3>3
    <3> HIDE DEF s
    <3>7. Append(s, Move(P[i], step + 1)) = [k \in 1 .. step + 1 |-> Move(P[i], k)]
      BY <3>5, <3>6, Zenon
    <3>8. QED
      BY <3>4, <3>7, Zenon DEF Moved
  <2>7. img' = [i \in DOMAIN P |-> Moved(P[i], step + 1)]
    BY <1>4, <2>3, <2>6, Zenon
  <2>8. \A p, n : Moved(p, n)' = Moved(p, n)
    BY <2>4, Zenon DEF Moved
  <2>9. Denoised(step)'
    BY <1>4, <2>3, <2>7, <2>8, Zenon DEF Denoised, P
  <2>10. (txt = Prompt)'
    BY <1>1, <1>2, <1>4 DEF Prompt, Encoded1, Encoded2, T5Len, Resized, Masked
  <2>11. QED
    BY <1>1, <1>2, <1>4, <2>2, <2>9, <2>10 DEF DrawInv
<1>5. QED
  BY <1>3, <1>4 DEF Denoise

LEMMA InitDraws == Init => DrawInv
  BY DEF Init, DrawInv

\* Every step keeps the invariant,
LEMMA NextDraws == FluxAssumption /\ DrawInv /\ [Next]_fvars => DrawInv'
<1> SUFFICES ASSUME FluxAssumption, DrawInv, [Next]_fvars PROVE DrawInv'
  OBVIOUS
<1>1. ASSUME UNCHANGED <<kind, req, txt, vec, img>>
      PROVE  UNCHANGED <<Prompt, Rows, Cols, Patches>> /\ (\A n : Denoised(n)' = Denoised(n)) /\ Decoded(img)' = Decoded(img)
  <2>1. UNCHANGED <<Prompt, Rows, Cols, Patches>>
    BY <1>1 DEF Prompt, Encoded1, Encoded2, T5Len, Resized, Masked, Rows, Cols, Patches
  <2>2. \A p, k : Move(p, k)' = Move(p, k)
    BY <1>1, <2>1 DEF Move, Predicted, At, Sigma, ToSet
  <2>3. \A n : Denoised(n)' = Denoised(n)
    BY <1>1, <2>1, <2>2, Zenon DEF Denoised, Moved
  <2>4. Decoded(img)' = Decoded(img)
    BY <1>1, <2>1, Zenon DEF Decoded, Unpatchify
  <2>5. QED
    BY <2>1, <2>3, <2>4
<1>2. CASE Fault /\ UNCHANGED <<kind, req>> /\ stage # "idle"
  BY <1>2 DEF DrawInv, Fault, Finish
<1>3. CASE Generate
  <2>1. req'.tokens \in Nat /\ req'.steps \in Nat /\ req'.size \in Sizes
    BY <1>3 DEF Generate, FluxAssumption
  <2>2. QED
    BY <1>3, <2>1 DEF Generate, DrawInv
<1>4. CASE LoadEncoder
  BY <1>2, <1>4 DEF LoadEncoder, Load, DrawInv
<1>5. CASE EncodeClip
  BY <1>2, <1>5 DEF EncodeClip, DrawInv
<1>6. CASE LoadT5
  BY <1>2, <1>6 DEF LoadT5, Load, DrawInv
<1>7. CASE Encode
  <2>1. CASE /\ txt' = IF kind = "flux1" THEN Encoded1(req.tokens) ELSE Encoded2(req.tokens)
             /\ stage' = "transformer" /\ result' = result
    <3>1. UNCHANGED <<kind, req>> /\ stage # "idle"
      BY <1>7 DEF Encode
    <3>2. Prompt' = Prompt
      BY <3>1 DEF Prompt, Encoded1, Encoded2, T5Len, Resized, Masked
    <3>3. QED
      BY <2>1, <3>1, <3>2 DEF DrawInv, Prompt
  <2>2. QED
    BY <1>2, <1>7, <2>1 DEF Encode
<1>8. CASE LoadTransformer
  <2>1. CASE /\ img' = [i \in DOMAIN Patches |-> Noise(Patches[i])]
             /\ step' = 0 /\ stage' = "denoise"
             /\ UNCHANGED <<txt, vec, result>>
    <3>1. UNCHANGED <<kind, req>> /\ stage = "transformer"
      BY <1>8 DEF LoadTransformer
    <3>2. UNCHANGED <<Prompt, Patches>>
      BY <2>1, <3>1 DEF Prompt, Encoded1, Encoded2, T5Len, Resized, Masked, Rows, Cols, Patches
    <3>3. \A p : Moved(p, 0)' = Noise(p)
      <4>1. \A p : [k \in 1 .. 0 |-> Move(p, k)]' = <<>>
        OBVIOUS
      <4>2. QED
        BY <4>1 DEF Moved, Noise
    <3>4. Denoised(0)'
      BY <2>1, <3>2, <3>3, Zenon DEF Denoised
    <3>5. QED
      BY <2>1, <3>1, <3>2, <3>4 DEF DrawInv
  <2>2. QED
    BY <1>2, <1>8, <2>1 DEF LoadTransformer
<1>9. CASE Denoise
  BY <1>9, DenoiseDraws
<1>10. CASE DropTransformer
  <2>1. /\ stage = "denoise" /\ stage' = "vae" /\ step = req.steps
        /\ UNCHANGED <<kind, req, txt, vec, img, step, picture, result>>
    <3>1. req.steps \in Nat /\ step \in 0 .. req.steps
      BY <1>10 DEF DropTransformer, DrawInv
    <3>2. Len(Sigma(req.steps)) = req.steps + 1
      BY <3>1, SigmaIs
    <3>3. QED
      BY <1>10, <3>1, <3>2 DEF DropTransformer
  <2>2. QED
    BY <1>1, <2>1 DEF DrawInv
<1>11. CASE LoadVae
  <2>1. CASE stage' = "decode" /\ UNCHANGED <<kind, req, txt, vec, img>>
    BY <1>1, <1>11, <2>1 DEF LoadVae, DrawInv
  <2>2. QED
    BY <1>2, <1>11, <2>1 DEF LoadVae, Load
<1>12. CASE Decode
  <2>1. CASE /\ picture' = Decoded(img) /\ stage' = "done"
             /\ UNCHANGED <<kind, req, txt, vec, img>>
    <3>1. stage = "decode"
      BY <1>12 DEF Decode
    <3>2. QED
      BY <1>1, <2>1, <3>1 DEF DrawInv
  <2>2. QED
    BY <1>2, <1>12, <2>1 DEF Decode, Finish
<1>13. CASE Return
  BY <1>13 DEF Return, DrawInv
<1>14. CASE UNCHANGED fvars
  BY <1>1, <1>14 DEF fvars, DrawInv
<1>15. QED
  BY <1>3, <1>4, <1>5, <1>6, <1>7, <1>8, <1>9, <1>10, <1>11, <1>12, <1>13, <1>14 DEF Next

\* and the invariant gives the picture.
LEMMA InvDraws == FluxAssumption /\ DrawInv => Drawn
<1> SUFFICES ASSUME FluxAssumption, DrawInv, stage = "done", result = "ok"
             PROVE  /\ Heard(txt)
                    /\ picture.height = 16 * Rows /\ picture.width = 16 * Cols
                    /\ 16 * Rows \in req.size[1] .. req.size[1] + 15
                    /\ \A p \in DOMAIN picture.latents :
                         LET l == picture.latents[p]
                             s == l.from.steps
                             here == <<p[1] \div 2, p[2] \div 2>>
                         IN  /\ l.from.patch = here /\ l.cell = <<p[1] % 2, p[2] % 2>>
                             /\ Len(s) = req.steps
                             /\ s # <<>> => s[1].from[1] = s[1].from[2] /\ s[Len(s)].to[1] = 0
                             /\ \A k \in DOMAIN s :
                                  /\ k > 1 => s[k].from = s[k - 1].to
                                  /\ s[k].pred.t = s[k].from /\ s[k].pred.vec = vec
                                  /\ s[k].pred.of = [row |-> [patch |-> here], at |-> {At(here)},
                                                     saw |-> ToSet(txt) \cup {[patch |-> q] : q \in ToSet(Patches)}]
  BY DEF Drawn
<1>1. /\ kind \in Kinds /\ req.tokens \in Nat /\ req.steps \in Nat /\ req.size \in Sizes
      /\ txt = Prompt /\ Denoised(req.steps) /\ picture = Decoded(img)
  BY DEF DrawInv
<1>2. Heard(txt)
  BY <1>1, PromptHeard
<1>3. Rows \in Nat /\ Cols \in Nat /\ 16 * Rows \in req.size[1] .. req.size[1] + 15
  BY <1>1, Sized
<1>4. picture.height = 16 * Rows /\ picture.width = 16 * Cols
  <2>1. Upsampled(2 * Rows) = 8 * (2 * Rows) /\ Upsampled(2 * Cols) = 8 * (2 * Cols)
    BY <1>3, UpsampledIs
  <2>2. QED
    BY <1>1, <1>3, <2>1 DEF Decoded
<1>5. picture.latents = [p \in (0 .. 2 * Rows - 1) \X (0 .. 2 * Cols - 1) |->
        [from |-> img[(p[1] \div 2) * Cols + (p[2] \div 2) + 1], cell |-> <<p[1] % 2, p[2] % 2>>]]
  BY <1>1 DEF Decoded, Unpatchify
<1>6. ASSUME NEW p \in DOMAIN picture.latents
      PROVE  LET l == picture.latents[p]
                 s == l.from.steps
                 here == <<p[1] \div 2, p[2] \div 2>>
             IN  /\ l.from.patch = here /\ l.cell = <<p[1] % 2, p[2] % 2>>
                 /\ Len(s) = req.steps
                 /\ s # <<>> => s[1].from[1] = s[1].from[2] /\ s[Len(s)].to[1] = 0
                 /\ \A k \in DOMAIN s :
                      /\ k > 1 => s[k].from = s[k - 1].to
                      /\ s[k].pred.t = s[k].from /\ s[k].pred.vec = vec
                      /\ s[k].pred.of = [row |-> [patch |-> here], at |-> {At(here)},
                                         saw |-> ToSet(txt) \cup {[patch |-> q] : q \in ToSet(Patches)}]
  <2> DEFINE a == p[1] \div 2
             b == p[2] \div 2
             here == <<a, b>>
             l == picture.latents[p]
             s == l.from.steps
             n == req.steps
  <2>1. a \in 0 .. Rows - 1 /\ b \in 0 .. Cols - 1
    <3>1. p[1] \in 0 .. 2 * Rows - 1 /\ p[2] \in 0 .. 2 * Cols - 1
      BY <1>5
    <3>2. \A R \in Nat : \A c \in 0 .. 2 * R - 1 : c \div 2 \in 0 .. R - 1
      OBVIOUS
    <3>3. QED
      BY <1>3, <3>1, <3>2
  <2>2. l = [from |-> img[a * Cols + b + 1], cell |-> <<p[1] % 2, p[2] % 2>>]
    BY <1>5
  <2> HIDE DEF a, b, l
  <2>3. a * Cols + b + 1 \in 1 .. Rows * Cols /\ (a * Cols + b) \div Cols = a /\ (a * Cols + b) % Cols = b
    BY <1>3, <2>1, PatchAt
  <2>4. a * Cols + b + 1 \in DOMAIN Patches /\ Patches[a * Cols + b + 1] = here
    <3>1. \A i \in 1 .. Rows * Cols : Patches[i] = <<(i - 1) \div Cols, (i - 1) % Cols>>
      BY DEF Patches
    <3>2. (a * Cols + b + 1) - 1 = a * Cols + b
      <4> DEFINE c == a * Cols
      <4>1. c \in Int /\ b \in Int
        BY <1>3, <2>1
      <4> HIDE DEF c
      <4>2. (c + b + 1) - 1 = c + b
        BY <4>1
      <4>3. QED
        BY <4>2 DEF c
    <3>3. DOMAIN Patches = 1 .. Rows * Cols
      BY DEF Patches
    <3>4. QED
      BY <2>3, <3>1, <3>2, <3>3, Zenon
  <2>5. l.from = Moved(here, n) /\ l.cell = <<p[1] % 2, p[2] % 2>>
    <3>1. img[a * Cols + b + 1] = Moved(here, n)
      BY <1>1, <2>4, Zenon DEF Denoised
    <3>2. QED
      BY <2>2, <3>1
  <2>6. l.from.patch = here /\ s = [k \in 1 .. n |-> Move(here, k)]
    BY <2>5 DEF Moved
  <2> HIDE DEF s, here
  <2>7. n \in Nat /\ Len(s) = n /\ DOMAIN s = 1 .. n /\ \A k \in 1 .. n : s[k] = Move(here, k)
    BY <1>1, <2>6
  <2>8. s # <<>> => s[1].from[1] = s[1].from[2] /\ s[Len(s)].to[1] = 0
    <3>1. s # <<>> => n # 0
      BY <2>6, <2>7
    <3>2. n # 0 => s[1] = Move(here, 1) /\ s[n] = Move(here, n)
      BY <2>7
    <3>3. Move(here, 1).from = Sigma(n)[1] /\ Move(here, n).to = Sigma(n)[n + 1]
      BY DEF Move
    <3>4. /\ n # 0 => Sigma(n)[1][1] = Sigma(n)[1][2]
          /\ n # 0 => Sigma(n)[n + 1][1] = 0
      BY <2>7, SigmaIs
    <3>5. QED
      BY <2>7, <3>1, <3>2, <3>3, <3>4, Zenon
  <2>9. ASSUME NEW k \in DOMAIN s
        PROVE  /\ k > 1 => s[k].from = s[k - 1].to
               /\ s[k].pred.t = s[k].from /\ s[k].pred.vec = vec
               /\ s[k].pred.of = [row |-> [patch |-> here], at |-> {At(here)},
                                  saw |-> ToSet(txt) \cup {[patch |-> q] : q \in ToSet(Patches)}]
    <3>1. k \in 1 .. n /\ s[k] = Move(here, k)
      BY <2>7
    <3>2. k > 1 => k - 1 \in 1 .. n /\ (k - 1) + 1 = k
      BY <2>7, <3>1
    <3>3. k > 1 => s[k - 1] = Move(here, k - 1)
      BY <2>7, <3>2
    <3>4. Move(here, k).from = Sigma(n)[k] /\ Move(here, k).pred = Predicted(here, k)
      BY DEF Move
    <3>5. Move(here, k - 1).to = Sigma(n)[(k - 1) + 1]
      BY DEF Move
    <3>6. /\ Predicted(here, k).t = Sigma(n)[k] /\ Predicted(here, k).vec = vec
          /\ Predicted(here, k).of = [row |-> [patch |-> here], at |-> {At(here)},
                                      saw |-> ToSet(txt) \cup {[patch |-> q] : q \in ToSet(Patches)}]
      BY DEF Predicted
    <3>7. k > 1 => s[k].from = s[k - 1].to
      BY <3>1, <3>2, <3>3, <3>4, <3>5, Zenon
    <3>8. QED
      BY <3>1, <3>4, <3>6, <3>7, Zenon
  <2>10. QED
    BY <2>5, <2>6, <2>7, <2>8, <2>9, Zenon DEF s, here, l, a, b
<1>7. QED
  BY <1>2, <1>3, <1>4, <1>6, Zenon

\* Whatever is asked for, a request that ends well ends with its picture
\* (Drawn).
THEOREM PictureDrawn ==
  ASSUME FluxAssumption PROVE Spec => []Drawn
<1>1. Init => DrawInv
  BY InitDraws
<1>2. DrawInv /\ [Next]_fvars => DrawInv'
  BY NextDraws
<1>3. DrawInv => Drawn
  BY InvDraws
<1>4. QED
  BY <1>1, <1>2, <1>3, PTL DEF Spec

-----------------------------------------------------------------------------
(* Recursion over 0 .. N, with a function for the next.                    *)

Iterates(f, N, S, x, next) ==
  f \in [0 .. N -> S] /\ f[0] = x /\ \A n \in 1 .. N : f[n] = next[<<n, f[n - 1]>>]

\* A recursion over 0 .. N with values in S has a function.
LEMMA Recursion ==
  ASSUME NEW N \in Nat, NEW S, NEW x \in S, NEW next \in [(1 .. N) \X S -> S]
  PROVE  \E f : Iterates(f, N, S, x, next)
<1> DEFINE Upto(f, n) == f[0] = x /\ \A k \in 1 .. n : f[k] = next[<<k, f[k - 1]>>]
           Good == {n \in 0 .. N : \E f \in [0 .. n -> S] : Upto(f, n)}
<1>1. 0 \in Good
  <2> DEFINE c == [i \in 0 .. 0 |-> x]
  <2>1. c \in [0 .. 0 -> S] /\ c[0] = x /\ \A k \in 1 .. 0 : FALSE
    OBVIOUS
  <2>2. Upto(c, 0) /\ 0 \in 0 .. N
    BY <2>1
  <2> HIDE DEF c, Upto
  <2>3. QED
    BY <2>1, <2>2, Zenon
<1>2. ASSUME NEW n \in 0 .. N, n # 0, n - 1 \in Good PROVE n \in Good
  <2>1. PICK f \in [0 .. n - 1 -> S] : Upto(f, n - 1)
    BY <1>2
  <2> DEFINE h == [i \in 0 .. n |-> IF i = n THEN next[<<n, f[n - 1]>>] ELSE f[i]]
  <2>2. f[n - 1] \in S /\ next[<<n, f[n - 1]>>] \in S
    BY <1>2
  <2>3. h \in [0 .. n -> S] /\ h[n] = next[<<n, f[n - 1]>>] /\ \A i \in 0 .. n - 1 : h[i] = f[i]
    <3>1. \A i \in 0 .. n : i # n => i \in 0 .. n - 1
      BY <1>2
    <3>2. \A i \in 0 .. n : (IF i = n THEN next[<<n, f[n - 1]>>] ELSE f[i]) \in S
      BY <2>2, <3>1
    <3>3. n \in 0 .. n /\ \A i \in 0 .. n - 1 : i \in 0 .. n /\ i # n
      BY <1>2
    <3>4. QED
      BY <3>2, <3>3
  <2> HIDE DEF h
  <2>4. h[0] = x
    BY <1>2, <2>1, <2>3
  <2>5. ASSUME NEW k \in 1 .. n PROVE h[k] = next[<<k, h[k - 1]>>]
    <3>1. CASE k = n
      BY <2>3, <3>1
    <3>2. CASE k # n
      <4>1. k \in 1 .. n - 1 /\ k - 1 \in 0 .. n - 1 /\ k \in 0 .. n - 1
        BY <3>2
      <4>2. h[k] = f[k] /\ h[k - 1] = f[k - 1]
        BY <2>3, <4>1
      <4>3. QED
        BY <2>1, <4>1, <4>2
    <3>3. QED
      BY <3>1, <3>2
  <2>6. QED
    BY <2>3, <2>4, <2>5
<1>3. 0 .. N \subseteq Good
  <2> HIDE DEF Good
  <2>1. QED
    BY <1>1, <1>2, AllUpTo
<1>4. N \in Good
  BY <1>3
<1>5. QED
  BY <1>4 DEF Iterates

-----------------------------------------------------------------------------
(* Words: what is packed comes out again.                                  *)

\* The numbers among the constants.
LEMMA Numbers ==
  ASSUME WeightsAssumption
  PROVE  /\ NumGpus \in Nat \ {0} /\ Outs \in Nat \ {0} /\ Ins \in Nat \ {0} /\ Fit \in Nat \ {0}
         /\ Levels \in Nat \ {0} /\ GroupSize \in Nat \ {0} /\ BlockSize \in Nat \ {0}
         /\ Outs % Fit = 0 /\ GroupSize % Fit = 0 /\ Ins % GroupSize = 0
  BY DEF WeightsAssumption

\* A level below the rest of a word: the shift and the mask take them apart.
LEMMA Apart ==
  ASSUME NEW b \in Nat \ {0}, NEW v \in 0 .. b - 1, NEW r \in Nat
  PROVE  v + b * r \in Nat /\ (v + b * r) \div b = r /\ (v + b * r) % b = v
  OBVIOUS

\* A word, from its last value to its first.
LEMMA PackIs ==
  ASSUME WeightsAssumption, NEW v, \A k \in 0 .. Fit - 1 : v[k] \in 0 .. Levels - 1
  PROVE  \E f \in [0 .. Fit -> Nat] :
           /\ f[0] = 0 /\ (\A n \in 1 .. Fit : f[n] = v[Fit - n] + Levels * f[n - 1])
           /\ Pack(v) = f[Fit]
<1> DEFINE next == [p \in (1 .. Fit) \X Nat |-> v[Fit - p[1]] + Levels * p[2]]
           F(f) == [n \in 0 .. Fit |-> IF n = 0 THEN 0 ELSE v[Fit - n] + Levels * f[n - 1]]
           last == CHOOSE f : f = F(f)
<1>0. Fit \in Nat /\ Levels \in Nat /\ 0 \in Nat
  BY Numbers
<1>1. ASSUME NEW n \in 1 .. Fit, NEW r \in Nat
      PROVE  v[Fit - n] + Levels * r \in Nat
  <2>1. Fit - n \in 0 .. Fit - 1
    BY <1>0
  <2>2. v[Fit - n] \in Nat /\ Levels * r \in Nat
    BY <1>0, <2>1
  <2>3. QED
    BY <2>2
<1>2. next \in [(1 .. Fit) \X Nat -> Nat]
  BY <1>1
<1>3. \A n \in 1 .. Fit, r \in Nat : next[<<n, r>>] = v[Fit - n] + Levels * r
  OBVIOUS
<1> HIDE DEF next
<1>4. PICK f : Iterates(f, Fit, Nat, 0, next)
  BY <1>0, <1>2, Recursion, Zenon
<1>5. \A n \in 1 .. Fit : f[n] = v[Fit - n] + Levels * f[n - 1]
  <2>1. \A n \in 1 .. Fit : f[n - 1] \in Nat
    BY <1>0, <1>4 DEF Iterates
  <2>2. QED
    BY <1>3, <1>4, <2>1 DEF Iterates
<1>6. f = F(f)
  <2>1. f = [n \in 0 .. Fit |-> f[n]]
    BY <1>4 DEF Iterates
  <2>2. \A n \in 0 .. Fit : f[n] = IF n = 0 THEN 0 ELSE v[Fit - n] + Levels * f[n - 1]
    BY <1>0, <1>4, <1>5 DEF Iterates
  <2>3. QED
    BY <2>1, <2>2, Zenon
<1>7. last = F(last)
  BY <1>6, Zenon
<1>8. Pack(v) = last[Fit]
  BY DEF Pack
<1> HIDE DEF last
<1>9. \A n \in 0 .. Fit : last[n] = IF n = 0 THEN 0 ELSE v[Fit - n] + Levels * last[n - 1]
  BY <1>7, Zenon
<1>10. 0 .. Fit \subseteq {n \in 0 .. Fit : last[n] = f[n]}
  <2> DEFINE S == {n \in 0 .. Fit : last[n] = f[n]}
  <2>1. 0 \in S
    BY <1>0, <1>4, <1>9 DEF Iterates
  <2>2. ASSUME NEW n \in 0 .. Fit, n # 0, n - 1 \in S PROVE n \in S
    BY <1>5, <1>9, <2>2
  <2> HIDE DEF S
  <2>3. QED
    BY <1>0, <2>1, <2>2, AllUpTo DEF S
<1>11. Pack(v) = f[Fit]
  BY <1>0, <1>8, <1>10
<1>12. QED
  BY <1>4, <1>5, <1>11 DEF Iterates

\* The shifts of a word.
LEMMA UnpackIs ==
  ASSUME WeightsAssumption, NEW w \in Nat
  PROVE  \E f \in [0 .. Fit -> Nat] :
           /\ f[0] = w /\ (\A n \in 1 .. Fit : f[n] = f[n - 1] \div Levels)
           /\ \A k \in 0 .. Fit : Unpack(w, k) = f[k] % Levels
<1> DEFINE next == [p \in (1 .. Fit) \X Nat |-> p[2] \div Levels]
           F(f) == [n \in 0 .. Fit |-> IF n = 0 THEN w ELSE f[n - 1] \div Levels]
           rest == CHOOSE f : f = F(f)
<1>0. Fit \in Nat /\ Levels \in Nat \ {0}
  BY Numbers
<1>1. \A r \in Nat : r \div Levels \in Nat
  BY <1>0
<1>2. next \in [(1 .. Fit) \X Nat -> Nat]
  BY <1>1
<1>3. \A n \in 1 .. Fit, r \in Nat : next[<<n, r>>] = r \div Levels
  OBVIOUS
<1> HIDE DEF next
<1>4. PICK f : Iterates(f, Fit, Nat, w, next)
  BY <1>0, <1>2, Recursion, Zenon
<1>5. \A n \in 1 .. Fit : f[n] = f[n - 1] \div Levels
  <2>1. \A n \in 1 .. Fit : f[n - 1] \in Nat
    BY <1>0, <1>4 DEF Iterates
  <2>2. QED
    BY <1>3, <1>4, <2>1 DEF Iterates
<1>6. f = F(f)
  <2>1. f = [n \in 0 .. Fit |-> f[n]]
    BY <1>4 DEF Iterates
  <2>2. \A n \in 0 .. Fit : f[n] = IF n = 0 THEN w ELSE f[n - 1] \div Levels
    BY <1>0, <1>4, <1>5 DEF Iterates
  <2>3. QED
    BY <2>1, <2>2, Zenon
<1>7. rest = F(rest)
  BY <1>6, Zenon
<1>8. \A k : Unpack(w, k) = rest[k] % Levels
  BY DEF Unpack
<1> HIDE DEF rest
<1>9. \A n \in 0 .. Fit : rest[n] = IF n = 0 THEN w ELSE rest[n - 1] \div Levels
  BY <1>7, Zenon
<1>10. 0 .. Fit \subseteq {n \in 0 .. Fit : rest[n] = f[n]}
  <2> DEFINE S == {n \in 0 .. Fit : rest[n] = f[n]}
  <2>1. 0 \in S
    BY <1>0, <1>4, <1>9 DEF Iterates
  <2>2. ASSUME NEW n \in 0 .. Fit, n # 0, n - 1 \in S PROVE n \in S
    BY <1>5, <1>9, <2>2
  <2> HIDE DEF S
  <2>3. QED
    BY <1>0, <2>1, <2>2, AllUpTo DEF S
<1>11. \A k \in 0 .. Fit : Unpack(w, k) = f[k] % Levels
  BY <1>8, <1>10
<1>12. QED
  BY <1>4, <1>5, <1>11 DEF Iterates

\* Every value of a word is read back.
LEMMA Unpacked ==
  ASSUME WeightsAssumption, NEW v, \A k \in 0 .. Fit - 1 : v[k] \in 0 .. Levels - 1
  PROVE  \A k \in 0 .. Fit - 1 : Unpack(Pack(v), k) = v[k]
<1>0. Fit \in Nat /\ Levels \in Nat \ {0}
  BY Numbers
<1>1. PICK f \in [0 .. Fit -> Nat] :
        /\ f[0] = 0 /\ (\A n \in 1 .. Fit : f[n] = v[Fit - n] + Levels * f[n - 1])
        /\ Pack(v) = f[Fit]
  BY PackIs
<1>2. Pack(v) \in Nat
  BY <1>0, <1>1
<1>3. PICK h \in [0 .. Fit -> Nat] :
        /\ h[0] = Pack(v) /\ (\A n \in 1 .. Fit : h[n] = h[n - 1] \div Levels)
        /\ \A k \in 0 .. Fit : Unpack(Pack(v), k) = h[k] % Levels
  BY <1>2, UnpackIs
<1>4. ASSUME NEW k \in 0 .. Fit - 1
      PROVE  f[Fit - k] \div Levels = f[Fit - (k + 1)] /\ f[Fit - k] % Levels = v[k]
  <2>1. Fit - k \in 1 .. Fit /\ Fit - (Fit - k) = k /\ (Fit - k) - 1 = Fit - (k + 1) /\ Fit - (k + 1) \in 0 .. Fit
    BY <1>0
  <2>2. f[Fit - k] = v[k] + Levels * f[Fit - (k + 1)]
    BY <1>1, <2>1
  <2>3. f[Fit - (k + 1)] \in Nat /\ v[k] \in 0 .. Levels - 1
    BY <2>1
  <2>4. QED
    <3> DEFINE rest == f[Fit - (k + 1)]
    <3>1. (v[k] + Levels * rest) \div Levels = rest /\ (v[k] + Levels * rest) % Levels = v[k]
      BY <1>0, <2>3, Apart, Zenon
    <3>2. QED
      BY <2>2, <3>1, Zenon
<1>5. 0 .. Fit \subseteq {n \in 0 .. Fit : h[n] = f[Fit - n]}
  <2> DEFINE S == {n \in 0 .. Fit : h[n] = f[Fit - n]}
  <2>1. 0 \in S
    BY <1>0, <1>1, <1>3
  <2>2. ASSUME NEW n \in 0 .. Fit, n # 0, n - 1 \in S PROVE n \in S
    <3>1. n \in 1 .. Fit /\ n - 1 \in 0 .. Fit - 1 /\ (n - 1) + 1 = n
      BY <1>0, <2>2
    <3>2. h[n] = h[n - 1] \div Levels
      BY <1>3, <3>1
    <3>3. h[n - 1] = f[Fit - (n - 1)]
      BY <2>2
    <3>4. f[Fit - (n - 1)] \div Levels = f[Fit - n]
      BY <1>4, <3>1
    <3>5. QED
      BY <3>2, <3>3, <3>4
  <2> HIDE DEF S
  <2>3. QED
    BY <1>0, <2>1, <2>2, AllUpTo DEF S
<1>6. SUFFICES ASSUME NEW k \in 0 .. Fit - 1 PROVE Unpack(Pack(v), k) = v[k]
  OBVIOUS
<1>7. k \in 0 .. Fit
  BY <1>0
<1>8. Unpack(Pack(v), k) = f[Fit - k] % Levels
  BY <1>3, <1>5, <1>7
<1>9. QED
  BY <1>4, <1>8

-----------------------------------------------------------------------------
(* Matrices: what the dequantizers make of packed words.                   *)

\* A position in pieces of k.
LEMMA Piece ==
  ASSUME NEW k \in Nat \ {0}, NEW n \in Nat, n % k = 0, NEW j \in 0 .. n - 1
  PROVE  /\ j \div k \in 0 .. (n \div k) - 1 /\ j % k \in 0 .. k - 1
         /\ (j \div k) * k + (j % k) = j
<1>1. /\ j \in Nat /\ j \div k \in Nat /\ j % k \in 0 .. k - 1 /\ n \div k \in Nat
      /\ j = (j \div k) * k + (j % k) /\ n = (n \div k) * k + (n % k)
  OBVIOUS
<1> DEFINE q == j \div k
           p == n \div k
<1>2. q * k < p * k
  BY <1>1
<1> HIDE DEF q, p
<1>3. q \in Nat /\ p \in Nat
  BY <1>1 DEF q, p
<1>4. q < p
  <2>1. SUFFICES ASSUME q >= p PROVE FALSE
    BY <1>3
  <2>2. q * k = p * k + (q - p) * k /\ (q - p) * k \in Nat /\ p * k \in Nat
    BY <1>3, <2>1
  <2>3. QED
    BY <1>2, <2>2
<1>5. QED
  BY <1>1, <1>3, <1>4 DEF q, p

\* The first value of a word is in the group of the others.
LEMMA SameGroup ==
  ASSUME NEW k \in Nat \ {0}, NEW G \in Nat \ {0}, G % k = 0, NEW j \in Nat
  PROVE  ((j \div k) * k) \div G = j \div G
<1> DEFINE a == j \div k
           c == G \div k
           q == j \div G
<1>1. /\ a \in Nat /\ j % k \in 0 .. k - 1 /\ j = a * k + (j % k)
      /\ c \in Nat /\ G = c * k
      /\ q \in Nat /\ j % G \in 0 .. G - 1 /\ j = q * G + (j % G)
  OBVIOUS
<1> HIDE DEF a, c, q
<1>2. q * c \in Nat /\ q * G = (q * c) * k /\ a * k \in Nat /\ q * G \in Nat
  BY <1>1
<1>3. a >= q * c
  <2>1. SUFFICES ASSUME q * c >= a + 1 PROVE FALSE
    BY <1>1, <1>2
  <2>2. (q * c) * k = (a + 1) * k + (q * c - (a + 1)) * k /\ (q * c - (a + 1)) * k \in Nat
    BY <1>1, <1>2, <2>1
  <2>3. (a + 1) * k = a * k + k
    BY <1>1
  <2>4. q * G >= a * k + k
    BY <1>2, <2>2, <2>3
  <2>5. QED
    BY <1>1, <1>2, <2>4
<1>4. a * k >= q * G
  <2>1. a * k = (q * c) * k + (a - q * c) * k /\ (a - q * c) * k \in Nat
    BY <1>1, <1>2, <1>3
  <2>2. QED
    BY <1>2, <2>1
<1>5. a * k - q * G \in 0 .. G - 1
  BY <1>1, <1>2, <1>4
<1>6. (q * G + (a * k - q * G)) \div G = q
  <2>1. \A r \in 0 .. G - 1 : (q * G + r) \div G = q
    BY <1>1
  <2>2. QED
    BY <1>5, <2>1
<1>7. q * G + (a * k - q * G) = a * k
  BY <1>2
<1>8. QED
  BY <1>6, <1>7 DEF a, q

\* What the quantizer stores is small enough for a word.
LEMMA Small ==
  ASSUME WeightsAssumption, NEW s \in Nat, NEW i \in Nat, NEW j \in Nat
  PROVE  /\ Level(s, i, j) \in 0 .. Levels - 1
         /\ Zero(s, i, j) - 1 \in 0 .. Levels - 1 /\ (Zero(s, i, j) - 1) + 1 = Zero(s, i, j)
<1>1. Levels \in Nat \ {0}
  BY Numbers
<1>2. \A n \in Nat : n % Levels \in 0 .. Levels - 1
  BY <1>1
<1>3. i * j \in Nat
  OBVIOUS
<1>4. s + (3 * i) + (5 * j) + (i * j) \in Nat
  BY <1>3
<1>5. s + i + (2 * j) \in Nat
  OBVIOUS
<1>6. Level(s, i, j) \in 0 .. Levels - 1
  BY <1>2, <1>4 DEF Level
<1>7. (s + i + (2 * j)) % Levels \in 0 .. Levels - 1
  BY <1>2, <1>5
<1>8. QED
  BY <1>6, <1>7 DEF Zero

\* Places of an element of a matrix.
LEMMA Places ==
  ASSUME WeightsAssumption, NEW i \in 0 .. Outs - 1, NEW j \in 0 .. Ins - 1
  PROVE  /\ i \in Nat /\ j \in Nat
         /\ j \div Fit \in 0 .. (Ins \div Fit) - 1 /\ j % Fit \in 0 .. Fit - 1
         /\ (j \div Fit) * Fit + (j % Fit) = j
         /\ i \div Fit \in 0 .. (Outs \div Fit) - 1 /\ i % Fit \in 0 .. Fit - 1
         /\ (i \div Fit) * Fit + (i % Fit) = i
         /\ j \div GroupSize \in 0 .. (Ins \div GroupSize) - 1
         /\ ((j \div Fit) * Fit) \div GroupSize = j \div GroupSize
<1>1. /\ Outs \in Nat \ {0} /\ Ins \in Nat \ {0} /\ Fit \in Nat \ {0} /\ GroupSize \in Nat \ {0}
      /\ Outs % Fit = 0 /\ GroupSize % Fit = 0 /\ Ins % GroupSize = 0
  BY Numbers
<1>2. Ins % Fit = 0
  <2> DEFINE a == Ins \div GroupSize
             c == GroupSize \div Fit
  <2>1. a \in Nat /\ c \in Nat /\ Ins = a * GroupSize /\ GroupSize = c * Fit
    BY <1>1
  <2> HIDE DEF a, c
  <2>2. Ins = (a * c) * Fit /\ a * c \in Nat
    BY <1>1, <2>1
  <2>3. \A n \in Nat : (n * Fit) % Fit = 0
    BY <1>1
  <2>4. QED
    BY <2>2, <2>3
<1>3. Ins \in Nat /\ Outs \in Nat /\ i \in Nat /\ j \in Nat
  BY <1>1
<1>4. /\ j \div Fit \in 0 .. (Ins \div Fit) - 1 /\ j % Fit \in 0 .. Fit - 1
      /\ (j \div Fit) * Fit + (j % Fit) = j
  BY <1>1, <1>2, <1>3, Piece, Zenon
<1>5. /\ i \div Fit \in 0 .. (Outs \div Fit) - 1 /\ i % Fit \in 0 .. Fit - 1
      /\ (i \div Fit) * Fit + (i % Fit) = i
  BY <1>1, <1>3, Piece, Zenon
<1>6. j \div GroupSize \in 0 .. (Ins \div GroupSize) - 1
  BY <1>1, <1>3, Piece, Zenon
<1>7. ((j \div Fit) * Fit) \div GroupSize = j \div GroupSize
  BY <1>1, <1>3, SameGroup, Zenon
<1>8. QED
  BY <1>3, <1>4, <1>5, <1>6, <1>7

\* The value k of the word that holds the levels of the columns from q * Fit on.
LEMMA LevelAt ==
  ASSUME WeightsAssumption, NEW s \in Nat, NEW i \in 0 .. Outs - 1, NEW j \in 0 .. Ins - 1
  PROVE  Unpack(Pack([k \in 0 .. Fit - 1 |-> Level(s, i, (j \div Fit) * Fit + k)]), j % Fit) = Level(s, i, j)
<1> DEFINE q == j \div Fit
           v == [k \in 0 .. Fit - 1 |-> Level(s, i, q * Fit + k)]
<1>1. i \in Nat /\ q \in Nat /\ j % Fit \in 0 .. Fit - 1 /\ q * Fit + (j % Fit) = j
  BY Places
<1>2. Fit \in Nat /\ Levels \in Nat
  BY Numbers
<1> HIDE DEF q
<1>3. ASSUME NEW k \in 0 .. Fit - 1 PROVE v[k] \in 0 .. Levels - 1
  <2>1. q * Fit \in Nat
    BY <1>1, <1>2
  <2>2. q * Fit + k \in Nat
    BY <2>1, <1>2
  <2>3. QED
    BY <1>1, <2>2, Small
<1>4. v[j % Fit] = Level(s, i, j)
  BY <1>1
<1> HIDE DEF v
<1>5. Unpack(Pack(v), j % Fit) = v[j % Fit]
  BY <1>1, <1>3, Unpacked, Zenon
<1>6. QED
  BY <1>4, <1>5 DEF v, q

\* And the same of the zeros of the rows from c * Fit on.
LEMMA ZeroAt ==
  ASSUME WeightsAssumption, NEW s \in Nat, NEW i \in 0 .. Outs - 1, NEW g \in Nat
  PROVE  Unpack(Pack([k \in 0 .. Fit - 1 |-> Zero(s, (i \div Fit) * Fit + k, g) - 1]), i % Fit) + 1 = Zero(s, i, g)
<1> DEFINE q == i \div Fit
           v == [k \in 0 .. Fit - 1 |-> Zero(s, q * Fit + k, g) - 1]
<1>0. Ins \in Nat \ {0}
  BY Numbers
<1>1. i \in Nat /\ q \in Nat /\ i % Fit \in 0 .. Fit - 1 /\ q * Fit + (i % Fit) = i
  <2>1. 0 \in 0 .. Ins - 1
    BY <1>0
  <2>2. QED
    BY <2>1, Places
<1>2. Fit \in Nat /\ Levels \in Nat
  BY Numbers
<1> HIDE DEF q
<1>3. ASSUME NEW k \in 0 .. Fit - 1 PROVE v[k] \in 0 .. Levels - 1
  <2>1. q * Fit \in Nat
    BY <1>1, <1>2
  <2>2. q * Fit + k \in Nat
    BY <2>1, <1>2
  <2>3. QED
    BY <1>1, <2>2, Small
<1>4. v[i % Fit] = Zero(s, i, g) - 1
  BY <1>1
<1>5. v[i % Fit] + 1 = Zero(s, i, g)
  BY <1>1, <1>4, Small
<1> HIDE DEF v
<1>6. Unpack(Pack(v), i % Fit) = v[i % Fit]
  BY <1>1, <1>3, Unpacked, Zenon
<1>7. QED
  BY <1>5, <1>6 DEF v, q

\* The three dequantizers, on what the quantizer stores with the salt s.
LEMMA GptqGives ==
  ASSUME WeightsAssumption, NEW s \in Nat
  PROVE  Gptq(PackedColumns(s), ScaleColumns(s), PackedZeros(s)) =
           [i \in 0 .. Outs - 1 |-> [j \in 0 .. Ins - 1 |->
              (Level(s, i, j) - Zero(s, i, j \div GroupSize)) * Scale(s, i, j \div GroupSize)]]
<1> DEFINE qweight == PackedColumns(s)
           scales == ScaleColumns(s)
           qzeros == PackedZeros(s)
<1>1. ASSUME NEW i \in 0 .. Outs - 1, NEW j \in 0 .. Ins - 1
      PROVE  LET row == j \div Fit
                 g == (row * Fit) \div GroupSize
             IN  /\ Unpack(qweight[row][i], j % Fit) = Level(s, i, j)
                 /\ Unpack(qzeros[g][i \div Fit], i % Fit) + 1 = Zero(s, i, j \div GroupSize)
                 /\ scales[g][i] = Scale(s, i, j \div GroupSize)
  <2> DEFINE row == j \div Fit
             g == j \div GroupSize
             c == i \div Fit
  <2>1. /\ (row * Fit) \div GroupSize = g /\ row \in 0 .. (Ins \div Fit) - 1
        /\ g \in 0 .. (Ins \div GroupSize) - 1 /\ c \in 0 .. (Outs \div Fit) - 1
    BY Places
  <2>2. g \in Nat
    BY <2>1
  <2>3. Unpack(Pack([k \in 0 .. Fit - 1 |-> Level(s, i, row * Fit + k)]), j % Fit) = Level(s, i, j)
    BY LevelAt
  <2>4. Unpack(Pack([k \in 0 .. Fit - 1 |-> Zero(s, c * Fit + k, g) - 1]), i % Fit) + 1 = Zero(s, i, g)
    BY <2>2, ZeroAt
  <2> HIDE DEF row, g, c
  <2>5. qweight[row][i] = Pack([k \in 0 .. Fit - 1 |-> Level(s, i, row * Fit + k)])
    BY <2>1, Zenon DEF PackedColumns, Packed
  <2>6. qzeros[g][c] = Pack([k \in 0 .. Fit - 1 |-> Zero(s, c * Fit + k, g) - 1])
    BY <2>1, Zenon DEF PackedZeros, Groups
  <2>7. scales[g][i] = Scale(s, i, g)
    BY <2>1, Zenon DEF ScaleColumns, Groups
  <2>8. QED
    BY <2>1, <2>3, <2>4, <2>5, <2>6, <2>7, Zenon DEF row, g, c
<1> HIDE DEF qweight, scales, qzeros
<1>2. ASSUME NEW i \in 0 .. Outs - 1, NEW j \in 0 .. Ins - 1
      PROVE  (LET row == j \div Fit
                  g == (row * Fit) \div GroupSize
                  zero == Unpack(qzeros[g][i \div Fit], i % Fit) + 1
              IN  (Unpack(qweight[row][i], j % Fit) - zero) * scales[g][i])
             = (Level(s, i, j) - Zero(s, i, j \div GroupSize)) * Scale(s, i, j \div GroupSize)
  BY <1>1, Zenon
<1>3. Gptq(qweight, scales, qzeros) =
        [i \in 0 .. Outs - 1 |-> [j \in 0 .. Ins - 1 |->
           (Level(s, i, j) - Zero(s, i, j \div GroupSize)) * Scale(s, i, j \div GroupSize)]]
  BY <1>2, Zenon DEF Gptq
<1>4. QED
  BY <1>3 DEF qweight, scales, qzeros

\* The same of packed rows with a bias,
LEMMA AffineGives ==
  ASSUME WeightsAssumption, NEW s \in Nat
  PROVE  Affine(PackedRows(s), ScaleRows(s), BiasRows(s)) =
           [i \in 0 .. Outs - 1 |-> [j \in 0 .. Ins - 1 |->
              Level(s, i, j) * Scale(s, i, j \div GroupSize) + Bias(s, i, j \div GroupSize)]]
<1> DEFINE packed == PackedRows(s)
           scales == ScaleRows(s)
           biases == BiasRows(s)
<1>1. ASSUME NEW i \in 0 .. Outs - 1, NEW j \in 0 .. Ins - 1
      PROVE  (LET g == j \div GroupSize
              IN  Unpack(packed[i][j \div Fit], j % Fit) * scales[i][g] + biases[i][g])
             = Level(s, i, j) * Scale(s, i, j \div GroupSize) + Bias(s, i, j \div GroupSize)
  <2> DEFINE p == j \div Fit
             g == j \div GroupSize
  <2>1. p \in 0 .. (Ins \div Fit) - 1 /\ g \in 0 .. (Ins \div GroupSize) - 1
    BY Places
  <2>2. Unpack(Pack([k \in 0 .. Fit - 1 |-> Level(s, i, p * Fit + k)]), j % Fit) = Level(s, i, j)
    BY LevelAt
  <2> HIDE DEF p, g
  <2>3. packed[i][p] = Pack([k \in 0 .. Fit - 1 |-> Level(s, i, p * Fit + k)])
    BY <2>1, Zenon DEF PackedRows, Packed
  <2>4. scales[i][g] = Scale(s, i, g) /\ biases[i][g] = Bias(s, i, g)
    BY <2>1, Zenon DEF ScaleRows, BiasRows, Groups
  <2>5. QED
    BY <2>2, <2>3, <2>4, Zenon DEF p, g
<1> HIDE DEF packed, scales, biases
<1>2. Affine(packed, scales, biases) =
        [i \in 0 .. Outs - 1 |-> [j \in 0 .. Ins - 1 |->
           Level(s, i, j) * Scale(s, i, j \div GroupSize) + Bias(s, i, j \div GroupSize)]]
  BY <1>1, Zenon DEF Affine
<1>3. QED
  BY <1>2 DEF packed, scales, biases

\* The pieces of a whole number of them.
LEMMA RoundUp ==
  ASSUME NEW k \in Nat \ {0}, NEW n \in Nat, n % k = 0
  PROVE  (n + k - 1) \div k = n \div k
<1> DEFINE q == n \div k
<1>1. q \in Nat /\ n = q * k
  OBVIOUS
<1> HIDE DEF q
<1>2. \A r \in 0 .. k - 1 : (q * k + r) \div k = q
  BY <1>1
<1>3. k - 1 \in 0 .. k - 1 /\ n + k - 1 = q * k + (k - 1)
  BY <1>1
<1>4. QED
  BY <1>2, <1>3 DEF q

\* Quantized by block, a matrix is made of whole blocks.
\* and of blocks.
LEMMA Fp8Gives ==
  ASSUME WeightsAssumption, Outs % BlockSize = 0, Ins % BlockSize = 0,
         NEW s
  PROVE  Fp8(LevelRows(s), BlockScales(s)) =
           [i \in 0 .. Outs - 1 |-> [j \in 0 .. Ins - 1 |->
              Level(s, i, j) * Scale(s, i \div BlockSize, j \div BlockSize)]]
<1> DEFINE w == LevelRows(s)
           scale == BlockScales(s)
<1>0. Outs \in Nat /\ Ins \in Nat /\ BlockSize \in Nat \ {0}
  BY Numbers
<1>1. ASSUME NEW n \in Nat, n % BlockSize = 0 PROVE (n + BlockSize - 1) \div BlockSize = n \div BlockSize
  BY <1>0, <1>1, RoundUp
<1>2. ASSUME NEW i \in 0 .. Outs - 1, NEW j \in 0 .. Ins - 1
      PROVE  w[i][j] * scale[i \div BlockSize][j \div BlockSize]
             = Level(s, i, j) * Scale(s, i \div BlockSize, j \div BlockSize)
  <2> DEFINE b == i \div BlockSize
             c == j \div BlockSize
  <2>1. b \in 0 .. (Outs \div BlockSize) - 1
    BY <1>0, Piece
  <2>2. c \in 0 .. (Ins \div BlockSize) - 1
    BY <1>0, Piece
  <2>3. b \in 0 .. Blocks(Outs) - 1 /\ c \in 0 .. Blocks(Ins) - 1
    BY <1>0, <1>1, <2>1, <2>2 DEF Blocks
  <2> HIDE DEF b, c
  <2>4. scale[b][c] = Scale(s, b, c)
    BY <2>3, Zenon DEF BlockScales
  <2>5. w[i][j] = Level(s, i, j)
    BY Zenon DEF LevelRows
  <2>6. QED
    BY <2>4, <2>5, Zenon DEF b, c
<1> HIDE DEF w, scale
<1> DEFINE M == [i \in 0 .. Outs - 1 |-> [j \in 0 .. Ins - 1 |->
                   w[i][j] * scale[i \div BlockSize][j \div BlockSize]]]
<1>3. Fp8(w, scale) = M
  BY Zenon DEF Fp8
<1>4. M = [i \in 0 .. Outs - 1 |-> [j \in 0 .. Ins - 1 |->
             Level(s, i, j) * Scale(s, i \div BlockSize, j \div BlockSize)]]
  BY <1>2, Zenon
<1>5. QED
  BY <1>3, <1>4, Zenon DEF w, scale

-----------------------------------------------------------------------------
(* Names.                                                                  *)

\* The pieces of a name.
LEMMA NameIs ==
  ASSUME NEW S, NEW l \in Seq(S), NEW m, NEW p
  PROVE  /\ (\E T : Name(l, m, p) \in Seq(T)) /\ Len(Name(l, m, p)) = Len(l) + 3
         /\ (\A i \in 1 .. Len(l) : Name(l, m, p)[i] = l[i]) /\ Name(l, m, p)[Len(l) + 1] = "."
         /\ Name(l, m, p)[Len(l) + 2] = m /\ Name(l, m, p)[Len(l) + 3] = p
<1> DEFINE n == Name(l, m, p)
           t == <<".", m, p>>
           T == S \cup {".", m, p}
<1>1. l \in Seq(T) /\ t \in Seq(T) /\ Len(t) = 3 /\ t[1] = "." /\ t[2] = m /\ t[3] = p
  OBVIOUS
<1>2. n = l \o t
  BY DEF Name
<1> HIDE DEF t, T
<1>3. /\ l \o t \in Seq(T) /\ Len(l \o t) = Len(l) + Len(t)
      /\ \A i \in 1 .. Len(l) + Len(t) : (l \o t)[i] = IF i <= Len(l) THEN l[i] ELSE t[i - Len(l)]
  BY <1>1, ConcatProperties, Zenon
<1> HIDE DEF n
<1>4. Len(l) \in Nat /\ n \in Seq(T) /\ Len(n) = Len(l) + 3
  BY <1>1, <1>2, <1>3
<1>5. \A i \in 1 .. Len(l) + 3 : n[i] = IF i <= Len(l) THEN l[i] ELSE t[i - Len(l)]
  BY <1>1, <1>2, <1>3, Zenon
<1>6. /\ \A i \in 1 .. Len(l) : n[i] = l[i]
      /\ n[Len(l) + 1] = "." /\ n[Len(l) + 2] = m /\ n[Len(l) + 3] = p
  BY <1>1, <1>4, <1>5
<1>7. QED
  BY <1>4, <1>6 DEF n

\* The name gives its pieces back.
LEMMA Pieces ==
  ASSUME NEW S, NEW l \in Seq(S), NEW m, NEW p
  PROVE  /\ LayerOf(Name(l, m, p)) = l /\ MatrixOf(Name(l, m, p)) = m
         /\ Name(l, m, p)[Len(Name(l, m, p))] = p
<1> DEFINE n == Name(l, m, p)
<1>0. PICK T : n \in Seq(T)
  BY NameIs
<1>1. /\ Len(n) = Len(l) + 3 /\ \A i \in 1 .. Len(l) : n[i] = l[i]
      /\ n[Len(l) + 2] = m /\ n[Len(l) + 3] = p
  BY NameIs
<1> HIDE DEF n
<1>2. Len(l) \in Nat /\ (Len(l) + 3) - 1 = Len(l) + 2 /\ (Len(l) + 3) - 3 = Len(l)
  OBVIOUS
<1>3. n[Len(n)] = p /\ MatrixOf(n) = m
  BY <1>1, <1>2 DEF MatrixOf
<1>4. LayerOf(n) = l
  <2>1. LayerOf(n) = SubSeq(n, 1, Len(l))
    BY <1>1, <1>2 DEF LayerOf
  <2>2. SubSeq(n, 1, Len(l)) = [i \in 1 .. Len(l) |-> n[i]]
    BY <1>0, <1>1, <1>2
  <2>3. l = [i \in 1 .. Len(l) |-> l[i]]
    OBVIOUS
  <2>4. [i \in 1 .. Len(l) |-> n[i]] = [i \in 1 .. Len(l) |-> l[i]]
    BY <1>1, Zenon
  <2>5. QED
    BY <2>1, <2>2, <2>3, <2>4, Zenon
<1>5. QED
  BY <1>3, <1>4 DEF n

\* The salt is a number.
LEMMA SaltIs ==
  ASSUME NEW S, NEW l \in Seq(S), NEW m
  PROVE  Salt(l, m) \in Nat
  BY DEF Salt

\* A tensor that is not quantized,
LEMMA PlainContent ==
  ASSUME NEW S, NEW l \in Seq(S), NEW f, NEW a, NEW m,
         f # "gguf", f \in {"fp8", "gptq", "affine"} => m # "q"
  PROVE  Content(f, a, Name(l, m, "weight")) = Original(f, l, m)
<1> DEFINE n == Name(l, m, "weight")
<1>1. LayerOf(n) = l /\ MatrixOf(n) = m /\ n[Len(n)] = "weight"
  BY Pieces
<1> HIDE DEF n
<1>2. Content(f, a, n) = Tensor(f, l, m, "weight")
  BY <1>1 DEF Content
<1>3. Tensor(f, l, m, "weight") = Original(f, l, m)
  BY DEF Tensor
<1>4. QED
  BY <1>2, <1>3 DEF n

\* one of llama.cpp,
LEMMA GgufContent ==
  ASSUME NEW S, NEW l \in Seq(S), NEW a, NEW g
  PROVE  Content("gguf", a, Name(l, g, "weight")) =
           Original("gguf", l, IF l # Embed THEN GgufMeaning(a, g) ELSE g)
<1> DEFINE n == Name(l, g, "weight")
           m == IF l # Embed THEN GgufMeaning(a, g) ELSE g
<1>1. LayerOf(n) = l /\ MatrixOf(n) = g /\ n[Len(n)] = "weight"
  BY Pieces
<1> HIDE DEF n
<1>2. Content("gguf", a, n) = Tensor("gguf", l, m, "weight")
  BY <1>1 DEF Content
<1> HIDE DEF m
<1>3. Tensor("gguf", l, m, "weight") = Original("gguf", l, m)
  BY DEF Tensor
<1>4. QED
  BY <1>2, <1>3 DEF n, m

\* and the quantized ones.
LEMMA QuantizedContent ==
  ASSUME NEW S, NEW l \in Seq(S), NEW a, NEW f, f # "gguf", NEW part
  PROVE  Content(f, a, Name(l, "q", part)) = Tensor(f, l, "q", part)
<1> DEFINE n == Name(l, "q", part)
<1>1. LayerOf(n) = l /\ MatrixOf(n) = "q" /\ n[Len(n)] = part
  BY Pieces
<1> HIDE DEF n
<1>2. Content(f, a, n) = Tensor(f, l, "q", part)
  BY <1>1 DEF Content
<1>3. QED
  BY <1>2 DEF n

\* What the three dequantizers make of the parts of a checkpoint is the matrix it
\* stands for: gptq,
LEMMA GptqContent ==
  ASSUME WeightsAssumption, NEW S, NEW l \in Seq(S), NEW a
  PROVE  Gptq(Content("gptq", a, Name(l, "q", "qweight")), Content("gptq", a, Name(l, "q", "scales")),
              Content("gptq", a, Name(l, "q", "qzeros")))
         = Original("gptq", l, "q")
<1> DEFINE s == Salt(l, "q")
<1>1. s \in Nat
  BY SaltIs
<1>2. /\ Content("gptq", a, Name(l, "q", "qweight")) = PackedColumns(s)
      /\ Content("gptq", a, Name(l, "q", "scales")) = ScaleColumns(s)
      /\ Content("gptq", a, Name(l, "q", "qzeros")) = PackedZeros(s)
  BY QuantizedContent DEF Tensor
<1>3. Original("gptq", l, "q") =
        [i \in 0 .. Outs - 1 |-> [j \in 0 .. Ins - 1 |->
           (Level(s, i, j) - Zero(s, i, j \div GroupSize)) * Scale(s, i, j \div GroupSize)]]
  BY DEF Original
<1> HIDE DEF s
<1>4. QED
  BY <1>1, <1>2, <1>3, GptqGives, Zenon

\* affine
LEMMA AffineContent ==
  ASSUME WeightsAssumption, NEW S, NEW l \in Seq(S), NEW a
  PROVE  Affine(Content("affine", a, Name(l, "q", "weight")), Content("affine", a, Name(l, "q", "scales")),
                Content("affine", a, Name(l, "q", "biases")))
         = Original("affine", l, "q")
<1> DEFINE s == Salt(l, "q")
<1>1. s \in Nat
  BY SaltIs
<1>2. /\ Content("affine", a, Name(l, "q", "weight")) = PackedRows(s)
      /\ Content("affine", a, Name(l, "q", "scales")) = ScaleRows(s)
      /\ Content("affine", a, Name(l, "q", "biases")) = BiasRows(s)
  BY QuantizedContent DEF Tensor
<1>3. Original("affine", l, "q") =
        [i \in 0 .. Outs - 1 |-> [j \in 0 .. Ins - 1 |->
           Level(s, i, j) * Scale(s, i, j \div GroupSize) + Bias(s, i, j \div GroupSize)]]
  BY DEF Original
<1> HIDE DEF s
<1>4. QED
  BY <1>1, <1>2, <1>3, AffineGives, Zenon

\* and fp8.
LEMMA Fp8Content ==
  ASSUME WeightsAssumption, Outs % BlockSize = 0, Ins % BlockSize = 0, NEW S, NEW l \in Seq(S), NEW a
  PROVE  Fp8(Content("fp8", a, Name(l, "q", "weight")), Content("fp8", a, Name(l, "q", "weight_scale_inv")))
         = Original("fp8", l, "q")
<1> DEFINE s == Salt(l, "q")
<1>1. /\ Content("fp8", a, Name(l, "q", "weight")) = LevelRows(s)
      /\ Content("fp8", a, Name(l, "q", "weight_scale_inv")) = BlockScales(s)
  BY QuantizedContent DEF Tensor
<1>2. Original("fp8", l, "q") =
        [i \in 0 .. Outs - 1 |-> [j \in 0 .. Ins - 1 |->
           Level(s, i, j) * Scale(s, i \div BlockSize, j \div BlockSize)]]
  BY DEF Original
<1> HIDE DEF s
<1>3. QED
  <2>1. Fp8(LevelRows(s), BlockScales(s)) =
          [i \in 0 .. Outs - 1 |-> [j \in 0 .. Ins - 1 |->
             Level(s, i, j) * Scale(s, i \div BlockSize, j \div BlockSize)]]
    BY Fp8Gives, Zenon
  <2>2. QED
    BY <1>1, <1>2, <2>1

\* A matrix is not what is answered for a tensor that is not there.
LEMMA NotMissing ==
  ASSUME WeightsAssumption, NEW f, NEW l, NEW m
  PROVE  Original(f, l, m) # <<>>
<1>1. 0 \in 0 .. Outs - 1
  BY Numbers
<1>2. DOMAIN Original(f, l, m) = 0 .. Outs - 1
  BY DEF Original
<1>3. DOMAIN <<>> = {}
  OBVIOUS
<1>4. QED
  BY <1>1, <1>2, <1>3

-----------------------------------------------------------------------------
(* The tensors of a checkpoint.                                            *)

\* The members of two sequences in a row.
LEMMA ConcatRange ==
  ASSUME NEW U, NEW a \in Seq(U), NEW b \in Seq(U)
  PROVE  a \o b \in Seq(U) /\ Range(a \o b) = Range(a) \cup Range(b)
<1> DEFINE c == a \o b
<1>1. /\ c \in Seq(U) /\ Len(c) = Len(a) + Len(b)
      /\ \A i \in 1 .. Len(a) + Len(b) : c[i] = IF i <= Len(a) THEN a[i] ELSE b[i - Len(a)]
  BY ConcatProperties, Zenon
<1> HIDE DEF c
<1>2. Len(a) \in Nat /\ Len(b) \in Nat /\ DOMAIN a = 1 .. Len(a) /\ DOMAIN b = 1 .. Len(b) /\ DOMAIN c = 1 .. Len(a) + Len(b)
  BY <1>1
<1>3. ASSUME NEW i \in DOMAIN c PROVE c[i] \in Range(a) \cup Range(b)
  <2>1. CASE i <= Len(a)
    <3>1. i \in DOMAIN a /\ c[i] = a[i]
      BY <1>1, <1>2, <2>1
    <3>2. QED
      BY <3>1 DEF Range
  <2>2. CASE ~ (i <= Len(a))
    <3>1. i - Len(a) \in DOMAIN b /\ c[i] = b[i - Len(a)]
      BY <1>1, <1>2, <2>2
    <3>2. QED
      BY <3>1 DEF Range
  <2>3. QED
    BY <2>1, <2>2
<1>4. ASSUME NEW i \in DOMAIN a PROVE a[i] \in Range(c)
  <2>1. i \in DOMAIN c /\ c[i] = a[i]
    BY <1>1, <1>2
  <2>2. QED
    BY <2>1, Zenon DEF Range
<1>5. ASSUME NEW i \in DOMAIN b PROVE b[i] \in Range(c)
  <2>1. Len(a) + i \in DOMAIN c /\ ~ (Len(a) + i <= Len(a)) /\ (Len(a) + i) - Len(a) = i
    BY <1>2
  <2>2. c[Len(a) + i] = b[i]
    BY <1>1, <1>2, <2>1
  <2>3. QED
    BY <2>1, <2>2, Zenon DEF Range
<1>6. Range(c) = Range(a) \cup Range(b)
  BY <1>3, <1>4, <1>5, Zenon DEF Range
<1>7. QED
  BY <1>1, <1>6 DEF c

\* The members of a sequence of sequences that is made one.
LEMMA FlattenRange ==
  ASSUME NEW U, NEW seqs \in Seq(Seq(U))
  PROVE  /\ FlattenSeq(seqs) \in Seq(U)
         /\ Range(FlattenSeq(seqs)) = UNION {Range(seqs[k]) : k \in DOMAIN seqs}
<1> DEFINE n == Len(seqs)
<1>0. n \in Nat /\ DOMAIN seqs = 1 .. n /\ \A k \in 1 .. n : seqs[k] \in Seq(U)
  OBVIOUS
<1>1. CASE n = 0
  <2>1. FlattenSeq(seqs) = seqs
    BY <1>1 DEF FlattenSeq
  <2>2. seqs = <<>>
    BY <1>1
  <2>3. Range(seqs) = {} /\ DOMAIN seqs = {}
    BY <2>2 DEF Range
  <2>4. QED
    BY <2>1, <2>2, <2>3
<1>2. CASE n # 0
  <2> DEFINE F(f) == [i \in 1 .. n |-> IF i = 1 THEN seqs[i] ELSE f[i - 1] \o seqs[i]]
             flatten == CHOOSE f : f = F(f)
             next == [p \in (1 .. n - 1) \X Seq(U) |-> p[2] \o seqs[p[1] + 1]]
  <2>1. FlattenSeq(seqs) = flatten[n]
    BY <1>2 DEF FlattenSeq
  <2>2. n - 1 \in Nat /\ 1 \in 1 .. n /\ \A k \in 1 .. n - 1 : k + 1 \in 1 .. n
    BY <1>0, <1>2
  <2> HIDE DEF n
  <2>3. next \in [(1 .. n - 1) \X Seq(U) -> Seq(U)]
    <3>1. ASSUME NEW k \in 1 .. n - 1, NEW r \in Seq(U) PROVE r \o seqs[k + 1] \in Seq(U)
      BY <1>0, <2>2, ConcatProperties
    <3>2. QED
      BY <3>1
  <2>4. \A k \in 1 .. n - 1, r \in Seq(U) : next[<<k, r>>] = r \o seqs[k + 1]
    OBVIOUS
  <2> HIDE DEF next
  <2>5. seqs[1] \in Seq(U)
    BY <1>0, <2>2
  <2>6. PICK h : Iterates(h, n - 1, Seq(U), seqs[1], next)
    BY <2>2, <2>3, <2>5, Recursion, Zenon
  <2> DEFINE f == [i \in 1 .. n |-> h[i - 1]]
  <2>7. \A i \in 1 .. n : f[i] = IF i = 1 THEN seqs[i] ELSE f[i - 1] \o seqs[i]
    <3> TAKE i \in 1 .. n
    <3>1. CASE i = 1
      BY <2>6, <3>1 DEF Iterates
    <3>2. CASE i # 1
      <4>1. i - 1 \in 1 .. n - 1 /\ i - 1 \in 1 .. n /\ (i - 1) + 1 = i /\ (i - 1) - 1 \in 0 .. n - 1
        BY <1>0, <3>2
      <4>2. h[(i - 1) - 1] \in Seq(U)
        BY <2>6, <4>1 DEF Iterates
      <4>3. h[i - 1] = h[(i - 1) - 1] \o seqs[i]
        BY <2>4, <2>6, <4>1, <4>2 DEF Iterates
      <4>4. f[i] = h[i - 1] /\ f[i - 1] = h[(i - 1) - 1]
        BY <4>1
      <4>5. QED
        BY <3>2, <4>3, <4>4
    <3>3. QED
      BY <3>1, <3>2
  <2>8. f = [i \in 1 .. n |-> f[i]]
    OBVIOUS
  <2> HIDE DEF f
  <2>9. f = F(f)
    BY <2>7, <2>8, Zenon
  <2>10. flatten = F(flatten)
    BY <2>9, Zenon
  <2> HIDE DEF flatten
  <2>11. \A i \in 1 .. n : flatten[i] = IF i = 1 THEN seqs[i] ELSE flatten[i - 1] \o seqs[i]
    BY <2>10, Zenon
  <2> DEFINE Upto(i) == UNION {Range(seqs[k]) : k \in 1 .. i}
             Good == {i \in 0 .. n : i # 0 => flatten[i] \in Seq(U) /\ Range(flatten[i]) = Upto(i)}
  <2>12. 0 \in Good
    BY <1>0
  <2>13. ASSUME NEW i \in 0 .. n, i # 0, i - 1 \in Good PROVE i \in Good
    <3>1. i \in 1 .. n /\ seqs[i] \in Seq(U)
      BY <1>0, <2>13
    <3>2. CASE i = 1
      <4>1. flatten[i] = seqs[i]
        BY <2>11, <3>1, <3>2
      <4>2. 1 .. i = {i}
        BY <3>2
      <4>3. Upto(i) = Range(seqs[i])
        BY <4>2
      <4>4. QED
        BY <3>1, <4>1, <4>3
    <3>3. CASE i # 1
      <4>1. flatten[i] = flatten[i - 1] \o seqs[i]
        BY <2>11, <3>1, <3>3
      <4>2. flatten[i - 1] \in Seq(U) /\ Range(flatten[i - 1]) = Upto(i - 1)
        BY <2>13, <3>1, <3>3
      <4>3. flatten[i] \in Seq(U) /\ Range(flatten[i]) = Range(flatten[i - 1]) \cup Range(seqs[i])
        BY <3>1, <4>1, <4>2, ConcatRange
      <4>4. 1 .. i = (1 .. i - 1) \cup {i}
        BY <1>0, <3>1
      <4>5. Upto(i) = Upto(i - 1) \cup Range(seqs[i])
        BY <4>4
      <4> HIDE DEF Upto
      <4>6. QED
        BY <4>2, <4>3, <4>5
    <3>4. QED
      BY <3>2, <3>3
  <2> HIDE DEF Good
  <2>14. 0 .. n \subseteq Good
    BY <1>0, <2>12, <2>13, AllUpTo
  <2>15. n \in 0 .. n
    BY <1>0
  <2>16. flatten[n] \in Seq(U) /\ Range(flatten[n]) = Upto(n)
    BY <1>2, <2>14, <2>15 DEF Good
  <2>17. QED
    BY <1>0, <2>1, <2>16
<1>3. QED
  BY <1>1, <1>2

\* All the layers, the embedding among them.
\* The layers, the embedding among them, and the pieces of their names.
Layers == {Embed} \cup Range(LayerSeq)
Letters == Digits \cup {"e"}

\* No piece of a layer is the dot.
LEMMA LayersAre ==
  ASSUME WeightsAssumption
  PROVE  /\ Layers \subseteq Seq(Letters) /\ Embed \notin Range(LayerSeq)
         /\ \A l \in Layers : \A i \in 1 .. Len(l) : l[i] # "."
<1>1. LayerSeq \in Seq(Seq(Digits))
  BY DEF WeightsAssumption
<1>2. Embed \in Seq(Letters) /\ Len(Embed) = 1 /\ Embed[1] = "e"
  BY DEF Embed, Letters
<1>3. ASSUME NEW l \in Range(LayerSeq) PROVE l \in Seq(Digits)
  BY <1>1 DEF Range
<1>4. ASSUME NEW l \in Seq(Digits) PROVE l \in Seq(Letters) /\ \A i \in 1 .. Len(l) : l[i] \in Digits
  BY DEF Letters
<1>5. "e" \notin Digits /\ "." \notin Digits /\ "." # "e"
  BY DEF Digits
<1>6. Embed \notin Range(LayerSeq)
  <2>1. SUFFICES ASSUME Embed \in Range(LayerSeq) PROVE FALSE
    OBVIOUS
  <2>2. 1 \in 1 .. Len(Embed)
    BY <1>2
  <2>3. Embed[1] \in Digits
    BY <1>3, <1>4, <2>1, <2>2
  <2>4. QED
    BY <1>2, <1>5, <2>3
<1>7. \A i \in 1 .. Len(Embed) : Embed[i] # "."
  <2>1. \A i \in 1 .. Len(Embed) : i = 1
    BY <1>2
  <2>2. QED
    BY <1>2, <1>5, <2>1
<1>8. \A l \in Range(LayerSeq) : l \in Seq(Letters) /\ \A i \in 1 .. Len(l) : l[i] # "."
  BY <1>3, <1>4, <1>5
<1>9. QED
  BY <1>2, <1>6, <1>7, <1>8 DEF Layers

\* The tensors of a layer, as a set.
\* The names of the tensors of a layer, and of a checkpoint.
TensorsOf(f, a, l) ==
  IF f = "gguf" THEN {Name(l, g, "weight") : g \in Range(GgufNames(a))}
  ELSE {Name(l, m, "weight") : m \in Range(NormsOf(a))} \cup {Name(l, "q", p) : p \in Range(Parts(f))}

\* The tensors of one layer,
LEMMA LayerTensorsAre ==
  ASSUME NEW f, NEW a, NEW l, NEW U, TensorsOf(f, a, l) \subseteq U
  PROVE  LayerTensors(f, a, l) \in Seq(U) /\ Range(LayerTensors(f, a, l)) = TensorsOf(f, a, l)
<1>0. \A x, y, z : DOMAIN <<x>> = 1 .. 1 /\ DOMAIN <<x, y>> = 1 .. 2 /\ DOMAIN <<x, y, z>> = 1 .. 3
  OBVIOUS
<1>1. \E n \in Nat : DOMAIN GgufNames(a) = 1 .. n
  <2>1. DOMAIN GgufNames(a) = 1 .. 2 \/ DOMAIN GgufNames(a) = 1 .. 3
    BY <1>0, Zenon DEF GgufNames
  <2>2. QED
    BY <2>1
<1>2. \E n \in Nat : DOMAIN NormsOf(a) = 1 .. n
  <2>1. DOMAIN NormsOf(a) = 1 .. 1 \/ DOMAIN NormsOf(a) = 1 .. 2
    BY <1>0, Zenon DEF NormsOf
  <2>2. QED
    BY <2>1
<1>3. \E n \in Nat : DOMAIN Parts(f) = 1 .. n
  <2>1. Parts(f) \in {<<"weight", "weight_scale_inv">>, <<"qweight", "qzeros", "scales">>,
                      <<"biases", "scales", "weight">>, <<"weight">>}
    BY DEF Parts
  <2>2. DOMAIN Parts(f) = 1 .. 1 \/ DOMAIN Parts(f) = 1 .. 2 \/ DOMAIN Parts(f) = 1 .. 3
    BY <1>0, <2>1
  <2>3. QED
    BY <2>2
<1>4. CASE f = "gguf"
  <2> DEFINE s == [k \in DOMAIN GgufNames(a) |-> Name(l, GgufNames(a)[k], "weight")]
  <2>1. LayerTensors(f, a, l) = s
    BY <1>4 DEF LayerTensors
  <2>2. TensorsOf(f, a, l) = Range(s)
    <3>1. Range(s) = {Name(l, GgufNames(a)[k], "weight") : k \in DOMAIN GgufNames(a)}
      BY DEF Range
    <3>2. Range(GgufNames(a)) = {GgufNames(a)[k] : k \in DOMAIN GgufNames(a)}
      BY DEF Range
    <3> HIDE DEF s
    <3>3. QED
      BY <1>4, <3>1, <3>2 DEF TensorsOf
  <2>3. \A k \in DOMAIN s : s[k] \in U
    BY <2>2 DEF Range
  <2>4. DOMAIN s = DOMAIN GgufNames(a) /\ s = [k \in DOMAIN s |-> s[k]]
    OBVIOUS
  <2> HIDE DEF s
  <2>5. s \in Seq(U)
    BY <1>1, <2>3, <2>4
  <2>6. QED
    BY <2>1, <2>2, <2>5
<1>5. CASE f # "gguf"
  <2> DEFINE s == [k \in DOMAIN NormsOf(a) |-> Name(l, NormsOf(a)[k], "weight")]
             t == [k \in DOMAIN Parts(f) |-> Name(l, "q", Parts(f)[k])]
  <2>1. LayerTensors(f, a, l) = s \o t
    BY <1>5 DEF LayerTensors
  <2>2. Range(s) = {Name(l, m, "weight") : m \in Range(NormsOf(a))}
    <3>1. Range(s) = {Name(l, NormsOf(a)[k], "weight") : k \in DOMAIN NormsOf(a)}
      BY DEF Range
    <3>2. Range(NormsOf(a)) = {NormsOf(a)[k] : k \in DOMAIN NormsOf(a)}
      BY DEF Range
    <3> HIDE DEF s
    <3>3. QED
      BY <3>1, <3>2
  <2>3. Range(t) = {Name(l, "q", p) : p \in Range(Parts(f))}
    <3>1. Range(t) = {Name(l, "q", Parts(f)[k]) : k \in DOMAIN Parts(f)}
      BY DEF Range
    <3>2. Range(Parts(f)) = {Parts(f)[k] : k \in DOMAIN Parts(f)}
      BY DEF Range
    <3> HIDE DEF t
    <3>3. QED
      BY <3>1, <3>2
  <2>4. /\ DOMAIN s = DOMAIN NormsOf(a) /\ s = [k \in DOMAIN s |-> s[k]]
        /\ DOMAIN t = DOMAIN Parts(f) /\ t = [k \in DOMAIN t |-> t[k]]
    OBVIOUS
  <2> HIDE DEF s, t
  <2>5. TensorsOf(f, a, l) = Range(s) \cup Range(t)
    BY <1>5, <2>2, <2>3 DEF TensorsOf
  <2>6. (\A k \in DOMAIN s : s[k] \in U) /\ (\A k \in DOMAIN t : t[k] \in U)
    BY <2>5, Zenon DEF Range
  <2>7. s \in Seq(U) /\ t \in Seq(U)
    BY <1>2, <1>3, <2>4, <2>6
  <2>8. QED
    BY <2>1, <2>5, <2>7, ConcatRange
<1>6. QED
  BY <1>4, <1>5

\* The tensors of a checkpoint.
Tensors(f, a) == {Name(Embed, "tok", "weight")} \cup UNION {TensorsOf(f, a, l) : l \in Range(LayerSeq)}

\* and of the checkpoint.
LEMMA StoredAre ==
  ASSUME WeightsAssumption, NEW f, NEW a
  PROVE  Range(Stored(f, a)) = Tensors(f, a)
<1> DEFINE U == Tensors(f, a)
           tok == Name(Embed, "tok", "weight")
           seqs == [k \in DOMAIN LayerSeq |-> LayerTensors(f, a, LayerSeq[k])]
<1>1. \E n \in Nat : DOMAIN LayerSeq = 1 .. n
  BY DEF WeightsAssumption
<1>2. ASSUME NEW k \in DOMAIN LayerSeq
      PROVE  seqs[k] \in Seq(U) /\ Range(seqs[k]) = TensorsOf(f, a, LayerSeq[k])
  <2>1. LayerSeq[k] \in Range(LayerSeq)
    BY DEF Range
  <2>2. TensorsOf(f, a, LayerSeq[k]) \subseteq U
    BY <2>1 DEF Tensors
  <2>3. seqs[k] = LayerTensors(f, a, LayerSeq[k])
    OBVIOUS
  <2> HIDE DEF U, seqs
  <2>4. QED
    BY <2>2, <2>3, LayerTensorsAre
<1>3. tok \in U
  BY DEF Tensors
<1>4. DOMAIN seqs = DOMAIN LayerSeq /\ seqs = [k \in DOMAIN seqs |-> seqs[k]]
  OBVIOUS
<1>5. Stored(f, a) = <<tok>> \o FlattenSeq(seqs)
  BY DEF Stored
<1> HIDE DEF U, seqs, tok
<1>6. seqs \in Seq(Seq(U))
  BY <1>1, <1>2, <1>4
<1>7. FlattenSeq(seqs) \in Seq(U) /\ Range(FlattenSeq(seqs)) = UNION {Range(seqs[k]) : k \in DOMAIN seqs}
  BY <1>6, FlattenRange
<1>8. <<tok>> \in Seq(U) /\ Range(<<tok>>) = {tok}
  BY <1>3 DEF Range
<1>9. Range(Stored(f, a)) = {tok} \cup UNION {Range(seqs[k]) : k \in DOMAIN seqs}
  <2>1. Range(<<tok>> \o FlattenSeq(seqs)) = Range(<<tok>>) \cup Range(FlattenSeq(seqs))
    BY <1>7, <1>8, ConcatRange
  <2>2. QED
    BY <1>5, <1>7, <1>8, <2>1, Zenon
<1>10. {Range(seqs[k]) : k \in DOMAIN seqs} = {TensorsOf(f, a, l) : l \in Range(LayerSeq)}
  <2>1. Range(LayerSeq) = {LayerSeq[k] : k \in DOMAIN LayerSeq}
    BY DEF Range
  <2>2. {Range(seqs[k]) : k \in DOMAIN seqs} = {TensorsOf(f, a, LayerSeq[k]) : k \in DOMAIN LayerSeq}
    BY <1>2, <1>4
  <2>3. QED
    BY <2>1, <2>2
<1>11. QED
  BY <1>9, <1>10 DEF Tensors, tok

\* A name begins with a layer and a dot when it is one of the layer's: layer 1 is
\* a prefix of layer 10, without the dot.
LEMMA WithinIs ==
  ASSUME WeightsAssumption, NEW Ls, Ls \subseteq Layers, NEW l \in Layers, NEW m, NEW p
  PROVE  Within(Ls, Name(l, m, p)) <=> l \in Ls
<1> DEFINE n == Name(l, m, p)
<1>1. Layers \subseteq Seq(Letters) /\ l \in Seq(Letters) /\ \A k \in Layers : \A i \in 1 .. Len(k) : k[i] # "."
  BY LayersAre
<1>2. PICK T : n \in Seq(T)
  BY <1>1, NameIs
<1>3. /\ Len(n) = Len(l) + 3 /\ (\A i \in 1 .. Len(l) : n[i] = l[i]) /\ n[Len(l) + 1] = "."
  BY <1>1, NameIs
<1> HIDE DEF n
<1>4. ASSUME NEW k \in Layers
      PROVE  IsPrefix(k \o <<".">>, n) <=> k = l
  <2> DEFINE u == k \o <<".">>
             V == Letters \cup {"."}
  <2>1. k \in Seq(V) /\ <<".">> \in Seq(V) /\ Len(<<".">>) = 1 /\ <<".">>[1] = "." /\ Len(k) \in Nat /\ Len(l) \in Nat
    BY <1>1
  <2> HIDE DEF V
  <2>2. /\ u \in Seq(V) /\ Len(u) = Len(k) + 1
        /\ \A i \in 1 .. Len(k) + 1 : u[i] = IF i <= Len(k) THEN k[i] ELSE <<".">>[i - Len(k)]
    BY <2>1, ConcatProperties
  <2>3. u[Len(k) + 1] = "." /\ \A i \in 1 .. Len(k) : u[i] = k[i]
    BY <2>1, <2>2
  <2> HIDE DEF u
  <2>4. IsPrefix(u, n) <=> Len(u) <= Len(n) /\ \A i \in 1 .. Len(u) : u[i] = n[i]
    <3>1. SubSeq(u, 1, Len(u)) = [i \in 1 .. Len(u) |-> u[i]]
      BY <2>2
    <3>2. Len(u) <= Len(n) => SubSeq(n, 1, Len(u)) = [i \in 1 .. Len(u) |-> n[i]]
      BY <1>2, <2>2
    <3>3. [i \in 1 .. Len(u) |-> u[i]] = [i \in 1 .. Len(u) |-> n[i]] <=> \A i \in 1 .. Len(u) : u[i] = n[i]
      BY Zenon
    <3>4. QED
      BY <3>1, <3>2, <3>3, Zenon DEF IsPrefix
  <2>5. ASSUME k = l PROVE IsPrefix(u, n)
    <3>1. Len(u) <= Len(n)
      BY <1>3, <2>1, <2>2, <2>5
    <3>2. ASSUME NEW i \in 1 .. Len(u) PROVE u[i] = n[i]
      BY <1>3, <2>1, <2>2, <2>3, <2>5
    <3>3. QED
      BY <2>4, <3>1, <3>2, Zenon
  <2>6. ASSUME IsPrefix(u, n) PROVE k = l
    <3>1. Len(u) <= Len(n) /\ \A i \in 1 .. Len(u) : u[i] = n[i]
      BY <2>4, <2>6
    <3>2. Len(k) = Len(l)
      <4>1. CASE Len(k) < Len(l)
        <5>1. Len(k) + 1 \in 1 .. Len(l) /\ Len(k) + 1 \in 1 .. Len(u)
          BY <2>1, <2>2, <4>1
        <5>2. n[Len(k) + 1] = l[Len(k) + 1] /\ n[Len(k) + 1] = "."
          BY <1>3, <2>3, <3>1, <5>1
        <5>3. QED
          BY <1>1, <5>1, <5>2
      <4>2. CASE Len(k) > Len(l)
        <5>1. Len(l) + 1 \in 1 .. Len(k) /\ Len(l) + 1 \in 1 .. Len(u)
          BY <2>1, <2>2, <4>2
        <5>2. n[Len(l) + 1] = k[Len(l) + 1]
          BY <2>3, <3>1, <5>1
        <5>3. QED
          BY <1>1, <1>3, <5>1, <5>2
      <4>3. QED
        BY <2>1, <4>1, <4>2
    <3>3. \A i \in 1 .. Len(k) : k[i] = l[i]
      <4> TAKE i \in 1 .. Len(k)
      <4>1. i \in 1 .. Len(u) /\ i \in 1 .. Len(l)
        BY <2>1, <2>2, <3>2
      <4>2. QED
        BY <1>3, <2>3, <3>1, <4>1
    <3>4. k = [i \in 1 .. Len(k) |-> k[i]] /\ l = [i \in 1 .. Len(l) |-> l[i]]
      BY <1>1
    <3>5. QED
      BY <3>2, <3>3, <3>4, Zenon
  <2>7. QED
    BY <2>5, <2>6 DEF u
<1>5. QED
  BY <1>4, Zenon DEF Within, n

-----------------------------------------------------------------------------
(* The layers of a GPU.                                                    *)

\* What Among computes, member by member.
Selects(f, s, S, T) ==
  /\ f \in [0 .. Len(s) -> Seq(T)] /\ f[0] = <<>>
  /\ \A i \in 1 .. Len(s) : f[i] = IF s[i] \in S THEN Append(f[i - 1], s[i]) ELSE f[i - 1]
SelectsIts(s, S, T) == \E f : Selects(f, s, S, T) /\ Among(s, S) = f[Len(s)]

LEMMA AmongSelects ==
  ASSUME NEW T, NEW s \in Seq(T), NEW S
  PROVE  SelectsIts(s, S, T)
<1> DEFINE N == Len(s)
           F(f) == [i \in 0 .. N |-> IF i = 0 THEN <<>>
                                     ELSE IF s[i] \in S THEN Append(f[i - 1], s[i]) ELSE f[i - 1]]
           upTo == CHOOSE f : f = F(f)
           next == [p \in (1 .. N) \X Seq(T) |-> IF s[p[1]] \in S THEN Append(p[2], s[p[1]]) ELSE p[2]]
<1>0. N \in Nat /\ DOMAIN s = 1 .. N /\ \A i \in 1 .. N : s[i] \in T
  OBVIOUS
<1>1. Among(s, S) = upTo[N]
  BY DEF Among
<1> HIDE DEF N
<1>2. next \in [(1 .. N) \X Seq(T) -> Seq(T)]
  <2>1. \A i \in 1 .. N, r \in Seq(T) : Append(r, s[i]) \in Seq(T)
    BY <1>0
  <2>2. QED
    BY <2>1
<1>3. \A i \in 1 .. N, r \in Seq(T) : next[<<i, r>>] = IF s[i] \in S THEN Append(r, s[i]) ELSE r
  OBVIOUS
<1> HIDE DEF next
<1>4. <<>> \in Seq(T)
  OBVIOUS
<1>5. PICK f : Iterates(f, N, Seq(T), <<>>, next)
  BY <1>0, <1>2, <1>4, Recursion, Zenon
<1>6. \A i \in 1 .. N : f[i] = IF s[i] \in S THEN Append(f[i - 1], s[i]) ELSE f[i - 1]
  <2>1. \A i \in 1 .. N : f[i - 1] \in Seq(T)
    BY <1>0, <1>5 DEF Iterates
  <2>2. QED
    BY <1>3, <1>5, <2>1 DEF Iterates
<1>7. f = F(f)
  <2>1. f = [i \in 0 .. N |-> f[i]]
    BY <1>5 DEF Iterates
  <2>2. \A i \in 0 .. N : f[i] = IF i = 0 THEN <<>>
                                 ELSE IF s[i] \in S THEN Append(f[i - 1], s[i]) ELSE f[i - 1]
    <3> TAKE i \in 0 .. N
    <3>1. f[0] = <<>>
      BY <1>5 DEF Iterates
    <3>2. i # 0 => i \in 1 .. N
      BY <1>0
    <3>3. QED
      BY <1>6, <3>1, <3>2, Zenon
  <2>3. QED
    BY <2>1, <2>2, Zenon
<1>8. upTo = F(upTo)
  BY <1>7, Zenon
<1> HIDE DEF upTo
<1>9. \A i \in 0 .. N : upTo[i] = IF i = 0 THEN <<>>
                                  ELSE IF s[i] \in S THEN Append(upTo[i - 1], s[i]) ELSE upTo[i - 1]
  BY <1>8, Zenon
<1>10. DOMAIN upTo = 0 .. N /\ upTo = [i \in 0 .. N |-> upTo[i]]
  <2>1. upTo = [i \in 0 .. N |-> IF i = 0 THEN <<>>
                                 ELSE IF s[i] \in S THEN Append(upTo[i - 1], s[i]) ELSE upTo[i - 1]]
    BY <1>8
  <2>2. QED
    BY <2>1, <1>9, Zenon
<1> DEFINE Good == {i \in 0 .. N : upTo[i] \in Seq(T)}
<1>11. 0 \in Good
  <2>1. 0 \in 0 .. N /\ upTo[0] = <<>>
    BY <1>0, <1>9
  <2>2. QED
    BY <1>4, <2>1
<1>12. ASSUME NEW i \in 0 .. N, i # 0, i - 1 \in Good PROVE i \in Good
  <2>1. i \in 1 .. N /\ upTo[i - 1] \in Seq(T) /\ s[i] \in T
    BY <1>0, <1>12
  <2>2. upTo[i] = IF s[i] \in S THEN Append(upTo[i - 1], s[i]) ELSE upTo[i - 1]
    BY <1>9, <1>12
  <2>3. \A r \in Seq(T), x \in T : Append(r, x) \in Seq(T)
    OBVIOUS
  <2>4. upTo[i] \in Seq(T)
    BY <2>1, <2>2, <2>3, Zenon
  <2>5. QED
    BY <2>4
<1>13. 0 .. N \subseteq Good
  <2> HIDE DEF Good
  <2>1. QED
    BY <1>0, <1>11, <1>12, AllUpTo
<1>14. upTo \in [0 .. N -> Seq(T)]
  BY <1>10, <1>13
<1>15. \A i \in 1 .. N : i \in 0 .. N /\ i # 0
  BY <1>0
<1>16. upTo[0] = <<>>
  BY <1>0, <1>9
<1>17. Selects(upTo, s, S, T)
  BY <1>9, <1>14, <1>15, <1>16, Zenon DEF Selects, N
<1>18. QED
  BY <1>1, <1>17 DEF SelectsIts, N

\* The selection from two sequences in a row.
Joins(s, t, S, T) ==
  /\ Among(s, S) \in Seq(T) /\ Among(t, S) \in Seq(T)
  /\ Among(s \o t, S) = Among(s, S) \o Among(t, S)

LEMMA AmongConcat ==
  ASSUME NEW T, NEW s \in Seq(T), NEW t \in Seq(T), NEW S
  PROVE  Joins(s, t, S, T)
<1> DEFINE w == s \o t
<1>1. /\ w \in Seq(T) /\ Len(w) = Len(s) + Len(t) /\ Len(s) \in Nat /\ Len(t) \in Nat
      /\ \A i \in 1 .. Len(s) : w[i] = s[i]
      /\ \A i \in 1 .. Len(t) : w[Len(s) + i] = t[i] /\ t[i] \in T
  OBVIOUS
<1> HIDE DEF w
<1>2. PICK f : Selects(f, s, S, T) /\ Among(s, S) = f[Len(s)]
  BY AmongSelects DEF SelectsIts
<1>3. PICK g : Selects(g, t, S, T) /\ Among(t, S) = g[Len(t)]
  BY AmongSelects DEF SelectsIts
<1>4. PICK h : Selects(h, w, S, T) /\ Among(w, S) = h[Len(w)]
  <2>1. SelectsIts(w, S, T)
    BY <1>1, AmongSelects, Zenon
  <2>2. QED
    BY <2>1 DEF SelectsIts
<1> DEFINE n == Len(s)
           m == Len(t)
           One == {i \in 0 .. n : h[i] = f[i]}
           Two == {i \in 0 .. m : h[n + i] = f[n] \o g[i]}
<1>5. n \in Nat /\ m \in Nat /\ Len(w) = n + m
  BY <1>1
<1>6. /\ f \in [0 .. n -> Seq(T)] /\ g \in [0 .. m -> Seq(T)]
      /\ f[0] = <<>> /\ g[0] = <<>> /\ h[0] = <<>>
      /\ \A i \in 1 .. n : f[i] = IF s[i] \in S THEN Append(f[i - 1], s[i]) ELSE f[i - 1]
      /\ \A i \in 1 .. m : g[i] = IF t[i] \in S THEN Append(g[i - 1], t[i]) ELSE g[i - 1]
      /\ \A i \in 1 .. n + m : h[i] = IF w[i] \in S THEN Append(h[i - 1], w[i]) ELSE h[i - 1]
  BY <1>1, <1>2, <1>3, <1>4 DEF Selects
<1>7. \A i \in 1 .. n : w[i] = s[i]
  BY <1>1
<1>8. \A i \in 1 .. m : w[n + i] = t[i] /\ t[i] \in T
  BY <1>1
<1> HIDE DEF n, m
<1>9. 0 .. n \subseteq One
  <2>1. 0 \in One
    BY <1>5, <1>6
  <2>2. ASSUME NEW i \in 0 .. n, i # 0, i - 1 \in One PROVE i \in One
    <3>1. i \in 1 .. n /\ i \in 1 .. n + m /\ h[i - 1] = f[i - 1]
      BY <1>5, <2>2
    <3>2. QED
      BY <1>6, <1>7, <3>1
  <2> HIDE DEF One
  <2>3. QED
    BY <1>5, <2>1, <2>2, AllUpTo
<1>10. f[n] \in Seq(T) /\ h[n] = f[n] /\ \A i \in 0 .. m : g[i] \in Seq(T)
  BY <1>5, <1>6, <1>9
<1>11. 0 .. m \subseteq Two
  <2>1. 0 \in Two
    <3>1. f[n] \o g[0] = f[n] /\ n + 0 = n /\ 0 \in 0 .. m
      <4>1. f[n] \o <<>> = f[n]
        BY <1>10, ConcatEmptySeq
      <4>2. QED
        BY <1>5, <1>6, <4>1
    <3>2. h[n + 0] = f[n] \o g[0]
      BY <1>10, <3>1
    <3>3. QED
      BY <3>1, <3>2
  <2>2. ASSUME NEW i \in 0 .. m, i # 0, i - 1 \in Two PROVE i \in Two
    <3>1. i \in 1 .. m /\ n + i \in 1 .. n + m /\ (n + i) - 1 = n + (i - 1)
      BY <1>5, <2>2
    <3>2. h[n + i] = IF t[i] \in S THEN Append(h[n + (i - 1)], t[i]) ELSE h[n + (i - 1)]
      BY <1>6, <1>8, <3>1
    <3>3. h[n + (i - 1)] = f[n] \o g[i - 1] /\ g[i - 1] \in Seq(T) /\ t[i] \in T
      BY <1>5, <1>8, <1>10, <2>2, <3>1
    <3>4. Append(f[n] \o g[i - 1], t[i]) = f[n] \o Append(g[i - 1], t[i])
      <4> DEFINE a == f[n]
                 b == g[i - 1]
                 x == t[i]
      <4>1. a \in Seq(T) /\ b \in Seq(T) /\ x \in T
        BY <1>10, <3>3
      <4> HIDE DEF a, b, x
      <4>2. <<x>> \in Seq(T) /\ a \o b \in Seq(T) /\ Append(b, x) = b \o <<x>> /\ Append(a \o b, x) = (a \o b) \o <<x>>
        BY <4>1, ConcatProperties, AppendIsConcat
      <4>3. (a \o b) \o <<x>> = a \o (b \o <<x>>)
        BY <4>1, <4>2, ConcatAssociative
      <4>4. Append(a \o b, x) = a \o Append(b, x)
        BY <4>2, <4>3
      <4>5. QED
        BY <4>4 DEF a, b, x
    <3>5. g[i] = IF t[i] \in S THEN Append(g[i - 1], t[i]) ELSE g[i - 1]
      BY <1>6, <3>1
    <3>6. QED
      BY <3>2, <3>3, <3>4, <3>5
  <2> HIDE DEF Two
  <2>3. QED
    BY <1>5, <2>1, <2>2, AllUpTo
<1>12. h[n + m] = f[n] \o g[m] /\ g[m] \in Seq(T)
  <2>1. m \in 0 .. m
    BY <1>5
  <2>2. m \in Two
    BY <1>11, <2>1
  <2>3. QED
    BY <1>10, <2>1, <2>2
<1>13. QED
  BY <1>2, <1>3, <1>4, <1>5, <1>10, <1>12 DEF w, n, m, Joins

\* When all are selected, and when none is.
LEMMA AmongAll ==
  ASSUME NEW T, NEW s \in Seq(T), NEW S, \A i \in 1 .. Len(s) : s[i] \in S
  PROVE  Among(s, S) = s
<1>1. PICK f : Selects(f, s, S, T) /\ Among(s, S) = f[Len(s)]
  BY AmongSelects DEF SelectsIts
<1> DEFINE n == Len(s)
           Good == {i \in 0 .. n : Len(f[i]) = i /\ \A k \in 1 .. i : f[i][k] = s[k]}
<1>2. n \in Nat /\ \A i \in 1 .. n : s[i] \in T /\ s[i] \in S
  OBVIOUS
<1>3. /\ f \in [0 .. n -> Seq(T)] /\ f[0] = <<>>
      /\ \A i \in 1 .. n : f[i] = Append(f[i - 1], s[i])
  BY <1>1, <1>2 DEF Selects
<1> HIDE DEF n
<1>4. 0 \in Good
  <2>1. 0 \in 0 .. n /\ Len(f[0]) = 0 /\ 1 .. 0 = {}
    BY <1>2, <1>3
  <2>2. QED
    BY <2>1
<1>5. ASSUME NEW i \in 0 .. n, i # 0, i - 1 \in Good PROVE i \in Good
  <2>0. i \in 1 .. n /\ i - 1 \in 0 .. n
    BY <1>2, <1>5
  <2>1. i \in 1 .. n /\ f[i - 1] \in Seq(T) /\ f[i] = Append(f[i - 1], s[i]) /\ s[i] \in T
    BY <1>2, <1>3, <2>0
  <2>2. Len(f[i - 1]) = i - 1 /\ \A k \in 1 .. i - 1 : f[i - 1][k] = s[k]
    BY <1>5
  <2>3. Len(f[i]) = i
    BY <2>1, <2>2
  <2>4. \A k \in 1 .. i : f[i][k] = s[k]
    BY <2>1, <2>2
  <2>5. QED
    BY <2>3, <2>4
<1>6. 0 .. n \subseteq Good
  <2> HIDE DEF Good
  <2>1. QED
    BY <1>2, <1>4, <1>5, AllUpTo
<1>7. f[n] \in Seq(T) /\ Len(f[n]) = n /\ \A k \in 1 .. n : f[n][k] = s[k]
  BY <1>2, <1>3, <1>6
<1>8. f[n] = s
  BY <1>7 DEF n
<1>9. QED
  BY <1>1, <1>8 DEF n

LEMMA AmongNone ==
  ASSUME NEW T, NEW s \in Seq(T), NEW S, \A i \in 1 .. Len(s) : s[i] \notin S
  PROVE  Among(s, S) = <<>>
<1>1. PICK f : Selects(f, s, S, T) /\ Among(s, S) = f[Len(s)]
  BY AmongSelects DEF SelectsIts
<1> DEFINE n == Len(s)
           Good == {i \in 0 .. n : f[i] = <<>>}
<1>2. n \in Nat /\ f[0] = <<>> /\ \A i \in 1 .. n : f[i] = f[i - 1]
  BY <1>1 DEF Selects
<1> HIDE DEF n
<1>3. 0 \in Good
  BY <1>2
<1>4. ASSUME NEW i \in 0 .. n, i # 0, i - 1 \in Good PROVE i \in Good
  BY <1>2, <1>4
<1>5. 0 .. n \subseteq Good
  <2> HIDE DEF Good
  <2>1. QED
    BY <1>2, <1>3, <1>4, AllUpTo
<1>6. QED
  BY <1>1, <1>2, <1>5 DEF n

\* Only what is selected of the members of s matters.
LEMMA AmongSame ==
  ASSUME NEW T, NEW s \in Seq(T), NEW S, NEW R, \A i \in 1 .. Len(s) : s[i] \in S <=> s[i] \in R
  PROVE  Among(s, S) = Among(s, R)
<1>1. PICK f : Selects(f, s, S, T) /\ Among(s, S) = f[Len(s)]
  BY AmongSelects DEF SelectsIts
<1>2. PICK g : Selects(g, s, R, T) /\ Among(s, R) = g[Len(s)]
  BY AmongSelects DEF SelectsIts
<1> DEFINE n == Len(s)
           Good == {i \in 0 .. n : f[i] = g[i]}
<1>3. /\ n \in Nat /\ f[0] = <<>> /\ g[0] = <<>>
      /\ \A i \in 1 .. n : f[i] = IF s[i] \in S THEN Append(f[i - 1], s[i]) ELSE f[i - 1]
      /\ \A i \in 1 .. n : g[i] = IF s[i] \in S THEN Append(g[i - 1], s[i]) ELSE g[i - 1]
  <2>1. n \in Nat /\ f[0] = <<>> /\ g[0] = <<>>
    BY <1>1, <1>2 DEF Selects
  <2>2. \A i \in 1 .. n : f[i] = IF s[i] \in S THEN Append(f[i - 1], s[i]) ELSE f[i - 1]
    BY <1>1 DEF Selects
  <2>3. ASSUME NEW i \in 1 .. n
        PROVE  g[i] = IF s[i] \in S THEN Append(g[i - 1], s[i]) ELSE g[i - 1]
    <3>1. g[i] = IF s[i] \in R THEN Append(g[i - 1], s[i]) ELSE g[i - 1]
      BY <1>2, <2>3 DEF Selects
    <3>2. s[i] \in S <=> s[i] \in R
      OBVIOUS
    <3>3. QED
      BY <3>1, <3>2
  <2>4. QED
    BY <2>1, <2>2, <2>3
<1> HIDE DEF n
<1>4. 0 \in Good
  BY <1>3
<1>5. ASSUME NEW i \in 0 .. n, i # 0, i - 1 \in Good PROVE i \in Good
  BY <1>3, <1>5
<1>6. 0 .. n \subseteq Good
  <2> HIDE DEF Good
  <2>1. QED
    BY <1>3, <1>4, <1>5, AllUpTo
<1>7. QED
  BY <1>1, <1>2, <1>3, <1>6 DEF n

\* Among(s, S) has the members of s that are in S.
LEMMA AmongIs ==
  ASSUME NEW T, NEW s \in Seq(T), NEW S
  PROVE  Among(s, S) \in Seq(T) /\ Range(Among(s, S)) = Range(s) \cap S
<1> DEFINE N == Len(s)
<1>0. N \in Nat /\ DOMAIN s = 1 .. N /\ \A i \in 1 .. N : s[i] \in T
  OBVIOUS
<1>1. PICK f : Selects(f, s, S, T) /\ Among(s, S) = f[N]
  BY AmongSelects DEF SelectsIts
<1>9. /\ f \in [0 .. N -> Seq(T)] /\ f[0] = <<>>
      /\ \A i \in 1 .. N : f[i] = IF s[i] \in S THEN Append(f[i - 1], s[i]) ELSE f[i - 1]
  BY <1>1 DEF Selects
<1> HIDE DEF N
<1> DEFINE Upto(i) == {s[k] : k \in 1 .. i} \cap S
           Good == {i \in 0 .. N : Range(f[i]) = Upto(i)}
<1>10. 0 \in Good
  <2>1. f[0] = <<>> /\ 0 \in 0 .. N
    BY <1>0, <1>9
  <2>2. Range(<<>>) = {} /\ Upto(0) = {}
    BY DEF Range
  <2>3. QED
    BY <2>1, <2>2
<1>11. ASSUME NEW i \in 0 .. N, i # 0, i - 1 \in Good PROVE i \in Good
  <2>0. i \in 1 .. N /\ i - 1 \in 0 .. N
    BY <1>0, <1>11
  <2>1. i \in 1 .. N /\ f[i - 1] \in Seq(T) /\ Range(f[i - 1]) = Upto(i - 1) /\ s[i] \in T
    <3>1. Range(f[i - 1]) = Upto(i - 1)
      BY <1>11
    <3>2. f[i - 1] \in Seq(T)
      BY <1>9, <2>0
    <3>3. s[i] \in T
      BY <1>0, <2>0
    <3>4. QED
      BY <2>0, <3>1, <3>2, <3>3
  <2>2. Upto(i) = Upto(i - 1) \cup ({s[i]} \cap S)
    <3>1. 1 .. i = (1 .. i - 1) \cup {i}
      BY <1>0, <2>1
    <3>2. QED
      BY <3>1
  <2>3. ASSUME NEW r \in Seq(T), NEW x \in T
        PROVE  Append(r, x) \in Seq(T) /\ Range(Append(r, x)) = Range(r) \cup {x}
    <3>1. Append(r, x) = r \o <<x>> /\ <<x>> \in Seq(T)
      OBVIOUS
    <3>2. Range(<<x>>) = {x}
      BY DEF Range
    <3>3. r \o <<x>> \in Seq(T) /\ Range(r \o <<x>>) = Range(r) \cup Range(<<x>>)
      BY <3>1, ConcatRange, Zenon
    <3>4. QED
      BY <3>1, <3>2, <3>3, Zenon
  <2> HIDE DEF Upto
  <2>4. CASE s[i] \in S
    <3>1. f[i] = Append(f[i - 1], s[i])
      BY <1>9, <2>1, <2>4
    <3>2. Range(f[i]) = Upto(i - 1) \cup {s[i]}
      BY <2>1, <2>3, <3>1
    <3>3. {s[i]} \cap S = {s[i]}
      BY <2>4
    <3>4. QED
      BY <2>2, <3>2, <3>3
  <2>5. CASE s[i] \notin S
    <3>1. f[i] = f[i - 1]
      BY <1>9, <2>1, <2>5
    <3>2. QED
      BY <2>1, <2>2, <2>5, <3>1
  <2>6. QED
    BY <2>4, <2>5
<1>12. 0 .. N \subseteq Good
  <2> HIDE DEF Good
  <2>1. QED
    BY <1>0, <1>10, <1>11, AllUpTo
<1>13. N \in 0 .. N /\ Range(s) = {s[k] : k \in 1 .. N}
  BY <1>0 DEF Range
<1>14. Range(f[N]) = Upto(N) /\ f[N] \in Seq(T)
  BY <1>9, <1>12, <1>13
<1>15. QED
  BY <1>1, <1>13, <1>14

\* The GPU of the layer k of n.
LEMMA GpuIs ==
  ASSUME NEW c \in Nat \ {0}, NEW n \in Nat \ {0}, NEW k \in 1 .. n
  PROVE  ((k - 1) * c) \div n \in 0 .. c - 1
<1>1. c * n \in Nat /\ (c * n) \div n = c /\ (c * n) % n = 0
  OBVIOUS
<1>2. (k - 1) * c \in Nat /\ c * n = (k - 1) * c + (n - (k - 1)) * c
  OBVIOUS
<1>3. (n - (k - 1)) * c \in Nat \ {0}
  OBVIOUS
<1>4. (k - 1) * c \in 0 .. c * n - 1
  BY <1>1, <1>2, <1>3
<1>5. ((k - 1) * c) \div n \in 0 .. ((c * n) \div n) - 1
  BY <1>1, <1>4, Piece, Zenon
<1>6. QED
  BY <1>1, <1>5

\* Every layer of the worker is on one of its GPUs.
LEMMA LayersOnAre ==
  ASSUME WeightsAssumption, owned \subseteq Range(LayerSeq)
  PROVE  /\ \A g : LayersOn(g) \in Seq(Range(LayerSeq)) /\ Range(LayersOn(g)) \subseteq owned
         /\ \A l \in owned : \E g \in Gpu : l \in Range(LayersOn(g))
<1> DEFINE mine == Among(LayerSeq, owned)
           gpus == IF Len(mine) > 1 THEN NumGpus ELSE 1
           Share(g) == {mine[k] : k \in {j \in DOMAIN mine : ((j - 1) * gpus) \div Len(mine) = g}}
<1>1. LayerSeq \in Seq(Range(LayerSeq))
  <2>1. LayerSeq \in Seq(Seq(Digits))
    BY DEF WeightsAssumption
  <2>2. \A k \in DOMAIN LayerSeq : LayerSeq[k] \in Range(LayerSeq)
    BY DEF Range
  <2>3. QED
    BY <2>1, <2>2
<1>2. mine \in Seq(Range(LayerSeq)) /\ Range(mine) = owned
  <2>1. mine \in Seq(Range(LayerSeq)) /\ Range(mine) = Range(LayerSeq) \cap owned
    BY <1>1, AmongIs, Zenon
  <2> HIDE DEF mine
  <2>2. QED
    BY <2>1
<1>3. \A g : LayersOn(g) = Among(mine, Share(g))
  BY DEF LayersOn
<1> HIDE DEF mine
<1>4. gpus \in Nat \ {0} /\ gpus <= NumGpus
  BY Numbers
<1> HIDE DEF gpus
<1>5. \A g : LayersOn(g) \in Seq(Range(LayerSeq)) /\ Range(LayersOn(g)) = owned \cap Share(g)
  <2> TAKE g
  <2> HIDE DEF Share
  <2>1. Among(mine, Share(g)) \in Seq(Range(LayerSeq)) /\ Range(Among(mine, Share(g))) = Range(mine) \cap Share(g)
    BY <1>2, AmongIs, Zenon
  <2>2. QED
    BY <1>2, <1>3, <2>1, Zenon
<1>6. ASSUME NEW l \in owned PROVE \E g \in Gpu : l \in Range(LayersOn(g))
  <2>1. PICK k \in DOMAIN mine : mine[k] = l
    BY <1>2 DEF Range
  <2>2. Len(mine) \in Nat \ {0} /\ k \in 1 .. Len(mine)
    BY <1>2
  <2> DEFINE g == ((k - 1) * gpus) \div Len(mine)
  <2>3. g \in 0 .. gpus - 1
    BY <1>4, <2>2, GpuIs, Zenon
  <2>4. l \in Share(g)
    BY <2>1
  <2> HIDE DEF g, Share
  <2>5. g \in Gpu
    BY <1>4, <2>3, Numbers DEF Gpu
  <2>6. QED
    BY <1>5, <2>4, <2>5
<1> HIDE DEF Share
<1>7. QED
  BY <1>5, <1>6

-----------------------------------------------------------------------------
(* The invariant.                                                          *)

\* The layers that can be loaded.
Loads(l) == l = Embed \/ ~Unloadable

\* The layers a role loads, and the tensors they need.
Mine == IF role = "worker" THEN owned ELSE Layers \ owned
AllOf(l) == IF l = Embed THEN {Name(Embed, "tok", "weight")} ELSE TensorsOf(format, arch, l)
NamesOf(Ls) == UNION {{Name(l, m, "weight") : m \in MatricesOf(l)} : l \in Ls}

\* What GPU g is given suffices for the layers it has to load and can load.
Supplied(g) ==
  IF format = "gguf"
  THEN /\ \A n \in DOMAIN layout : Loads(LayerOf(n)) =>
                                   HfName(n) \in DOMAIN served[g] /\ served[g][HfName(n)] = n
       /\ \A n \in DOMAIN served[g] : MatrixOf(n) # "pre_feedforward"
  ELSE /\ DOMAIN served[g] \subseteq Tensors(format, arch)
       /\ \A n \in DOMAIN served[g] : served[g][n] = n
       /\ \A l \in Range(todo[g]) : AllOf(l) \subseteq DOMAIN served[g]

\* What is on disk has all that a role needs; once it is opened, what a GPU is given
\* suffices for the layers left to it, and what is loaded and those layers make up the
\* layers of the role; and every matrix loaded is right.
WInv ==
  /\ format \in Formats /\ arch \in Archs /\ owned \in Owners /\ role \in {"master", "worker"}
  /\ phase \in {"disk", "load", "done", "failed"} /\ (phase = "failed" => Stranded \/ Unloadable)
  /\ Stranded => phase \in {"disk", "failed"}
  /\ DOMAIN layout \subseteq Tensors(format, arch) /\ \A l \in Mine : AllOf(l) \subseteq DOMAIN layout
  /\ phase = "disk" => loaded = <<>>
  /\ phase \in {"load", "done"} =>
       /\ DOMAIN todo = Gpu
       /\ \A g \in Gpu : todo[g] \in Seq(Mine) /\ Supplied(g)
       /\ DOMAIN loaded \cup NamesOf(UNION {Range(todo[g]) : g \in Gpu}) = NamesOf(Mine)
  /\ phase = "done" => \A g \in Gpu : todo[g] = <<>>
  /\ phase # "failed" =>
       \A n \in DOMAIN loaded : loaded[n] = Original(format, LayerOf(n), MatrixOf(n))

\* A checkpoint as it is found.
LEMMA InitWeights == WeightsAssumption /\ WeightsInit => WInv
<1> SUFFICES ASSUME WeightsAssumption, WeightsInit PROVE WInv
  OBVIOUS
<1>1. DOMAIN layout = Tensors(format, arch)
  <2>1. DOMAIN layout = Range(Stored(format, arch))
    BY DEF WeightsInit, Layouts
  <2>2. QED
    BY <2>1, StoredAre
<1>2. owned \subseteq Range(LayerSeq)
  BY DEF WeightsInit, WeightsAssumption
<1>3. ASSUME NEW l \in Mine PROVE AllOf(l) \subseteq Tensors(format, arch)
  <2>1. l = Embed \/ l \in Range(LayerSeq)
    BY <1>2 DEF Mine, Layers
  <2>2. QED
    BY <2>1 DEF AllOf, Tensors
<1>4. loaded = <<>> /\ DOMAIN loaded = {}
  BY DEF WeightsInit
<1>5. QED
  BY <1>1, <1>3, <1>4 DEF WeightsInit, WInv

\* The layer of a tensor, and which of its matrices is stored in parts.
LEMMA TensorIs ==
  ASSUME WeightsAssumption, NEW f, NEW a, NEW t \in Tensors(f, a)
  PROVE  \E l \in Layers : \E m, p :
           /\ t = Name(l, m, p) /\ (p = "weight" \/ (m = "q" /\ f # "gguf"))
           /\ l = Embed => m = "tok" /\ p = "weight"
           /\ l # Embed /\ f = "gguf" => m \in Range(GgufNames(a))
<1>1. CASE t = Name(Embed, "tok", "weight")
  <2>1. Embed \in Layers
    BY DEF Layers
  <2>2. QED
    BY <1>1, <2>1, Zenon
<1>2. CASE t # Name(Embed, "tok", "weight")
  <2>1. PICK l \in Range(LayerSeq) : t \in TensorsOf(f, a, l)
    BY <1>2 DEF Tensors
  <2>2. l \in Layers /\ l # Embed
    BY LayersAre DEF Layers
  <2>3. CASE f = "gguf"
    <3>1. PICK g \in Range(GgufNames(a)) : t = Name(l, g, "weight")
      BY <2>1, <2>3 DEF TensorsOf
    <3>2. QED
      BY <2>2, <2>3, <3>1, Zenon
  <2>4. CASE f # "gguf"
    <3>1. (\E m : t = Name(l, m, "weight")) \/ (\E p : t = Name(l, "q", p))
      BY <2>1, <2>4 DEF TensorsOf
    <3>2. QED
      BY <2>2, <2>4, <3>1, Zenon
  <2>5. QED
    BY <2>3, <2>4
<1>3. QED
  BY <1>1, <1>2

\* The pieces of a name tell it from others.
LEMMA SameName ==
  ASSUME WeightsAssumption, NEW l \in Layers, NEW k \in Layers, NEW m, NEW o, NEW p, NEW q,
         Name(l, m, p) = Name(k, o, q)
  PROVE  l = k /\ m = o /\ p = q
<1>1. l \in Seq(Letters) /\ k \in Seq(Letters)
  BY LayersAre
<1>2. LayerOf(Name(l, m, p)) = l /\ MatrixOf(Name(l, m, p)) = m /\ Name(l, m, p)[Len(Name(l, m, p))] = p
  BY <1>1, Pieces, Zenon
<1>3. LayerOf(Name(k, o, q)) = k /\ MatrixOf(Name(k, o, q)) = o /\ Name(k, o, q)[Len(Name(k, o, q))] = q
  BY <1>1, Pieces, Zenon
<1>4. QED
  BY <1>2, <1>3, Zenon

\* The matrices of llama.cpp, when the norm before the feed-forward is the only one.
LEMMA GgufAre ==
  ASSUME NEW a, a # "gemma3"
  PROVE  /\ Range(GgufNames(a)) = {"attn_q", "ffn_norm"} /\ Range(NormsOf(a)) = {"post_attention"}
         /\ GgufMeaning(a, "attn_q") = "q" /\ GgufMeaning(a, "ffn_norm") = "post_attention"
<1>1. GgufNames(a) = <<"attn_q", "ffn_norm">> /\ NormsOf(a) = <<"post_attention">>
  BY DEF GgufNames, NormsOf
<1>2. Range(<<"attn_q", "ffn_norm">>) = {"attn_q", "ffn_norm"} /\ Range(<<"post_attention">>) = {"post_attention"}
  <2>1. \A x, y : Range(<<x, y>>) = {x, y} /\ Range(<<x>>) = {x}
    BY DEF Range
  <2>2. QED
    BY <2>1
<1>3. GgufMeaning(a, "attn_q") = "q" /\ GgufMeaning(a, "ffn_norm") = "post_attention"
  BY DEF GgufMeaning
<1>4. QED
  BY <1>1, <1>2, <1>3

\* The name the loader knows a tensor of llama.cpp by.
LEMMA HfIs ==
  ASSUME WeightsAssumption, NEW l \in Layers, NEW m
  PROVE  HfName(Name(l, m, "weight")) =
           IF l = Embed THEN Name(l, m, "weight")
           ELSE Name(l, CASE m = "attn_q" -> "q"
                          [] m \in {"ffn_norm", "post_attention_norm"} -> "post_attention"
                          [] OTHER -> m, "weight")
<1> DEFINE n == Name(l, m, "weight")
<1>1. l \in Seq(Letters)
  BY LayersAre
<1>2. LayerOf(n) = l /\ MatrixOf(n) = m
  BY <1>1, Pieces, Zenon
<1> HIDE DEF n
<1>3. HfName(n) = IF l = Embed THEN n
                  ELSE Name(l, CASE m = "attn_q" -> "q"
                                 [] m \in {"ffn_norm", "post_attention_norm"} -> "post_attention"
                                 [] OTHER -> m, "weight")
  BY <1>2, Zenon DEF HfName
<1>4. QED
  BY <1>3 DEF n

\* The names that the loader asks for.
LEMMA HfNames ==
  ASSUME WeightsAssumption, NEW l \in Layers
  PROVE  /\ HfName(Name(Embed, "tok", "weight")) = Name(Embed, "tok", "weight")
         /\ l # Embed => /\ HfName(Name(l, "attn_q", "weight")) = Name(l, "q", "weight")
                         /\ HfName(Name(l, "ffn_norm", "weight")) = Name(l, "post_attention", "weight")
<1>1. Embed \in Layers
  BY DEF Layers
<1>2. HfName(Name(Embed, "tok", "weight")) = Name(Embed, "tok", "weight")
  BY <1>1, HfIs
<1>3. ASSUME l # Embed PROVE HfName(Name(l, "attn_q", "weight")) = Name(l, "q", "weight")
  BY <1>3, HfIs
<1>4. ASSUME l # Embed PROVE HfName(Name(l, "ffn_norm", "weight")) = Name(l, "post_attention", "weight")
  BY <1>4, HfIs
<1>5. QED
  BY <1>2, <1>3, <1>4

\* Without the second norm no two tensors of llama.cpp get one name.
LEMMA NoClash ==
  ASSUME WeightsAssumption, NEW a, a # "gemma3", NEW t \in Tensors("gguf", a), NEW u \in Tensors("gguf", a),
         HfName(t) = HfName(u)
  PROVE  t = u
<1> DEFINE Is(n, j, x) == /\ n = Name(j, x, "weight") /\ (j = Embed => x = "tok")
                          /\ (j # Embed => x \in {"attn_q", "ffn_norm"})
<1>1. \A n \in Tensors("gguf", a) : \E j \in Layers : \E x : Is(n, j, x)
  BY TensorIs, GgufAre
<1>2. PICK l \in Layers : \E x : Is(t, l, x)
  BY <1>1
<1>3. PICK k \in Layers : \E x : Is(u, k, x)
  BY <1>1
<1>4. PICK m : Is(t, l, m)
  BY <1>2
<1>5. PICK o : Is(u, k, o)
  BY <1>3
<1> DEFINE hf(j, x) == IF j = Embed THEN "tok" ELSE IF x = "attn_q" THEN "q" ELSE "post_attention"
<1>6. HfName(t) = Name(l, hf(l, m), "weight")
  BY <1>4, HfNames
<1>7. HfName(u) = Name(k, hf(k, o), "weight")
  BY <1>5, HfNames
<1>8. l = k /\ hf(l, m) = hf(k, o)
  <2> HIDE DEF hf
  <2>1. Name(l, hf(l, m), "weight") = Name(k, hf(k, o), "weight")
    BY <1>6, <1>7
  <2>2. QED
    BY <2>1, SameName
<1>9. m = o
  BY <1>4, <1>5, <1>8
<1>10. QED
  BY <1>4, <1>5, <1>8, <1>9

\* Nothing but the embedding gets its name,
LEMMA EmbedAlone ==
  ASSUME WeightsAssumption, NEW a, NEW t \in Tensors("gguf", a), NEW u \in Tensors("gguf", a),
         LayerOf(u) = Embed, HfName(t) = HfName(u)
  PROVE  t = u
<1> DEFINE tok == Name(Embed, "tok", "weight")
<1>1. PICK k \in Layers : \E o : u = Name(k, o, "weight") /\ (k = Embed => o = "tok")
  BY TensorIs
<1>2. u = tok
  BY <1>1, LayersAre, Pieces
<1>3. PICK l \in Layers : \E m : t = Name(l, m, "weight") /\ (l = Embed => m = "tok")
  BY TensorIs
<1>4. Embed \in Layers /\ HfName(tok) = tok
  BY HfNames DEF Layers
<1>5. \E o : HfName(t) = Name(l, o, "weight")
  BY <1>3, HfIs
<1>6. l = Embed
  BY <1>2, <1>4, <1>5, SameName
<1>7. QED
  BY <1>2, <1>3, <1>6

\* and nothing the name of the norm before the feed-forward.
LEMMA NoSecondNorm ==
  ASSUME WeightsAssumption, NEW a, NEW t \in Tensors("gguf", a)
  PROVE  MatrixOf(HfName(t)) # "pre_feedforward"
<1>1. PICK l \in Layers : \E m : /\ t = Name(l, m, "weight") /\ (l = Embed => m = "tok")
                                /\ (l # Embed => m \in Range(GgufNames(a)))
  BY TensorIs
<1>2. PICK m : /\ t = Name(l, m, "weight") /\ (l = Embed => m = "tok")
               /\ (l # Embed => m \in Range(GgufNames(a)))
  BY <1>1
<1>3. Range(GgufNames(a)) \subseteq {"attn_q", "ffn_norm", "post_attention_norm"}
  <2>1. \A x, y, z : Range(<<x, y>>) = {x, y} /\ Range(<<x, y, z>>) = {x, y, z}
    BY DEF Range
  <2>2. QED
    BY <2>1 DEF GgufNames
<1>4. PICK o : HfName(t) = Name(l, o, "weight") /\ o # "pre_feedforward"
  <2>1. CASE l = Embed
    BY <1>2, <2>1, HfIs
  <2>2. CASE l # Embed
    <3>1. m \in {"attn_q", "ffn_norm", "post_attention_norm"}
      BY <1>2, <1>3, <2>2
    <3>2. HfName(t) = Name(l, IF m = "attn_q" THEN "q" ELSE "post_attention", "weight")
      BY <1>2, <2>2, <3>1, HfIs
    <3>3. QED
      BY <3>2
  <2>3. QED
    BY <2>1, <2>2
<1>5. QED
  BY <1>4, LayersAre, Pieces

\* The parts of a quantized matrix.
LEMMA PartsAre ==
  ASSUME NEW f
  PROVE  /\ f = "fp8" => Range(Parts(f)) = {"weight", "weight_scale_inv"}
         /\ f = "gptq" => Range(Parts(f)) = {"qweight", "qzeros", "scales"}
         /\ f = "affine" => Range(Parts(f)) = {"biases", "scales", "weight"}
         /\ f \notin {"fp8", "gptq", "affine"} => Range(Parts(f)) = {"weight"}
<1>1. \A x, y, z : Range(<<x>>) = {x} /\ Range(<<x, y>>) = {x, y} /\ Range(<<x, y, z>>) = {x, y, z}
  BY DEF Range
<1>2. f = "fp8" => Range(Parts(f)) = {"weight", "weight_scale_inv"}
  BY <1>1 DEF Parts
<1>3. f = "gptq" => Range(Parts(f)) = {"qweight", "qzeros", "scales"}
  BY <1>1 DEF Parts
<1>4. f = "affine" => Range(Parts(f)) = {"biases", "scales", "weight"}
  BY <1>1 DEF Parts
<1>5. f \notin {"fp8", "gptq", "affine"} => Range(Parts(f)) = {"weight"}
  BY <1>1 DEF Parts
<1>6. QED
  BY <1>2, <1>3, <1>4, <1>5

\* A norm is neither quantized nor the embedding.
LEMMA NormsAre ==
  ASSUME NEW a
  PROVE  "q" \notin Range(NormsOf(a)) /\ "tok" \notin Range(NormsOf(a))
<1>1. \A x, y : Range(<<x>>) = {x} /\ Range(<<x, y>>) = {x, y}
  BY DEF Range
<1>2. QED
  BY <1>1 DEF NormsOf

\* A GPU gets the right matrix for every weight it asks for, of a layer that loads,
LEMMA Weighs ==
  ASSUME WeightsAssumption, WInv, phase \in {"load", "done"},
         NEW g \in Gpu, NEW l \in Range(todo[g]), NEW m \in MatricesOf(l), Loads(l)
  PROVE  l \in Mine /\ l \in Layers /\ Weight(g, l, m) = Original(format, l, m)
<1>1. l \in Mine /\ Supplied(g) /\ AllOf(l) \subseteq DOMAIN layout
  <2>1. todo[g] \in Seq(Mine) /\ Supplied(g)
    BY DEF WInv
  <2>2. l \in Mine
    BY <2>1 DEF Range
  <2>3. QED
    BY <2>1, <2>2 DEF WInv
<1>2. l \in Layers
  <2>1. owned \subseteq Range(LayerSeq)
    BY DEF WInv, WeightsAssumption
  <2>2. QED
    BY <1>1, <2>1 DEF Mine, Layers
<1>3. l \in Seq(Letters)
  BY <1>2, LayersAre
<1>4. CASE format = "gguf"
  <2>1. l # Embed => arch # "gemma3"
    BY <1>4 DEF Loads, Unloadable
  <2>2. IF l = Embed THEN m = "tok" ELSE m \in {"q", "post_attention"}
    BY <2>1, GgufAre DEF MatricesOf
  <2> DEFINE x == IF l = Embed THEN "tok" ELSE IF m = "q" THEN "attn_q" ELSE "ffn_norm"
             n == Name(l, x, "weight")
  <2>3. n \in AllOf(l)
    <3>1. x \in IF l = Embed THEN {"tok"} ELSE {"attn_q", "ffn_norm"}
      OBVIOUS
    <3> HIDE DEF x
    <3>2. QED
      BY <1>4, <2>1, <3>1, GgufAre DEF AllOf, TensorsOf
  <2>4. HfName(n) = Name(l, m, "weight")
    BY <1>2, <2>2, HfNames
  <2>5. (IF l # Embed THEN GgufMeaning(arch, x) ELSE x) = m
    BY <2>1, <2>2, GgufAre
  <2>6. Content("gguf", arch, n) = Original("gguf", l, IF l # Embed THEN GgufMeaning(arch, x) ELSE x)
    BY <1>3, GgufContent
  <2>7. Content("gguf", arch, n) = Original("gguf", l, m)
    BY <2>5, <2>6
  <2>7a. LayerOf(n) = l
    BY <1>3, Pieces
  <2> HIDE DEF n, x
  <2>8. Name(l, m, "weight") \in DOMAIN served[g] /\ served[g][Name(l, m, "weight")] = n
    BY <1>1, <1>4, <2>3, <2>4, <2>7a DEF Supplied
  <2>9. Get(g, Name(l, m, "weight")) = Original("gguf", l, m)
    BY <1>4, <2>7, <2>8 DEF Get
  <2>10. Weight(g, l, m) = Get(g, Name(l, m, "weight"))
    BY <1>4 DEF Weight
  <2>11. QED
    BY <1>1, <1>2, <1>4, <2>9, <2>10
<1>5. CASE format # "gguf"
  <2>1. /\ DOMAIN served[g] \subseteq Tensors(format, arch) /\ AllOf(l) \subseteq DOMAIN served[g]
        /\ \A n \in DOMAIN served[g] : Get(g, n) = Content(format, arch, n)
    BY <1>1, <1>5 DEF Supplied, Get
  <2>2. CASE m = "q"
    <3>1. l # Embed
      BY <2>2 DEF MatricesOf
    <3>2. \A p \in Range(Parts(format)) : Name(l, "q", p) \in DOMAIN served[g]
      BY <1>5, <2>1, <3>1 DEF AllOf, TensorsOf
    <3>3. \A p \in Range(Parts(format)) : Get(g, Name(l, "q", p)) = Content(format, arch, Name(l, "q", p))
      BY <2>1, <3>2
    <3>4. CASE format = "fp8"
      <4>1. /\ Name(l, "q", "weight_scale_inv") \in DOMAIN served[g]
            /\ Get(g, Name(l, "q", "weight")) = Content("fp8", arch, Name(l, "q", "weight"))
            /\ Get(g, Name(l, "q", "weight_scale_inv")) = Content("fp8", arch, Name(l, "q", "weight_scale_inv"))
        BY <3>2, <3>3, <3>4, PartsAre
      <4>2. Outs % BlockSize = 0 /\ Ins % BlockSize = 0
        BY <3>1, <3>4 DEF Loads, Unloadable
      <4>3. Weight(g, l, "q") = Fp8(Get(g, Name(l, "q", "weight")), Get(g, Name(l, "q", "weight_scale_inv")))
        BY <3>4, <4>1 DEF Weight
      <4>4. Weight(g, l, "q") = Original("fp8", l, "q")
        BY <1>3, <4>1, <4>2, <4>3, Fp8Content, Zenon
      <4>5. QED
        BY <1>1, <1>2, <2>2, <3>4, <4>4
    <3>5. CASE format = "gptq"
      <4>1. /\ Name(l, "q", "qweight") \in DOMAIN served[g]
            /\ Get(g, Name(l, "q", "qweight")) = Content("gptq", arch, Name(l, "q", "qweight"))
            /\ Get(g, Name(l, "q", "scales")) = Content("gptq", arch, Name(l, "q", "scales"))
            /\ Get(g, Name(l, "q", "qzeros")) = Content("gptq", arch, Name(l, "q", "qzeros"))
        BY <3>2, <3>3, <3>5, PartsAre
      <4>2. Weight(g, l, "q") = Gptq(Get(g, Name(l, "q", "qweight")), Get(g, Name(l, "q", "scales")),
                                     Get(g, Name(l, "q", "qzeros")))
        BY <3>5, <4>1 DEF Weight
      <4>3. Weight(g, l, "q") = Original("gptq", l, "q")
        BY <1>3, <4>1, <4>2, GptqContent, Zenon
      <4>4. QED
        BY <1>1, <1>2, <2>2, <3>5, <4>3
    <3>6. CASE format = "affine"
      <4>1. /\ Name(l, "q", "scales") \in DOMAIN served[g]
            /\ Get(g, Name(l, "q", "weight")) = Content("affine", arch, Name(l, "q", "weight"))
            /\ Get(g, Name(l, "q", "scales")) = Content("affine", arch, Name(l, "q", "scales"))
            /\ Get(g, Name(l, "q", "biases")) = Content("affine", arch, Name(l, "q", "biases"))
        BY <3>2, <3>3, <3>6, PartsAre
      <4>2. Weight(g, l, "q") = Affine(Get(g, Name(l, "q", "weight")), Get(g, Name(l, "q", "scales")),
                                       Get(g, Name(l, "q", "biases")))
        BY <3>6, <4>1 DEF Weight
      <4>3. Weight(g, l, "q") = Original("affine", l, "q")
        BY <1>3, <4>1, <4>2, AffineContent, Zenon
      <4>4. QED
        BY <1>1, <1>2, <2>2, <3>6, <4>3
    <3>7. CASE format \notin {"fp8", "gptq", "affine"}
      <4>1. Get(g, Name(l, "q", "weight")) = Content(format, arch, Name(l, "q", "weight"))
        BY <3>3, <3>7, PartsAre
      <4>2. Content(format, arch, Name(l, "q", "weight")) = Original(format, l, "q")
        BY <1>3, <1>5, <3>7, PlainContent
      <4>3. Weight(g, l, "q") = Get(g, Name(l, "q", "weight"))
        BY <3>7 DEF Weight
      <4>4. QED
        BY <1>1, <1>2, <2>2, <4>1, <4>2, <4>3
    <3>8. QED
      BY <3>4, <3>5, <3>6, <3>7
  <2>3. CASE m # "q"
    <3>1. Name(l, m, "weight") \in AllOf(l)
      BY <1>5, <2>3 DEF AllOf, TensorsOf, MatricesOf
    <3>2. Get(g, Name(l, m, "weight")) = Content(format, arch, Name(l, m, "weight"))
      BY <2>1, <3>1
    <3>3. Content(format, arch, Name(l, m, "weight")) = Original(format, l, m)
      BY <1>3, <1>5, <2>3, PlainContent
    <3>4. ASSUME NEW p, p # "weight" PROVE Name(l, m, p) \notin DOMAIN served[g]
      <4>1. SUFFICES ASSUME Name(l, m, p) \in Tensors(format, arch) PROVE FALSE
        BY <2>1
      <4>2. PICK k \in Layers : \E o, q : Name(l, m, p) = Name(k, o, q) /\ (q = "weight" \/ o = "q")
        BY <4>1, TensorIs
      <4>3. PICK o, q : Name(l, m, p) = Name(k, o, q) /\ (q = "weight" \/ o = "q")
        BY <4>2
      <4>4. m = o /\ p = q
        BY <1>2, <4>3, SameName
      <4>5. QED
        BY <2>3, <3>4, <4>3, <4>4
    <3>5. /\ Name(l, m, "weight_scale_inv") \notin DOMAIN served[g]
          /\ Name(l, m, "qweight") \notin DOMAIN served[g] /\ Name(l, m, "scales") \notin DOMAIN served[g]
      BY <3>4
    <3>6. Weight(g, l, m) = Get(g, Name(l, m, "weight"))
      BY <3>5 DEF Weight
    <3>7. QED
      BY <1>1, <1>2, <3>2, <3>3, <3>6
  <2>4. QED
    BY <2>2, <2>3
<1>6. QED
  BY <1>4, <1>5

\* and no answer for one of a layer that does not.
LEMMA Refuses ==
  ASSUME WeightsAssumption, WInv, phase \in {"load", "done"},
         NEW g \in Gpu, NEW l \in Range(todo[g]), ~Loads(l)
  PROVE  \E m \in MatricesOf(l) : Weight(g, l, m) = <<>>
<1>1. l # Embed /\ Unloadable
  BY DEF Loads
<1>2. l \in Mine /\ Supplied(g)
  <2>1. todo[g] \in Seq(Mine) /\ Supplied(g)
    BY DEF WInv
  <2>2. QED
    BY <2>1 DEF Range
<1>3. l \in Layers /\ l \in Seq(Letters)
  <2>1. owned \subseteq Range(LayerSeq)
    BY DEF WInv, WeightsAssumption
  <2>2. l \in Layers
    BY <1>2, <2>1 DEF Mine, Layers
  <2>3. QED
    BY <2>2, LayersAre
<1>4. CASE format = "gguf"
  <2>1. arch = "gemma3"
    BY <1>1, <1>4 DEF Unloadable
  <2>2. "pre_feedforward" \in MatricesOf(l)
    <3>1. \A x, y : Range(<<x, y>>) = {x, y}
      BY DEF Range
    <3>2. QED
      BY <1>1, <2>1, <3>1 DEF MatricesOf, NormsOf
  <2>3. MatrixOf(Name(l, "pre_feedforward", "weight")) = "pre_feedforward"
    BY <1>3, Pieces
  <2>4. Name(l, "pre_feedforward", "weight") \notin DOMAIN served[g]
    BY <1>2, <1>4, <2>3 DEF Supplied
  <2>5. Weight(g, l, "pre_feedforward") = <<>>
    BY <1>4, <2>4 DEF Weight, Get
  <2>6. QED
    BY <2>2, <2>5
<1>5. CASE format = "fp8"
  <2>1. Outs % BlockSize # 0 \/ Ins % BlockSize # 0
    BY <1>1, <1>5 DEF Unloadable
  <2>2. AllOf(l) \subseteq DOMAIN served[g]
    BY <1>2, <1>5 DEF Supplied
  <2>3. Name(l, "q", "weight_scale_inv") \in AllOf(l)
    BY <1>1, <1>5, PartsAre DEF AllOf, TensorsOf
  <2>4. Weight(g, l, "q") = <<>>
    <3>1. \A w, s : Fp8(w, s) = <<>>
      BY <2>1 DEF Fp8
    <3>2. Weight(g, l, "q") = Fp8(Get(g, Name(l, "q", "weight")), Get(g, Name(l, "q", "weight_scale_inv")))
      BY <1>5, <2>2, <2>3 DEF Weight
    <3>3. QED
      BY <3>1, <3>2
  <2>5. "q" \in MatricesOf(l)
    BY <1>1 DEF MatricesOf
  <2>6. QED
    BY <2>4, <2>5
<1>6. QED
  BY <1>1, <1>4, <1>5 DEF Unloadable

\* The tensors of a layer have its name.
LEMMA AllOfIs ==
  ASSUME NEW l, NEW t \in AllOf(l)
  PROVE  \E m, p : t = Name(l, m, p)
<1>1. CASE l = Embed
  BY <1>1 DEF AllOf
<1>2. CASE l # Embed /\ format = "gguf"
  BY <1>2 DEF AllOf, TensorsOf
<1>3. CASE l # Embed /\ format # "gguf"
  BY <1>3 DEF AllOf, TensorsOf
<1>4. QED
  BY <1>1, <1>2, <1>3

\* A sequence over what its members are in.
LEMMA SeqOver ==
  ASSUME NEW T, NEW s \in Seq(T), NEW M, Range(s) \subseteq M
  PROVE  s \in Seq(M)
<1>1. Len(s) \in Nat /\ \A k \in 1 .. Len(s) : s[k] \in M
  BY DEF Range
<1> DEFINE n == Len(s)
<1>2. n \in Nat /\ s = [k \in 1 .. n |-> s[k]]
  OBVIOUS
<1> HIDE DEF n
<1>3. DOMAIN s = 1 .. n
  BY <1>2
<1>4. \A k \in 1 .. n : s[k] \in M
  BY <1>1 DEF n
<1>5. s \in [1 .. n -> M]
  BY <1>2, <1>4
<1>6. QED
  BY <1>2, <1>5, SeqDef

\* Between them, the GPUs have all the layers of the role to load.
LEMMA DutiesAre ==
  ASSUME WeightsAssumption, owned \subseteq Range(LayerSeq), role \in {"master", "worker"}
  PROVE  /\ \A g \in Gpu : Duties(g) \in Seq(Mine)
         /\ UNION {Range(Duties(g)) : g \in Gpu} = Mine
<1>1. CASE role = "worker"
  <2>1. \A g : Duties(g) = LayersOn(g)
    BY <1>1 DEF Duties
  <2>2. Mine = owned
    BY <1>1 DEF Mine
  <2>3. \A g \in Gpu : Duties(g) \in Seq(Mine)
    <3> TAKE g \in Gpu
    <3>1. LayersOn(g) \in Seq(Range(LayerSeq)) /\ Range(LayersOn(g)) \subseteq owned
      BY LayersOnAre
    <3>2. LayersOn(g) \in Seq(owned)
      BY <3>1, SeqOver
    <3>3. QED
      BY <2>1, <2>2, <3>2
  <2>4. (\A g : Range(LayersOn(g)) \subseteq owned) /\ \A l \in owned : \E g \in Gpu : l \in Range(LayersOn(g))
    BY LayersOnAre
  <2>5. UNION {Range(Duties(g)) : g \in Gpu} = Mine
    BY <2>1, <2>2, <2>4
  <2>6. QED
    BY <2>3, <2>5
<1>2. CASE role = "master"
  <2> DEFINE rest == Among(LayerSeq, Range(LayerSeq) \ owned)
             all == <<Embed>> \o rest
  <2>1. 0 \in Gpu
    BY Numbers DEF Gpu
  <2>2. Duties(0) = all /\ \A g \in Gpu : g # 0 => Duties(g) = <<>>
    BY <1>2, Zenon DEF Duties
  <2>3. LayerSeq \in Seq(Layers)
    <3>1. LayerSeq \in Seq(Seq(Digits))
      BY DEF WeightsAssumption
    <3>2. \A k \in DOMAIN LayerSeq : LayerSeq[k] \in Layers
      BY DEF Layers, Range
    <3>3. QED
      BY <3>1, <3>2
  <2>4. rest \in Seq(Layers) /\ Range(rest) = Range(LayerSeq) \cap (Range(LayerSeq) \ owned)
    BY <2>3, AmongIs, Zenon
  <2>5. <<Embed>> \in Seq(Layers) /\ Range(<<Embed>>) = {Embed}
    BY DEF Layers, Range
  <2> HIDE DEF rest
  <2>6. all \in Seq(Layers) /\ Range(all) = {Embed} \cup (Range(LayerSeq) \ owned)
    <3>1. all \in Seq(Layers) /\ Range(all) = Range(<<Embed>>) \cup Range(rest)
      BY <2>4, <2>5, ConcatRange, Zenon
    <3> HIDE DEF all
    <3>2. QED
      BY <2>4, <2>5, <3>1
  <2>7. Mine = {Embed} \cup (Range(LayerSeq) \ owned)
    BY <1>2, LayersAre DEF Mine, Layers
  <2> HIDE DEF all
  <2>8. all \in Seq(Mine)
    BY <2>6, <2>7, SeqOver
  <2>9. <<>> \in Seq(Mine) /\ Range(<<>>) = {}
    BY DEF Range
  <2>10. \A g \in Gpu : Duties(g) \in Seq(Mine) /\ Range(Duties(g)) \subseteq Mine
    BY <2>2, <2>6, <2>7, <2>8, <2>9
  <2>11. Range(Duties(0)) = Mine
    BY <2>2, <2>6, <2>7
  <2>12. UNION {Range(Duties(g)) : g \in Gpu} = Mine
    BY <2>1, <2>10, <2>11
  <2>13. QED
    BY <2>10, <2>12
<1>3. QED
  BY <1>1, <1>2

\* The shards a GPU opens hold all the tensors of its layers.
LEMMA OpenedHas ==
  ASSUME WeightsAssumption, WInv, NEW g \in Gpu, NEW l \in Range(Duties(g)), NEW t \in AllOf(l)
  PROVE  t \in DOMAIN layout /\ layout[t] \in Opened(g)
<1>1. owned \subseteq Range(LayerSeq) /\ role \in {"master", "worker"}
  BY DEF WInv, WeightsAssumption
<1>2. l \in Mine
  BY <1>1, DutiesAre
<1>3. l \in Layers /\ owned \subseteq Layers
  BY <1>1, <1>2 DEF Mine, Layers
<1>4. t \in DOMAIN layout
  BY <1>2 DEF WInv
<1>5. layout[t] \in Range(layout)
  BY <1>4 DEF Range
<1>6. PICK m, p : t = Name(l, m, p)
  BY AllOfIs
<1>7. CASE role = "master"
  <2>1. l \notin owned
    BY <1>2, <1>7 DEF Mine
  <2>2. ~ Within(owned, t)
    BY <1>3, <1>6, <2>1, WithinIs
  <2>3. layout[t] \in LocalShards
    BY <1>4, <2>2 DEF LocalShards
  <2>4. QED
    BY <1>4, <1>5, <1>7, <2>3 DEF Opened
<1>8. CASE role = "worker"
  <2> DEFINE mine == IF NumGpus > 1 /\ Cardinality(owned) > 1 THEN Range(LayersOn(g)) ELSE owned
  <2>1. l \in Range(LayersOn(g)) /\ l \in owned
    BY <1>2, <1>8 DEF Duties, Mine
  <2>2. mine \subseteq Layers /\ l \in mine
    BY <1>1, <1>3, <2>1, LayersOnAre
  <2>3. \/ Opened(g) = Range(layout)
        \/ Opened(g) = SpecificShards(mine)
    BY <1>8 DEF Opened, SeveralGpus
  <2> HIDE DEF mine
  <2>4. Within(mine, t)
    BY <1>3, <1>6, <2>2, WithinIs
  <2>5. layout[t] \in SpecificShards(mine)
    BY <1>4, <2>4 DEF SpecificShards
  <2>6. QED
    BY <1>4, <1>5, <2>3, <2>5
<1>9. QED
  BY <1>1, <1>7, <1>8

\* A bundle has all the tensors of the worker's layers,
LEMMA SplitKeeps == ASSUME WeightsAssumption, WInv, Split PROVE WInv'
<1>1. /\ phase = "disk" /\ phase' = phase /\ role = "worker" /\ role' = role /\ owned' = owned
      /\ format' = format /\ arch' = arch /\ loaded' = loaded /\ layout' = Reduced
  BY DEF Split
<1>2. owned \subseteq Range(LayerSeq) /\ Mine = owned
  BY <1>1 DEF WInv, WeightsAssumption, Mine
<1>3. owned \subseteq Layers
  BY <1>2 DEF Layers
<1>4. DOMAIN Reduced = {t \in DOMAIN layout : Within(owned, t)}
  BY DEF Reduced
<1>5. ASSUME NEW l \in Mine PROVE AllOf(l) \subseteq DOMAIN Reduced
  <2>1. l \in Layers /\ l \in owned /\ AllOf(l) \subseteq DOMAIN layout
    BY <1>2, <1>3 DEF WInv
  <2>2. ASSUME NEW t \in AllOf(l) PROVE Within(owned, t)
    <3>1. PICK m, p : t = Name(l, m, p)
      BY AllOfIs
    <3>2. QED
      BY <1>3, <2>1, <3>1, WithinIs
  <2>3. QED
    BY <1>4, <2>1, <2>2
<1>6. Mine' = Mine /\ \A l : AllOf(l)' = AllOf(l)
  BY <1>1 DEF Mine, AllOf
<1>7. DOMAIN layout' \subseteq Tensors(format, arch)
  BY <1>1, <1>4 DEF WInv
<1>8. \A l \in Mine' : AllOf(l)' \subseteq DOMAIN layout'
  BY <1>1, <1>5, <1>6
<1>9. QED
  BY <1>1, <1>7, <1>8 DEF WInv

\* the var builders answer for all the tensors their GPU needs,
LEMMA OpenKeeps == ASSUME WeightsAssumption, WInv, Open PROVE WInv'
<1>1. /\ phase = "disk" /\ role' = role /\ owned' = owned /\ layout' = layout
      /\ phase' = IF Stranded THEN "failed" ELSE "load"
      /\ format' = format /\ arch' = arch /\ loaded' = loaded /\ todo' = [g \in Gpu |-> Duties(g)]
  BY DEF Open
<1>0. (Stranded' <=> Stranded) /\ (Unloadable' <=> Unloadable) /\ \A l : Loads(l)' <=> Loads(l)
  BY <1>1 DEF Stranded, SeveralGpus, Unloadable, Loads
<1>2. owned \subseteq Range(LayerSeq) /\ role \in {"master", "worker"} /\ loaded = <<>>
  BY <1>1 DEF WInv, WeightsAssumption
<1>3. Mine' = Mine /\ (\A l : AllOf(l)' = AllOf(l)) /\ \A Ls : NamesOf(Ls)' = NamesOf(Ls)
  BY <1>1 DEF Mine, AllOf, NamesOf, MatricesOf
<1>4. DOMAIN todo' = Gpu /\ \A g \in Gpu : todo'[g] = Duties(g)
  BY <1>1
<1>5. /\ \A g \in Gpu : Duties(g) \in Seq(Mine)
      /\ UNION {Range(Duties(g)) : g \in Gpu} = Mine
  BY <1>2, DutiesAre
<1>6. DOMAIN loaded' \cup NamesOf(UNION {Range(todo'[g]) : g \in Gpu}) = NamesOf(Mine)
  <2>1. {Range(todo'[g]) : g \in Gpu} = {Range(Duties(g)) : g \in Gpu}
    BY <1>4
  <2>2. DOMAIN loaded' = {}
    BY <1>1, <1>2
  <2>3. QED
    BY <1>5, <2>1, <2>2
<1>7. ASSUME NEW g \in Gpu PROVE Supplied(g)'
  <2>1. CASE format = "gguf"
    <3>1. DOMAIN layout \subseteq Tensors("gguf", arch)
      BY <2>1 DEF WInv
    <3>2. ASSUME NEW t \in DOMAIN layout, NEW u \in DOMAIN layout, Loads(LayerOf(u)), HfName(t) = HfName(u)
          PROVE  t = u
      <4>1. LayerOf(u) = Embed \/ arch # "gemma3"
        BY <2>1, <3>2 DEF Loads, Unloadable
      <4>2. QED
        BY <3>1, <3>2, <4>1, NoClash, EmbedAlone
    <3> DEFINE kept(last) == (DOMAIN layout \ Clashing) \cup last
    <3>3. PICK last \in SUBSET Clashing :
            served' = [h \in Gpu |-> [n \in {HfName(n) : n \in kept(last)} |->
                                        CHOOSE t \in kept(last) : HfName(t) = n]]
      BY <2>1 DEF Open
    <3> DEFINE K == kept(last)
    <3>4. K \subseteq DOMAIN layout /\ \A n \in DOMAIN layout : Loads(LayerOf(n)) => n \in K
      BY <3>2 DEF Clashing
    <3>5. served'[g] = [n \in {HfName(n) : n \in K} |-> CHOOSE t \in K : HfName(t) = n]
      BY <3>3, Zenon
    <3> HIDE DEF K
    <3>6. ASSUME NEW n \in DOMAIN layout, Loads(LayerOf(n))
          PROVE  HfName(n) \in DOMAIN served'[g] /\ served'[g][HfName(n)] = n
      <4>0. n \in K /\ \A t \in K : HfName(t) = HfName(n) => t = n
        BY <3>2, <3>4, <3>6
      <4>1. HfName(n) \in {HfName(t) : t \in K}
        BY <4>0
      <4>2. HfName(n) \in DOMAIN served'[g] /\ served'[g][HfName(n)] = CHOOSE t \in K : HfName(t) = HfName(n)
        BY <3>5, <4>1, Zenon
      <4>3. (CHOOSE t \in K : HfName(t) = HfName(n)) = n
        BY <4>0, Zenon
      <4>4. QED
        BY <4>2, <4>3
    <3>7. ASSUME NEW n \in DOMAIN served'[g] PROVE MatrixOf(n) # "pre_feedforward"
      <4>1. DOMAIN served'[g] = {HfName(t) : t \in K}
        BY <3>5, Zenon
      <4>2. PICK t \in K : n = HfName(t)
        BY <4>1
      <4>3. QED
        BY <3>1, <3>4, <4>2, NoSecondNorm
    <3>8. QED
      BY <1>0, <1>1, <2>1, <3>6, <3>7 DEF Supplied
  <2>2. CASE format # "gguf"
    <3> DEFINE D == {t \in DOMAIN layout : layout[t] \in Opened(g)}
    <3>1. served' = [h \in Gpu |-> [n \in {t \in DOMAIN layout : layout[t] \in Opened(h)} |-> n]]
      BY <2>2 DEF Open
    <3>2. served'[g] = [n \in D |-> n]
      BY <3>1
    <3>3. DOMAIN served'[g] = D /\ \A n \in D : served'[g][n] = n
      BY <3>2
    <3>4. D \subseteq Tensors(format, arch)
      BY DEF WInv
    <3>5. \A l \in Range(Duties(g)) : AllOf(l) \subseteq D
      BY OpenedHas
    <3> HIDE DEF D
    <3>6. Range(todo'[g]) = Range(Duties(g))
      BY <1>4
    <3>7. QED
      BY <1>1, <1>3, <2>2, <3>3, <3>4, <3>5, <3>6 DEF Supplied
  <2>3. QED
    BY <2>1, <2>2
<1>8. QED
  BY <1>0, <1>1, <1>2, <1>3, <1>4, <1>5, <1>6, <1>7 DEF WInv

\* a layer that does not load ends it,
LEMMA LoadFails ==
  ASSUME WInv, NEW g \in Gpu, LoadLayer(g), phase' = "failed", Unloadable
  PROVE  WInv'
<1>1. /\ role' = role /\ owned' = owned /\ layout' = layout
      /\ format' = format /\ arch' = arch
  BY DEF LoadLayer
<1>2. Mine' = Mine /\ \A l : AllOf(l)' = AllOf(l)
  BY <1>1 DEF Mine, AllOf
<1>3. Unloadable'
  BY <1>1 DEF Unloadable
<1>4. QED
  BY <1>1, <1>2, <1>3 DEF WInv

\* and a layer that does is loaded as the checkpoint has it.
LEMMA LoadKeeps == ASSUME WeightsAssumption, WInv, NEW g \in Gpu, LoadLayer(g) PROVE WInv'
<1> DEFINE l == Head(todo[g])
           found == [n \in {Name(l, m, "weight") : m \in MatricesOf(l)} |-> Weight(g, l, MatrixOf(n))]
<1>1. /\ phase = "load" /\ todo[g] # <<>> /\ role' = role /\ owned' = owned /\ layout' = layout
      /\ format' = format /\ arch' = arch /\ served' = served
      /\ todo' = [todo EXCEPT ![g] = Tail(@)]
      /\ loaded' = [n \in DOMAIN found \cup DOMAIN loaded |-> IF n \in DOMAIN found THEN found[n] ELSE loaded[n]]
      /\ phase' = IF <<>> \in Range(found) THEN "failed"
                  ELSE IF \A h \in Gpu : todo'[h] = <<>> THEN "done" ELSE "load"
  BY DEF LoadLayer
<1>2. Mine' = Mine /\ (\A k : AllOf(k)' = AllOf(k)) /\ \A Ls : NamesOf(Ls)' = NamesOf(Ls)
  BY <1>1 DEF Mine, AllOf, NamesOf, MatricesOf
<1>3. /\ DOMAIN todo = Gpu /\ \A h \in Gpu : todo[h] \in Seq(Mine) /\ Supplied(h)
      /\ DOMAIN loaded \cup NamesOf(UNION {Range(todo[h]) : h \in Gpu}) = NamesOf(Mine)
  BY <1>1 DEF WInv
<1>4. /\ l \in Range(todo[g]) /\ Tail(todo[g]) \in Seq(Mine)
      /\ Range(todo[g]) = {l} \cup Range(Tail(todo[g]))
  <2> DEFINE s == todo[g]
  <2>1. s \in Seq(Mine) /\ s # <<>>
    BY <1>1, <1>3
  <2> HIDE DEF s
  <2>2. Head(s) = s[1] /\ 1 \in DOMAIN s /\ Tail(s) \in Seq(Mine) /\ DOMAIN s = 1 .. Len(s) /\ Len(s) \in Nat \ {0}
    BY <2>1
  <2>3. DOMAIN Tail(s) = 1 .. Len(s) - 1 /\ \A k \in 1 .. Len(s) - 1 : Tail(s)[k] = s[k + 1]
    BY <2>1, <2>2
  <2>4. \A k \in DOMAIN s : k = 1 \/ (k - 1 \in DOMAIN Tail(s) /\ Tail(s)[k - 1] = s[k])
    BY <2>2, <2>3
  <2>5. \A k \in DOMAIN Tail(s) : k + 1 \in DOMAIN s /\ Tail(s)[k] = s[k + 1]
    BY <2>2, <2>3
  <2>6. Range(s) = {Head(s)} \cup Range(Tail(s))
    <3>1. ASSUME NEW x \in Range(s) PROVE x \in {Head(s)} \cup Range(Tail(s))
      <4>1. PICK k \in DOMAIN s : x = s[k]
        BY DEF Range
      <4>2. QED
        BY <2>2, <2>4, <4>1 DEF Range
    <3>2. ASSUME NEW x \in Range(Tail(s)) PROVE x \in Range(s)
      <4>1. PICK k \in DOMAIN Tail(s) : x = Tail(s)[k]
        BY DEF Range
      <4>2. QED
        BY <2>5, <4>1 DEF Range
    <3>3. Head(s) \in Range(s)
      BY <2>2 DEF Range
    <3>4. QED
      BY <3>1, <3>2, <3>3
  <2>7. Head(s) \in Range(s)
    BY <2>2 DEF Range
  <2>8. QED
    BY <2>2, <2>6, <2>7 DEF s
<1>4a. SUFFICES ASSUME Loads(l) PROVE WInv'
  <2>1. CASE ~Loads(l)
    <3>1. PICK m \in MatricesOf(l) : Weight(g, l, m) = <<>>
      BY <1>1, <1>4, <2>1, Refuses
    <3>2. l \in Layers
      <4>1. owned \subseteq Range(LayerSeq)
        BY DEF WInv, WeightsAssumption
      <4>2. \A k : k \in Mine => k \in Layers
        BY <4>1 DEF Mine, Layers
      <4>3. l \in Mine
        BY <1>3, <1>4 DEF Range
      <4>4. QED
        BY <4>2, <4>3
    <3>3. MatrixOf(Name(l, m, "weight")) = m
      BY <3>2, LayersAre, Pieces
    <3> DEFINE n == Name(l, m, "weight")
    <3>4. n \in DOMAIN found /\ found[n] = <<>>
      BY <3>1, <3>3
    <3> HIDE DEF found, l, n
    <3>5. phase' = "failed"
      BY <1>1, <3>4 DEF Range
    <3>6. Unloadable
      BY <2>1 DEF Loads
    <3>7. QED
      BY <3>5, <3>6, LoadFails
  <2>2. QED
    BY <2>1
<1>5. l \in Mine /\ l \in Layers /\ \A m \in MatricesOf(l) : Weight(g, l, m) = Original(format, l, m)
  <2>1. \A m \in MatricesOf(l) : l \in Mine /\ l \in Layers /\ Weight(g, l, m) = Original(format, l, m)
    BY <1>1, <1>4, <1>4a, Weighs
  <2>2. MatricesOf(l) # {}
    BY DEF MatricesOf
  <2>3. QED
    BY <2>1, <2>2
<1> HIDE DEF l
<1>6. ASSUME NEW n \in DOMAIN found
      PROVE  found[n] = Original(format, LayerOf(n), MatrixOf(n)) /\ found[n] # <<>>
  <2>1. PICK m \in MatricesOf(l) : n = Name(l, m, "weight")
    OBVIOUS
  <2>2. l \in Seq(Letters)
    BY <1>5, LayersAre
  <2>3. LayerOf(n) = l /\ MatrixOf(n) = m
    BY <2>1, <2>2, Pieces
  <2>4. found[n] = Weight(g, l, m)
    BY <2>3
  <2>5. QED
    BY <1>5, <2>3, <2>4, NotMissing
<1>7. DOMAIN found = NamesOf({l})
  BY DEF NamesOf
<1> HIDE DEF found
<1>8. <<>> \notin Range(found)
  BY <1>6 DEF Range
<1>9. phase' \in {"load", "done"} /\ (phase' = "done" => \A h \in Gpu : todo'[h] = <<>>)
  BY <1>1, <1>8
<1>10. \A n \in DOMAIN loaded' : loaded'[n] = Original(format, LayerOf(n), MatrixOf(n))
  <2>1. \A n \in DOMAIN loaded : loaded[n] = Original(format, LayerOf(n), MatrixOf(n))
    BY <1>1 DEF WInv
  <2>2. QED
    BY <1>1, <1>6, <2>1
<1>11. DOMAIN loaded' = NamesOf({l}) \cup DOMAIN loaded
  BY <1>1, <1>7
<1>12. DOMAIN todo' = Gpu /\ todo'[g] = Tail(todo[g]) /\ \A h \in Gpu \ {g} : todo'[h] = todo[h]
  BY <1>1, <1>3
<1>13. \A h \in Gpu : todo'[h] \in Seq(Mine) /\ Range(todo'[h]) \subseteq Range(todo[h])
  BY <1>3, <1>4, <1>12
<1>14. ASSUME NEW h \in Gpu PROVE Supplied(h)'
  <2>1. Supplied(h)
    BY <1>3
  <2>2. CASE format = "gguf"
    <3>1. \A k : Loads(k)' <=> Loads(k)
      BY <1>1 DEF Loads, Unloadable
    <3>2. QED
      BY <1>1, <2>1, <2>2, <3>1 DEF Supplied
  <2>3. CASE format # "gguf"
    BY <1>1, <1>2, <1>13, <2>1, <2>3 DEF Supplied
  <2>4. QED
    BY <2>2, <2>3
<1>15. DOMAIN loaded' \cup NamesOf(UNION {Range(todo'[h]) : h \in Gpu}) = NamesOf(Mine)
  <2> DEFINE Left == UNION {Range(todo[h]) : h \in Gpu}
             Next_ == UNION {Range(todo'[h]) : h \in Gpu}
  <2>1. Left = {l} \cup Next_
    <3>1. Next_ \subseteq Left
      BY <1>13
    <3>2. l \in Left
      BY <1>4
    <3>3. ASSUME NEW h \in Gpu PROVE Range(todo[h]) \subseteq {l} \cup Range(todo'[h])
      BY <1>4, <1>12
    <3>4. Left \subseteq {l} \cup Next_
      BY <3>3
    <3>5. QED
      BY <3>1, <3>2, <3>4
  <2> HIDE DEF Left, Next_
  <2>2. NamesOf(Left) = NamesOf({l}) \cup NamesOf(Next_)
    BY <2>1 DEF NamesOf
  <2>3. DOMAIN loaded \cup NamesOf(Left) = NamesOf(Mine)
    BY <1>3 DEF Left
  <2>4. DOMAIN loaded' \cup NamesOf(Next_) = NamesOf(Mine)
    BY <1>11, <2>2, <2>3
  <2>5. QED
    BY <2>4 DEF Next_
<1>16. ~Stranded'
  BY <1>1 DEF WInv, Stranded, SeveralGpus
<1>17. QED
  BY <1>1, <1>2, <1>9, <1>10, <1>12, <1>13, <1>14, <1>15, <1>16 DEF WInv

\* Every step keeps the invariant.
LEMMA NextWeights == WeightsAssumption /\ WInv /\ [WeightsNext]_wvars => WInv'
<1> SUFFICES ASSUME WeightsAssumption, WInv, [WeightsNext]_wvars PROVE WInv'
  OBVIOUS
<1>1. CASE Split
  BY <1>1, SplitKeeps
<1>2. CASE Open
  BY <1>2, OpenKeeps
<1>3. ASSUME NEW g \in Gpu, LoadLayer(g) PROVE WInv'
  BY <1>3, LoadKeeps
<1>4. CASE UNCHANGED wvars
  <2>1. /\ format' = format /\ arch' = arch /\ layout' = layout /\ owned' = owned /\ role' = role
        /\ phase' = phase /\ served' = served /\ todo' = todo /\ loaded' = loaded
    BY <1>4 DEF wvars
  <2>2. Mine' = Mine /\ (\A l : AllOf(l)' = AllOf(l)) /\ \A Ls : NamesOf(Ls)' = NamesOf(Ls)
    BY <2>1 DEF Mine, AllOf, NamesOf, MatricesOf
  <2>3. (Stranded' <=> Stranded) /\ (Unloadable' <=> Unloadable) /\ \A k : Loads(k)' <=> Loads(k)
    BY <2>1 DEF Stranded, SeveralGpus, Unloadable, Loads
  <2>4. \A g : Supplied(g)' = Supplied(g)
    BY <2>1, <2>2, <2>3 DEF Supplied
  <2>5. QED
    BY <2>1, <2>2, <2>3, <2>4 DEF WInv
<1>5. QED
  BY <1>1, <1>2, <1>3, <1>4 DEF WeightsNext

\* With nothing left to load, what is loaded is all a role needs.
LEMMA InvFaithful == WeightsAssumption /\ WInv => Faithful
<1> SUFFICES ASSUME WeightsAssumption, WInv PROVE Faithful
  OBVIOUS
<1>1. /\ owned \subseteq Range(LayerSeq) /\ role \in {"master", "worker"}
      /\ phase = "failed" => Stranded \/ Unloadable
      /\ Stranded => phase \in {"disk", "failed"}
  BY DEF WInv, WeightsAssumption
<1>2. phase # "failed" => \A n \in DOMAIN loaded : loaded[n] = Original(format, LayerOf(n), MatrixOf(n))
  BY DEF WInv
<1> DEFINE All == {Name(l, m, "weight") : l \in Layers, m \in {"tok", "q"} \cup Range(NormsOf(arch))}
<1>3. ASSUME phase = "done"
      PROVE  DOMAIN loaded = {n \in All : /\ MatrixOf(n) \in MatricesOf(LayerOf(n))
                                          /\ (LayerOf(n) \in owned) = (role = "worker")}
  <2>1. \A g \in Gpu : todo[g] = <<>>
    BY <1>3 DEF WInv
  <2>2. Range(<<>>) = {}
    BY DEF Range
  <2>3. UNION {Range(todo[g]) : g \in Gpu} = {}
    BY <2>1, <2>2
  <2>4. NamesOf({}) = {}
    BY DEF NamesOf
  <2>5. DOMAIN loaded = NamesOf(Mine)
    BY <1>3, <2>3, <2>4 DEF WInv
  <2>6. ASSUME NEW l \in Layers PROVE l \in Mine <=> ((l \in owned) = (role = "worker"))
    BY <1>1 DEF Mine
  <2>7. Mine \subseteq Layers
    BY <1>1 DEF Mine, Layers
  <2>8. \A l \in Layers : \A m : LayerOf(Name(l, m, "weight")) = l /\ MatrixOf(Name(l, m, "weight")) = m
    BY LayersAre, Pieces
  <2>9. \A l : MatricesOf(l) \subseteq {"tok", "q"} \cup Range(NormsOf(arch))
    BY DEF MatricesOf
  <2>10. ASSUME NEW n \in NamesOf(Mine)
         PROVE  /\ n \in All /\ MatrixOf(n) \in MatricesOf(LayerOf(n))
                /\ (LayerOf(n) \in owned) = (role = "worker")
    <3>1. PICK l \in Mine : \E m \in MatricesOf(l) : n = Name(l, m, "weight")
      BY DEF NamesOf
    <3>2. PICK m \in MatricesOf(l) : n = Name(l, m, "weight")
      BY <3>1
    <3>3. l \in Layers /\ LayerOf(n) = l /\ MatrixOf(n) = m
      BY <2>7, <2>8, <3>2
    <3>4. QED
      BY <2>6, <2>9, <3>2, <3>3
  <2>11. ASSUME NEW n \in All, MatrixOf(n) \in MatricesOf(LayerOf(n)), (LayerOf(n) \in owned) = (role = "worker")
         PROVE  n \in NamesOf(Mine)
    <3>1. PICK l \in Layers, m \in {"tok", "q"} \cup Range(NormsOf(arch)) : n = Name(l, m, "weight")
      OBVIOUS
    <3>2. LayerOf(n) = l /\ MatrixOf(n) = m
      BY <2>8, <3>1
    <3>3. l \in Mine /\ m \in MatricesOf(l)
      BY <2>6, <2>11, <3>2
    <3>4. QED
      BY <3>1, <3>3 DEF NamesOf
  <2> HIDE DEF All
  <2>12. QED
    BY <2>5, <2>10, <2>11
<1>4. QED
  BY <1>1, <1>2, <1>3 DEF Faithful, Layers

\* Every node of any topology that starts has loaded every weight of its layers, each
\* the matrix the checkpoint stands for, whatever the format, the shards, the split
\* and the GPUs (load_var_builder_for_local_layers and _for_specific_layers,
\* reduce_for_worker, Worker::new, gguf_name_to_hf, dequantize_*). Loading fails only
\* over fp8 blocks that are not whole, over a Gemma 3 file of llama.cpp, and on a worker
\* with several GPUs for the layers of a GGUF file, which never starts.
THEOREM WeightsFaithful == ASSUME WeightsAssumption PROVE WeightsSpec => []Faithful
<1>1. WeightsInit => WInv
  BY InitWeights
<1>2. WInv /\ [WeightsNext]_wvars => WInv'
  BY NextWeights
<1>3. WInv => Faithful
  BY InvFaithful
<1>4. QED
  BY <1>1, <1>2, <1>3, PTL DEF WeightsSpec
-----------------------------------------------------------------------------
(* Speech: the invariant.                                                  *)

FrameSet == [cond : Seq(Entry), neg : Seq(Entry), conv : Seq(Nat), stop : BOOLEAN]
HiddenSet == [seen : Seq(Entry), stop : BOOLEAN]

\* A conversation in order, with the first t tokens of the text and the frames fed.
Hears(c, t, fed) ==
  /\ c \in Seq(Entry) /\ InOrder(c)
  /\ NumbersOf(Only(c, "text")) = UpTo(t) /\ NumbersOf(Only(c, "frame")) = fed
Starts(a, b) == Len(a) <= Len(b) /\ \A k \in 1 .. Len(a) : a[k] = b[k]
Voices(c) == Len(Only(c, "voice"))
Fed == FedBack(Len(frames) + 1)

\* The condition of a window is as many frames behind as the window has spoken.
WindowHeld ==
  LET c == pos_hidden.seen
      heard == NumbersOf(Only(c, "frame"))
  IN  /\ Hears(c, Len(Only(c, "text")), heard) /\ Voices(c) = VoiceLen
      /\ Starts(heard, Fed) /\ left \in Nat /\ Len(Fed) - Len(heard) + left <= SpeechWindow

\* The 0.5B model: both conversations have the frames that were fed back.
Streaming ==
  /\ mode \in {"prefill", "window", "tail", "done"}
  /\ Hears(cache["pos"], cursor, Fed) /\ Voices(cache["pos"]) = VoiceLen /\ at["pos"] = Len(cache["pos"])
  /\ Hears(cache["neg"], 0, Fed) /\ at["neg"] = Len(cache["neg"]) /\ neg = cache["neg"]
  /\ mode \in {"window", "tail"} => last_hidden.seen = cache["pos"]
  /\ mode = "window" => WindowHeld

\* The 1.5B model: the positive conversation has all frames, the negative one a placeholder
\* for each since speech last started.
Talking ==
  /\ mode \in {"prefill", "loop", "done"} /\ \A k \in DOMAIN frames : ~ frames[k].stop
  /\ mode = "prefill" => frames = <<>> /\ conv = <<>> /\ cache["pos"] = <<>> /\ at["pos"] = 0
  /\ mode = "loop" =>
       /\ Hears(cache["pos"], text, UpTo(Len(frames))) /\ at["pos"] = Len(cache["pos"])
       /\ last_hidden.seen = cache["pos"]
       /\ InOrder(cache["neg"]) /\ Only(cache["neg"], "text") = <<>> /\ at["neg"] = Len(cache["neg"])
       /\ Len(Only(cache["neg"], "diff")) = Len(Only(Since(cache["pos"], {"start"}), "frame"))
       /\ conv = NumbersOf(Only(Since(cache["pos"], {"start", "end"}), "frame"))

SpInv ==
  /\ version \in Versions /\ text \in Nat /\ cursor \in 0 .. text
  /\ cache \in [Conversations -> Seq(Entry)] /\ at \in [Conversations -> Nat]
  /\ last_hidden \in HiddenSet /\ pos_hidden \in HiddenSet /\ neg \in Seq(Entry) /\ conv \in Seq(Nat)
  /\ frames \in Seq(FrameSet) /\ \A j \in DOMAIN frames : FrameOK(j)
  /\ version = "0.5B" => Streaming
  /\ version = "1.5B" => Talking

-----------------------------------------------------------------------------
(* Speech: what a conversation hears.                                      *)

LEMMA OnlyConcat ==
  ASSUME NEW c \in Seq(Entry), NEW d \in Seq(Entry), NEW sort
  PROVE  /\ Only(c, sort) \in Seq(Entry) /\ Only(d, sort) \in Seq(Entry)
         /\ Only(c \o d, sort) = Only(c, sort) \o Only(d, sort)
<1> DEFINE S == [of : {sort}, n : Nat, pos : Nat]
<1>1. /\ Among(c, S) \in Seq(Entry) /\ Among(d, S) \in Seq(Entry)
      /\ Among(c \o d, S) = Among(c, S) \o Among(d, S)
  <2> HIDE DEF S
  <2>1. Joins(c, d, S, Entry)
    BY AmongConcat, Zenon
  <2>2. QED
    BY <2>1, Zenon DEF Joins
<1>2. QED
  BY <1>1, Zenon DEF Only

LEMMA NumbersConcat ==
  ASSUME NEW c \in Seq(Entry), NEW d \in Seq(Entry)
  PROVE  /\ NumbersOf(c) \in Seq(Nat) /\ Len(NumbersOf(c)) = Len(c)
         /\ NumbersOf(d) \in Seq(Nat) /\ Len(NumbersOf(d)) = Len(d)
         /\ NumbersOf(c \o d) = NumbersOf(c) \o NumbersOf(d)
<1>1. \A e \in Seq(Entry) : /\ NumbersOf(e) \in Seq(Nat) /\ Len(NumbersOf(e)) = Len(e)
                            /\ \A k \in 1 .. Len(e) : NumbersOf(e)[k] = e[k].n
  <2> TAKE e \in Seq(Entry)
  <2>1. DOMAIN e = 1 .. Len(e) /\ Len(e) \in Nat /\ \A k \in 1 .. Len(e) : e[k] \in Entry
    OBVIOUS
  <2>2. \A k \in 1 .. Len(e) : e[k].n \in Nat
    BY <2>1 DEF Entry
  <2>3. NumbersOf(e) \in [1 .. Len(e) -> Nat]
    BY <2>1, <2>2 DEF NumbersOf
  <2>4. NumbersOf(e) \in Seq(Nat)
    BY <2>1, <2>3, SeqDef
  <2>5. Len(NumbersOf(e)) = Len(e)
    BY <2>1, <2>3, <2>4
  <2>6. QED
    BY <2>1, <2>4, <2>5 DEF NumbersOf
<1> DEFINE e == c \o d
           a == NumbersOf(c)
           b == NumbersOf(d)
<1>2. /\ e \in Seq(Entry) /\ Len(e) = Len(c) + Len(d) /\ Len(c) \in Nat /\ Len(d) \in Nat
      /\ \A k \in 1 .. Len(c) + Len(d) : e[k] = IF k <= Len(c) THEN c[k] ELSE d[k - Len(c)]
  OBVIOUS
<1> HIDE DEF e
<1>3. /\ a \in Seq(Nat) /\ Len(a) = Len(c) /\ b \in Seq(Nat) /\ Len(b) = Len(d)
      /\ NumbersOf(e) \in Seq(Nat) /\ Len(NumbersOf(e)) = Len(e)
  BY <1>1, <1>2, Zenon
<1>4. /\ \A k \in 1 .. Len(c) : a[k] = c[k].n
      /\ \A k \in 1 .. Len(d) : b[k] = d[k].n
      /\ \A k \in 1 .. Len(e) : NumbersOf(e)[k] = e[k].n
  BY <1>1, <1>2
<1> HIDE DEF a, b
<1>5. a \o b \in Seq(Nat) /\ Len(a \o b) = Len(e)
  <2>1. a \o b \in Seq(Nat) /\ Len(a \o b) = Len(a) + Len(b)
    BY <1>3, ConcatProperties
  <2>2. QED
    BY <1>2, <1>3, <2>1
<1>6. \A k \in 1 .. Len(e) : (a \o b)[k] = IF k <= Len(c) THEN a[k] ELSE b[k - Len(c)]
  BY <1>2, <1>3
<1>7. \A k \in 1 .. Len(e) : NumbersOf(e)[k] = (a \o b)[k]
  <2> TAKE k \in 1 .. Len(e)
  <2>1. CASE k <= Len(c)
    <3>1. k \in 1 .. Len(c) /\ k \in 1 .. Len(c) + Len(d)
      BY <1>2, <2>1
    <3>2. NumbersOf(e)[k] = c[k].n /\ (a \o b)[k] = a[k]
      BY <1>2, <1>4, <1>6, <2>1, <3>1
    <3>3. QED
      BY <1>4, <3>1, <3>2
  <2>2. CASE ~ (k <= Len(c))
    <3>1. k - Len(c) \in 1 .. Len(d) /\ k \in 1 .. Len(c) + Len(d)
      BY <1>2, <2>2
    <3>2. NumbersOf(e)[k] = d[k - Len(c)].n /\ (a \o b)[k] = b[k - Len(c)]
      BY <1>2, <1>4, <1>6, <2>2, <3>1
    <3>3. QED
      BY <1>4, <3>1, <3>2
  <2>3. QED
    BY <2>1, <2>2
<1>8. NumbersOf(e) = a \o b
  BY <1>3, <1>5, <1>7, SeqEqual
<1>9. QED
  BY <1>3, <1>8 DEF a, b, e

\* Entries of one kind, and those of two calls placed at once.
LEMMA PlacedIs ==
  ASSUME NEW sort \in EntryKinds, NEW m \in Nat, NEW n \in Nat, m <= n + 1, NEW p \in Nat
  PROVE  LET d == Placed(Items(sort, m, n), p)
         IN  /\ d \in Seq(Entry) /\ Len(d) = n - m + 1
             /\ \A k \in 1 .. n - m + 1 : d[k] = [of |-> sort, n |-> m + k - 1, pos |-> p + k - 1]
<1> DEFINE it == Items(sort, m, n)
           N == n - m + 1
           d == Placed(it, p)
           R == [of : EntryKinds, n : Nat]
<1>1. N \in Nat
  OBVIOUS
<1>2. \A k \in 1 .. N : m + k - 1 \in Nat /\ p + k - 1 \in Nat
  OBVIOUS
<1>3. it \in Seq(R) /\ Len(it) = N
  <2>1. it = [k \in 1 .. N |-> [of |-> sort, n |-> m + k - 1]]
    BY DEF Items
  <2> HIDE DEF N, it
  <2>2. it \in [1 .. N -> R]
    BY <1>2, <2>1
  <2> HIDE DEF R
  <2>3. it \in Seq(R)
    BY <1>1, <2>2, SeqDef
  <2>4. QED
    BY <1>1, <2>2, <2>3
<1>4. \A k \in 1 .. N : it[k].of = sort /\ it[k].n = m + k - 1
  BY DEF Items
<1>5. d = [k \in 1 .. N |-> [of |-> it[k].of, n |-> it[k].n, pos |-> p + k - 1]]
  BY <1>3 DEF Placed
<1> HIDE DEF N, it, d
<1>6. \A k \in 1 .. N : d[k] = [of |-> sort, n |-> m + k - 1, pos |-> p + k - 1]
  BY <1>4, <1>5
<1>7. d \in [1 .. N -> Entry]
  <2>1. \A k \in 1 .. N : [of |-> it[k].of, n |-> it[k].n, pos |-> p + k - 1] \in Entry
    BY <1>2, <1>4 DEF Entry
  <2>2. QED
    BY <1>5, <2>1
<1>8. d \in Seq(Entry)
  BY <1>1, <1>7, SeqDef
<1>9. Len(d) = N
  BY <1>1, <1>7, <1>8
<1>10. QED
  BY <1>6, <1>8, <1>9 DEF N, d, it

\* What such entries select.
LEMMA PlacedOnly ==
  ASSUME NEW sort \in EntryKinds, NEW m \in Nat, NEW n \in Nat, m <= n + 1, NEW p \in Nat, NEW other
  PROVE  LET d == Placed(Items(sort, m, n), p)
         IN  /\ Only(d, sort) = d /\ NumbersOf(d) = [k \in 1 .. n - m + 1 |-> m + k - 1]
             /\ other # sort => Only(d, other) = <<>>
<1> DEFINE d == Placed(Items(sort, m, n), p)
           N == n - m + 1
<1>1. /\ d \in Seq(Entry) /\ Len(d) = N
      /\ \A k \in 1 .. N : d[k] = [of |-> sort, n |-> m + k - 1, pos |-> p + k - 1]
  BY PlacedIs
<1>2. N \in Nat /\ \A k \in 1 .. N : m + k - 1 \in Nat /\ p + k - 1 \in Nat
  OBVIOUS
<1> HIDE DEF d, N
<1>3. \A k \in 1 .. Len(d) : d[k] \in [of : {sort}, n : Nat, pos : Nat]
  BY <1>1, <1>2
<1>4. Only(d, sort) = d
  BY <1>1, <1>3, AmongAll, Zenon DEF Only
<1>5. other # sort => \A k \in 1 .. Len(d) : d[k] \notin [of : {other}, n : Nat, pos : Nat]
  BY <1>1
<1>6. other # sort => Only(d, other) = <<>>
  BY <1>1, <1>5, AmongNone, Zenon DEF Only
<1>7. NumbersOf(d) = [k \in 1 .. N |-> m + k - 1]
  <2>1. DOMAIN d = 1 .. N
    BY <1>1
  <2>2. \A k \in 1 .. N : d[k].n = m + k - 1
    BY <1>1
  <2>3. QED
    BY <2>1, <2>2 DEF NumbersOf
<1>8. QED
  BY <1>4, <1>6, <1>7 DEF d, N

LEMMA Greatest ==
  ASSUME NEW N \in Nat, NEW S, S \subseteq 1 .. N, S # {}
  PROVE  \E k \in S : \A j \in S : j <= k
<1> DEFINE Ok == {n \in 0 .. N : \A T \in SUBSET (1 .. n) : T # {} => \E k \in T : \A j \in T : j <= k}
<1>1. 0 \in Ok
  <2>1. \A T \in SUBSET (1 .. 0) : T = {}
    OBVIOUS
  <2>2. 0 \in 0 .. N
    OBVIOUS
  <2>3. QED
    BY <2>1, <2>2
<1>2. ASSUME NEW n \in 0 .. N, n # 0, n - 1 \in Ok PROVE n \in Ok
  <2> SUFFICES ASSUME NEW T \in SUBSET (1 .. n), T # {} PROVE \E k \in T : \A j \in T : j <= k
    OBVIOUS
  <2>1. CASE n \in T
    <3>1. \A j \in T : j <= n
      OBVIOUS
    <3>2. QED
      BY <2>1, <3>1
  <2>2. CASE n \notin T
    <3>1. T \in SUBSET (1 .. n - 1)
      BY <1>2, <2>2
    <3>2. QED
      BY <1>2, <3>1
  <2>3. QED
    BY <2>1, <2>2
<1>3. 0 .. N \subseteq Ok
  <2> HIDE DEF Ok
  <2>1. QED
    BY <1>1, <1>2, AllUpTo
<1>4. N \in Ok
  <2>1. N \in 0 .. N
    OBVIOUS
  <2> HIDE DEF Ok
  <2>2. QED
    BY <1>3, <2>1
<1>5. QED
  BY <1>4

\* A call that goes on where the conversation is keeps it in order, and adds its own entries only.
Adds(c, sort, m, n) ==
  LET e == c \o Placed(Items(sort, m, n), Len(c))
  IN  /\ e \in Seq(Entry) /\ Len(e) = Len(c) + (n - m + 1) /\ (InOrder(c) => InOrder(e))
      /\ Only(e, sort) = Only(c, sort) \o Placed(Items(sort, m, n), Len(c))
      /\ NumbersOf(Only(e, sort)) = NumbersOf(Only(c, sort)) \o [k \in 1 .. n - m + 1 |-> m + k - 1]
      /\ \A other : other # sort => Only(e, other) = Only(c, other)

LEMMA Appended ==
  ASSUME NEW c \in Seq(Entry), NEW sort \in EntryKinds, NEW m \in Nat, NEW n \in Nat, m <= n + 1
  PROVE  Adds(c, sort, m, n)
<1> DEFINE p == Len(c)
           N == n - m + 1
           d == Placed(Items(sort, m, n), p)
           e == c \o d
<1>1. p \in Nat /\ N \in Nat /\ DOMAIN c = 1 .. p
  OBVIOUS
<1> HIDE DEF p
<1>2. /\ d \in Seq(Entry) /\ Len(d) = N
      /\ \A k \in 1 .. N : d[k] = [of |-> sort, n |-> m + k - 1, pos |-> p + k - 1]
  BY <1>1, PlacedIs
<1>3. Only(d, sort) = d /\ NumbersOf(d) = [k \in 1 .. N |-> m + k - 1]
  BY <1>1, PlacedOnly
<1>4. \A other : other # sort => Only(d, other) = <<>>
  BY <1>1, PlacedOnly
<1> HIDE DEF d, N
<1>5. /\ e \in Seq(Entry) /\ Len(e) = p + N /\ DOMAIN e = 1 .. p + N
      /\ \A k \in 1 .. p + N : e[k] = IF k <= p THEN c[k] ELSE d[k - p]
  <2>1. Len(c) = p
    BY DEF p
  <2>2. /\ e \in Seq(Entry) /\ Len(e) = Len(c) + Len(d)
        /\ \A k \in 1 .. Len(c) + Len(d) : e[k] = IF k <= Len(c) THEN c[k] ELSE d[k - Len(c)]
    <3>1. d \in Seq(Entry)
      BY <1>2
    <3>2. QED
      BY <3>1, ConcatProperties
  <2> HIDE DEF e
  <2>3. QED
    BY <1>1, <1>2, <2>1, <2>2
<1>6. ASSUME InOrder(c) PROVE InOrder(e)
  <2> SUFFICES ASSUME NEW k \in 1 .. p + N PROVE e[k].pos = k - 1
    BY <1>5, Zenon DEF InOrder
  <2>1. CASE k <= p
    <3>1. k \in 1 .. p
      BY <1>1, <2>1
    <3>2. c[k].pos = k - 1
      BY <1>1, <1>6, <3>1 DEF InOrder
    <3>3. QED
      BY <1>5, <2>1, <3>2
  <2>2. CASE ~ (k <= p)
    <3>1. k - p \in 1 .. N /\ p + (k - p) - 1 = k - 1
      BY <1>1, <2>2
    <3>2. d[k - p].pos = p + (k - p) - 1
      BY <1>2, <3>1
    <3>3. QED
      BY <1>5, <2>2, <3>1, <3>2
  <2>3. QED
    BY <2>1, <2>2
<1>7. \A other : Only(c, other) \in Seq(Entry) /\ Only(e, other) = Only(c, other) \o Only(d, other)
  BY <1>2, OnlyConcat, Zenon
<1>8. Only(e, sort) = Only(c, sort) \o d
  BY <1>3, <1>7
<1>9. NumbersOf(Only(e, sort)) = NumbersOf(Only(c, sort)) \o [k \in 1 .. N |-> m + k - 1]
  <2> DEFINE a == Only(c, sort)
  <2>1. a \in Seq(Entry)
    BY <1>7
  <2> HIDE DEF a
  <2>2. NumbersOf(a \o d) = NumbersOf(a) \o NumbersOf(d)
    BY <1>2, <2>1, NumbersConcat, Zenon
  <2>3. QED
    BY <1>3, <1>8, <2>2, Zenon DEF a
<1>10. ASSUME NEW other, other # sort PROVE Only(e, other) = Only(c, other)
  <2> DEFINE a == Only(c, other)
  <2>1. a \in Seq(Entry) /\ Only(e, other) = a \o <<>>
    BY <1>4, <1>7, <1>10
  <2> HIDE DEF a
  <2>2. a \o <<>> = a
    BY <2>1, ConcatEmptySeq
  <2>3. QED
    BY <2>1, <2>2, Zenon DEF a
<1>11. QED
  BY <1>5, <1>6, <1>8, <1>9, <1>10, Zenon DEF Adds, p, d, N

\* One entry.
LEMMA PlacedOne ==
  ASSUME NEW sort \in EntryKinds, NEW l \in Nat, NEW p \in Nat
  PROVE  /\ Placed(Item(sort, l), p) \in Seq(Entry) /\ Len(Placed(Item(sort, l), p)) = 1
         /\ [of |-> sort, n |-> l, pos |-> p] \in Entry
         /\ Placed(Item(sort, l), p) = <<[of |-> sort, n |-> l, pos |-> p]>>
<1>1. [of |-> sort, n |-> l, pos |-> p] \in Entry
  BY DEF Entry
<1>2. l - l + 1 = 1 /\ \A k \in 1 .. 1 : l + k - 1 = l /\ p + k - 1 = p
  OBVIOUS
<1>3. Item(sort, l) = <<[of |-> sort, n |-> l]>>
  BY <1>2 DEF Item, Items
<1>4. Placed(Item(sort, l), p) = <<[of |-> sort, n |-> l, pos |-> p]>>
  BY <1>2, <1>3 DEF Placed
<1>5. QED
  BY <1>1, <1>4

\* Two calls placed at once.
Twice(c, sort, m, n, other, l, p) ==
  c \o Placed(Items(sort, m, n) \o Item(other, l), p)
    = (c \o Placed(Items(sort, m, n), p)) \o Placed(Item(other, l), p + (n - m + 1))

LEMMA PlacedConcat ==
  ASSUME NEW sort \in EntryKinds, NEW other \in EntryKinds, NEW m \in Nat, NEW n \in Nat, m <= n + 1,
         NEW p \in Nat, NEW c \in Seq(Entry), NEW l \in Nat
  PROVE  Twice(c, sort, m, n, other, l, p)
<1> DEFINE R == [of : EntryKinds, n : Nat]
           N == n - m + 1
           a == Items(sort, m, n)
           b == Item(other, l)
           u == Placed(a, p)
           v == Placed(b, p + N)
           w == Placed(a \o b, p)
<1>1. N \in Nat /\ p + N \in Nat /\ l <= l + 1 /\ l - l + 1 = 1
  OBVIOUS
<1>2. u \in Seq(Entry) /\ Len(u) = N /\ v \in Seq(Entry) /\ Len(v) = 1
  <2>1. u \in Seq(Entry) /\ Len(u) = N
    BY PlacedIs
  <2>2. v \in Seq(Entry) /\ Len(v) = 1
    BY <1>1, PlacedOne
  <2>3. QED
    BY <1>1, <2>1, <2>2
<1>3. a = [k \in 1 .. N |-> [of |-> sort, n |-> m + k - 1]] /\ b = [k \in 1 .. 1 |-> [of |-> other, n |-> l + k - 1]]
  BY <1>1 DEF Item, Items
<1>4. a \in [1 .. N -> R] /\ b \in [1 .. 1 -> R]
  <2>1. \A k \in 1 .. N : m + k - 1 \in Nat
    BY <1>1
  <2>2. \A k \in 1 .. 1 : l + k - 1 \in Nat
    OBVIOUS
  <2> HIDE DEF a, b, N
  <2>3. QED
    BY <1>3, <2>1, <2>2
<1>5. u = [k \in 1 .. Len(a) |-> [of |-> a[k].of, n |-> a[k].n, pos |-> p + k - 1]]
  BY DEF Placed
<1>6. v = [k \in 1 .. Len(b) |-> [of |-> b[k].of, n |-> b[k].n, pos |-> (p + N) + k - 1]]
  BY DEF Placed
<1>7. w = [k \in 1 .. Len(a \o b) |-> [of |-> (a \o b)[k].of, n |-> (a \o b)[k].n, pos |-> p + k - 1]]
  BY DEF Placed
<1> HIDE DEF a, b, u, v, w, N, R
<1>8. a \in Seq(R) /\ b \in Seq(R) /\ Len(a) = N /\ Len(b) = 1
  <2>1. a \in Seq(R)
    BY <1>1, <1>4, SeqDef
  <2>3. b \in Seq(R)
    <3>1. 1 \in Nat
      OBVIOUS
    <3>2. QED
      BY <1>4, <3>1, SeqDef
  <2>2. QED
    BY <1>1, <1>4, <2>1, <2>3
<1>9. /\ a \o b \in Seq(R) /\ Len(a \o b) = N + 1
      /\ \A k \in 1 .. N + 1 : (a \o b)[k] = IF k <= N THEN a[k] ELSE b[k - N]
  <2>1. /\ a \o b \in Seq(R) /\ Len(a \o b) = Len(a) + Len(b)
        /\ \A k \in 1 .. Len(a) + Len(b) : (a \o b)[k] = IF k <= Len(a) THEN a[k] ELSE b[k - Len(a)]
    BY <1>8, ConcatProperties
  <2>2. QED
    BY <1>8, <2>1, Zenon
<1>10. u \o v \in Seq(Entry) /\ Len(u \o v) = N + 1 /\ \A k \in 1 .. N + 1 : (u \o v)[k] = IF k <= N THEN u[k] ELSE v[k - N]
  <2>0. u \in Seq(Entry) /\ v \in Seq(Entry)
    BY <1>2
  <2>1. /\ u \o v \in Seq(Entry) /\ Len(u \o v) = Len(u) + Len(v)
        /\ \A k \in 1 .. Len(u) + Len(v) : (u \o v)[k] = IF k <= Len(u) THEN u[k] ELSE v[k - Len(u)]
    BY <2>0, ConcatProperties
  <2>2. QED
    BY <1>2, <2>1, Zenon
<1>11. w = u \o v
  <2> DEFINE x == a \o b
             y == u \o v
  <2>1. y = [k \in 1 .. N + 1 |-> y[k]]
    <3>1. y \in Seq(Entry) /\ Len(y) = N + 1
      BY <1>10
    <3> HIDE DEF y
    <3>2. QED
      BY <3>1
  <2>2. \A k \in 1 .. N + 1 : y[k] = [of |-> x[k].of, n |-> x[k].n, pos |-> p + k - 1]
    <3> TAKE k \in 1 .. N + 1
    <3>1. CASE k <= N
      <4>1. k \in 1 .. N
        BY <1>1, <3>1
      <4>2. y[k] = u[k] /\ x[k] = a[k]
        BY <1>9, <1>10, <3>1
      <4>3. u[k] = [of |-> a[k].of, n |-> a[k].n, pos |-> p + k - 1]
        BY <1>5, <1>8, <4>1
      <4>4. QED
        BY <4>2, <4>3, Zenon
    <3>2. CASE ~ (k <= N)
      <4>1. k - N \in 1 .. 1 /\ (p + N) + (k - N) - 1 = p + k - 1
        BY <1>1, <3>2
      <4>2. y[k] = v[k - N] /\ x[k] = b[k - N]
        BY <1>9, <1>10, <3>2
      <4>3. v[k - N] = [of |-> b[k - N].of, n |-> b[k - N].n, pos |-> (p + N) + (k - N) - 1]
        BY <1>6, <1>8, <4>1
      <4>4. QED
        BY <4>1, <4>2, <4>3, Zenon
    <3>3. QED
      BY <3>1, <3>2
  <2>3. w = [k \in 1 .. N + 1 |-> [of |-> x[k].of, n |-> x[k].n, pos |-> p + k - 1]]
    BY <1>7, <1>9
  <2> HIDE DEF x, y
  <2>4. w = y
    BY <2>1, <2>2, <2>3, Zenon
  <2>5. QED
    BY <2>4 DEF y
<1>12. c \o (u \o v) = (c \o u) \o v
  <2>1. u \in Seq(Entry) /\ v \in Seq(Entry)
    BY <1>2
  <2>2. QED
    BY <2>1, ConcatAssociative
<1>13. QED
  BY <1>11, <1>12, Zenon DEF w, u, v, a, b, N, Twice

\* The entries since the last mark.
LEMMA SinceAppend ==
  ASSUME NEW c \in Seq(Entry), NEW e \in Entry, NEW K
  PROVE  /\ Since(c, K) \in Seq(Entry)
         /\ e.of \notin K => Since(c \o <<e>>, K) = Since(c, K) \o <<e>>
         /\ e.of \in K => Since(c \o <<e>>, K) = <<>>
<1> DEFINE N == Len(c)
           w == c \o <<e>>
           marks == {k \in 1 .. N : c[k].of \in K}
           next == {k \in 1 .. N + 1 : w[k].of \in K}
           Latest(S) == IF S = {} THEN 0 ELSE CHOOSE k \in S : \A j \in S : j <= k
           last == Latest(marks)
           newest == Latest(next)
<1>1. N \in Nat /\ DOMAIN c = 1 .. N /\ <<e>> \in Seq(Entry) /\ Len(<<e>>) = 1 /\ <<e>>[1] = e
  OBVIOUS
<1>2. /\ w \in Seq(Entry) /\ Len(w) = N + 1 /\ DOMAIN w = 1 .. N + 1
      /\ w[N + 1] = e /\ \A k \in 1 .. N : w[k] = c[k]
  OBVIOUS
<1>3. Since(c, K) = SubSeq(c, last + 1, N)
  BY <1>1 DEF Since
<1> HIDE DEF w
<1>4. Since(w, K) = SubSeq(w, newest + 1, N + 1)
  BY <1>2 DEF Since
<1> HIDE DEF N
<1>5. last \in 0 .. N
  <2>1. CASE marks = {}
    BY <1>1, <2>1
  <2>2. CASE marks # {}
    <3>1. \E k \in marks : \A j \in marks : j <= k
      BY <1>1, <2>2, Greatest
    <3>2. last \in marks
      <4> HIDE DEF marks
      <4>1. QED
        BY <2>2, <3>1, Zenon
    <3>3. QED
      BY <1>1, <3>2
  <2>3. QED
    BY <2>1, <2>2
<1> HIDE DEF last
<1>6. SubSeq(c, last + 1, N) \in Seq(Entry)
  <2>1. \A i \in last + 1 .. N : c[i] \in Entry
    BY <1>1, <1>5 DEF N
  <2>2. QED
    BY <1>1, <1>5, <2>1, SubSeqProperties
<1>7. ASSUME e.of \notin K PROVE Since(w, K) = Since(c, K) \o <<e>>
  <2>1. next = marks
    BY <1>1, <1>2, <1>7
  <2>2. newest = last
    <3> HIDE DEF Latest, marks, next
    <3>1. QED
      BY <2>1, Zenon DEF last
  <2> HIDE DEF newest
  <2>3. SubSeq(w, last + 1, N + 1) = SubSeq(w, last + 1, N) \o <<w[N + 1]>>
    <3>1. last + 1 \in 1 .. N + 1 /\ N + 1 \in (last + 1) .. N + 1 /\ N + 1 \in 1 .. Len(w) /\ N + 1 - 1 = N /\ last + 1 \in 1 .. Len(w)
      BY <1>1, <1>2, <1>5
    <3>2. N + 1 \in (last + 1) .. Len(w)
      BY <1>1, <1>2, <1>5
    <3>3. SubSeq(w, last + 1, N + 1) = SubSeq(w, last + 1, (N + 1) - 1) \o <<w[N + 1]>>
      BY <1>2, <3>1, <3>2, SubSeqRecursiveSecond
    <3>4. (N + 1) - 1 = N
      BY <1>1
    <3>5. QED
      BY <3>3, <3>4, Zenon
  <2>4. SubSeq(w, last + 1, N) = SubSeq(c, last + 1, N)
    <3>1. \A i \in last + 1 .. N : i \in 1 .. N /\ w[i] = c[i] /\ c[i] \in Entry
      BY <1>1, <1>2, <1>5 DEF N
    <3>2. \A i \in last + 1 .. N : w[i] \in Entry /\ c[i] \in Entry
      BY <3>1
    <3>3. /\ SubSeq(w, last + 1, N) \in Seq(Entry) /\ Len(SubSeq(w, last + 1, N)) = IF last + 1 <= N THEN N - (last + 1) + 1 ELSE 0
          /\ \A i \in 1 .. N - (last + 1) + 1 : SubSeq(w, last + 1, N)[i] = w[(last + 1) + i - 1]
      BY <1>1, <1>5, <3>2, SubSeqProperties
    <3>4. /\ SubSeq(c, last + 1, N) \in Seq(Entry) /\ Len(SubSeq(c, last + 1, N)) = IF last + 1 <= N THEN N - (last + 1) + 1 ELSE 0
          /\ \A i \in 1 .. N - (last + 1) + 1 : SubSeq(c, last + 1, N)[i] = c[(last + 1) + i - 1]
      BY <1>1, <1>5, <3>2, SubSeqProperties
    <3>5. \A i \in 1 .. N - (last + 1) + 1 : (last + 1) + i - 1 \in last + 1 .. N
      BY <1>1, <1>5
    <3>6. \A i \in 1 .. Len(SubSeq(w, last + 1, N)) : i \in 1 .. N - (last + 1) + 1
      BY <1>1, <1>5, <3>3
    <3>7. \A i \in 1 .. Len(SubSeq(w, last + 1, N)) : SubSeq(w, last + 1, N)[i] = SubSeq(c, last + 1, N)[i]
      BY <3>1, <3>3, <3>4, <3>5, <3>6
    <3>8. QED
      BY <3>3, <3>4, <3>7, SeqEqual
  <2>5. QED
    BY <1>2, <1>3, <1>4, <2>2, <2>3, <2>4
<1>8. ASSUME e.of \in K PROVE Since(w, K) = <<>>
  <2>1. N + 1 \in next /\ \A j \in next : j <= N + 1
    BY <1>1, <1>2, <1>8
  <2>2. next # {} /\ next \subseteq Nat
    BY <1>1, <2>1
  <2>3. newest \in next /\ \A j \in next : j <= newest
    <3> HIDE DEF next
    <3>1. QED
      BY <2>1, <2>2, Zenon
  <2>4. newest = N + 1
    <3> HIDE DEF newest
    <3>1. newest <= N + 1 /\ N + 1 <= newest /\ newest \in Nat
      BY <1>1, <2>1, <2>2, <2>3
    <3>2. QED
      BY <1>1, <3>1
  <2> HIDE DEF newest
  <2>5. QED
    BY <1>1, <1>4, <2>4, SubSeqEmpty
<1>9. QED
  BY <1>3, <1>6, <1>7, <1>8, Zenon DEF w

LEMMA UpToConcat ==
  ASSUME NEW m \in Nat, NEW n \in Nat, m <= n
  PROVE  /\ UpTo(m) \in Seq(Nat) /\ Len(UpTo(m)) = m
         /\ UpTo(m) \o [k \in 1 .. n - (m + 1) + 1 |-> (m + 1) + k - 1] = UpTo(n)
<1> DEFINE N == n - (m + 1) + 1
           t == [k \in 1 .. N |-> (m + 1) + k - 1]
           a == UpTo(m)
           b == UpTo(n)
<1>1. N \in Nat /\ m + N = n
  OBVIOUS
<1>2. a \in [1 .. m -> Nat] /\ b \in [1 .. n -> Nat] /\ \A k \in 1 .. m : a[k] = k
  BY DEF UpTo
<1>3. t \in [1 .. N -> Nat]
  <2>1. \A k \in 1 .. N : (m + 1) + k - 1 \in Nat
    OBVIOUS
  <2> HIDE DEF N
  <2>2. QED
    BY <2>1
<1>4. \A k \in 1 .. n : b[k] = k
  BY DEF UpTo
<1>5. \A k \in 1 .. N : t[k] = m + k
  OBVIOUS
<1> HIDE DEF N, t, a, b
<1>6. a \in Seq(Nat) /\ b \in Seq(Nat) /\ t \in Seq(Nat)
  BY <1>1, <1>2, <1>3, SeqDef
<1>7. Len(a) = m /\ Len(b) = n /\ Len(t) = N
  BY <1>1, <1>2, <1>3, <1>6
<1>8. /\ a \o t \in Seq(Nat) /\ Len(a \o t) = Len(a) + Len(t)
      /\ \A k \in 1 .. Len(a) + Len(t) : (a \o t)[k] = IF k <= Len(a) THEN a[k] ELSE t[k - Len(a)]
  BY <1>6, ConcatProperties
<1>9. \A k \in 1 .. n : (a \o t)[k] = b[k]
  <2> TAKE k \in 1 .. n
  <2>1. CASE k <= m
    <3>1. k \in 1 .. m /\ k \in 1 .. m + N
      BY <1>1, <2>1
    <3>2. QED
      BY <1>2, <1>4, <1>7, <1>8, <2>1, <3>1
  <2>2. CASE ~ (k <= m)
    <3>1. k - m \in 1 .. N /\ k \in 1 .. m + N /\ m + (k - m) = k
      BY <1>1, <2>2
    <3>2. (a \o t)[k] = t[k - m]
      BY <1>7, <1>8, <2>2, <3>1
    <3>3. t[k - m] = m + (k - m)
      BY <1>5, <3>1
    <3>4. QED
      BY <1>4, <3>1, <3>2, <3>3
  <2>3. QED
    BY <2>1, <2>2
<1>10. a \o t = b
  <2>1. Len(a \o t) = n
    BY <1>1, <1>7, <1>8
  <2> DEFINE x == a \o t
  <2>2. x \in Seq(Nat) /\ Len(x) = Len(b) /\ \A k \in 1 .. Len(x) : x[k] = b[k]
    BY <1>7, <1>8, <1>9, <2>1
  <2> HIDE DEF x
  <2>3. x = b
    BY <1>6, <2>2, SeqEqual
  <2>4. QED
    BY <2>3 DEF x
<1>11. QED
  BY <1>6, <1>7, <1>10, Zenon DEF a, b, t, N

LEMMA OneNumber ==
  ASSUME NEW l \in Nat
  PROVE  [k \in 1 .. l - l + 1 |-> l + k - 1] = <<l>>
<1>1. l - l + 1 = 1 /\ \A k \in 1 .. 1 : l + k - 1 = l
  OBVIOUS
<1>2. QED
  BY <1>1

LEMMA UpToNext ==
  ASSUME NEW n \in Nat
  PROVE  /\ UpTo(n) \in Seq(Nat) /\ Len(UpTo(n)) = n /\ UpTo(n + 1) = UpTo(n) \o <<n + 1>>
<1>1. UpTo(n) \o [k \in 1 .. (n + 1) - (n + 1) + 1 |-> (n + 1) + k - 1] = UpTo(n + 1) /\ UpTo(n) \in Seq(Nat) /\ Len(UpTo(n)) = n
  <2> DEFINE q == n + 1
  <2>1. q \in Nat /\ n <= q
    OBVIOUS
  <2> HIDE DEF q
  <2>2. UpTo(n) \o [k \in 1 .. q - (n + 1) + 1 |-> (n + 1) + k - 1] = UpTo(q) /\ UpTo(n) \in Seq(Nat) /\ Len(UpTo(n)) = n
    BY <2>1, UpToConcat, Zenon
  <2>3. QED
    BY <2>2, Zenon DEF q
<1> DEFINE q == n + 1
<1>2. q \in Nat
  OBVIOUS
<1> HIDE DEF q
<1>3. [k \in 1 .. q - q + 1 |-> q + k - 1] = <<q>>
  BY <1>2, OneNumber, Zenon
<1>4. QED
  BY <1>1, <1>3, Zenon DEF q

-----------------------------------------------------------------------------
(* The frames so far.                                                      *)

FedOf(fs, j) == Among(UpTo(j - 1), {k \in DOMAIN fs : ~ fs[k].stop})
FedNext(fs, f) ==
  LET n == Len(fs) + 1
      gs == Append(fs, f)
  IN  /\ FedOf(fs, n) \in Seq(Nat)
      /\ \A j \in 1 .. n : FedOf(gs, j) = FedOf(fs, j)
      /\ FedOf(gs, n + 1) = IF f.stop THEN FedOf(fs, n) ELSE FedOf(fs, n) \o <<n>>

LEMMA FedGrows ==
  ASSUME NEW fs \in Seq(FrameSet), NEW f \in FrameSet
  PROVE  FedNext(fs, f)
<1> DEFINE n == Len(fs) + 1
           gs == Append(fs, f)
           S == {k \in DOMAIN fs : ~ fs[k].stop}
           R == {k \in DOMAIN gs : ~ gs[k].stop}
<1>1. n \in Nat /\ n - 1 \in Nat /\ Len(fs) = n - 1 /\ DOMAIN fs = 1 .. n - 1 /\ DOMAIN gs = 1 .. n /\ gs[n] = f
      /\ \A k \in 1 .. n - 1 : gs[k] = fs[k]
  OBVIOUS
<1> HIDE DEF gs
<1>2. \A k \in 1 .. n - 1 : k \in S <=> k \in R
  BY <1>1
<1>3. n \in R <=> ~ f.stop
  BY <1>1
<1>4. \A j \in 1 .. n : Among(UpTo(j - 1), R) = Among(UpTo(j - 1), S)
  <2> TAKE j \in 1 .. n
  <2>1. j - 1 \in Nat /\ j - 1 <= n - 1
    BY <1>1
  <2>2. UpTo(j - 1) \in Seq(Nat) /\ Len(UpTo(j - 1)) = j - 1
    BY <2>1, UpToNext, Zenon
  <2>3. \A k \in 1 .. j - 1 : UpTo(j - 1)[k] = k /\ k \in 1 .. n - 1
    BY <1>1, <2>1 DEF UpTo
  <2>4. \A k \in 1 .. Len(UpTo(j - 1)) : UpTo(j - 1)[k] \in R <=> UpTo(j - 1)[k] \in S
    BY <1>2, <2>2, <2>3, Zenon
  <2> HIDE DEF S, R
  <2>5. QED
    BY <2>2, <2>4, AmongSame, Zenon
<1>5. UpTo(n - 1) \in Seq(Nat) /\ Among(UpTo(n - 1), S) \in Seq(Nat)
  <2>1. UpTo(n - 1) \in Seq(Nat)
    BY <1>1, UpToNext, Zenon
  <2> HIDE DEF S
  <2>2. Joins(UpTo(n - 1), UpTo(n - 1), S, Nat)
    BY <2>1, AmongConcat, Zenon
  <2>3. QED
    BY <2>1, <2>2, Zenon DEF Joins
<1>6. Among(UpTo(n), R) = IF f.stop THEN Among(UpTo(n - 1), S) ELSE Among(UpTo(n - 1), S) \o <<n>>
  <2> DEFINE a == UpTo(n - 1)
             b == Among(a, S)
  <2>1. UpTo(n) = a \o <<n>>
    <3> DEFINE q == n - 1
    <3>1. q \in Nat /\ q + 1 = n
      BY <1>1
    <3> HIDE DEF q
    <3>2. UpTo(q + 1) = UpTo(q) \o <<q + 1>>
      BY <3>1, UpToNext, Zenon
    <3>3. QED
      BY <3>1, <3>2, Zenon DEF q
  <2>2. a \in Seq(Nat) /\ <<n>> \in Seq(Nat) /\ Among(a, R) = b /\ b \in Seq(Nat)
    <3>1. <<n>> \in Seq(Nat) /\ n \in 1 .. n
      BY <1>1
    <3>2. QED
      BY <1>4, <1>5, <3>1, Zenon
  <2> HIDE DEF a
  <2>3. Joins(a, <<n>>, R, Nat)
    <3> HIDE DEF n, R
    <3>1. QED
      BY <2>2, AmongConcat, Zenon
  <2>4. Among(a \o <<n>>, R) = b \o Among(<<n>>, R)
    BY <2>2, <2>3, Zenon DEF Joins
  <2> HIDE DEF b
  <2>5. CASE f.stop
    <3>1. \A i \in 1 .. Len(<<n>>) : <<n>>[i] \notin R
      BY <1>3, <2>5
    <3>2. Among(<<n>>, R) = <<>>
      <4> HIDE DEF n, R
      <4>1. QED
        BY <2>2, <3>1, AmongNone, Zenon
    <3>3. b \o <<>> = b
      BY <2>2, ConcatEmptySeq
    <3>4. QED
      BY <2>1, <2>4, <2>5, <3>2, <3>3 DEF b, a
  <2>6. CASE ~ f.stop
    <3>1. \A i \in 1 .. Len(<<n>>) : <<n>>[i] \in R
      BY <1>3, <2>6
    <3>2. Among(<<n>>, R) = <<n>>
      <4> HIDE DEF n, R
      <4>1. QED
        BY <2>2, <3>1, AmongAll, Zenon
    <3>3. QED
      BY <2>1, <2>4, <2>6, <3>2 DEF b, a
  <2>7. QED
    BY <2>5, <2>6
<1>7. (n + 1) - 1 = n
  BY <1>1
<1> HIDE DEF S, R, n
<1>8. QED
  BY <1>4, <1>5, <1>6, <1>7 DEF FedNext, FedOf, gs, n, S, R

\* FrameOK and Fed, of any frames.
FrameIs(fs, v, j) ==
  LET f == fs[j]
      heard == NumbersOf(Only(f.cond, "frame"))
      fed   == FedOf(fs, j)
  IN  /\ InOrder(f.cond) /\ InOrder(f.neg)
      /\ Only(f.neg, "text") = <<>>
      /\ NumbersOf(Only(f.cond, "text")) = UpTo(Len(Only(f.cond, "text")))
      /\ IsPrefix(heard, fed)
      /\ \/ /\ v = "1.5B"
            /\ heard = UpTo(j - 1)
            /\ Len(Only(f.neg, "diff")) = 1 + Len(Only(Since(f.cond, {"start"}), "frame"))
            /\ f.conv = NumbersOf(Only(Since(f.cond, {"start", "end"}), "frame")) \o <<j>>
         \/ /\ v = "0.5B"
            /\ Len(heard) > Len(fed) - SpeechWindow
            /\ Len(Only(f.cond, "voice")) = VoiceLen
            /\ NumbersOf(Only(f.neg, "frame")) = fed

LEMMA FramesSame ==
  ASSUME \A j \in DOMAIN frames : FrameOK(j), UNCHANGED <<frames, version>>
  PROVE  (\A j \in DOMAIN frames : FrameOK(j))' /\ Fed' = Fed
<1>1. \A j : FedBack(j)' = FedBack(j)
  BY Zenon DEF FedBack
<1>2. ASSUME NEW j \in DOMAIN frames PROVE FrameOK(j)'
  <2>1. FrameOK(j)
    BY <1>2
  <2>2. frames' = frames /\ version' = version
    OBVIOUS
  <2>3. QED
    BY <2>1, <2>2 DEF FrameOK, FedBack
<1>3. Fed' = Fed
  BY <1>1 DEF Fed, FedBack
<1>4. QED
  BY <1>2, <1>3

\* A frame sampled as it should be.
LEMMA FramesGrow ==
  ASSUME frames \in Seq(FrameSet), \A j \in DOMAIN frames : FrameOK(j), version' = version,
         NEW f \in FrameSet, frames' = Append(frames, f), FrameIs(frames', version, Len(frames) + 1)
  PROVE  /\ frames' \in Seq(FrameSet) /\ (\A j \in DOMAIN frames : FrameOK(j))'
         /\ Fed' = (IF f.stop THEN Fed ELSE Fed \o <<Len(frames) + 1>>)
<1> DEFINE n == Len(frames) + 1
<1>1. /\ frames' \in Seq(FrameSet) /\ Len(frames') = n /\ DOMAIN frames' = 1 .. n /\ n \in Nat
      /\ DOMAIN frames = 1 .. n - 1 /\ \A j \in 1 .. n - 1 : frames'[j] = frames[j]
  OBVIOUS
<1>2. FedNext(frames, f)
  BY FedGrows, Zenon
<1>3. \A j \in 1 .. n : FedOf(frames', j) = FedOf(frames, j)
  BY <1>2 DEF FedNext
<1>4. ASSUME NEW j \in 1 .. n PROVE FrameOK(j)'
  <2>1. CASE j = n
    <3>1. FrameIs(frames', version', j)
      BY <2>1, Zenon
    <3>2. FrameIs(frames', version', j) => FrameOK(j)'
      BY DEF FrameIs, FrameOK, FedBack, FedOf
    <3>3. QED
      BY <3>1, <3>2
  <2>2. CASE j # n
    <3>1. j \in 1 .. n - 1 /\ frames'[j] = frames[j]
      BY <1>1, <2>2
    <3>2. FrameOK(j)
      BY <1>1, <3>1
    <3>3. FrameIs(frames, version, j)
      BY <3>2, Zenon DEF FrameIs, FrameOK, FedBack, FedOf
    <3>4. FrameIs(frames', version', j)
      BY <1>3, <3>1, <3>3, Zenon DEF FrameIs
    <3>5. FrameIs(frames', version', j) => FrameOK(j)'
      BY DEF FrameIs, FrameOK, FedBack, FedOf
    <3>6. QED
      BY <3>4, <3>5
  <2>3. QED
    BY <2>1, <2>2
<1>5. Fed = FedOf(frames, n)
  BY DEF Fed, FedBack, FedOf
<1>6. Fed' = FedOf(frames', n + 1)
  <2>1. Len(frames') = n
    BY <1>1
  <2> HIDE DEF n
  <2>2. QED
    BY <2>1 DEF Fed, FedBack, FedOf
<1>7. Fed' = (IF f.stop THEN Fed ELSE Fed \o <<n>>)
  <2>1. FedOf(Append(frames, f), n + 1) = IF f.stop THEN FedOf(frames, n) ELSE FedOf(frames, n) \o <<n>>
    BY <1>2, Zenon DEF FedNext
  <2> HIDE DEF n
  <2>2. QED
    BY <1>5, <1>6, <2>1, Zenon
<1>8. QED
  BY <1>1, <1>4, <1>7

LEMMA FedIn == ASSUME frames \in Seq(FrameSet) PROVE Fed \in Seq(Nat)
<1> DEFINE a == UpTo((Len(frames) + 1) - 1)
           S == {k \in DOMAIN frames : ~ frames[k].stop}
<1>1. a \in Seq(Nat)
  <2> DEFINE q == (Len(frames) + 1) - 1
  <2>1. q \in Nat
    OBVIOUS
  <2> HIDE DEF q
  <2>2. UpTo(q) \in Seq(Nat)
    BY <2>1, UpToNext, Zenon
  <2>3. QED
    BY <2>2 DEF q
<1>2. Fed = Among(a, S)
  BY Zenon DEF Fed, FedBack
<1> HIDE DEF a, S
<1>3. Joins(a, a, S, Nat)
  BY <1>1, AmongConcat, Zenon
<1>4. QED
  BY <1>2, <1>3, Zenon DEF Joins

-----------------------------------------------------------------------------
(* What the conversations hear.                                            *)

LEMMA HearsLen ==
  ASSUME NEW c, NEW t \in Nat, NEW fed, Hears(c, t, fed)
  PROVE  /\ c \in Seq(Entry) /\ fed \in Seq(Nat) /\ Len(Only(c, "text")) = t /\ Len(Only(c, "frame")) = Len(fed)
         /\ t = 0 => Only(c, "text") = <<>>
<1>1. c \in Seq(Entry) /\ NumbersOf(Only(c, "text")) = UpTo(t) /\ NumbersOf(Only(c, "frame")) = fed
  BY DEF Hears
<1>2. Only(c, "text") \in Seq(Entry) /\ Only(c, "frame") \in Seq(Entry)
  BY <1>1, OnlyConcat, Zenon
<1>3. /\ Len(NumbersOf(Only(c, "text"))) = Len(Only(c, "text"))
      /\ NumbersOf(Only(c, "frame")) \in Seq(Nat) /\ Len(NumbersOf(Only(c, "frame"))) = Len(Only(c, "frame"))
  BY <1>2, NumbersConcat, Zenon
<1>4. Len(UpTo(t)) = t
  BY UpToNext, Zenon
<1>5. t = 0 => Only(c, "text") = <<>>
  <2> DEFINE a == Only(c, "text")
  <2>1. a \in Seq(Entry) /\ (t = 0 => Len(a) = 0)
    BY <1>1, <1>2, <1>3, <1>4
  <2> HIDE DEF a
  <2>2. t = 0 => a = <<>>
    BY <2>1
  <2>3. QED
    BY <2>2 DEF a
<1>6. QED
  BY <1>1, <1>3, <1>4, <1>5, Zenon

\* e goes on from c with n more entries.
GoesOn(c, e, n, t, fed) == Hears(e, t, fed) /\ Voices(e) = Voices(c) /\ Len(e) = Len(c) + n

LEMMA HearsText ==
  ASSUME NEW c, NEW t \in Nat, NEW n \in Nat, t <= n, NEW fed, Hears(c, t, fed),
         NEW e, e = c \o Placed(Items("text", t + 1, n), Len(c))
  PROVE  GoesOn(c, e, n - t, n, fed)
<1>1. c \in Seq(Entry) /\ InOrder(c) /\ NumbersOf(Only(c, "text")) = UpTo(t) /\ NumbersOf(Only(c, "frame")) = fed
  BY DEF Hears
<1>2. "text" \in EntryKinds /\ "frame" # "text" /\ "voice" # "text"
  BY DEF EntryKinds
<1> DEFINE m == t + 1
<1>3. m \in Nat /\ m <= n + 1 /\ n - m + 1 = n - t /\ Len(c) \in Nat
  BY <1>1
<1> HIDE DEF m
<1>4. Adds(c, "text", m, n)
  BY <1>1, <1>2, <1>3, Appended, Zenon
<1>5. e = c \o Placed(Items("text", m, n), Len(c))
  BY DEF m
<1>6. /\ e \in Seq(Entry) /\ Len(e) = Len(c) + (n - m + 1) /\ InOrder(e)
      /\ NumbersOf(Only(e, "text")) = NumbersOf(Only(c, "text")) \o [k \in 1 .. n - m + 1 |-> m + k - 1]
      /\ Only(e, "frame") = Only(c, "frame") /\ Only(e, "voice") = Only(c, "voice")
  BY <1>1, <1>2, <1>4, <1>5, Zenon DEF Adds
<1>7. UpTo(t) \o [k \in 1 .. n - m + 1 |-> m + k - 1] = UpTo(n)
  BY UpToConcat, Zenon DEF m
<1>8. QED
  BY <1>1, <1>3, <1>6, <1>7, Zenon DEF Hears, Voices, GoesOn

LEMMA HearsFrame ==
  ASSUME NEW c, NEW t, NEW fed, Hears(c, t, fed), NEW l \in Nat,
         NEW e, e = c \o Placed(Item("frame", l), Len(c))
  PROVE  GoesOn(c, e, 1, t, fed \o <<l>>)
<1>1. c \in Seq(Entry) /\ InOrder(c) /\ NumbersOf(Only(c, "text")) = UpTo(t) /\ NumbersOf(Only(c, "frame")) = fed
  BY DEF Hears
<1>2. "frame" \in EntryKinds /\ "text" # "frame" /\ "voice" # "frame"
  BY DEF EntryKinds
<1>3. l <= l + 1 /\ l - l + 1 = 1 /\ Len(c) \in Nat
  BY <1>1
<1>4. Adds(c, "frame", l, l)
  BY <1>1, <1>2, <1>3, Appended, Zenon
<1>5. e = c \o Placed(Items("frame", l, l), Len(c))
  BY DEF Item
<1>6. /\ e \in Seq(Entry) /\ Len(e) = Len(c) + (l - l + 1) /\ InOrder(e)
      /\ NumbersOf(Only(e, "frame")) = NumbersOf(Only(c, "frame")) \o [k \in 1 .. l - l + 1 |-> l + k - 1]
      /\ Only(e, "text") = Only(c, "text") /\ Only(e, "voice") = Only(c, "voice")
  BY <1>1, <1>2, <1>4, <1>5, Zenon DEF Adds
<1>7. [k \in 1 .. l - l + 1 |-> l + k - 1] = <<l>>
  BY OneNumber, Zenon
<1>8. QED
  BY <1>1, <1>3, <1>6, <1>7, Zenon DEF Hears, Voices, GoesOn

\* An entry of another kind.
LEMMA HearsOther ==
  ASSUME NEW c, NEW t, NEW fed, Hears(c, t, fed), NEW sort \in EntryKinds, sort \notin {"text", "frame"},
         NEW e, e = c \o Placed(Item(sort, 0), Len(c))
  PROVE  Hears(e, t, fed) /\ Len(e) = Len(c) + 1
<1>1. c \in Seq(Entry) /\ InOrder(c) /\ NumbersOf(Only(c, "text")) = UpTo(t) /\ NumbersOf(Only(c, "frame")) = fed
  BY DEF Hears
<1>2. "text" # sort /\ "frame" # sort
  OBVIOUS
<1>3. 0 \in Nat /\ 0 <= 0 + 1 /\ 0 - 0 + 1 = 1 /\ Len(c) \in Nat
  BY <1>1
<1>4. Adds(c, sort, 0, 0)
  BY <1>1, <1>3, Appended, Zenon
<1>5. e = c \o Placed(Items(sort, 0, 0), Len(c))
  BY DEF Item
<1>6. /\ e \in Seq(Entry) /\ Len(e) = Len(c) + (0 - 0 + 1) /\ InOrder(e)
      /\ Only(e, "text") = Only(c, "text") /\ Only(e, "frame") = Only(c, "frame")
  BY <1>1, <1>2, <1>4, <1>5, Zenon DEF Adds
<1>7. QED
  BY <1>1, <1>3, <1>6, Zenon DEF Hears

\* A conversation that has heard nothing yet, or the voice prompt.
LEMMA HearsNothing ==
  /\ Hears(<<>>, 0, <<>>) /\ <<>> \in Seq(Entry) /\ \A sort : Only(<<>>, sort) = <<>>
<1>1. <<>> \in Seq(Entry) /\ Len(<<>>) = 0
  OBVIOUS
<1>2. \A sort : Only(<<>>, sort) = <<>>
  <2> TAKE sort
  <2> DEFINE S == [of : {sort}, n : Nat, pos : Nat]
  <2>1. \A i \in 1 .. Len(<<>>) : <<>>[i] \notin S
    BY <1>1
  <2> HIDE DEF S
  <2>2. Among(<<>>, S) = <<>>
    BY <1>1, <2>1, AmongNone, Zenon
  <2>3. QED
    BY <2>2, Zenon DEF Only, S
<1>3. NumbersOf(<<>>) = <<>> /\ UpTo(0) = <<>>
  BY DEF NumbersOf, UpTo
<1>4. InOrder(<<>>)
  BY DEF InOrder
<1>5. QED
  BY <1>1, <1>2, <1>3, <1>4, Zenon DEF Hears

LEMMA HearsVoice ==
  ASSUME VoiceLen \in Nat
  PROVE  Hears(Injected, 0, <<>>) /\ Voices(Injected) = VoiceLen /\ Len(Injected) = VoiceLen /\ Injected \in Seq(Entry)
<1>1. "voice" \in EntryKinds /\ "text" # "voice" /\ "frame" # "voice"
  BY DEF EntryKinds
<1>2. 1 \in Nat /\ 0 \in Nat /\ 1 <= VoiceLen + 1 /\ VoiceLen - 1 + 1 = VoiceLen /\ 0 + VoiceLen = VoiceLen
  OBVIOUS
<1>3. Injected \in Seq(Entry) /\ Len(Injected) = VoiceLen - 1 + 1
  BY <1>1, <1>2, PlacedIs DEF Injected
<1>4. Only(Injected, "voice") = Injected /\ Only(Injected, "text") = <<>> /\ Only(Injected, "frame") = <<>>
  BY <1>1, <1>2, PlacedOnly DEF Injected
<1>5. \A k \in 1 .. VoiceLen : Injected[k].pos = k - 1
  <2> DEFINE p == 0
             m == 1
             d == Placed(Items("voice", m, VoiceLen), p)
  <2>1. p \in Nat /\ m \in Nat /\ m <= VoiceLen + 1
    OBVIOUS
  <2>2. Injected = d
    BY DEF Injected
  <2> HIDE DEF p, m
  <2>3. \A k \in 1 .. VoiceLen - m + 1 : d[k] = [of |-> "voice", n |-> m + k - 1, pos |-> p + k - 1]
    BY <1>1, <2>1, PlacedIs
  <2> HIDE DEF d
  <2>4. \A k \in 1 .. VoiceLen - m + 1 : d[k].pos = p + k - 1
    <3> TAKE k \in 1 .. VoiceLen - m + 1
    <3>1. d[k] = [of |-> "voice", n |-> m + k - 1, pos |-> p + k - 1]
      BY <2>3
    <3> DEFINE x == d[k]
               a == m + k - 1
               b == p + k - 1
    <3>2. x = [of |-> "voice", n |-> a, pos |-> b]
      BY <3>1
    <3> HIDE DEF x, a, b
    <3>3. x.pos = b
      BY <3>2
    <3>4. QED
      BY <3>3 DEF x, b
  <2>5. QED
    BY <2>2, <2>4 DEF p, m
<1>6. InOrder(Injected)
  BY <1>2, <1>3, <1>5 DEF InOrder
<1>7. NumbersOf(<<>>) = <<>> /\ UpTo(0) = <<>>
  BY DEF NumbersOf, UpTo
<1>8. QED
  BY <1>2, <1>3, <1>4, <1>6, <1>7, Zenon DEF Hears, Voices

-----------------------------------------------------------------------------
(* Frames sampled as they should be.                                       *)

LEMMA SampledStreaming ==
  ASSUME SpeechWindow \in Nat, NEW fs, NEW j, NEW c, NEW d, NEW heard,
         Hears(c, Len(Only(c, "text")), heard), Voices(c) = VoiceLen,
         FedOf(fs, j) \in Seq(Nat), Starts(heard, FedOf(fs, j)), Len(FedOf(fs, j)) - Len(heard) < SpeechWindow,
         Hears(d, 0, FedOf(fs, j)), fs[j].cond = c, fs[j].neg = d
  PROVE  FrameIs(fs, "0.5B", j)
<1> DEFINE fed == FedOf(fs, j)
<1>1. c \in Seq(Entry) /\ InOrder(c) /\ NumbersOf(Only(c, "text")) = UpTo(Len(Only(c, "text"))) /\ NumbersOf(Only(c, "frame")) = heard
  BY DEF Hears
<1>2. InOrder(d) /\ NumbersOf(Only(d, "frame")) = fed
  BY DEF Hears
<1>3. Only(d, "text") = <<>>
  BY HearsLen
<1>4. heard \in Seq(Nat)
  <2>1. Only(c, "text") \in Seq(Entry)
    BY <1>1, OnlyConcat, Zenon
  <2>2. Len(Only(c, "text")) \in Nat
    BY <2>1
  <2>3. QED
    BY <2>2, HearsLen, Zenon
<1>5. fed \in Seq(Nat) /\ Len(heard) <= Len(fed) /\ \A k \in 1 .. Len(heard) : heard[k] = fed[k]
  BY DEF Starts
<1> HIDE DEF fed
<1>6. IsPrefix(heard, fed)
  <2>1. SubSeq(heard, 1, Len(heard)) = heard
    BY <1>4, SubSeqFull
  <2> DEFINE N == Len(heard)
             a == SubSeq(fed, 1, N)
  <2>2. N \in Nat /\ Len(fed) \in Nat /\ N <= Len(fed)
    BY <1>4, <1>5
  <2>3. \A k \in 1 .. N : fed[k] \in Nat
    BY <1>5, <2>2
  <2> HIDE DEF N
  <2>4. a \in Seq(Nat) /\ Len(a) = (IF 1 <= N THEN N - 1 + 1 ELSE 0) /\ \A k \in 1 .. N - 1 + 1 : a[k] = fed[1 + k - 1]
    BY <2>2, <2>3, SubSeqProperties
  <2>5. Len(a) = N /\ \A k \in 1 .. N : a[k] = fed[k]
    BY <2>2, <2>4
  <2> HIDE DEF a
  <2>6. Len(heard) = N /\ \A k \in 1 .. N : heard[k] = a[k]
    BY <1>5, <2>5 DEF N
  <2>7. heard = a
    BY <1>4, <2>4, <2>5, <2>6, SeqEqual
  <2>8. QED
    BY <1>5, <2>1, <2>7 DEF IsPrefix, a, N
<1>7. Len(heard) > Len(fed) - SpeechWindow
  BY <1>4, <1>5 DEF fed
<1>8. QED
  BY <1>1, <1>2, <1>3, <1>6, <1>7, Zenon DEF FrameIs, fed, Voices

LEMMA SampledTalking ==
  ASSUME NEW fs, NEW j \in Nat \ {0}, NEW c, NEW d, NEW t \in Nat,
         Hears(c, t, UpTo(j - 1)), FedOf(fs, j) = UpTo(j - 1), InOrder(d), Only(d, "text") = <<>>,
         Len(Only(d, "diff")) = 1 + Len(Only(Since(c, {"start"}), "frame")),
         fs[j].cond = c, fs[j].neg = d,
         fs[j].conv = NumbersOf(Only(Since(c, {"start", "end"}), "frame")) \o <<j>>
  PROVE  FrameIs(fs, "1.5B", j)
<1> DEFINE fed == UpTo(j - 1)
<1>1. InOrder(c) /\ NumbersOf(Only(c, "text")) = UpTo(t) /\ NumbersOf(Only(c, "frame")) = fed
  BY DEF Hears
<1>2. Len(Only(c, "text")) = t
  BY HearsLen, Zenon
<1>3. IsPrefix(fed, fed)
  <2>1. j - 1 \in Nat
    OBVIOUS
  <2>2. fed \in Seq(Nat)
    BY <2>1, UpToNext, Zenon
  <2> HIDE DEF fed
  <2>3. Len(fed) \in Nat
    BY <2>2
  <2>4. QED
    BY <2>3 DEF IsPrefix
<1>4. QED
  BY <1>1, <1>2, <1>3, Zenon DEF FrameIs

-----------------------------------------------------------------------------
(* The steps of the 0.5B model.                                            *)

BothHear(l) ==
  /\ cache' \in [Conversations -> Seq(Entry)] /\ at' \in [Conversations -> Nat]
  /\ Hears(cache'["pos"], cursor, Fed \o <<l>>) /\ Voices(cache'["pos"]) = VoiceLen
  /\ at'["pos"] = Len(cache'["pos"]) /\ Hears(cache'["neg"], 0, Fed \o <<l>>) /\ at'["neg"] = Len(cache'["neg"])
  /\ neg' = cache'["neg"] /\ last_hidden' \in HiddenSet /\ last_hidden'.seen = cache'["pos"]

LEMMA FeedBackHears ==
  ASSUME ~ Sharded, SpInv, Streaming, NEW l \in Nat, FeedBack(l)
  PROVE  BothHear(l)
<1> DEFINE c == cache["pos"]
           d == cache["neg"]
           p == c \o Placed(Item("frame", l), Len(c))
           q == d \o Placed(Item("frame", l), Len(d))
<1>1. /\ cache \in [Conversations -> Seq(Entry)] /\ at \in [Conversations -> Nat]
      /\ at["pos"] = Len(c) /\ at["neg"] = Len(d)
      /\ Hears(c, cursor, Fed) /\ Voices(c) = VoiceLen /\ Hears(d, 0, Fed)
  BY DEF SpInv, Streaming
<1>a. p = c \o Placed(Item("frame", l), Len(c)) /\ q = d \o Placed(Item("frame", l), Len(d))
  OBVIOUS
<1> HIDE DEF p, q
<1>2. Hears(p, cursor, Fed \o <<l>>) /\ Voices(p) = VoiceLen /\ Len(p) = Len(c) + 1
  <2>1. GoesOn(c, p, 1, cursor, Fed \o <<l>>)
    BY <1>1, <1>a, HearsFrame, Zenon
  <2>2. QED
    BY <1>1, <2>1, Zenon DEF GoesOn
<1>3. Hears(q, 0, Fed \o <<l>>) /\ Len(q) = Len(d) + 1
  <2>1. GoesOn(d, q, 1, 0, Fed \o <<l>>)
    BY <1>1, <1>a, HearsFrame, Zenon
  <2>2. QED
    BY <2>1, Zenon DEF GoesOn
<1>4. p \in Seq(Entry) /\ q \in Seq(Entry) /\ Len(p) \in Nat /\ Len(q) \in Nat
  <2>1. p \in Seq(Entry) /\ q \in Seq(Entry)
    BY <1>2, <1>3 DEF Hears
  <2> HIDE DEF p, q
  <2>2. QED
    BY <2>1
<1>5. PICK stop \in BOOLEAN :
        /\ cache' = Both(Item("frame", l)).cache
        /\ at' = [at EXCEPT !["pos"] = @ + 1, !["neg"] = @ + 1]
        /\ last_hidden' = Hidden(Both(Item("frame", l)).pos, stop)
        /\ neg' = Both(Item("frame", l)).neg
  BY DEF FeedBack
<1>6. "pos" \in Conversations /\ "neg" \in Conversations /\ "pos" # "neg"
  BY DEF Conversations
<1> USE DEF p, q
<1>7. Both(Item("frame", l)).pos = p
  BY <1>1 DEF Both, Seen, Context
<1>8. Grown(worker, cache, "pos", Item("frame", l)).cache = [cache EXCEPT !["pos"] = p]
  BY <1>1 DEF Grown, Seen, Context
<1>9. [cache EXCEPT !["pos"] = p]["neg"] = d
  BY <1>1, <1>6
<1>10. Both(Item("frame", l)).neg = q
  BY <1>1, <1>8, <1>9 DEF Both
<1>11. Both(Item("frame", l)).cache = [[cache EXCEPT !["pos"] = p] EXCEPT !["neg"] = q]
  BY <1>1, <1>8, <1>9 DEF Both
<1> HIDE DEF p, q
<1>12. /\ cache' \in [Conversations -> Seq(Entry)] /\ cache'["pos"] = p /\ cache'["neg"] = q
  BY <1>1, <1>4, <1>5, <1>6, <1>11
<1>13. at' \in [Conversations -> Nat] /\ at'["pos"] = Len(c) + 1 /\ at'["neg"] = Len(d) + 1
  BY <1>1, <1>5, <1>6
<1>14. last_hidden' \in HiddenSet /\ last_hidden'.seen = p /\ neg' = q
  BY <1>4, <1>5, <1>7, <1>10 DEF Hidden, HiddenSet
<1>15. QED
  BY <1>2, <1>3, <1>12, <1>13, <1>14 DEF BothHear

LEMMA ReadTextKeeps == ASSUME SpeechAssumption, ~ Sharded, SpInv, ReadText PROVE SpInv'
<1>1. version = "0.5B" /\ mode = "prefill" /\ UNCHANGED <<version, text, neg, conv, frames>> /\ version # "1.5B"
  BY DEF ReadText
<1>2. Streaming
  BY <1>1 DEF SpInv
<1>3. /\ cache \in [Conversations -> Seq(Entry)] /\ at \in [Conversations -> Nat]
      /\ last_hidden \in HiddenSet /\ pos_hidden \in HiddenSet /\ text \in Nat /\ cursor \in 0 .. text
      /\ frames \in Seq(FrameSet) /\ version \in Versions /\ neg \in Seq(Entry) /\ conv \in Seq(Nat)
      /\ \A j \in DOMAIN frames : FrameOK(j)
  BY DEF SpInv
<1>4. (\A j \in DOMAIN frames : FrameOK(j))' /\ Fed' = Fed
  BY <1>1, <1>3, FramesSame
<1>5. TextWindow \in Nat \ {0} /\ SpeechWindow \in Nat \ {0}
  BY DEF SpeechAssumption
<1>6. CASE Len(frames) >= MaxFrames
  <2>1. mode' = "done" /\ UNCHANGED <<cursor, left, cache, worker, at, last_hidden, pos_hidden>>
    BY <1>6 DEF ReadText
  <2>2. Streaming'
    BY <1>1, <1>2, <1>4, <2>1 DEF Streaming
  <2>3. QED
    BY <1>1, <1>3, <1>4, <2>1, <2>2 DEF SpInv
<1>7. CASE ~ (Len(frames) >= MaxFrames)
  <2> DEFINE end == IF cursor + TextWindow < text THEN cursor + TextWindow ELSE text
             items == Items("text", cursor + 1, end)
             c == cache["pos"]
             e == c \o Placed(items, Len(c))
             b == cache["base"] \o Placed(items, at["base"])
             n == Len(items)
  <2>1. end \in Nat /\ cursor \in Nat /\ cursor <= end /\ end <= text /\ cursor + 1 \in Nat /\ cursor + 1 <= end + 1
    BY <1>3, <1>5
  <2> HIDE DEF end
  <2>2. n = end - cursor
    <3> DEFINE N == end - (cursor + 1) + 1
    <3>1. N \in Nat /\ N = end - cursor
      BY <2>1
    <3> HIDE DEF N
    <3>2. items = [k \in 1 .. N |-> [of |-> "text", n |-> (cursor + 1) + k - 1]]
      BY DEF Items, N
    <3>3. Len(items) = N
      BY <3>1, <3>2
    <3>4. QED
      BY <3>1, <3>3
  <2>3. "text" \in EntryKinds /\ "pos" \in Conversations /\ "neg" \in Conversations /\ "base" \in Conversations
    BY DEF EntryKinds, Conversations
  <2>4. Hears(c, cursor, Fed) /\ Voices(c) = VoiceLen /\ at["pos"] = Len(c)
    BY <1>2 DEF Streaming
  <2>5. Hears(e, end, Fed) /\ Voices(e) = VoiceLen /\ Len(e) = Len(c) + (end - cursor)
    <3>1. e = c \o Placed(Items("text", cursor + 1, end), Len(c))
      OBVIOUS
    <3> HIDE DEF e
    <3>2. GoesOn(c, e, end - cursor, end, Fed)
      BY <2>1, <2>4, <3>1, HearsText, Zenon
    <3>3. QED
      BY <2>4, <3>2, Zenon DEF GoesOn
  <2>6. e \in Seq(Entry)
    BY <2>5 DEF Hears
  <2>7. b \in Seq(Entry)
    <3> DEFINE p == at["base"]
               m == cursor + 1
               x == Placed(Items("text", m, end), p)
    <3>1. p \in Nat /\ m \in Nat /\ m <= end + 1 /\ cache["base"] \in Seq(Entry)
      BY <1>3, <2>1, <2>3
    <3> HIDE DEF p, m
    <3>2. x \in Seq(Entry)
      BY <2>1, <2>3, <3>1, PlacedIs
    <3> HIDE DEF x
    <3>3. cache["base"] \o x \in Seq(Entry)
      BY <3>1, <3>2
    <3>4. QED
      BY <3>3, Zenon DEF x, m, p
  <2>8. PICK stop \in BOOLEAN :
          /\ cache' = Grown(Grown(worker, cache, "base", items).worker, Grown(worker, cache, "base", items).cache, "pos", items).cache
          /\ at' = [at EXCEPT !["base"] = @ + n, !["pos"] = @ + n]
          /\ last_hidden' = Hidden(Seen("pos", items), stop)
          /\ pos_hidden' = last_hidden'
          /\ cursor' = end /\ left' = SpeechWindow /\ mode' = "window"
    BY <1>7 DEF ReadText, end
  <2>9. Seen("base", items) = b /\ Seen("pos", items) = e
    BY <2>4 DEF Seen, Context
  <2> HIDE DEF items, b, e, n
  <2>10. cache' = [[cache EXCEPT !["base"] = b] EXCEPT !["pos"] = e]
    BY <2>8, <2>9 DEF Grown
  <2>11. cache' \in [Conversations -> Seq(Entry)] /\ cache'["pos"] = e /\ cache'["neg"] = cache["neg"]
    BY <1>3, <2>3, <2>6, <2>7, <2>10
  <2>12. at' \in [Conversations -> Nat] /\ at'["pos"] = at["pos"] + n /\ at'["neg"] = at["neg"]
    <3>1. n \in Nat
      BY <2>1, <2>2
    <3>2. at \in [Conversations -> Nat] /\ at' = [at EXCEPT !["base"] = @ + n, !["pos"] = @ + n]
      BY <1>3, <2>8
    <3>3. at' \in [Conversations -> Nat]
      BY <2>3, <3>1, <3>2
    <3>4. QED
      BY <2>3, <3>2, <3>3
  <2>13. last_hidden' \in HiddenSet /\ last_hidden'.seen = e /\ pos_hidden' = last_hidden'
    BY <2>6, <2>8, <2>9 DEF Hidden, HiddenSet
  <2>14. WindowHeld'
    <3>1. Hears(e, end, Fed) /\ pos_hidden'.seen = e
      BY <2>5, <2>13
    <3>2. Len(Only(e, "text")) = end /\ NumbersOf(Only(e, "frame")) = Fed /\ Fed \in Seq(Nat)
      BY <2>1, <2>5, HearsLen DEF Hears
    <3>3. Starts(Fed, Fed)
      BY <3>2 DEF Starts
    <3>4. left' = SpeechWindow /\ Len(Fed) - Len(Fed) + left' <= SpeechWindow
      BY <1>5, <2>8, <3>2
    <3> DEFINE fed == Fed'
    <3>5. fed = Fed
      BY <1>4
    <3> HIDE DEF fed
    <3>6. /\ Hears(pos_hidden'.seen, Len(Only(pos_hidden'.seen, "text")), NumbersOf(Only(pos_hidden'.seen, "frame")))
          /\ Voices(pos_hidden'.seen) = VoiceLen /\ Starts(NumbersOf(Only(pos_hidden'.seen, "frame")), fed)
          /\ left' \in Nat /\ Len(fed) - Len(NumbersOf(Only(pos_hidden'.seen, "frame"))) + left' <= SpeechWindow
      BY <1>5, <2>5, <3>1, <3>2, <3>3, <3>4, <3>5
    <3>7. QED
      BY <3>6, Zenon DEF WindowHeld, fed
  <2>15. Streaming'
    <3>1. Hears(cache'["neg"], 0, Fed') /\ at'["neg"] = Len(cache'["neg"]) /\ neg' = cache'["neg"]
      BY <1>1, <1>2, <1>4, <2>11, <2>12 DEF Streaming
    <3>2. Hears(cache'["pos"], cursor', Fed') /\ Voices(cache'["pos"]) = VoiceLen /\ at'["pos"] = Len(cache'["pos"])
      BY <1>4, <2>2, <2>4, <2>5, <2>8, <2>11, <2>12
    <3>3. QED
      BY <2>8, <2>11, <2>13, <2>14, <3>1, <3>2 DEF Streaming
  <2>16. cursor' \in 0 .. text'
    BY <1>1, <2>1, <2>8
  <2>17. QED
    BY <1>1, <1>3, <1>4, <2>11, <2>12, <2>13, <2>15, <2>16 DEF SpInv
<1>8. QED
  BY <1>6, <1>7

\* A condition that may be sampled from.
Current(c) ==
  LET heard == NumbersOf(Only(c, "frame"))
  IN  /\ Hears(c, Len(Only(c, "text")), heard) /\ Voices(c) = VoiceLen
      /\ Starts(heard, Fed) /\ Len(Fed) - Len(heard) < SpeechWindow

LEMMA FrameAdded ==
  ASSUME SpeechAssumption, SpInv, Streaming, version = "0.5B", version' = version,
         NEW h \in HiddenSet, Current(h.seen), frames' = Append(frames, Frame(h.seen, neg, <<>>, h.stop))
  PROVE  /\ frames' \in Seq(FrameSet) /\ (\A j \in DOMAIN frames : FrameOK(j))'
         /\ Fed' = (IF h.stop THEN Fed ELSE Fed \o <<Len(frames) + 1>>)
<1> DEFINE f == Frame(h.seen, neg, <<>>, h.stop)
           n == Len(frames) + 1
<1>1. f = [cond |-> h.seen, neg |-> neg, conv |-> <<>>, stop |-> h.stop]
  BY DEF Frame, Latent
<1>2. /\ frames \in Seq(FrameSet) /\ \A j \in DOMAIN frames : FrameOK(j)
      /\ neg \in Seq(Entry) /\ h.seen \in Seq(Entry) /\ h.stop \in BOOLEAN
  BY DEF SpInv, HiddenSet
<1>3. f \in FrameSet /\ f.cond = h.seen /\ f.neg = neg /\ f.stop = h.stop
  <2>1. <<>> \in Seq(Nat)
    OBVIOUS
  <2> HIDE DEF f
  <2>2. QED
    BY <1>1, <1>2, <2>1 DEF FrameSet
<1>4. frames' = Append(frames, f)
  OBVIOUS
<1> HIDE DEF f
<1>5. FedNext(frames, f)
  BY <1>2, <1>3, FedGrows, Zenon
<1>6. Fed = FedOf(frames, n)
  BY DEF Fed, FedBack, FedOf
<1>7. n \in Nat /\ n \in 1 .. n /\ frames'[n] = f
  BY <1>2, <1>3, <1>4
<1>8. FedOf(frames', n) = Fed
  BY <1>4, <1>5, <1>6, <1>7, Zenon DEF FedNext
<1>9. Fed \in Seq(Nat)
  BY <1>2, FedIn, Zenon
<1>10. Hears(neg, 0, Fed)
  BY DEF Streaming
<1>11. SpeechWindow \in Nat
  BY DEF SpeechAssumption
<1>12. FrameIs(frames', "0.5B", n)
  <2> DEFINE c == h.seen
             heard == NumbersOf(Only(c, "frame"))
  <2>1. /\ Hears(c, Len(Only(c, "text")), heard) /\ Voices(c) = VoiceLen
        /\ Starts(heard, Fed) /\ Len(Fed) - Len(heard) < SpeechWindow
    BY DEF Current
  <2>2. frames'[n].cond = c /\ frames'[n].neg = neg
    BY <1>3, <1>7
  <2> HIDE DEF c, heard, n
  <2>3. QED
    BY <1>8, <1>9, <1>10, <1>11, <2>1, <2>2, SampledStreaming, Zenon
<1>13. FrameIs(frames', version, n)
  BY <1>12, Zenon
<1> HIDE DEF n
<1>14. /\ frames' \in Seq(FrameSet) /\ (\A j \in DOMAIN frames : FrameOK(j))'
       /\ Fed' = (IF f.stop THEN Fed ELSE Fed \o <<Len(frames) + 1>>)
  BY <1>2, <1>3, <1>4, <1>13, FramesGrow DEF n
<1>15. QED
  BY <1>3, <1>14, Zenon

LEMMA SpeakInWindowKeeps == ASSUME SpeechAssumption, ~ Sharded, SpInv, SpeakInWindow PROVE SpInv'
<1> DEFINE c == pos_hidden.seen
           heard == NumbersOf(Only(c, "frame"))
           n == Len(frames) + 1
<1>1. /\ version = "0.5B" /\ mode = "window" /\ left > 0 /\ version # "1.5B"
      /\ UNCHANGED <<version, mode, text, cursor, pos_hidden, conv>>
      /\ frames' = Append(frames, Frame(c, neg, <<>>, pos_hidden.stop))
  BY DEF SpeakInWindow
<1>2. Streaming /\ WindowHeld
  BY <1>1 DEF SpInv, Streaming
<1>3. /\ cache \in [Conversations -> Seq(Entry)] /\ at \in [Conversations -> Nat]
      /\ last_hidden \in HiddenSet /\ pos_hidden \in HiddenSet /\ text \in Nat /\ cursor \in 0 .. text
      /\ frames \in Seq(FrameSet) /\ version \in Versions /\ neg \in Seq(Entry) /\ conv \in Seq(Nat)
      /\ \A j \in DOMAIN frames : FrameOK(j)
  BY DEF SpInv
<1>4. SpeechWindow \in Nat \ {0}
  BY DEF SpeechAssumption
<1>5. /\ Hears(c, Len(Only(c, "text")), heard) /\ Voices(c) = VoiceLen
      /\ Starts(heard, Fed) /\ left \in Nat /\ Len(Fed) - Len(heard) + left <= SpeechWindow
  BY <1>2 DEF WindowHeld
<1>6. Fed \in Seq(Nat) /\ heard \in Seq(Nat) /\ Len(Fed) \in Nat /\ Len(heard) \in Nat
  <2>1. c \in Seq(Entry) /\ Only(c, "text") \in Seq(Entry)
    BY <1>5, OnlyConcat DEF Hears
  <2>2. Len(Only(c, "text")) \in Nat
    BY <2>1
  <2> HIDE DEF heard
  <2>3. heard \in Seq(Nat)
    BY <1>5, <2>2, HearsLen, Zenon
  <2>4. Fed \in Seq(Nat)
    BY <1>3, FedIn, Zenon
  <2>5. QED
    BY <2>3, <2>4
<1>7. Current(c)
  <2>1. Len(Fed) - Len(heard) < SpeechWindow
    <3> HIDE DEF heard
    <3>1. QED
      BY <1>1, <1>4, <1>5, <1>6
  <2>2. QED
    BY <1>5, <2>1, Zenon DEF Current
<1> HIDE DEF c, heard
<1>8. /\ frames' \in Seq(FrameSet) /\ (\A j \in DOMAIN frames : FrameOK(j))'
      /\ Fed' = (IF pos_hidden.stop THEN Fed ELSE Fed \o <<n>>)
  BY <1>1, <1>2, <1>3, <1>7, FrameAdded DEF c
<1> HIDE DEF n
<1> DEFINE fed == Fed'
<1>9. fed = (IF pos_hidden.stop THEN Fed ELSE Fed \o <<n>>)
  BY <1>8
<1> HIDE DEF fed
<1>10. ASSUME left' \in Nat, Starts(heard, fed), Len(fed) - Len(heard) + left' <= SpeechWindow PROVE WindowHeld'
  <2>1. pos_hidden' = pos_hidden
    BY <1>1
  <2>2. QED
    BY <1>5, <1>10, <2>1, Zenon DEF WindowHeld, c, heard, fed
<1>11. CASE pos_hidden.stop
  <2>1. left' = 0 /\ UNCHANGED <<cache, worker, at, last_hidden, neg>>
    BY <1>11 DEF SpeakInWindow
  <2>2. fed = Fed
    BY <1>9, <1>11
  <2>3. WindowHeld'
    <3>1. left' \in Nat /\ Starts(heard, fed)
      BY <1>5, <2>1, <2>2
    <3>2. Len(fed) - Len(heard) + left' <= SpeechWindow
      BY <1>4, <1>5, <1>6, <2>1, <2>2
    <3>3. QED
      BY <1>10, <3>1, <3>2
  <2>4. Streaming'
    BY <1>1, <1>2, <2>1, <2>2, <2>3 DEF Streaming, fed
  <2>5. QED
    BY <1>1, <1>3, <1>8, <2>1, <2>4 DEF SpInv
<1>12. CASE ~ pos_hidden.stop
  <2>1. left' = left - 1 /\ FeedBack(n)
    BY <1>12 DEF SpeakInWindow, n
  <2>2. n \in Nat
    BY <1>3 DEF n
  <2>3. BothHear(n)
    BY <1>2, <2>1, <2>2, FeedBackHears
  <2>4. fed = Fed \o <<n>>
    BY <1>9, <1>12
  <2>5. Starts(heard, fed) /\ Len(fed) = Len(Fed) + 1
    BY <1>5, <1>6, <2>2, <2>4 DEF Starts
  <2>6. WindowHeld'
    BY <1>1, <1>5, <1>6, <1>10, <2>1, <2>5
  <2>7. Streaming'
    BY <1>1, <2>3, <2>4, <2>6 DEF Streaming, BothHear, fed
  <2>8. neg' \in Seq(Entry)
    BY <2>3 DEF BothHear, Hears
  <2>9. QED
    BY <1>1, <1>3, <1>8, <2>3, <2>7, <2>8 DEF SpInv, BothHear
<1>13. QED
  BY <1>11, <1>12

LEMMA EndWindowKeeps == ASSUME SpInv, EndWindow PROVE SpInv'
<1>1. /\ version = "0.5B" /\ mode = "window" /\ mode' \in {"tail", "prefill"} /\ version # "1.5B"
      /\ UNCHANGED <<version, text, cursor, left, cache, worker, at, last_hidden, pos_hidden, neg, conv, frames>>
  BY DEF EndWindow
<1>2. Streaming /\ \A j \in DOMAIN frames : FrameOK(j)
  BY <1>1 DEF SpInv
<1>3. (\A j \in DOMAIN frames : FrameOK(j))' /\ Fed' = Fed
  BY <1>1, <1>2, FramesSame
<1>4. Streaming'
  BY <1>1, <1>2, <1>3 DEF Streaming
<1>5. QED
  BY <1>1, <1>3, <1>4 DEF SpInv

LEMMA SpeakOnKeeps == ASSUME SpeechAssumption, ~ Sharded, SpInv, SpeakOn PROVE SpInv'
<1> DEFINE c == last_hidden.seen
           n == Len(frames) + 1
<1>1. /\ version = "0.5B" /\ mode = "tail" /\ version # "1.5B"
      /\ UNCHANGED <<version, text, cursor, left, pos_hidden, conv>>
  BY DEF SpeakOn
<1>2. Streaming /\ c = cache["pos"]
  BY <1>1 DEF SpInv, Streaming
<1>3. /\ cache \in [Conversations -> Seq(Entry)] /\ at \in [Conversations -> Nat]
      /\ last_hidden \in HiddenSet /\ pos_hidden \in HiddenSet /\ text \in Nat /\ cursor \in 0 .. text
      /\ frames \in Seq(FrameSet) /\ version \in Versions /\ neg \in Seq(Entry) /\ conv \in Seq(Nat)
      /\ \A j \in DOMAIN frames : FrameOK(j)
  BY DEF SpInv
<1>4. SpeechWindow \in Nat \ {0}
  BY DEF SpeechAssumption
<1>5. CASE Len(frames) >= MaxFrames
  <2>1. mode' = "done" /\ UNCHANGED <<cache, worker, at, last_hidden, neg, frames>>
    BY <1>5 DEF SpeakOn
  <2>2. (\A j \in DOMAIN frames : FrameOK(j))' /\ Fed' = Fed
    BY <1>1, <1>3, <2>1, FramesSame
  <2>3. Streaming'
    BY <1>1, <1>2, <2>1, <2>2 DEF Streaming
  <2>4. QED
    BY <1>1, <1>3, <2>1, <2>2, <2>3 DEF SpInv
<1>6. CASE ~ (Len(frames) >= MaxFrames)
  <2>1. frames' = Append(frames, Frame(c, neg, <<>>, last_hidden.stop))
    BY <1>6 DEF SpeakOn
  <2>2. Current(c)
    <3>1. Hears(c, cursor, Fed) /\ Voices(c) = VoiceLen
      BY <1>2 DEF Streaming
    <3> HIDE DEF c
    <3>2. cursor \in Nat
      BY <1>3
    <3>3. Len(Only(c, "text")) = cursor /\ NumbersOf(Only(c, "frame")) = Fed /\ Fed \in Seq(Nat)
      BY <3>1, <3>2, HearsLen, Zenon DEF Hears
    <3>4. Starts(Fed, Fed) /\ Len(Fed) - Len(Fed) < SpeechWindow
      BY <1>4, <3>3 DEF Starts
    <3>5. QED
      BY <3>1, <3>3, <3>4, Zenon DEF Current
  <2>3. /\ frames' \in Seq(FrameSet) /\ (\A j \in DOMAIN frames : FrameOK(j))'
        /\ Fed' = (IF last_hidden.stop THEN Fed ELSE Fed \o <<n>>)
    BY <1>1, <1>2, <1>3, <2>1, <2>2, FrameAdded
  <2> HIDE DEF n
  <2>4. CASE last_hidden.stop
    <3>1. mode' = "done" /\ UNCHANGED <<cache, worker, at, last_hidden, neg>>
      BY <1>6, <2>4 DEF SpeakOn
    <3>2. Fed' = Fed
      BY <2>3, <2>4
    <3>3. Streaming'
      BY <1>1, <1>2, <3>1, <3>2 DEF Streaming
    <3>4. QED
      BY <1>1, <1>3, <2>3, <3>1, <3>3 DEF SpInv
  <2>5. CASE ~ last_hidden.stop
    <3>1. FeedBack(n) /\ mode' = mode
      BY <1>6, <2>5 DEF SpeakOn, n
    <3>2. n \in Nat
      BY <1>3 DEF n
    <3>3. BothHear(n)
      BY <1>2, <3>1, <3>2, FeedBackHears
    <3>4. Fed' = Fed \o <<n>>
      BY <2>3, <2>5
    <3>5. Streaming'
      BY <1>1, <3>1, <3>3, <3>4 DEF Streaming, BothHear
    <3>6. neg' \in Seq(Entry)
      BY <3>3 DEF BothHear, Hears
    <3>7. QED
      BY <1>1, <1>3, <2>3, <3>3, <3>5, <3>6 DEF SpInv, BothHear
  <2>6. QED
    BY <2>4, <2>5
<1>7. QED
  BY <1>5, <1>6

-----------------------------------------------------------------------------
(* The steps of the 1.5B model.                                            *)

\* e is c and one more entry.
Follows(c, e, sort, l) ==
  /\ e \in Seq(Entry) /\ Len(e) = Len(c) + 1 /\ InOrder(e)
  /\ \A other : other # sort => Only(e, other) = Only(c, other)
  /\ NumbersOf(Only(e, sort)) = NumbersOf(Only(c, sort)) \o <<l>> /\ Len(Only(e, sort)) = Len(Only(c, sort)) + 1
  /\ \A K : sort \in K => Since(e, K) = <<>>
  /\ \A K : sort \notin K =>
       /\ \A other : other # sort => Only(Since(e, K), other) = Only(Since(c, K), other)
       /\ NumbersOf(Only(Since(e, K), sort)) = NumbersOf(Only(Since(c, K), sort)) \o <<l>>
       /\ Len(Only(Since(e, K), sort)) = Len(Only(Since(c, K), sort)) + 1

\* What one entry adds to a selection.
OneMore(c, x, sort, l) ==
  /\ \A other : other # sort => Only(c \o <<x>>, other) = Only(c, other)
  /\ NumbersOf(Only(c \o <<x>>, sort)) = NumbersOf(Only(c, sort)) \o <<l>>
  /\ Len(Only(c \o <<x>>, sort)) = Len(Only(c, sort)) + 1

LEMMA OneMoreEntry ==
  ASSUME NEW c \in Seq(Entry), NEW x \in Entry, NEW sort, NEW l, x.of = sort, x.n = l
  PROVE  OneMore(c, x, sort, l)
<1>1. <<x>> \in Seq(Entry) /\ Len(<<x>>) = 1 /\ DOMAIN <<x>> = 1 .. 1 /\ <<x>>[1] = x
  OBVIOUS
<1>2. Only(<<x>>, sort) = <<x>>
  <2> DEFINE S == [of : {sort}, n : Nat, pos : Nat]
  <2>1. \A i \in 1 .. Len(<<x>>) : <<x>>[i] \in S
    BY <1>1 DEF Entry
  <2> HIDE DEF S
  <2>2. Among(<<x>>, S) = <<x>>
    BY <1>1, <2>1, AmongAll, Zenon
  <2>3. QED
    BY <2>2, Zenon DEF Only, S
<1>3. ASSUME NEW other, other # sort PROVE Only(<<x>>, other) = <<>>
  <2> DEFINE S == [of : {other}, n : Nat, pos : Nat]
  <2>1. \A i \in 1 .. Len(<<x>>) : <<x>>[i] \notin S
    BY <1>1, <1>3 DEF Entry
  <2> HIDE DEF S
  <2>2. Among(<<x>>, S) = <<>>
    BY <1>1, <2>1, AmongNone, Zenon
  <2>3. QED
    BY <2>2, Zenon DEF Only, S
<1>4. \A other : Only(c, other) \in Seq(Entry) /\ Only(c \o <<x>>, other) = Only(c, other) \o Only(<<x>>, other)
  BY <1>1, OnlyConcat, Zenon
<1>5. ASSUME NEW other, other # sort PROVE Only(c \o <<x>>, other) = Only(c, other)
  <2> DEFINE a == Only(c, other)
  <2>1. a \in Seq(Entry) /\ Only(c \o <<x>>, other) = a \o <<>>
    BY <1>3, <1>4, <1>5, Zenon
  <2> HIDE DEF a
  <2>2. a \o <<>> = a
    BY <2>1, ConcatEmptySeq
  <2>3. QED
    BY <2>1, <2>2, Zenon DEF a
<1> DEFINE a == Only(c, sort)
<1>6. a \in Seq(Entry) /\ Only(c \o <<x>>, sort) = a \o <<x>>
  BY <1>2, <1>4, Zenon
<1> HIDE DEF a
<1>7. NumbersOf(a \o <<x>>) = NumbersOf(a) \o NumbersOf(<<x>>)
  BY <1>1, <1>6, NumbersConcat, Zenon
<1>8. NumbersOf(<<x>>) = <<l>>
  BY <1>1 DEF NumbersOf
<1>9. Len(a \o <<x>>) = Len(a) + 1
  BY <1>1, <1>6
<1>10. NumbersOf(Only(c \o <<x>>, sort)) = NumbersOf(a) \o <<l>> /\ Len(Only(c \o <<x>>, sort)) = Len(a) + 1
  BY <1>6, <1>7, <1>8, <1>9, Zenon
<1>11. QED
  BY <1>5, <1>10, Zenon DEF OneMore, a

LEMMA NextEntry ==
  ASSUME NEW c \in Seq(Entry), InOrder(c), NEW sort \in EntryKinds, NEW l \in Nat,
         NEW e, e = c \o Placed(Item(sort, l), Len(c))
  PROVE  Follows(c, e, sort, l)
<1> DEFINE p == Len(c)
           x == [of |-> sort, n |-> l, pos |-> p]
<1>1. p \in Nat
  OBVIOUS
<1>2. x \in Entry /\ Placed(Item(sort, l), p) = <<x>>
  <2> HIDE DEF p
  <2>1. QED
    BY <1>1, PlacedOne
<1>3. e = c \o <<x>> /\ x.of = sort /\ x.n = l /\ x.pos = p
  BY <1>2
<1> HIDE DEF p, x
<1>4. OneMore(c, x, sort, l)
  BY <1>2, <1>3, OneMoreEntry, Zenon
<1>5. e \in Seq(Entry) /\ Len(e) = p + 1 /\ e[p + 1] = x /\ \A k \in 1 .. p : e[k] = c[k]
  BY <1>2, <1>3 DEF p
<1>6. InOrder(e)
  <2>1. \A k \in 1 .. p : c[k].pos = k - 1
    BY DEF InOrder, p
  <2>2. DOMAIN e = 1 .. p + 1
    BY <1>5
  <2>3. (p + 1) - 1 = p
    BY <1>1
  <2>4. \A k \in 1 .. p + 1 : e[k].pos = k - 1
    <3> TAKE k \in 1 .. p + 1
    <3>1. CASE k = p + 1
      BY <1>1, <1>3, <1>5, <2>3, <3>1
    <3>2. CASE k # p + 1
      <4>1. k \in 1 .. p
        BY <1>1, <3>2
      <4>2. QED
        BY <1>5, <2>1, <4>1
    <3>3. QED
      BY <3>1, <3>2
  <2>5. QED
    BY <2>2, <2>4 DEF InOrder
<1>7. ASSUME NEW K, sort \in K PROVE Since(e, K) = <<>>
  <2>1. Since(c \o <<x>>, K) = <<>>
    BY <1>2, <1>3, <1>7, SinceAppend
  <2>2. QED
    BY <1>3, <2>1
<1>8. ASSUME NEW K, sort \notin K
      PROVE  /\ \A other : other # sort => Only(Since(e, K), other) = Only(Since(c, K), other)
             /\ NumbersOf(Only(Since(e, K), sort)) = NumbersOf(Only(Since(c, K), sort)) \o <<l>>
             /\ Len(Only(Since(e, K), sort)) = Len(Only(Since(c, K), sort)) + 1
  <2> DEFINE b == Since(c, K)
  <2>1. b \in Seq(Entry) /\ Since(c \o <<x>>, K) = b \o <<x>>
    BY <1>2, <1>3, <1>8, SinceAppend
  <2>2. Since(e, K) = b \o <<x>>
    BY <1>3, <2>1
  <2> HIDE DEF b
  <2>3. OneMore(b, x, sort, l)
    BY <1>2, <1>3, <2>1, OneMoreEntry, Zenon
  <2>4. QED
    BY <2>2, <2>3, Zenon DEF OneMore, b
<1>9. QED
  BY <1>3, <1>4, <1>5, <1>6, <1>7, <1>8, Zenon DEF Follows, OneMore, p

\* The loop's part of Talking.
LoopOK(c, d, n, t, told) ==
  /\ Hears(c, t, UpTo(n)) /\ InOrder(d) /\ Only(d, "text") = <<>>
  /\ Len(Only(d, "diff")) = Len(Only(Since(c, {"start"}), "frame"))
  /\ told = NumbersOf(Only(Since(c, {"start", "end"}), "frame"))

\* A new negative conversation.
LEMMA NewNegative ==
  ASSUME NEW d, d = <<>> \o Placed(Item("start", 0), 0)
  PROVE  d \in Seq(Entry) /\ Len(d) = 1 /\ InOrder(d) /\ Only(d, "text") = <<>> /\ Only(d, "diff") = <<>>
<1> DEFINE c == <<>>
<1>1. c \in Seq(Entry) /\ InOrder(c) /\ Len(c) = 0 /\ \A sort : Only(c, sort) = <<>>
  BY HearsNothing DEF Hears
<1>2. "start" \in EntryKinds /\ "text" # "start" /\ "diff" # "start" /\ 0 \in Nat
  BY DEF EntryKinds
<1>3. d = c \o Placed(Item("start", 0), Len(c))
  BY <1>1
<1> HIDE DEF c
<1>4. Follows(c, d, "start", 0)
  BY <1>1, <1>2, <1>3, NextEntry, Zenon
<1>5. d \in Seq(Entry) /\ Len(d) = Len(c) + 1 /\ InOrder(d) /\ Only(d, "text") = Only(c, "text") /\ Only(d, "diff") = Only(c, "diff")
  BY <1>2, <1>4, Zenon DEF Follows
<1>6. QED
  BY <1>1, <1>5

LEMMA PrefillKeeps == ASSUME SpeechAssumption, ~ Sharded, SpInv, Prefill PROVE SpInv'
<1> DEFINE items == Items("text", 1, text) \o Item("start", 0)
           d == <<>> \o Placed(Item("start", 0), 0)
           e == <<>> \o Placed(items, 0)
           a == <<>> \o Placed(Items("text", 1, text), 0)
<1>1. /\ version = "1.5B" /\ mode = "prefill" /\ mode' = "loop" /\ version # "0.5B"
      /\ UNCHANGED <<version, text, cursor, pos_hidden, neg, conv, frames>>
      /\ at' = [at EXCEPT !["pos"] = text + 1, !["neg"] = 1]
      /\ last_hidden' = Hidden(Seen("pos", items), FALSE)
  BY DEF Prefill
<1>2. /\ Talking /\ frames = <<>> /\ conv = <<>> /\ cache["pos"] = <<>> /\ at["pos"] = 0
      /\ \A k \in DOMAIN frames : ~ frames[k].stop
  BY <1>1 DEF SpInv, Talking
<1>3. /\ cache \in [Conversations -> Seq(Entry)] /\ at \in [Conversations -> Nat]
      /\ last_hidden \in HiddenSet /\ pos_hidden \in HiddenSet /\ text \in Nat /\ cursor \in 0 .. text
      /\ frames \in Seq(FrameSet) /\ version \in Versions /\ neg \in Seq(Entry) /\ conv \in Seq(Nat)
      /\ \A j \in DOMAIN frames : FrameOK(j)
  BY DEF SpInv
<1>4. (\A j \in DOMAIN frames : FrameOK(j))'
  BY <1>1, <1>3, FramesSame
<1>5. "text" \in EntryKinds /\ "start" \in EntryKinds /\ "frame" # "start" /\ "text" # "start"
      /\ "pos" \in Conversations /\ "neg" \in Conversations
  BY DEF EntryKinds, Conversations
<1>6. Seen("pos", items) = e
  BY <1>2 DEF Seen, Context
<1>7. cache' = [[cache EXCEPT !["pos"] = e] EXCEPT !["neg"] = d]
  BY <1>6 DEF Prefill, Grown
<1>8. d \in Seq(Entry) /\ Len(d) = 1 /\ InOrder(d) /\ Only(d, "text") = <<>> /\ Only(d, "diff") = <<>>
  <2>1. d = <<>> \o Placed(Item("start", 0), 0)
    OBVIOUS
  <2> HIDE DEF d
  <2>2. QED
    BY <2>1, NewNegative, Zenon
<1> DEFINE none == <<>>
<1>9. Hears(none, 0, <<>>) /\ none \in Seq(Entry) /\ Len(none) = 0
  BY HearsNothing
<1>10. GoesOn(none, a, text - 0, text, <<>>)
  <2>1. a = none \o Placed(Items("text", 0 + 1, text), Len(none))
    BY <1>9
  <2>2. 0 \in Nat /\ 0 <= text
    BY <1>3
  <2> HIDE DEF a, none
  <2>3. QED
    BY <1>3, <1>9, <2>1, <2>2, HearsText, Zenon
<1>11. Hears(a, text, <<>>) /\ Len(a) = text
  <2> HIDE DEF a, none
  <2>1. QED
    BY <1>3, <1>9, <1>10 DEF GoesOn
<1>12. e = a \o Placed(Item("start", 0), Len(a))
  <2> DEFINE m == 1
             p == 0
  <2>1. m \in Nat /\ p \in Nat /\ m <= text + 1 /\ p + (text - m + 1) = text /\ 0 \in Nat
    BY <1>3
  <2> HIDE DEF m, p, none
  <2>a. Twice(none, "text", m, text, "start", 0, p)
    BY <1>3, <1>5, <1>9, <2>1, PlacedConcat, Zenon
  <2>2. none \o Placed(Items("text", m, text) \o Item("start", 0), p)
          = (none \o Placed(Items("text", m, text), p)) \o Placed(Item("start", 0), p + (text - m + 1))
    BY <2>a, Zenon DEF Twice
  <2>3. Len(a) = p + (text - m + 1)
    <3> HIDE DEF a
    <3>1. QED
      BY <1>11, <2>1
  <2>4. e = none \o Placed(Items("text", m, text) \o Item("start", 0), p)
    BY DEF m, p, none
  <2>5. a = none \o Placed(Items("text", m, text), p)
    BY DEF m, p, none
  <2> HIDE DEF a, e
  <2>6. QED
    BY <2>2, <2>3, <2>4, <2>5, Zenon
<1> HIDE DEF a, e, none, d, items
<1>13. a \in Seq(Entry) /\ InOrder(a) /\ NumbersOf(Only(a, "text")) = UpTo(text) /\ NumbersOf(Only(a, "frame")) = <<>>
  BY <1>11 DEF Hears
<1>14. Follows(a, e, "start", 0)
  <2>1. 0 \in Nat
    OBVIOUS
  <2>2. QED
    BY <1>5, <1>12, <1>13, <2>1, NextEntry, Zenon
<1>15. /\ e \in Seq(Entry) /\ Len(e) = Len(a) + 1 /\ InOrder(e)
       /\ Only(e, "text") = Only(a, "text") /\ Only(e, "frame") = Only(a, "frame")
       /\ Since(e, {"start"}) = <<>> /\ Since(e, {"start", "end"}) = <<>>
  <2>1. "start" \in {"start"} /\ "start" \in {"start", "end"}
    OBVIOUS
  <2>2. QED
    BY <1>5, <1>14, <2>1, Zenon DEF Follows
<1>16. Only(<<>>, "frame") = <<>> /\ NumbersOf(<<>>) = <<>> /\ UpTo(0) = <<>>
  BY HearsNothing DEF NumbersOf, UpTo
<1>17. LoopOK(e, d, 0, text, <<>>)
  <2>1. Hears(e, text, UpTo(0))
    BY <1>13, <1>15, <1>16, Zenon DEF Hears
  <2>2. Len(Only(d, "diff")) = Len(Only(Since(e, {"start"}), "frame"))
    BY <1>8, <1>15, <1>16, Zenon
  <2>3. <<>> = NumbersOf(Only(Since(e, {"start", "end"}), "frame"))
    BY <1>15, <1>16, Zenon
  <2>4. QED
    BY <1>8, <2>1, <2>2, <2>3, Zenon DEF LoopOK
<1>18. cache' \in [Conversations -> Seq(Entry)] /\ cache'["pos"] = e /\ cache'["neg"] = d
  BY <1>3, <1>5, <1>7, <1>8, <1>15
<1>19. at' \in [Conversations -> Nat] /\ at'["pos"] = Len(e) /\ at'["neg"] = Len(d)
  <2>1. Len(e) = text + 1 /\ text + 1 \in Nat /\ "pos" # "neg"
    BY <1>3, <1>11, <1>15
  <2>2. at' = [at EXCEPT !["pos"] = text + 1, !["neg"] = 1]
    BY <1>1
  <2>3. at' \in [Conversations -> Nat] /\ at'["pos"] = text + 1 /\ at'["neg"] = 1
    BY <1>3, <1>5, <2>1, <2>2
  <2>4. QED
    BY <1>8, <2>1, <2>3
<1>20. last_hidden' \in HiddenSet /\ last_hidden'.seen = e
  BY <1>1, <1>6, <1>15 DEF Hidden, HiddenSet
<1>21. Len(frames') = 0 /\ conv' = <<>> /\ text' = text
  BY <1>1, <1>2
<1>22. Talking'
  BY <1>1, <1>2, <1>17, <1>18, <1>19, <1>20, <1>21 DEF Talking, LoopOK
<1>23. QED
  BY <1>1, <1>3, <1>4, <1>18, <1>19, <1>20, <1>22 DEF SpInv

\* The three kinds of turns of the loop.
TurnEnds(c, d, e, n, t) == LoopOK(e, d, n, t, <<>>) /\ e \in Seq(Entry) /\ Len(e) = Len(c) + 1
TurnStarts(c, e, b, n, t) ==
  /\ LoopOK(e, b, n, t, <<>>) /\ e \in Seq(Entry) /\ Len(e) = Len(c) + 1
  /\ b \in Seq(Entry) /\ Len(b) = 1
TurnSpeaks(c, d, e, b, n, t, told) ==
  /\ LoopOK(e, b, n + 1, t, told \o <<n + 1>>) /\ e \in Seq(Entry) /\ Len(e) = Len(c) + 1
  /\ b \in Seq(Entry) /\ Len(b) = Len(d) + 1
  /\ InOrder(b) /\ Only(b, "text") = <<>>
  /\ Len(Only(b, "diff")) = 1 + Len(Only(Since(c, {"start"}), "frame"))

LEMMA LoopEnds ==
  ASSUME NEW c \in Seq(Entry), NEW d, NEW n, NEW t, NEW told, LoopOK(c, d, n, t, told),
         NEW e, e = c \o Placed(Item("end", 0), Len(c))
  PROVE  TurnEnds(c, d, e, n, t)
<1>1. "end" \in EntryKinds /\ "text" # "end" /\ "frame" # "end" /\ "end" \notin {"start"} /\ "end" \in {"start", "end"} /\ 0 \in Nat
  BY DEF EntryKinds
<1>2. InOrder(c) /\ NumbersOf(Only(c, "text")) = UpTo(t) /\ NumbersOf(Only(c, "frame")) = UpTo(n)
  BY DEF LoopOK, Hears
<1>3. Follows(c, e, "end", 0)
  BY <1>1, <1>2, NextEntry, Zenon
<1>4. /\ e \in Seq(Entry) /\ Len(e) = Len(c) + 1 /\ InOrder(e)
      /\ Only(e, "text") = Only(c, "text") /\ Only(e, "frame") = Only(c, "frame")
      /\ Only(Since(e, {"start"}), "frame") = Only(Since(c, {"start"}), "frame")
      /\ Since(e, {"start", "end"}) = <<>>
  BY <1>1, <1>3, Zenon DEF Follows
<1>5. Only(<<>>, "frame") = <<>> /\ NumbersOf(<<>>) = <<>>
  BY HearsNothing DEF NumbersOf
<1>6. Hears(e, t, UpTo(n))
  BY <1>2, <1>4, Zenon DEF Hears
<1>7. <<>> = NumbersOf(Only(Since(e, {"start", "end"}), "frame"))
  BY <1>4, <1>5, Zenon
<1>8. QED
  BY <1>4, <1>6, <1>7, Zenon DEF LoopOK, TurnEnds

LEMMA LoopStarts ==
  ASSUME NEW c \in Seq(Entry), NEW d, NEW n, NEW t, NEW told, LoopOK(c, d, n, t, told),
         NEW e, e = c \o Placed(Item("start", 0), Len(c)), NEW b, b = <<>> \o Placed(Item("start", 0), 0)
  PROVE  TurnStarts(c, e, b, n, t)
<1>1. "start" \in EntryKinds /\ "text" # "start" /\ "frame" # "start" /\ "start" \in {"start"} /\ "start" \in {"start", "end"} /\ 0 \in Nat
  BY DEF EntryKinds
<1>2. InOrder(c) /\ NumbersOf(Only(c, "text")) = UpTo(t) /\ NumbersOf(Only(c, "frame")) = UpTo(n)
  BY DEF LoopOK, Hears
<1>3. Follows(c, e, "start", 0)
  BY <1>1, <1>2, NextEntry, Zenon
<1>4. /\ e \in Seq(Entry) /\ Len(e) = Len(c) + 1 /\ InOrder(e)
      /\ Only(e, "text") = Only(c, "text") /\ Only(e, "frame") = Only(c, "frame")
      /\ Since(e, {"start"}) = <<>> /\ Since(e, {"start", "end"}) = <<>>
  BY <1>1, <1>3, Zenon DEF Follows
<1>5. Only(<<>>, "frame") = <<>> /\ NumbersOf(<<>>) = <<>>
  BY HearsNothing DEF NumbersOf
<1>6. Hears(e, t, UpTo(n))
  BY <1>2, <1>4, Zenon DEF Hears
<1>7. b \in Seq(Entry) /\ Len(b) = 1 /\ InOrder(b) /\ Only(b, "text") = <<>> /\ Only(b, "diff") = <<>>
  BY NewNegative, Zenon
<1>8. <<>> = NumbersOf(Only(Since(e, {"start", "end"}), "frame"))
  BY <1>4, <1>5, Zenon
<1>9. Len(Only(b, "diff")) = Len(Only(Since(e, {"start"}), "frame"))
  BY <1>4, <1>5, <1>7, Zenon
<1>10. QED
  BY <1>4, <1>6, <1>7, <1>8, <1>9, Zenon DEF LoopOK, TurnStarts

LEMMA LoopSpeaks ==
  ASSUME NEW c \in Seq(Entry), NEW d \in Seq(Entry), NEW n \in Nat, NEW t, NEW told, LoopOK(c, d, n, t, told),
         NEW e, e = c \o Placed(Item("frame", n + 1), Len(c)), NEW b, b = d \o Placed(Item("diff", 0), Len(d))
  PROVE  TurnSpeaks(c, d, e, b, n, t, told)
<1>1. /\ "frame" \in EntryKinds /\ "diff" \in EntryKinds /\ "text" # "frame" /\ "text" # "diff"
      /\ "frame" \notin {"start"} /\ "frame" \notin {"start", "end"} /\ 0 \in Nat /\ n + 1 \in Nat
  BY DEF EntryKinds
<1>2. /\ InOrder(c) /\ NumbersOf(Only(c, "text")) = UpTo(t) /\ NumbersOf(Only(c, "frame")) = UpTo(n)
      /\ InOrder(d) /\ Only(d, "text") = <<>> /\ Len(Only(d, "diff")) = Len(Only(Since(c, {"start"}), "frame"))
      /\ told = NumbersOf(Only(Since(c, {"start", "end"}), "frame"))
  BY DEF LoopOK, Hears
<1>3. Follows(c, e, "frame", n + 1)
  BY <1>1, <1>2, NextEntry, Zenon
<1>4. Follows(d, b, "diff", 0)
  BY <1>1, <1>2, NextEntry, Zenon
<1>5. /\ e \in Seq(Entry) /\ Len(e) = Len(c) + 1 /\ InOrder(e) /\ Only(e, "text") = Only(c, "text")
      /\ NumbersOf(Only(e, "frame")) = NumbersOf(Only(c, "frame")) \o <<n + 1>>
      /\ Len(Only(Since(e, {"start"}), "frame")) = Len(Only(Since(c, {"start"}), "frame")) + 1
      /\ NumbersOf(Only(Since(e, {"start", "end"}), "frame")) = NumbersOf(Only(Since(c, {"start", "end"}), "frame")) \o <<n + 1>>
  BY <1>1, <1>3, Zenon DEF Follows
<1>6. /\ b \in Seq(Entry) /\ Len(b) = Len(d) + 1 /\ InOrder(b) /\ Only(b, "text") = Only(d, "text")
      /\ Len(Only(b, "diff")) = Len(Only(d, "diff")) + 1
  BY <1>1, <1>4, Zenon DEF Follows
<1>7. UpTo(n + 1) = UpTo(n) \o <<n + 1>>
  BY UpToNext, Zenon
<1>8. Hears(e, t, UpTo(n + 1))
  BY <1>2, <1>5, <1>7, Zenon DEF Hears
<1>9. Only(d, "diff") \in Seq(Entry)
  BY OnlyConcat
<1>10. Len(Only(d, "diff")) \in Nat
  BY <1>9
<1>11. Len(Only(b, "diff")) = Len(Only(Since(e, {"start"}), "frame")) /\ Len(Only(b, "diff")) = 1 + Len(Only(Since(c, {"start"}), "frame"))
  BY <1>2, <1>5, <1>6, <1>10
<1>12. told \o <<n + 1>> = NumbersOf(Only(Since(e, {"start", "end"}), "frame"))
  BY <1>2, <1>5, Zenon
<1>13. QED
  BY <1>2, <1>5, <1>6, <1>8, <1>11, <1>12, Zenon DEF LoopOK, TurnSpeaks

\* The state of the loop.
Looping ==
  /\ version = "1.5B" /\ version # "0.5B" /\ mode = "loop" /\ \A k \in DOMAIN frames : ~ frames[k].stop
  /\ cache \in [Conversations -> Seq(Entry)] /\ at \in [Conversations -> Nat]
  /\ last_hidden \in HiddenSet /\ pos_hidden \in HiddenSet /\ text \in Nat /\ cursor \in 0 .. text
  /\ frames \in Seq(FrameSet) /\ version \in Versions /\ neg \in Seq(Entry) /\ conv \in Seq(Nat)
  /\ \A j \in DOMAIN frames : FrameOK(j)
  /\ cache["pos"] \in Seq(Entry) /\ cache["neg"] \in Seq(Entry) /\ Len(cache["pos"]) \in Nat /\ Len(cache["neg"]) \in Nat
  /\ LoopOK(cache["pos"], cache["neg"], Len(frames), text, conv)
  /\ at["pos"] = Len(cache["pos"]) /\ at["neg"] = Len(cache["neg"]) /\ last_hidden.seen = cache["pos"]
  /\ "pos" \in Conversations /\ "neg" \in Conversations /\ "pos" # "neg"

LEMMA IsLooping == ASSUME SpInv, version = "1.5B", mode = "loop" PROVE Looping
<1>1. Talking /\ mode = "loop"
  BY DEF SpInv
<1>2. "pos" \in Conversations /\ "neg" \in Conversations /\ "pos" # "neg"
  BY DEF Conversations
<1>3. LoopOK(cache["pos"], cache["neg"], Len(frames), text, conv)
  BY <1>1, Zenon DEF Talking, LoopOK
<1>4. cache["pos"] \in Seq(Entry) /\ cache["neg"] \in Seq(Entry)
  BY <1>2 DEF SpInv
<1>5. Len(cache["pos"]) \in Nat /\ Len(cache["neg"]) \in Nat
  BY <1>4
<1>6. /\ at["pos"] = Len(cache["pos"]) /\ at["neg"] = Len(cache["neg"]) /\ last_hidden.seen = cache["pos"]
      /\ \A k \in DOMAIN frames : ~ frames[k].stop
  BY <1>1 DEF Talking
<1>7. QED
  BY <1>2, <1>3, <1>4, <1>5, <1>6 DEF SpInv, Looping

\* And that it stays so.
LEMMA LoopKeeps ==
  ASSUME version = "1.5B", mode = "loop", UNCHANGED <<version, mode, text, cursor, pos_hidden>>,
         version \in Versions, text \in Nat, cursor \in 0 .. text, pos_hidden \in HiddenSet,
         cache' \in [Conversations -> Seq(Entry)], at' \in [Conversations -> Nat],
         last_hidden' \in HiddenSet, neg' \in Seq(Entry), conv' \in Seq(Nat), frames' \in Seq(FrameSet),
         (\A j \in DOMAIN frames : FrameOK(j))', \A k \in DOMAIN frames' : ~ frames'[k].stop,
         LoopOK(cache'["pos"], cache'["neg"], Len(frames'), text', conv'),
         at'["pos"] = Len(cache'["pos"]), at'["neg"] = Len(cache'["neg"]), last_hidden'.seen = cache'["pos"]
  PROVE  SpInv'
<1>1. Talking'
  BY DEF Talking, LoopOK
<1>2. version' # "0.5B"
  OBVIOUS
<1>3. QED
  BY <1>1, <1>2 DEF SpInv

LEMMA EndOfSpeechKeeps == ASSUME ~ Sharded, SpInv, EndOfSpeech PROVE SpInv'
<1> DEFINE c == cache["pos"]
           e == c \o Placed(Item("end", 0), Len(c))
<1>1. /\ version = "1.5B" /\ mode = "loop" /\ UNCHANGED <<version, mode, text, cursor, pos_hidden, neg, frames>>
      /\ conv' = <<>> /\ Hear(worker, cache, "end") /\ at' = [at EXCEPT !["pos"] = @ + 1]
  BY DEF EndOfSpeech
<1>2. Looping
  BY <1>1, IsLooping
<1>3. LoopOK(e, cache["neg"], Len(frames), text, <<>>) /\ e \in Seq(Entry) /\ Len(e) = Len(c) + 1
  <2>1. e = c \o Placed(Item("end", 0), Len(c))
    OBVIOUS
  <2> HIDE DEF e
  <2> HIDE DEF c
  <2>2. LoopOK(c, cache["neg"], Len(frames), text, conv) /\ c \in Seq(Entry)
    BY <1>2 DEF Looping, c
  <2>3. TurnEnds(c, cache["neg"], e, Len(frames), text)
    BY <2>1, <2>2, LoopEnds, Zenon
  <2>4. QED
    BY <2>3, Zenon DEF TurnEnds
<1>4. cache' = [cache EXCEPT !["pos"] = e] /\ last_hidden' = Hidden(e, FALSE)
  BY <1>1, <1>2 DEF Hear, Looping
<1> HIDE DEF e
<1>5. cache' \in [Conversations -> Seq(Entry)] /\ cache'["pos"] = e /\ cache'["neg"] = cache["neg"]
  BY <1>2, <1>3, <1>4 DEF Looping
<1>6. at' \in [Conversations -> Nat] /\ at'["pos"] = Len(e) /\ at'["neg"] = Len(cache["neg"])
  BY <1>1, <1>2, <1>3 DEF Looping
<1>7. last_hidden' \in HiddenSet /\ last_hidden'.seen = e
  BY <1>3, <1>4 DEF Hidden, HiddenSet
<1>8. conv' \in Seq(Nat) /\ (\A j \in DOMAIN frames : FrameOK(j))'
  BY <1>1, <1>2, FramesSame DEF Looping
<1>9. QED
  BY <1>1, <1>2, <1>3, <1>5, <1>6, <1>7, <1>8, LoopKeeps DEF Looping

LEMMA StartOfSpeechKeeps == ASSUME ~ Sharded, SpInv, StartOfSpeech PROVE SpInv'
<1> DEFINE c == cache["pos"]
           e == c \o Placed(Item("start", 0), Len(c))
           d == <<>> \o Placed(Item("start", 0), 0)
<1>1. /\ version = "1.5B" /\ mode = "loop" /\ UNCHANGED <<version, mode, text, cursor, pos_hidden, neg, frames>>
      /\ conv' = <<>> /\ Hear(worker, [cache EXCEPT !["neg"] = d], "start")
      /\ at' = [at EXCEPT !["pos"] = @ + 1, !["neg"] = 1]
  BY DEF StartOfSpeech
<1>2. Looping
  BY <1>1, IsLooping
<1>3. /\ LoopOK(e, d, Len(frames), text, <<>>) /\ e \in Seq(Entry) /\ Len(e) = Len(c) + 1
      /\ d \in Seq(Entry) /\ Len(d) = 1
  <2>1. e = c \o Placed(Item("start", 0), Len(c)) /\ d = <<>> \o Placed(Item("start", 0), 0)
    OBVIOUS
  <2> HIDE DEF e, d
  <2> HIDE DEF c
  <2>2. LoopOK(c, cache["neg"], Len(frames), text, conv) /\ c \in Seq(Entry)
    BY <1>2 DEF Looping, c
  <2>3. TurnStarts(c, e, d, Len(frames), text)
    BY <2>1, <2>2, LoopStarts, Zenon
  <2>4. QED
    BY <2>3, Zenon DEF TurnStarts
<1> HIDE DEF d
<1>4. cache' = [[cache EXCEPT !["neg"] = d] EXCEPT !["pos"] = e] /\ last_hidden' = Hidden(e, FALSE)
  <2>1. [cache EXCEPT !["neg"] = d]["pos"] = c
    BY <1>2 DEF Looping
  <2>2. QED
    BY <1>1, <1>2, <2>1 DEF Hear, Looping
<1> HIDE DEF e
<1>5. cache' \in [Conversations -> Seq(Entry)] /\ cache'["pos"] = e /\ cache'["neg"] = d
  BY <1>2, <1>3, <1>4 DEF Looping
<1>6. at' \in [Conversations -> Nat] /\ at'["pos"] = Len(e) /\ at'["neg"] = Len(d)
  <2>1. /\ at \in [Conversations -> Nat] /\ at["pos"] + 1 = Len(e) /\ at["pos"] + 1 \in Nat
        /\ at' = [at EXCEPT !["pos"] = at["pos"] + 1, !["neg"] = 1]
        /\ "pos" \in Conversations /\ "neg" \in Conversations /\ "pos" # "neg"
    BY <1>1, <1>2, <1>3 DEF Looping
  <2>2. at' \in [Conversations -> Nat] /\ at'["pos"] = at["pos"] + 1 /\ at'["neg"] = 1
    BY <2>1
  <2>3. QED
    BY <1>3, <2>1, <2>2
<1>7. last_hidden' \in HiddenSet /\ last_hidden'.seen = e
  BY <1>3, <1>4 DEF Hidden, HiddenSet
<1>8. conv' \in Seq(Nat) /\ (\A j \in DOMAIN frames : FrameOK(j))'
  BY <1>1, <1>2, FramesSame DEF Looping
<1>9. QED
  BY <1>1, <1>2, <1>3, <1>5, <1>6, <1>7, <1>8, LoopKeeps DEF Looping

LEMMA SpeakKeeps == ASSUME ~ Sharded, SpInv, Speak PROVE SpInv'
<1> DEFINE c == cache["pos"]
           d == cache["neg"]
           n == Len(frames)
           e == c \o Placed(Item("frame", n + 1), Len(c))
           b == d \o Placed(Item("diff", 0), Len(d))
           told == Append(conv, n + 1)
           f == Frame(c, b, told, FALSE)
<1>1. /\ version = "1.5B" /\ mode = "loop" /\ UNCHANGED <<version, mode, text, cursor, pos_hidden>>
      /\ at' = [at EXCEPT !["pos"] = @ + 1, !["neg"] = @ + 1]
  BY DEF Speak
<1>2. Looping
  BY <1>1, IsLooping
<1>3. n \in Nat /\ conv \in Seq(Nat) /\ frames \in Seq(FrameSet)
  BY <1>2 DEF Looping
<1>4. Seen("neg", Item("diff", 0)) = b
  BY <1>2 DEF Looping, Seen, Context
<1>5. conv' = told /\ frames' = Append(frames, f) /\ last_hidden' = Hidden(e, FALSE) /\ neg' = b
  BY <1>2, <1>4 DEF Speak, Looping
<1>6. cache' = [[cache EXCEPT !["neg"] = b] EXCEPT !["pos"] = e]
  BY <1>2, <1>4 DEF Speak, Grown, Looping
<1> HIDE DEF n
<1>7. /\ LoopOK(e, b, n + 1, text, conv \o <<n + 1>>) /\ e \in Seq(Entry) /\ Len(e) = Len(c) + 1
      /\ b \in Seq(Entry) /\ Len(b) = Len(d) + 1
      /\ InOrder(b) /\ Only(b, "text") = <<>>
      /\ Len(Only(b, "diff")) = 1 + Len(Only(Since(c, {"start"}), "frame"))
  <2>1. e = c \o Placed(Item("frame", n + 1), Len(c)) /\ b = d \o Placed(Item("diff", 0), Len(d))
    OBVIOUS
  <2> HIDE DEF e, b
  <2>2. LoopOK(c, d, n, text, conv) /\ c \in Seq(Entry) /\ d \in Seq(Entry)
    BY <1>2 DEF Looping, n
  <2> HIDE DEF c, d
  <2>3. TurnSpeaks(c, d, e, b, n, text, conv)
    BY <1>3, <2>1, <2>2, LoopSpeaks, Zenon
  <2>4. QED
    BY <2>3, Zenon DEF TurnSpeaks
<1>8. told \in Seq(Nat) /\ told = conv \o <<n + 1>> /\ n + 1 \in Nat
  BY <1>3
<1> HIDE DEF e, b, told
<1>9. f = [cond |-> c, neg |-> b, conv |-> told, stop |-> FALSE]
  BY DEF Frame, Latent
<1> HIDE DEF f
<1>10. f \in FrameSet /\ f.cond = c /\ f.neg = b /\ f.conv = told /\ ~ f.stop
  BY <1>2, <1>7, <1>8, <1>9 DEF FrameSet, Looping
<1>11. frames'[n + 1] = f /\ Len(frames') = n + 1 /\ \A k \in DOMAIN frames' : ~ frames'[k].stop
  <2>1. \A k \in DOMAIN frames : ~ frames[k].stop
    BY <1>2 DEF Looping
  <2>2. DOMAIN frames = 1 .. n /\ Len(frames) = n
    BY <1>3 DEF n
  <2>3. frames'[n + 1] = f /\ Len(frames') = n + 1 /\ DOMAIN frames' = 1 .. n + 1 /\ \A k \in 1 .. n : frames'[k] = frames[k]
    BY <1>3, <1>5, <1>10, <2>2
  <2>4. \A k \in DOMAIN frames' : k = n + 1 \/ k \in 1 .. n
    BY <1>3, <2>3
  <2>5. QED
    BY <1>10, <2>1, <2>2, <2>3, <2>4
<1>12. FedOf(frames', n + 1) = UpTo(n)
  <2>1. FedNext(frames, f)
    BY <1>3, <1>10, FedGrows, Zenon
  <2>2. n + 1 \in 1 .. n + 1
    BY <1>3
  <2>3. FedOf(frames', n + 1) = FedOf(frames, n + 1)
    BY <1>5, <2>1, <2>2, Zenon DEF FedNext, n
  <2> DEFINE S == {k \in DOMAIN frames : ~ frames[k].stop}
             a == UpTo(n)
  <2>4. FedOf(frames, n + 1) = Among(a, S)
    <3>1. (n + 1) - 1 = n
      BY <1>3
    <3>2. QED
      BY <3>1, Zenon DEF FedOf
  <2>5. a \in Seq(Nat) /\ Len(a) = n
    BY <1>3, UpToNext, Zenon
  <2>6. \A i \in 1 .. n : a[i] = i /\ i \in S
    BY <1>2, <1>3 DEF UpTo, Looping, n
  <2> HIDE DEF a, S
  <2>7. \A i \in 1 .. Len(a) : a[i] \in S
    BY <2>5, <2>6, Zenon
  <2>8. Among(a, S) = a
    BY <2>5, <2>7, AmongAll, Zenon
  <2>9. QED
    BY <2>3, <2>4, <2>8 DEF a
<1>13. LoopOK(c, d, n, text, conv)
  BY <1>2 DEF Looping, n
<1>14. FrameIs(frames', "1.5B", n + 1)
  <2> DEFINE j == n + 1
             fs == frames'
  <2>1. j \in Nat \ {0} /\ j - 1 = n /\ text \in Nat
    BY <1>2, <1>3 DEF Looping
  <2>2. Hears(c, text, UpTo(n)) /\ conv = NumbersOf(Only(Since(c, {"start", "end"}), "frame"))
    BY <1>13 DEF LoopOK
  <2>3. fs[j].cond = c /\ fs[j].neg = b /\ fs[j].conv = conv \o <<j>>
    BY <1>8, <1>10, <1>11
  <2>4. Hears(c, text, UpTo(j - 1)) /\ FedOf(fs, j) = UpTo(j - 1)
    BY <1>12, <2>1, <2>2, Zenon
  <2>5. fs[j].conv = NumbersOf(Only(Since(c, {"start", "end"}), "frame")) \o <<j>>
    BY <2>2, <2>3, Zenon
  <2> HIDE DEF j, fs
  <2>6. FrameIs(fs, "1.5B", j)
    BY <1>7, <2>1, <2>3, <2>4, <2>5, SampledTalking, Zenon
  <2>7. QED
    BY <2>6, Zenon DEF fs, j
<1>15. frames' \in Seq(FrameSet) /\ (\A j \in DOMAIN frames : FrameOK(j))'
  <2>1. FrameIs(frames', version, Len(frames) + 1)
    BY <1>1, <1>14, Zenon DEF n
  <2>2. \A j \in DOMAIN frames : FrameOK(j)
    BY <1>2 DEF Looping
  <2>3. version' = version
    BY <1>1
  <2>4. QED
    BY <1>3, <1>5, <1>10, <2>1, <2>2, <2>3, FramesGrow
<1>16. cache' \in [Conversations -> Seq(Entry)] /\ cache'["pos"] = e /\ cache'["neg"] = b
  BY <1>2, <1>6, <1>7 DEF Looping
<1>17. at' \in [Conversations -> Nat] /\ at'["pos"] = Len(e) /\ at'["neg"] = Len(b)
  <2>1. /\ at \in [Conversations -> Nat] /\ at["pos"] + 1 = Len(e) /\ at["neg"] + 1 = Len(b)
        /\ at["pos"] + 1 \in Nat /\ at["neg"] + 1 \in Nat
        /\ at' = [at EXCEPT !["pos"] = at["pos"] + 1, !["neg"] = at["neg"] + 1]
        /\ "pos" \in Conversations /\ "neg" \in Conversations /\ "pos" # "neg"
    BY <1>1, <1>2, <1>7 DEF Looping
  <2>2. at' \in [Conversations -> Nat] /\ at'["pos"] = at["pos"] + 1 /\ at'["neg"] = at["neg"] + 1
    BY <2>1
  <2>3. QED
    BY <2>1, <2>2
<1>18. last_hidden' \in HiddenSet /\ last_hidden'.seen = e
  BY <1>5, <1>7 DEF Hidden, HiddenSet
<1>19. LoopOK(cache'["pos"], cache'["neg"], Len(frames'), text', conv')
  BY <1>1, <1>5, <1>7, <1>8, <1>11, <1>16
<1>20. conv' \in Seq(Nat) /\ neg' \in Seq(Entry)
  BY <1>5, <1>7, <1>8
<1>21. QED
  BY <1>1, <1>2, <1>11, <1>15, <1>16, <1>17, <1>18, <1>19, <1>20, LoopKeeps DEF Looping

LEMMA EndLoopKeeps == ASSUME SpInv, EndLoop PROVE SpInv'
<1>1. /\ version = "1.5B" /\ mode' = "done" /\ version # "0.5B"
      /\ UNCHANGED <<version, text, cursor, left, cache, worker, at, last_hidden, pos_hidden, neg, conv, frames>>
  BY DEF EndLoop
<1>2. Talking /\ \A j \in DOMAIN frames : FrameOK(j)
  BY <1>1 DEF SpInv
<1>3. (\A j \in DOMAIN frames : FrameOK(j))'
  BY <1>1, <1>2, FramesSame
<1>4. Talking'
  BY <1>1, <1>2 DEF Talking
<1>5. QED
  BY <1>1, <1>3, <1>4 DEF SpInv

-----------------------------------------------------------------------------
(* Speech with the layers on a worker: what its one cache hears.           *)

\* A context without the voice, with the first t tokens of the text and the frames fed, at
\* whatever positions.
Mixes(c, t, fed) ==
  /\ c \in Seq(Entry) /\ Only(c, "voice") = <<>>
  /\ NumbersOf(Only(c, "text")) = UpTo(t) /\ NumbersOf(Only(c, "frame")) = fed
Shared == worker["tts"]

\* A condition that heard some of the text, and all frames that were fed back but the last ones.
Lags(c, fed, lag) ==
  LET heard == NumbersOf(Only(c, "frame"))
  IN  /\ Mixes(c, Len(Only(c, "text")), heard) /\ Len(Only(c, "text")) > 0
      /\ Starts(heard, Doubled(fed)) /\ 2 * Len(fed) - Len(heard) <= lag

\* The negative condition of the 0.5B model, from a context or the prompt's own.
NegativeMixed(c, fed) ==
  IF fed = <<>> THEN c = Injected ELSE Only(c, "text") # <<>> /\ NumbersOf(Only(c, "frame")) = Doubled(fed)

\* The 0.5B model: the cache has every frame twice.
StreamingMixed ==
  /\ mode \in {"prefill", "window", "tail", "done"}
  /\ Mixes(Shared, cursor, Doubled(Fed)) /\ NegativeMixed(neg, Fed)
  /\ mode \in {"window", "tail"} => cursor > 0 /\ Lags(last_hidden.seen, Fed, 1)
  /\ mode = "window" => left \in Nat /\ left <= SpeechWindow /\ Lags(pos_hidden.seen, Fed, 2 * (SpeechWindow - left))

\* The 1.5B model: the cache has what the last condition heard, and after the prefill a start.
Told(c, n, t, told) ==
  Mixes(c, t, UpTo(n)) /\ told = NumbersOf(Only(Since(c, {"start", "end"}), "frame"))
Leads(c, e) == e = c \/ \E p \in Nat : e = c \o Placed(Item("start", 0), p)
TalkingMixed ==
  /\ mode \in {"prefill", "loop", "done"}
  /\ mode = "prefill" => frames = <<>> /\ conv = <<>> /\ Shared = <<>> /\ at["pos"] = 0
  /\ mode = "loop" => /\ Told(last_hidden.seen, Len(frames), text, conv)
                      /\ Told(Shared, Len(frames), text, conv)
                      /\ Leads(last_hidden.seen, Shared)

MixInv ==
  /\ version \in Versions /\ text \in Nat \ {0} /\ cursor \in 0 .. text
  /\ worker \in [{"base", "tts"} -> Seq(Entry)] /\ at \in [Conversations -> Nat]
  /\ last_hidden \in HiddenSet /\ pos_hidden \in HiddenSet /\ neg \in Seq(Entry) /\ conv \in Seq(Nat)
  /\ frames \in Seq(FrameSet) /\ \A j \in DOMAIN frames : FrameMixed(j)
  /\ version = "0.5B" => StreamingMixed
  /\ version = "1.5B" => TalkingMixed

LEMMA MixesNothing == Mixes(<<>>, 0, <<>>) /\ \A K : Since(<<>>, K) = <<>>
<1>1. Hears(<<>>, 0, <<>>) /\ <<>> \in Seq(Entry) /\ Only(<<>>, "voice") = <<>>
  BY HearsNothing
<1>2. ASSUME NEW K PROVE Since(<<>>, K) = <<>>
  <2>1. {k \in DOMAIN <<>> : <<>>[k].of \in K} = {}
    OBVIOUS
  <2>2. SubSeq(<<>>, 0 + 1, 0) = <<>>
    OBVIOUS
  <2>3. QED
    BY <2>1, <2>2 DEF Since
<1>3. QED
  BY <1>1, <1>2, Zenon DEF Hears, Mixes

\* What entries of the text add, wherever they are placed.
LEMMA MixesText ==
  ASSUME NEW c, NEW t \in Nat, NEW n \in Nat, t <= n, NEW fed, Mixes(c, t, fed), NEW p \in Nat,
         NEW e, e = c \o Placed(Items("text", t + 1, n), p)
  PROVE  Mixes(e, n, fed)
<1> DEFINE m == t + 1
           d == Placed(Items("text", m, n), p)
<1>1. c \in Seq(Entry) /\ Only(c, "voice") = <<>> /\ NumbersOf(Only(c, "text")) = UpTo(t) /\ NumbersOf(Only(c, "frame")) = fed
  BY DEF Mixes
<1>2. "text" \in EntryKinds /\ "frame" # "text" /\ "voice" # "text"
  BY DEF EntryKinds
<1>3. m \in Nat /\ m <= n + 1
  OBVIOUS
<1>4. e = c \o d
  OBVIOUS
<1>a. UpTo(t) \o [k \in 1 .. n - m + 1 |-> m + k - 1] = UpTo(n)
  BY UpToConcat, Zenon
<1> HIDE DEF m
<1>5. d \in Seq(Entry)
  BY <1>2, <1>3, PlacedIs
<1>6. /\ Only(d, "text") = d /\ NumbersOf(d) = [k \in 1 .. n - m + 1 |-> m + k - 1]
      /\ Only(d, "voice") = <<>> /\ Only(d, "frame") = <<>>
  <2> DEFINE sort == "text"
             N == n - m + 1
             x == Placed(Items(sort, m, n), p)
  <2>a. sort \in EntryKinds /\ x = d
    BY <1>2
  <2> HIDE DEF sort, d
  <2>b. Only(x, sort) = x /\ NumbersOf(x) = [k \in 1 .. N |-> m + k - 1]
    BY <1>3, <2>a, PlacedOnly
  <2> HIDE DEF x
  <2>1. Only(d, "text") = d /\ NumbersOf(d) = [k \in 1 .. n - m + 1 |-> m + k - 1]
    BY <2>a, <2>b DEF sort
  <2> USE DEF d
  <2>2. Only(d, "voice") = <<>>
    BY <1>2, <1>3, PlacedOnly
  <2>3. Only(d, "frame") = <<>>
    BY <1>2, <1>3, PlacedOnly
  <2>4. QED
    BY <2>1, <2>2, <2>3
<1> HIDE DEF d
<1>7. /\ e \in Seq(Entry)
      /\ \A sort : Only(c, sort) \in Seq(Entry) /\ Only(e, sort) = Only(c, sort) \o Only(d, sort)
  <2>1. c \o d \in Seq(Entry)
    BY <1>1, <1>5
  <2>2. \A sort : Only(c, sort) \in Seq(Entry) /\ Only(c \o d, sort) = Only(c, sort) \o Only(d, sort)
    BY <1>1, <1>5, OnlyConcat, Zenon
  <2>3. QED
    BY <1>4, <2>1, <2>2, Zenon
<1>8. \A a \in Seq(Entry) : a \o <<>> = a
  BY ConcatEmptySeq
<1>9. Only(e, "voice") = <<>> /\ Only(e, "frame") = Only(c, "frame")
  BY <1>1, <1>6, <1>7, <1>8, Zenon
<1>10. NumbersOf(Only(e, "text")) = UpTo(n)
  <2> DEFINE a == Only(c, "text")
  <2>1. a \in Seq(Entry) /\ Only(e, "text") = a \o d
    BY <1>6, <1>7, Zenon
  <2>2. NumbersOf(a) = UpTo(t)
    BY <1>1
  <2> HIDE DEF a
  <2>3. NumbersOf(a \o d) = NumbersOf(a) \o NumbersOf(d)
    BY <1>5, <2>1, NumbersConcat, Zenon
  <2>4. QED
    BY <1>6, <1>a, <2>1, <2>2, <2>3, Zenon
<1>11. QED
  BY <1>1, <1>7, <1>9, <1>10, Zenon DEF Mixes

\* What one entry adds, wherever it is placed.
MixesMore(c, e, sort, l, t, fed) ==
  /\ Len(c) \in Nat /\ Len(e) = Len(c) + 1 /\ Starts(c, e)
  /\ sort = "frame" => Mixes(e, t, fed \o <<l>>)
  /\ sort # "frame" => Mixes(e, t, fed)
  /\ \A K : sort \in K => Since(e, K) = <<>>
  /\ \A K : sort \notin K /\ sort = "frame" =>
       NumbersOf(Only(Since(e, K), "frame")) = NumbersOf(Only(Since(c, K), "frame")) \o <<l>>
  /\ \A K : sort \notin K /\ sort # "frame" => Only(Since(e, K), "frame") = Only(Since(c, K), "frame")

LEMMA MixesOne ==
  ASSUME NEW c, NEW t, NEW fed, Mixes(c, t, fed), NEW sort \in EntryKinds \ {"text", "voice"},
         NEW l \in Nat, NEW p \in Nat, NEW e, e = c \o Placed(Item(sort, l), p)
  PROVE  MixesMore(c, e, sort, l, t, fed)
<1> DEFINE x == [of |-> sort, n |-> l, pos |-> p]
<1>1. c \in Seq(Entry) /\ Only(c, "voice") = <<>> /\ NumbersOf(Only(c, "text")) = UpTo(t) /\ NumbersOf(Only(c, "frame")) = fed
  BY DEF Mixes
<1>2. x \in Entry /\ e = c \o <<x>> /\ x.of = sort /\ x.n = l
  BY PlacedOne
<1> HIDE DEF x
<1>3. OneMore(c, x, sort, l)
  BY <1>1, <1>2, OneMoreEntry, Zenon
<1>4. e \in Seq(Entry) /\ Len(c) \in Nat /\ Len(e) = Len(c) + 1 /\ \A k \in 1 .. Len(c) : e[k] = c[k]
  BY <1>1, <1>2
<1>5. Starts(c, e)
  BY <1>4 DEF Starts
<1>6. "text" # sort /\ "voice" # sort
  OBVIOUS
<1>7. ASSUME sort = "frame" PROVE Mixes(e, t, fed \o <<l>>)
  BY <1>1, <1>2, <1>3, <1>4, <1>6, <1>7, Zenon DEF OneMore, Mixes
<1>8. ASSUME sort # "frame" PROVE Mixes(e, t, fed)
  BY <1>1, <1>2, <1>3, <1>4, <1>6, <1>8, Zenon DEF OneMore, Mixes
<1>9. \A K : sort \in K => Since(e, K) = <<>>
  BY <1>1, <1>2, SinceAppend
<1>10. ASSUME NEW K, sort \notin K PROVE OneMore(Since(c, K), x, sort, l) /\ Since(e, K) = Since(c, K) \o <<x>>
  <2>1. Since(c, K) \in Seq(Entry) /\ Since(c \o <<x>>, K) = Since(c, K) \o <<x>>
    BY <1>1, <1>2, <1>10, SinceAppend
  <2>2. OneMore(Since(c, K), x, sort, l)
    BY <1>2, <2>1, OneMoreEntry, Zenon
  <2>3. QED
    BY <1>2, <2>1, <2>2
<1>11. ASSUME NEW K, sort \notin K, sort = "frame"
       PROVE  NumbersOf(Only(Since(e, K), "frame")) = NumbersOf(Only(Since(c, K), "frame")) \o <<l>>
  BY <1>10, <1>11, Zenon DEF OneMore
<1>12. ASSUME NEW K, sort \notin K, sort # "frame"
       PROVE  Only(Since(e, K), "frame") = Only(Since(c, K), "frame")
  BY <1>10, <1>12, Zenon DEF OneMore
<1>13. QED
  BY <1>4, <1>5, <1>7, <1>8, <1>9, <1>11, <1>12, Zenon DEF MixesMore

LEMMA MixesLen ==
  ASSUME NEW c, NEW t \in Nat, NEW fed, Mixes(c, t, fed)
  PROVE  /\ c \in Seq(Entry) /\ fed \in Seq(Nat) /\ Len(Only(c, "text")) = t
         /\ Len(NumbersOf(Only(c, "text"))) = t /\ (t > 0 => Only(c, "text") # <<>>)
<1>1. c \in Seq(Entry) /\ NumbersOf(Only(c, "text")) = UpTo(t) /\ NumbersOf(Only(c, "frame")) = fed
  BY DEF Mixes
<1>2. Only(c, "text") \in Seq(Entry) /\ Only(c, "frame") \in Seq(Entry)
  BY <1>1, OnlyConcat, Zenon
<1>3. Len(NumbersOf(Only(c, "text"))) = Len(Only(c, "text")) /\ NumbersOf(Only(c, "frame")) \in Seq(Nat)
  BY <1>2, NumbersConcat, Zenon
<1>4. Len(UpTo(t)) = t
  BY UpToNext, Zenon
<1>5. t > 0 => Only(c, "text") # <<>>
  <2> DEFINE a == Only(c, "text")
  <2>1. a \in Seq(Entry) /\ Len(a) = t
    BY <1>1, <1>2, <1>3, <1>4
  <2> HIDE DEF a
  <2>2. t > 0 => a # <<>>
    BY <2>1
  <2>3. QED
    BY <2>2 DEF a
<1>6. QED
  BY <1>1, <1>3, <1>4, <1>5, Zenon

LEMMA StartsIs ==
  ASSUME NEW S, NEW a \in Seq(S), NEW b \in Seq(S), Starts(a, b)
  PROVE  IsPrefix(a, b)
<1> DEFINE N == Len(a)
           x == SubSeq(b, 1, N)
<1>1. N \in Nat /\ Len(b) \in Nat /\ N <= Len(b) /\ \A k \in 1 .. N : a[k] = b[k]
  BY DEF Starts
<1>2. SubSeq(a, 1, N) = a
  BY SubSeqFull
<1>3. \A k \in 1 .. N : b[k] \in S
  BY <1>1
<1> HIDE DEF N
<1>4. x \in Seq(S) /\ Len(x) = (IF 1 <= N THEN N - 1 + 1 ELSE 0) /\ \A k \in 1 .. N - 1 + 1 : x[k] = b[1 + k - 1]
  BY <1>1, <1>3, SubSeqProperties
<1>5. Len(x) = N /\ \A k \in 1 .. N : x[k] = b[k]
  BY <1>1, <1>4
<1> HIDE DEF x
<1>6. Len(a) = N /\ \A k \in 1 .. N : a[k] = x[k]
  BY <1>1, <1>5 DEF N
<1>7. a = x
  BY <1>4, <1>5, <1>6, SeqEqual
<1>8. QED
  BY <1>1, <1>2, <1>7 DEF IsPrefix, x, N

\* A frame fed back is in the cache twice.
LEMMA DoubledNext ==
  ASSUME NEW s \in Seq(Nat), NEW l \in Nat
  PROVE  /\ Doubled(s) \in Seq(Nat) /\ Len(Doubled(s)) = 2 * Len(s)
         /\ Doubled(s \o <<l>>) = (Doubled(s) \o <<l>>) \o <<l>>
<1> DEFINE n == Len(s)
           w == s \o <<l>>
           a == Doubled(s)
           b == Doubled(w)
           y == (a \o <<l>>) \o <<l>>
<1>1. n \in Nat /\ \A k \in 1 .. n : s[k] \in Nat
  OBVIOUS
<1>2. w \in Seq(Nat) /\ Len(w) = n + 1 /\ (\A k \in 1 .. n : w[k] = s[k]) /\ w[n + 1] = l
  OBVIOUS
<1> HIDE DEF w
<1>3. \A q \in Nat, k \in Nat \ {0} : k <= 2 * q => (k + 1) \div 2 \in 1 .. q
  OBVIOUS
<1>4. a = [k \in 1 .. 2 * n |-> s[(k + 1) \div 2]] /\ b = [k \in 1 .. 2 * (n + 1) |-> w[(k + 1) \div 2]]
  BY <1>2 DEF Doubled
<1> HIDE DEF n, a, b
<1>5. \A k \in 1 .. 2 * n : (k + 1) \div 2 \in 1 .. n
  BY <1>1, <1>3
<1>6. a \in [1 .. 2 * n -> Nat]
  BY <1>1, <1>4, <1>5
<1>7. 2 * n \in Nat
  BY <1>1
<1>8. a \in Seq(Nat) /\ Len(a) = 2 * n
  <2>1. a \in Seq(Nat)
    <3> DEFINE q == 2 * n
    <3>1. q \in Nat /\ a \in [1 .. q -> Nat]
      BY <1>6, <1>7
    <3> HIDE DEF q
    <3>2. QED
      BY <3>1, SeqDef
  <2>2. QED
    BY <1>6, <1>7, <2>1
<1>9. /\ y \in Seq(Nat) /\ Len(y) = 2 * n + 2 /\ (\A k \in 1 .. 2 * n : y[k] = a[k])
      /\ y[2 * n + 1] = l /\ y[2 * n + 2] = l
  BY <1>7, <1>8
<1> HIDE DEF y
<1>10. \A k \in 1 .. 2 * n + 2 : b[k] = w[(k + 1) \div 2] /\ (k + 1) \div 2 \in 1 .. n + 1
  <2>1. 2 * (n + 1) = 2 * n + 2 /\ n + 1 \in Nat
    BY <1>1
  <2>2. QED
    BY <1>3, <1>4, <2>1
<1>11. ((2 * n + 1) + 1) \div 2 = n + 1 /\ ((2 * n + 2) + 1) \div 2 = n + 1
  BY <1>1
<1>12. b \in Seq(Nat) /\ Len(b) = 2 * n + 2
  <2> DEFINE q == 2 * (n + 1)
  <2>1. q \in Nat /\ q = 2 * n + 2
    BY <1>1
  <2>2. \A k \in 1 .. n + 1 : w[k] \in Nat
    BY <1>2
  <2>3. b = [k \in 1 .. q |-> w[(k + 1) \div 2]]
    BY <1>4
  <2>4. \A k \in 1 .. q : w[(k + 1) \div 2] \in Nat
    BY <1>10, <2>1, <2>2
  <2> HIDE DEF q
  <2>5. b \in [1 .. q -> Nat]
    BY <2>3, <2>4
  <2>6. b \in Seq(Nat)
    BY <2>1, <2>5, SeqDef
  <2>7. QED
    BY <2>1, <2>5, <2>6
<1>13. ASSUME NEW k \in 1 .. Len(b) PROVE b[k] = y[k]
  <2>0. k \in 1 .. 2 * n + 2
    BY <1>12
  <2>1. CASE k = 2 * n + 1
    BY <1>2, <1>9, <1>10, <1>11, <2>0, <2>1
  <2>2. CASE k = 2 * n + 2
    BY <1>2, <1>9, <1>10, <1>11, <2>0, <2>2
  <2>3. CASE k # 2 * n + 1 /\ k # 2 * n + 2
    <3>1. k \in 1 .. 2 * n
      BY <1>7, <2>0, <2>3
    <3>2. a[k] = s[(k + 1) \div 2] /\ (k + 1) \div 2 \in 1 .. n
      BY <1>4, <1>5, <3>1
    <3>3. b[k] = w[(k + 1) \div 2]
      BY <1>10, <2>0
    <3> DEFINE i == (k + 1) \div 2
    <3>4. i \in 1 .. n /\ a[k] = s[i] /\ b[k] = w[i]
      BY <3>2, <3>3
    <3> HIDE DEF i
    <3>5. QED
      BY <1>2, <1>9, <3>1, <3>4
  <2>4. QED
    BY <2>1, <2>2, <2>3
<1>14. b = y
  BY <1>9, <1>12, <1>13, SeqEqual
<1>15. QED
  BY <1>8, <1>14 DEF a, b, y, w, n

LEMMA DoubledNone == Doubled(<<>>) = <<>>
  BY DEF Doubled

-----------------------------------------------------------------------------
(* The frames so far, with the layers on a worker.                         *)

\* FrameMixed, of any frames.
MixedIs(fs, v, j) ==
  LET f == fs[j]
      told  == NumbersOf(Only(f.cond, "text"))
      heard == NumbersOf(Only(f.cond, "frame"))
      fed   == FedOf(fs, j)
  IN  /\ told # <<>> /\ told = UpTo(Len(told))
      /\ Only(f.cond, "voice") = <<>>
      /\ \/ /\ v = "1.5B"
            /\ heard = UpTo(j - 1)
            /\ IsPrefix(f.cond, f.neg) /\ Len(f.neg) - Len(f.cond) \in {1, 2}
            /\ f.conv = NumbersOf(Only(Since(f.cond, {"start", "end"}), "frame")) \o <<j>>
         \/ /\ v = "0.5B"
            /\ IsPrefix(heard, Doubled(fed)) /\ Len(heard) > 2 * (Len(fed) - SpeechWindow)
            /\ IF fed = <<>> THEN f.neg = Injected
               ELSE Only(f.neg, "text") # <<>> /\ NumbersOf(Only(f.neg, "frame")) = Doubled(fed)

LEMMA MixedSame ==
  ASSUME \A j \in DOMAIN frames : FrameMixed(j), UNCHANGED <<frames, version>>
  PROVE  (\A j \in DOMAIN frames : FrameMixed(j))' /\ Fed' = Fed
<1>1. \A j : FedBack(j)' = FedBack(j)
  BY Zenon DEF FedBack
<1>2. ASSUME NEW j \in DOMAIN frames PROVE FrameMixed(j)'
  <2>1. FrameMixed(j)
    BY <1>2
  <2>2. frames' = frames /\ version' = version
    OBVIOUS
  <2>3. QED
    BY <2>1, <2>2 DEF FrameMixed, FedBack
<1>3. Fed' = Fed
  BY <1>1 DEF Fed, FedBack
<1>4. QED
  BY <1>2, <1>3

LEMMA MixedGrow ==
  ASSUME frames \in Seq(FrameSet), \A j \in DOMAIN frames : FrameMixed(j), version' = version,
         NEW f \in FrameSet, frames' = Append(frames, f), MixedIs(frames', version, Len(frames) + 1)
  PROVE  /\ frames' \in Seq(FrameSet) /\ (\A j \in DOMAIN frames : FrameMixed(j))'
         /\ Fed' = (IF f.stop THEN Fed ELSE Fed \o <<Len(frames) + 1>>)
<1> DEFINE n == Len(frames) + 1
<1>1. /\ frames' \in Seq(FrameSet) /\ Len(frames') = n /\ DOMAIN frames' = 1 .. n /\ n \in Nat
      /\ DOMAIN frames = 1 .. n - 1 /\ \A j \in 1 .. n - 1 : frames'[j] = frames[j]
  OBVIOUS
<1>2. FedNext(frames, f)
  BY FedGrows, Zenon
<1>3. \A j \in 1 .. n : FedOf(frames', j) = FedOf(frames, j)
  BY <1>2 DEF FedNext
<1>4. ASSUME NEW j \in 1 .. n PROVE FrameMixed(j)'
  <2>0. MixedIs(frames', version', j) => FrameMixed(j)'
    BY Zenon DEF MixedIs, FrameMixed, FedBack, FedOf
  <2>1. CASE j = n
    BY <2>0, <2>1, Zenon
  <2>2. CASE j # n
    <3>1. j \in 1 .. n - 1 /\ frames'[j] = frames[j]
      BY <1>1, <2>2
    <3>2. FrameMixed(j)
      BY <1>1, <3>1
    <3>3. MixedIs(frames, version, j)
      BY <3>2, Zenon DEF MixedIs, FrameMixed, FedBack, FedOf
    <3>4. MixedIs(frames', version', j)
      BY <1>3, <3>1, <3>3, Zenon DEF MixedIs
    <3>5. QED
      BY <2>0, <3>4
  <2>3. QED
    BY <2>1, <2>2
<1>5. Fed = FedOf(frames, n)
  BY DEF Fed, FedBack, FedOf
<1>6. Fed' = FedOf(frames', n + 1)
  <2>1. Len(frames') = n
    BY <1>1
  <2> HIDE DEF n
  <2>2. QED
    BY <2>1 DEF Fed, FedBack, FedOf
<1>7. Fed' = (IF f.stop THEN Fed ELSE Fed \o <<n>>)
  <2>1. FedOf(Append(frames, f), n + 1) = IF f.stop THEN FedOf(frames, n) ELSE FedOf(frames, n) \o <<n>>
    BY <1>2, Zenon DEF FedNext
  <2> HIDE DEF n
  <2>2. QED
    BY <1>5, <1>6, <2>1, Zenon
<1>8. QED
  BY <1>1, <1>4, <1>7

-----------------------------------------------------------------------------
(* The steps of the 0.5B model, with the layers on a worker.               *)

LEMMA SampledMixed ==
  ASSUME SpeechAssumption, MixInv, StreamingMixed, version = "0.5B", version' = version,
         NEW h \in HiddenSet, Lags(h.seen, Fed, 2 * SpeechWindow - 1),
         frames' = Append(frames, Frame(h.seen, neg, <<>>, h.stop))
  PROVE  /\ frames' \in Seq(FrameSet) /\ (\A j \in DOMAIN frames : FrameMixed(j))'
         /\ Fed' = (IF h.stop THEN Fed ELSE Fed \o <<Len(frames) + 1>>)
<1> DEFINE f == Frame(h.seen, neg, <<>>, h.stop)
           n == Len(frames) + 1
           c == h.seen
           t == Len(Only(c, "text"))
           heard == NumbersOf(Only(c, "frame"))
<1>1. f = [cond |-> h.seen, neg |-> neg, conv |-> <<>>, stop |-> h.stop]
  BY DEF Frame, Latent
<1>2. /\ frames \in Seq(FrameSet) /\ \A j \in DOMAIN frames : FrameMixed(j)
      /\ neg \in Seq(Entry) /\ h.seen \in Seq(Entry) /\ h.stop \in BOOLEAN
  BY DEF MixInv, HiddenSet
<1>3. f \in FrameSet /\ f.cond = c /\ f.neg = neg /\ f.stop = h.stop
  <2>1. <<>> \in Seq(Nat)
    OBVIOUS
  <2> HIDE DEF f
  <2>2. QED
    BY <1>1, <1>2, <2>1 DEF FrameSet
<1>4. frames' = Append(frames, f)
  OBVIOUS
<1> HIDE DEF f
<1>5. FedNext(frames, f)
  BY <1>2, <1>3, FedGrows, Zenon
<1>6. Fed = FedOf(frames, n)
  BY DEF Fed, FedBack, FedOf
<1>7. n \in Nat /\ n \in 1 .. n /\ frames'[n] = f
  BY <1>2, <1>3, <1>4
<1>8. FedOf(frames', n) = Fed
  BY <1>4, <1>5, <1>6, <1>7, Zenon DEF FedNext
<1>9. Fed \in Seq(Nat) /\ Len(Fed) \in Nat
  <2>1. Fed \in Seq(Nat)
    BY <1>2, FedIn, Zenon
  <2>2. QED
    BY <2>1
<1>10. SpeechWindow \in Nat
  BY DEF SpeechAssumption
<1>11. Mixes(c, t, heard) /\ t > 0 /\ Starts(heard, Doubled(Fed)) /\ 2 * Len(Fed) - Len(heard) <= 2 * SpeechWindow - 1
  BY DEF Lags
<1>12. NegativeMixed(neg, Fed)
  BY DEF StreamingMixed
<1> HIDE DEF n
<1>13. t \in Nat
  <2>1. Only(c, "text") \in Seq(Entry)
    BY <1>2, OnlyConcat, Zenon
  <2>2. QED
    BY <2>1
<1>14. /\ heard \in Seq(Nat) /\ NumbersOf(Only(c, "text")) = UpTo(t) /\ Len(NumbersOf(Only(c, "text"))) = t
       /\ Only(c, "voice") = <<>>
  <2> HIDE DEF t, heard, c
  <2>1. QED
    BY <1>11, <1>13, MixesLen, Zenon DEF Mixes
<1>15. NumbersOf(Only(c, "text")) # <<>>
  <2> DEFINE a == NumbersOf(Only(c, "text"))
  <2>1. Len(a) = t
    BY <1>14
  <2> HIDE DEF a, t
  <2>2. a # <<>>
    BY <1>11, <1>13, <2>1
  <2>3. QED
    BY <2>2 DEF a
<1>16. IsPrefix(heard, Doubled(Fed)) /\ Len(heard) > 2 * (Len(Fed) - SpeechWindow)
  <2> HIDE DEF heard
  <2>1. Doubled(Fed) \in Seq(Nat)
    BY <1>9, DoubledNext
  <2>2. IsPrefix(heard, Doubled(Fed))
    BY <1>11, <1>14, <2>1, StartsIs, Zenon
  <2>3. Len(heard) \in Nat
    BY <1>14
  <2>4. QED
    BY <1>9, <1>10, <1>11, <2>2, <2>3
<1>17. MixedIs(frames', "0.5B", n)
  <2>1. frames'[n].cond = c /\ frames'[n].neg = neg
    BY <1>3, <1>7, Zenon
  <2> HIDE DEF c, t
  <2>2. NumbersOf(Only(c, "text")) = UpTo(Len(NumbersOf(Only(c, "text"))))
    BY <1>14, Zenon
  <2>3. QED
    BY <1>8, <1>12, <1>14, <1>15, <1>16, <2>1, <2>2, Zenon DEF MixedIs, NegativeMixed
<1>18. /\ frames' \in Seq(FrameSet) /\ (\A j \in DOMAIN frames : FrameMixed(j))'
       /\ Fed' = (IF f.stop THEN Fed ELSE Fed \o <<Len(frames) + 1>>)
  <2>1. MixedIs(frames', version, Len(frames) + 1)
    BY <1>17, Zenon DEF n
  <2>2. QED
    BY <1>2, <1>3, <1>4, <2>1, MixedGrow
<1>19. QED
  BY <1>3, <1>18, Zenon

\* Both conversations are fed the frame, one after the other, into one cache.
BothMix(l) ==
  /\ worker' \in [{"base", "tts"} -> Seq(Entry)] /\ at' \in [Conversations -> Nat]
  /\ Mixes(worker'["tts"], cursor, (Doubled(Fed) \o <<l>>) \o <<l>>) /\ neg' = worker'["tts"]
  /\ last_hidden' \in HiddenSet /\ Mixes(last_hidden'.seen, cursor, Doubled(Fed) \o <<l>>)

LEMMA FeedBackMixes ==
  ASSUME Sharded, MixInv, StreamingMixed, NEW l \in Nat, FeedBack(l)
  PROVE  BothMix(l)
<1> DEFINE c == worker["tts"]
           a == c \o Placed(Item("frame", l), at["pos"])
           b == a \o Placed(Item("frame", l), at["neg"])
<1>1. worker \in [{"base", "tts"} -> Seq(Entry)] /\ at \in [Conversations -> Nat] /\ Mixes(c, cursor, Doubled(Fed))
  BY DEF MixInv, StreamingMixed, Shared
<1>2. "pos" \in Conversations /\ "neg" \in Conversations /\ "frame" \in EntryKinds \ {"text", "voice"}
  BY DEF Conversations, EntryKinds
<1>3. at["pos"] \in Nat /\ at["neg"] \in Nat
  BY <1>1, <1>2
<1>a. a = c \o Placed(Item("frame", l), at["pos"]) /\ b = a \o Placed(Item("frame", l), at["neg"])
  OBVIOUS
<1> HIDE DEF a, b
<1>4. Mixes(a, cursor, Doubled(Fed) \o <<l>>)
  <2> HIDE DEF c
  <2>1. MixesMore(c, a, "frame", l, cursor, Doubled(Fed))
    BY <1>1, <1>2, <1>3, <1>a, MixesOne, Zenon
  <2>2. QED
    BY <2>1, Zenon DEF MixesMore
<1>5. Mixes(b, cursor, (Doubled(Fed) \o <<l>>) \o <<l>>)
  <2>1. MixesMore(a, b, "frame", l, cursor, Doubled(Fed) \o <<l>>)
    BY <1>2, <1>3, <1>4, <1>a, MixesOne, Zenon
  <2>2. QED
    BY <2>1, Zenon DEF MixesMore
<1>6. a \in Seq(Entry) /\ b \in Seq(Entry)
  BY <1>4, <1>5, Zenon DEF Mixes
<1> DEFINE both == Both(Item("frame", l))
<1>7. PICK stop \in BOOLEAN :
        /\ worker' = both.worker /\ at' = [at EXCEPT !["pos"] = @ + 1, !["neg"] = @ + 1]
        /\ last_hidden' = Hidden(both.pos, stop) /\ neg' = both.neg
  BY DEF FeedBack
<1>8. both.pos = a /\ Seen("pos", Item("frame", l)) = a
  BY <1>a DEF Both, Seen, Context, Model
<1>9. Grown(worker, cache, "pos", Item("frame", l)).worker = [worker EXCEPT !["tts"] = a]
  BY <1>8 DEF Grown, Model
<1>10. [worker EXCEPT !["tts"] = a]["tts"] = a
  BY <1>1
<1>11. both.neg = b /\ both.worker = [[worker EXCEPT !["tts"] = a] EXCEPT !["tts"] = b]
  BY <1>9, <1>10, <1>a DEF Both
<1> HIDE DEF both
<1>12. worker' \in [{"base", "tts"} -> Seq(Entry)] /\ worker'["tts"] = b
  BY <1>1, <1>6, <1>7, <1>11
<1>13. at' \in [Conversations -> Nat]
  <2>1. at["pos"] + 1 \in Nat /\ at["neg"] + 1 \in Nat
    BY <1>3
  <2>2. at' = [at EXCEPT !["pos"] = at["pos"] + 1, !["neg"] = at["neg"] + 1]
    BY <1>2, <1>7
  <2>3. QED
    BY <1>1, <2>1, <2>2
<1>14. last_hidden' \in HiddenSet /\ last_hidden'.seen = a /\ neg' = b
  BY <1>6, <1>7, <1>8, <1>11 DEF Hidden, HiddenSet
<1>15. QED
  BY <1>4, <1>5, <1>12, <1>13, <1>14, Zenon DEF BothMix

\* What the frame fed back leaves of StreamingMixed.
FedMixed ==
  /\ Mixes(worker'["tts"], cursor, Doubled(Fed')) /\ NegativeMixed(neg', Fed') /\ neg' \in Seq(Entry)
  /\ Lags(last_hidden'.seen, Fed', 1)

LEMMA FedMixes ==
  ASSUME cursor \in Nat, cursor > 0, Fed \in Seq(Nat), NEW l \in Nat, BothMix(l), Fed' = Fed \o <<l>>
  PROVE  FedMixed
<1> DEFINE fed == Fed'
           a == Doubled(Fed) \o <<l>>
           c == last_hidden'.seen
           d == worker'["tts"]
<1>1. Doubled(Fed) \in Seq(Nat) /\ Len(Doubled(Fed)) = 2 * Len(Fed) /\ Doubled(fed) = a \o <<l>>
  BY DoubledNext
<1>2. Mixes(d, cursor, a \o <<l>>) /\ neg' = d /\ Mixes(c, cursor, a)
  BY DEF BothMix
<1>3. fed \in Seq(Nat) /\ Len(fed) = Len(Fed) + 1 /\ fed # <<>> /\ Len(Fed) \in Nat
  OBVIOUS
<1>4. a \in Seq(Nat) /\ Len(a) = 2 * Len(Fed) + 1
  <2> DEFINE x == Doubled(Fed)
  <2>1. x \in Seq(Nat) /\ Len(x) = 2 * Len(Fed) /\ a = x \o <<l>>
    BY <1>1
  <2> HIDE DEF x, a
  <2>2. <<l>> \in Seq(Nat) /\ Len(<<l>>) = 1
    OBVIOUS
  <2>3. x \o <<l>> \in Seq(Nat) /\ Len(x \o <<l>>) = Len(x) + Len(<<l>>)
    BY <2>1, <2>2, ConcatProperties
  <2>4. QED
    BY <2>1, <2>2, <2>3
<1> HIDE DEF fed, a, c, d
<1>5. Starts(a, a \o <<l>>)
  BY <1>4 DEF Starts
<1>6. Lags(c, fed, 1)
  <2>1. Len(Only(c, "text")) = cursor /\ NumbersOf(Only(c, "frame")) = a
    BY <1>2, MixesLen, Zenon DEF Mixes
  <2>2. 2 * Len(fed) - Len(a) <= 1
    BY <1>3, <1>4
  <2>3. QED
    BY <1>1, <1>2, <1>5, <2>1, <2>2, Zenon DEF Lags
<1>7. NegativeMixed(d, fed) /\ d \in Seq(Entry)
  BY <1>1, <1>2, <1>3, MixesLen, Zenon DEF NegativeMixed, Mixes
<1>8. QED
  BY <1>1, <1>2, <1>6, <1>7, Zenon DEF FedMixed, fed, c, d

LEMMA ReadTextMixes == ASSUME SpeechAssumption, Sharded, MixInv, ReadText PROVE MixInv'
<1>1. version = "0.5B" /\ mode = "prefill" /\ UNCHANGED <<version, text, neg, conv, frames>> /\ version # "1.5B"
  BY DEF ReadText
<1>2. StreamingMixed
  BY <1>1 DEF MixInv
<1>3. /\ worker \in [{"base", "tts"} -> Seq(Entry)] /\ at \in [Conversations -> Nat]
      /\ last_hidden \in HiddenSet /\ pos_hidden \in HiddenSet /\ text \in Nat \ {0} /\ cursor \in 0 .. text
      /\ frames \in Seq(FrameSet) /\ version \in Versions /\ neg \in Seq(Entry) /\ conv \in Seq(Nat)
      /\ \A j \in DOMAIN frames : FrameMixed(j)
  BY DEF MixInv
<1>4. (\A j \in DOMAIN frames : FrameMixed(j))' /\ Fed' = Fed
  BY <1>1, <1>3, MixedSame
<1>5. TextWindow \in Nat \ {0} /\ SpeechWindow \in Nat \ {0}
  BY DEF SpeechAssumption
<1>6. CASE Len(frames) >= MaxFrames
  <2>1. mode' = "done" /\ UNCHANGED <<cursor, left, cache, worker, at, last_hidden, pos_hidden>>
    BY <1>6 DEF ReadText
  <2>2. StreamingMixed'
    BY <1>1, <1>2, <1>4, <2>1 DEF StreamingMixed, Shared, NegativeMixed
  <2>3. QED
    BY <1>1, <1>3, <1>4, <2>1, <2>2 DEF MixInv
<1>7. CASE ~ (Len(frames) >= MaxFrames)
  <2> DEFINE end == IF cursor + TextWindow < text THEN cursor + TextWindow ELSE text
             items == Items("text", cursor + 1, end)
             c == worker["tts"]
             e == c \o Placed(items, at["pos"])
             b == worker["base"] \o Placed(items, at["base"])
             n == Len(items)
  <2>1. end \in Nat /\ cursor \in Nat /\ cursor <= end /\ end <= text /\ cursor + 1 \in Nat /\ cursor + 1 <= end + 1 /\ end > 0
    BY <1>3, <1>5
  <2> HIDE DEF end
  <2>2. "text" \in EntryKinds /\ "pos" \in Conversations /\ "base" \in Conversations
    BY DEF EntryKinds, Conversations
  <2>3. at["pos"] \in Nat /\ at["base"] \in Nat /\ worker["base"] \in Seq(Entry) /\ c \in Seq(Entry)
    BY <1>3, <2>2
  <2>4. Mixes(c, cursor, Doubled(Fed)) /\ NegativeMixed(neg, Fed)
    BY <1>2 DEF StreamingMixed, Shared
  <2>5. Mixes(e, end, Doubled(Fed))
    <3> DEFINE p == at["pos"]
    <3>1. p \in Nat /\ e = c \o Placed(Items("text", cursor + 1, end), p)
      BY <2>3
    <3> HIDE DEF e, p, c
    <3>2. QED
      BY <2>1, <2>4, <3>1, MixesText, Zenon
  <2>6. e \in Seq(Entry)
    BY <2>5, Zenon DEF Mixes
  <2>7. b \in Seq(Entry)
    <3> DEFINE p == at["base"]
               m == cursor + 1
               x == Placed(Items("text", m, end), p)
    <3>1. p \in Nat /\ m \in Nat /\ m <= end + 1
      BY <2>1, <2>3
    <3> HIDE DEF p, m
    <3>2. x \in Seq(Entry)
      BY <2>1, <2>2, <3>1, PlacedIs
    <3> HIDE DEF x
    <3>3. worker["base"] \o x \in Seq(Entry)
      BY <2>3, <3>2
    <3>4. QED
      BY <3>3, Zenon DEF x, m, p
  <2> DEFINE base == Grown(worker, cache, "base", items)
             tts == Grown(base.worker, base.cache, "pos", items)
  <2>8. PICK stop \in BOOLEAN :
          /\ n > 0 /\ worker' = tts.worker
          /\ at' = [at EXCEPT !["base"] = @ + n, !["pos"] = @ + n]
          /\ last_hidden' = Hidden(Seen("pos", items), stop)
          /\ pos_hidden' = last_hidden'
          /\ cursor' = end /\ left' = SpeechWindow /\ mode' = "window"
    BY <1>7 DEF ReadText, end
  <2>9. Seen("base", items) = b /\ Seen("pos", items) = e
    BY DEF Seen, Context, Model
  <2> HIDE DEF items, b, e
  <2>10. base.worker = [worker EXCEPT !["base"] = b]
    BY <2>9 DEF Grown, Model
  <2>11. tts.worker = [base.worker EXCEPT !["tts"] = e]
    <3> HIDE DEF base
    <3>1. QED
      BY <2>9 DEF Grown, Model
  <2> HIDE DEF base, tts
  <2>12. worker' \in [{"base", "tts"} -> Seq(Entry)] /\ worker'["tts"] = e
    BY <1>3, <2>6, <2>7, <2>8, <2>10, <2>11
  <2>13. at' \in [Conversations -> Nat]
    <3>1. n \in Nat
      <4> DEFINE N == end - (cursor + 1) + 1
      <4>1. N \in Nat
        BY <2>1
      <4> HIDE DEF N
      <4>2. items = [k \in 1 .. N |-> [of |-> "text", n |-> (cursor + 1) + k - 1]]
        BY DEF Items, N, items
      <4>3. QED
        BY <4>1, <4>2
    <3> HIDE DEF n
    <3>2. at["base"] + n \in Nat /\ at["pos"] + n \in Nat
      BY <2>3, <3>1
    <3>3. QED
      BY <1>3, <2>2, <2>8, <3>2
  <2> HIDE DEF n, c
  <2>14. last_hidden' \in HiddenSet /\ last_hidden'.seen = e /\ pos_hidden' = last_hidden'
    BY <2>6, <2>8, <2>9 DEF Hidden, HiddenSet
  <2>15. Fed \in Seq(Nat) /\ Len(Fed) \in Nat
    <3>1. Fed \in Seq(Nat)
      BY <1>3, FedIn, Zenon
    <3>2. QED
      BY <3>1
  <2>16. Lags(e, Fed, 0)
    <3> DEFINE a == Doubled(Fed)
    <3>1. a \in Seq(Nat) /\ Len(a) = 2 * Len(Fed)
      BY <2>15, DoubledNext
    <3>2. Len(Only(e, "text")) = end /\ NumbersOf(Only(e, "frame")) = a
      BY <2>1, <2>5, MixesLen, Zenon DEF Mixes
    <3>3. Mixes(e, end, a)
      BY <2>5
    <3> HIDE DEF a
    <3>4. Starts(a, a) /\ 2 * Len(Fed) - Len(a) <= 0
      BY <2>15, <3>1 DEF Starts
    <3>5. QED
      BY <2>1, <3>2, <3>3, <3>4, Zenon DEF Lags, a
  <2>17. Lags(e, Fed, 1) /\ Lags(e, Fed, 2 * (SpeechWindow - SpeechWindow))
    <3>1. 2 * (SpeechWindow - SpeechWindow) = 0
      BY <1>5
    <3> DEFINE h == Len(NumbersOf(Only(e, "frame")))
    <3>2. h \in Nat
      BY <2>15, <2>16, <2>5, DoubledNext, MixesLen DEF Mixes
    <3>3. 2 * Len(Fed) - h <= 0
      BY <2>16 DEF Lags
    <3> HIDE DEF h
    <3>4. 2 * Len(Fed) - h <= 1
      BY <2>15, <3>2, <3>3
    <3>5. QED
      BY <2>16, <3>1, <3>4, Zenon DEF Lags, h
  <2>18. StreamingMixed'
    <3>1. Mixes(worker'["tts"], cursor', Doubled(Fed')) /\ NegativeMixed(neg', Fed')
      BY <1>1, <1>4, <2>4, <2>5, <2>8, <2>12
    <3>2. cursor' > 0 /\ Lags(last_hidden'.seen, Fed', 1)
      BY <1>4, <2>1, <2>8, <2>14, <2>17
    <3>3. /\ left' \in Nat /\ left' <= SpeechWindow
          /\ Lags(pos_hidden'.seen, Fed', 2 * (SpeechWindow - left'))
      BY <1>4, <1>5, <2>8, <2>14, <2>17
    <3>4. mode' = "window"
      BY <2>8
    <3> DEFINE fed == Fed'
    <3>5. fed = Fed'
      OBVIOUS
    <3> HIDE DEF fed
    <3>6. QED
      BY <3>1, <3>2, <3>3, <3>4, <3>5 DEF StreamingMixed, Shared
  <2>19. cursor' \in 0 .. text'
    BY <1>1, <2>1, <2>8
  <2>20. QED
    BY <1>1, <1>3, <1>4, <2>12, <2>13, <2>14, <2>18, <2>19 DEF MixInv
<1>8. QED
  BY <1>6, <1>7

\* A frame that was fed back keeps the invariant.
LEMMA SpeakingMixes ==
  ASSUME MixInv, version = "0.5B", version' = version, text' = text, cursor' = cursor, conv' = conv,
         pos_hidden' \in HiddenSet, cursor > 0, mode' \in {"window", "tail"},
         frames' \in Seq(FrameSet), (\A j \in DOMAIN frames : FrameMixed(j))',
         NEW l \in Nat, BothMix(l), FedMixed,
         mode' = "window" => /\ left' \in Nat /\ left' <= SpeechWindow
                             /\ Lags(pos_hidden'.seen, Fed', 2 * (SpeechWindow - left'))
  PROVE  MixInv'
<1>1. /\ Mixes(worker'["tts"], cursor', Doubled(Fed')) /\ NegativeMixed(neg', Fed') /\ neg' \in Seq(Entry)
      /\ cursor' > 0 /\ Lags(last_hidden'.seen, Fed', 1)
  BY DEF FedMixed
<1>2. StreamingMixed'
  BY <1>1 DEF StreamingMixed, Shared
<1>3. version' # "1.5B"
  OBVIOUS
<1>4. /\ worker' \in [{"base", "tts"} -> Seq(Entry)] /\ at' \in [Conversations -> Nat]
      /\ last_hidden' \in HiddenSet
  BY DEF BothMix
<1>5. QED
  BY <1>1, <1>2, <1>3, <1>4 DEF MixInv

LEMMA SpeakInWindowMixes == ASSUME SpeechAssumption, Sharded, MixInv, SpeakInWindow PROVE MixInv'
<1> DEFINE c == pos_hidden.seen
           heard == NumbersOf(Only(c, "frame"))
           n == Len(frames) + 1
<1>1. /\ version = "0.5B" /\ mode = "window" /\ left > 0 /\ version # "1.5B"
      /\ UNCHANGED <<version, mode, text, cursor, pos_hidden, conv>>
      /\ frames' = Append(frames, Frame(c, neg, <<>>, pos_hidden.stop))
  BY DEF SpeakInWindow
<1>2. StreamingMixed
  BY <1>1 DEF MixInv
<1>3. /\ worker \in [{"base", "tts"} -> Seq(Entry)] /\ at \in [Conversations -> Nat]
      /\ last_hidden \in HiddenSet /\ pos_hidden \in HiddenSet /\ text \in Nat \ {0} /\ cursor \in 0 .. text
      /\ frames \in Seq(FrameSet) /\ version \in Versions /\ neg \in Seq(Entry) /\ conv \in Seq(Nat)
      /\ \A j \in DOMAIN frames : FrameMixed(j)
  BY DEF MixInv
<1>4. SpeechWindow \in Nat \ {0}
  BY DEF SpeechAssumption
<1>5. cursor > 0 /\ left \in Nat /\ left <= SpeechWindow /\ Lags(c, Fed, 2 * (SpeechWindow - left))
  BY <1>1, <1>2 DEF StreamingMixed
<1>6. Fed \in Seq(Nat) /\ Len(Fed) \in Nat
  <2>1. Fed \in Seq(Nat)
    BY <1>3, FedIn, Zenon
  <2>2. QED
    BY <2>1
<1>7. /\ Mixes(c, Len(Only(c, "text")), heard) /\ Len(Only(c, "text")) > 0
      /\ Starts(heard, Doubled(Fed)) /\ 2 * Len(Fed) - Len(heard) <= 2 * (SpeechWindow - left)
  BY <1>5 DEF Lags
<1>8. heard \in Seq(Nat) /\ Len(heard) \in Nat
  <2>1. Only(c, "frame") \in Seq(Entry)
    BY <1>7, OnlyConcat DEF Mixes
  <2>2. heard \in Seq(Nat)
    BY <2>1, NumbersConcat
  <2> HIDE DEF heard
  <2>3. QED
    BY <2>2
<1> HIDE DEF heard
<1>9. Lags(c, Fed, 2 * SpeechWindow - 1)
  <2>1. 2 * Len(Fed) - Len(heard) <= 2 * SpeechWindow - 1
    BY <1>1, <1>4, <1>5, <1>6, <1>7, <1>8
  <2>2. QED
    BY <1>7, <2>1, Zenon DEF Lags, heard
<1> HIDE DEF c, n
<1>10. /\ frames' \in Seq(FrameSet) /\ (\A j \in DOMAIN frames : FrameMixed(j))'
       /\ Fed' = (IF pos_hidden.stop THEN Fed ELSE Fed \o <<n>>)
  BY <1>1, <1>2, <1>3, <1>9, SampledMixed DEF c, n
<1>11. CASE pos_hidden.stop
  <2>1. left' = 0 /\ UNCHANGED <<cache, worker, at, last_hidden, neg>>
    BY <1>11 DEF SpeakInWindow
  <2>2. Fed' = Fed
    BY <1>10, <1>11
  <2>3. Lags(c, Fed, 2 * (SpeechWindow - left'))
    <3>1. 2 * Len(Fed) - Len(heard) <= 2 * (SpeechWindow - left')
      BY <1>4, <1>5, <1>6, <1>7, <1>8, <2>1
    <3>2. QED
      BY <1>7, <3>1, Zenon DEF Lags, heard
  <2>4. StreamingMixed'
    <3>1. left' \in Nat /\ left' <= SpeechWindow /\ pos_hidden'.seen = c
      BY <1>1, <1>4, <2>1 DEF c
    <3>2. QED
      BY <1>1, <1>2, <2>1, <2>2, <2>3, <3>1 DEF StreamingMixed, Shared
  <2>5. QED
    BY <1>1, <1>3, <1>10, <2>1, <2>4 DEF MixInv
<1>12. CASE ~ pos_hidden.stop
  <2>1. left' = left - 1 /\ FeedBack(n)
    BY <1>12 DEF SpeakInWindow, n
  <2>2. n \in Nat
    BY <1>3 DEF n
  <2>3. BothMix(n)
    BY <1>2, <2>1, <2>2, FeedBackMixes
  <2>4. Fed' = Fed \o <<n>>
    BY <1>10, <1>12
  <2>5. FedMixed
    <3>1. cursor \in Nat
      BY <1>3
    <3>2. QED
      BY <1>5, <1>6, <2>2, <2>3, <2>4, <3>1, FedMixes, Zenon
  <2>6. Lags(c, Fed', 2 * (SpeechWindow - left'))
    <3> DEFINE fed == Fed'
               x == Doubled(Fed)
    <3>1. fed = Fed \o <<n>> /\ Len(fed) = Len(Fed) + 1
      BY <1>6, <2>2, <2>4
    <3>2. x \in Seq(Nat) /\ Doubled(Fed \o <<n>>) = (x \o <<n>>) \o <<n>>
      BY <1>6, <2>2, DoubledNext
    <3> HIDE DEF fed, x
    <3>3. Starts(heard, x)
      BY <1>7 DEF x
    <3>4. Starts(heard, (x \o <<n>>) \o <<n>>)
      BY <1>8, <2>2, <3>2, <3>3 DEF Starts
    <3>5. 2 * Len(fed) - Len(heard) <= 2 * (SpeechWindow - left')
      BY <1>4, <1>5, <1>6, <1>7, <1>8, <2>1, <3>1
    <3>6. QED
      BY <1>7, <3>1, <3>2, <3>4, <3>5, Zenon DEF Lags, heard, fed
  <2>7. left' \in Nat /\ left' <= SpeechWindow /\ pos_hidden'.seen = c /\ mode' \in {"window", "tail"}
    BY <1>1, <1>4, <1>5, <2>1 DEF c
  <2>8. pos_hidden' \in HiddenSet
    BY <1>1, <1>3
  <2>9. QED
    BY <1>1, <1>5, <1>10, <2>2, <2>3, <2>5, <2>6, <2>7, <2>8, SpeakingMixes
<1>13. QED
  BY <1>11, <1>12

LEMMA EndWindowMixes == ASSUME MixInv, EndWindow PROVE MixInv'
<1>1. /\ version = "0.5B" /\ mode = "window" /\ mode' \in {"tail", "prefill"} /\ version # "1.5B"
      /\ UNCHANGED <<version, text, cursor, left, cache, worker, at, last_hidden, pos_hidden, neg, conv, frames>>
  BY DEF EndWindow
<1>2. StreamingMixed /\ \A j \in DOMAIN frames : FrameMixed(j)
  BY <1>1 DEF MixInv
<1>3. (\A j \in DOMAIN frames : FrameMixed(j))' /\ Fed' = Fed
  BY <1>1, <1>2, MixedSame
<1>4. StreamingMixed'
  BY <1>1, <1>2, <1>3 DEF StreamingMixed, Shared
<1>5. QED
  BY <1>1, <1>3, <1>4 DEF MixInv

LEMMA SpeakOnMixes == ASSUME SpeechAssumption, Sharded, MixInv, SpeakOn PROVE MixInv'
<1> DEFINE c == last_hidden.seen
           n == Len(frames) + 1
<1>1. /\ version = "0.5B" /\ mode = "tail" /\ version # "1.5B"
      /\ UNCHANGED <<version, text, cursor, left, pos_hidden, conv>>
  BY DEF SpeakOn
<1>2. StreamingMixed /\ cursor > 0 /\ Lags(c, Fed, 1)
  BY <1>1 DEF MixInv, StreamingMixed
<1>3. /\ worker \in [{"base", "tts"} -> Seq(Entry)] /\ at \in [Conversations -> Nat]
      /\ last_hidden \in HiddenSet /\ pos_hidden \in HiddenSet /\ text \in Nat \ {0} /\ cursor \in 0 .. text
      /\ frames \in Seq(FrameSet) /\ version \in Versions /\ neg \in Seq(Entry) /\ conv \in Seq(Nat)
      /\ \A j \in DOMAIN frames : FrameMixed(j)
  BY DEF MixInv
<1>4. SpeechWindow \in Nat \ {0}
  BY DEF SpeechAssumption
<1>5. CASE Len(frames) >= MaxFrames
  <2>1. mode' = "done" /\ UNCHANGED <<cache, worker, at, last_hidden, neg, frames>>
    BY <1>5 DEF SpeakOn
  <2>2. (\A j \in DOMAIN frames : FrameMixed(j))' /\ Fed' = Fed
    BY <1>1, <1>3, <2>1, MixedSame
  <2>3. StreamingMixed'
    BY <1>1, <1>2, <2>1, <2>2 DEF StreamingMixed, Shared
  <2>4. QED
    BY <1>1, <1>3, <2>1, <2>2, <2>3 DEF MixInv
<1>6. CASE ~ (Len(frames) >= MaxFrames)
  <2>1. frames' = Append(frames, Frame(c, neg, <<>>, last_hidden.stop))
    BY <1>6 DEF SpeakOn
  <2>2. Fed \in Seq(Nat) /\ Len(Fed) \in Nat
    <3>1. Fed \in Seq(Nat)
      BY <1>3, FedIn, Zenon
    <3>2. QED
      BY <3>1
  <2>3. Lags(c, Fed, 2 * SpeechWindow - 1)
    <3> DEFINE h == Len(NumbersOf(Only(c, "frame")))
    <3>1. 2 * Len(Fed) - h <= 1 /\ c \in Seq(Entry)
      BY <1>2 DEF Lags, Mixes
    <3>2. Only(c, "frame") \in Seq(Entry)
      BY <3>1, OnlyConcat, Zenon
    <3>3. NumbersOf(Only(c, "frame")) \in Seq(Nat)
      BY <3>2, NumbersConcat, Zenon
    <3>4. h \in Nat
      BY <3>3
    <3> HIDE DEF h
    <3>5. 2 * Len(Fed) - h <= 2 * SpeechWindow - 1
      BY <1>4, <2>2, <3>1, <3>4
    <3>6. QED
      BY <1>2, <3>5, Zenon DEF Lags, h
  <2> HIDE DEF c
  <2>4. /\ frames' \in Seq(FrameSet) /\ (\A j \in DOMAIN frames : FrameMixed(j))'
        /\ Fed' = (IF last_hidden.stop THEN Fed ELSE Fed \o <<n>>)
    BY <1>1, <1>2, <1>3, <2>1, <2>3, SampledMixed DEF c
  <2> HIDE DEF n
  <2>5. CASE last_hidden.stop
    <3>1. mode' = "done" /\ UNCHANGED <<cache, worker, at, last_hidden, neg>>
      BY <1>6, <2>5 DEF SpeakOn
    <3>2. Fed' = Fed
      BY <2>4, <2>5
    <3>3. StreamingMixed'
      BY <1>1, <1>2, <3>1, <3>2 DEF StreamingMixed, Shared
    <3>4. QED
      BY <1>1, <1>3, <2>4, <3>1, <3>3 DEF MixInv
  <2>6. CASE ~ last_hidden.stop
    <3>1. FeedBack(n) /\ mode' = mode
      BY <1>6, <2>6 DEF SpeakOn, n
    <3>2. n \in Nat
      BY <1>3 DEF n
    <3>3. BothMix(n)
      BY <1>2, <3>1, <3>2, FeedBackMixes
    <3>4. Fed' = Fed \o <<n>>
      BY <2>4, <2>6
    <3>5. FedMixed
      BY <1>2, <1>3, <2>2, <3>2, <3>3, <3>4, FedMixes
    <3>6. mode' \in {"window", "tail"} /\ mode' # "window" /\ pos_hidden' \in HiddenSet
      BY <1>1, <1>3, <3>1
    <3>7. QED
      BY <1>1, <1>2, <2>4, <3>2, <3>3, <3>5, <3>6, SpeakingMixes
  <2>7. QED
    BY <2>5, <2>6
<1>7. QED
  BY <1>5, <1>6

-----------------------------------------------------------------------------
(* The steps of the 1.5B model, with the layers on a worker.               *)

\* What one entry more leaves of Told.
ToldMore(c, e, sort, n, t, told) ==
  /\ Len(c) \in Nat /\ Len(e) = Len(c) + 1 /\ Starts(c, e)
  /\ sort = "diff" => Told(e, n, t, told)
  /\ sort # "diff" => Told(e, n, t, <<>>)

LEMMA ToldOne ==
  ASSUME NEW c, NEW n \in Nat, NEW t, NEW told, Told(c, n, t, told),
         NEW sort \in {"start", "end", "diff"}, NEW p \in Nat, NEW e, e = c \o Placed(Item(sort, 0), p)
  PROVE  ToldMore(c, e, sort, n, t, told)
<1> DEFINE K == {"start", "end"}
<1>1. Mixes(c, t, UpTo(n)) /\ told = NumbersOf(Only(Since(c, K), "frame"))
  BY DEF Told
<1>2. sort \in EntryKinds \ {"text", "voice"} /\ sort # "frame" /\ 0 \in Nat
  BY DEF EntryKinds
<1>3. MixesMore(c, e, sort, 0, t, UpTo(n))
  BY <1>1, <1>2, MixesOne, Zenon
<1>4. /\ Len(c) \in Nat /\ Len(e) = Len(c) + 1 /\ Starts(c, e) /\ Mixes(e, t, UpTo(n))
      /\ sort \in K => Since(e, K) = <<>>
      /\ sort \notin K => Only(Since(e, K), "frame") = Only(Since(c, K), "frame")
  <2> HIDE DEF K
  <2>1. QED
    BY <1>2, <1>3, Zenon DEF MixesMore
<1>5. Only(<<>>, "frame") = <<>> /\ NumbersOf(<<>>) = <<>>
  BY HearsNothing DEF NumbersOf
<1>6. ASSUME sort = "diff" PROVE Told(e, n, t, told)
  <2>1. sort \notin K
    BY <1>6
  <2>2. told = NumbersOf(Only(Since(e, K), "frame"))
    BY <1>1, <1>4, <2>1, Zenon
  <2>3. QED
    BY <1>4, <2>2, Zenon DEF Told
<1>7. ASSUME sort # "diff" PROVE Told(e, n, t, <<>>)
  <2>1. sort \in K
    BY <1>7
  <2>2. <<>> = NumbersOf(Only(Since(e, K), "frame"))
    BY <1>4, <1>5, <2>1, Zenon
  <2>3. QED
    BY <1>4, <2>2, Zenon DEF Told
<1>8. QED
  BY <1>4, <1>6, <1>7 DEF ToldMore

LEMMA ToldFrame ==
  ASSUME NEW c, NEW n \in Nat, NEW t, NEW told, Told(c, n, t, told), NEW p \in Nat,
         NEW e, e = c \o Placed(Item("frame", n + 1), p)
  PROVE  Told(e, n + 1, t, told \o <<n + 1>>)
<1> DEFINE K == {"start", "end"}
           l == n + 1
<1>1. Mixes(c, t, UpTo(n)) /\ told = NumbersOf(Only(Since(c, K), "frame"))
  BY DEF Told
<1>2. "frame" \in EntryKinds \ {"text", "voice"} /\ l \in Nat /\ "frame" \notin K
  BY DEF EntryKinds
<1>3. UpTo(l) = UpTo(n) \o <<l>>
  BY UpToNext
<1>4. e = c \o Placed(Item("frame", l), p)
  OBVIOUS
<1> HIDE DEF l
<1>5. MixesMore(c, e, "frame", l, t, UpTo(n))
  BY <1>1, <1>2, <1>4, MixesOne, Zenon
<1>6. /\ Mixes(e, t, UpTo(l))
      /\ NumbersOf(Only(Since(e, K), "frame")) = NumbersOf(Only(Since(c, K), "frame")) \o <<l>>
  <2> HIDE DEF K
  <2>1. QED
    BY <1>2, <1>3, <1>5, Zenon DEF MixesMore
<1>7. QED
  BY <1>1, <1>6, Zenon DEF Told, l

\* The invariant in the loop, and that it stays so.
LoopingMixed ==
  /\ version = "1.5B" /\ version \in Versions /\ text \in Nat \ {0} /\ cursor \in 0 .. text
  /\ worker \in [{"base", "tts"} -> Seq(Entry)] /\ at \in [Conversations -> Nat]
  /\ at["pos"] \in Nat /\ at["neg"] \in Nat /\ "pos" \in Conversations /\ "neg" \in Conversations
  /\ last_hidden \in HiddenSet /\ pos_hidden \in HiddenSet /\ neg \in Seq(Entry) /\ conv \in Seq(Nat)
  /\ frames \in Seq(FrameSet) /\ Len(frames) \in Nat /\ \A j \in DOMAIN frames : FrameMixed(j)
  /\ Told(last_hidden.seen, Len(frames), text, conv)
  /\ Told(worker["tts"], Len(frames), text, conv) /\ Leads(last_hidden.seen, worker["tts"])

LEMMA IsLoopingMixed == ASSUME MixInv, version = "1.5B", mode = "loop" PROVE LoopingMixed
<1>1. "pos" \in Conversations /\ "neg" \in Conversations
  BY DEF Conversations
<1>2. at["pos"] \in Nat /\ at["neg"] \in Nat /\ Len(frames) \in Nat
  BY <1>1 DEF MixInv
<1>3. QED
  BY <1>1, <1>2 DEF MixInv, TalkingMixed, LoopingMixed, Shared

LEMMA LoopMixes ==
  ASSUME version = "1.5B", mode = "loop", UNCHANGED <<version, mode, text, cursor, pos_hidden>>,
         version \in Versions, text \in Nat \ {0}, cursor \in 0 .. text, pos_hidden \in HiddenSet,
         worker' \in [{"base", "tts"} -> Seq(Entry)], at' \in [Conversations -> Nat],
         last_hidden' \in HiddenSet, neg' \in Seq(Entry), conv' \in Seq(Nat), frames' \in Seq(FrameSet),
         (\A j \in DOMAIN frames : FrameMixed(j))',
         Told(worker'["tts"], Len(frames'), text', conv'), last_hidden'.seen = worker'["tts"]
  PROVE  MixInv'
<1>1. Leads(last_hidden'.seen, worker'["tts"]) /\ Told(last_hidden'.seen, Len(frames'), text', conv')
  BY DEF Leads
<1>2. TalkingMixed'
  BY <1>1 DEF TalkingMixed, Shared
<1>3. version' # "0.5B"
  OBVIOUS
<1>4. QED
  BY <1>2, <1>3 DEF MixInv

\* One entry of the text or none: the prompt and its start.
LEMMA PrefillMixes == ASSUME SpeechAssumption, Sharded, MixInv, Prefill PROVE MixInv'
<1> DEFINE items == Items("text", 1, text) \o Item("start", 0)
           a == <<>> \o Placed(Items("text", 1, text), 0)
           e == <<>> \o Placed(items, 0)
           d == e \o Placed(Item("start", 0), 0)
           none == <<>>
<1>1. /\ version = "1.5B" /\ mode = "prefill" /\ mode' = "loop" /\ version # "0.5B"
      /\ UNCHANGED <<version, text, cursor, pos_hidden, neg, conv, frames>>
      /\ at' = [at EXCEPT !["pos"] = text + 1, !["neg"] = 1]
      /\ last_hidden' = Hidden(Seen("pos", items), FALSE)
  BY DEF Prefill
<1>2. frames = <<>> /\ conv = <<>> /\ worker["tts"] = <<>> /\ at["pos"] = 0
  BY <1>1 DEF MixInv, TalkingMixed, Shared
<1>3. /\ worker \in [{"base", "tts"} -> Seq(Entry)] /\ at \in [Conversations -> Nat]
      /\ last_hidden \in HiddenSet /\ pos_hidden \in HiddenSet /\ text \in Nat \ {0} /\ cursor \in 0 .. text
      /\ frames \in Seq(FrameSet) /\ version \in Versions /\ neg \in Seq(Entry) /\ conv \in Seq(Nat)
      /\ \A j \in DOMAIN frames : FrameMixed(j)
  BY DEF MixInv
<1>4. (\A j \in DOMAIN frames : FrameMixed(j))'
  BY <1>1, <1>3, MixedSame
<1>5. "text" \in EntryKinds /\ "start" \in EntryKinds /\ text \in Nat
  BY <1>3 DEF EntryKinds
<1>6. Seen("pos", items) = e
  BY <1>2 DEF Seen, Context, Model
<1>7. Grown(worker, cache, "pos", items).worker = [worker EXCEPT !["tts"] = e]
  BY <1>6 DEF Grown, Model
<1>8. [worker EXCEPT !["tts"] = e]["tts"] = e
  BY <1>3
<1>9. worker' = [worker EXCEPT !["tts"] = d]
  BY <1>7, <1>8 DEF Prefill
<1>10. Mixes(none, 0, <<>>) /\ none \in Seq(Entry) /\ Since(none, {"start", "end"}) = <<>>
  BY MixesNothing
<1>11. Mixes(a, text, <<>>)
  <2>1. a = none \o Placed(Items("text", 0 + 1, text), 0)
    OBVIOUS
  <2>2. 0 \in Nat /\ 0 <= text
    BY <1>5
  <2> HIDE DEF a, none
  <2>3. QED
    BY <1>5, <1>10, <2>1, <2>2, MixesText, Zenon
<1>12. e = a \o Placed(Item("start", 0), text)
  <2> DEFINE m == 1
             p == 0
  <2>1. m \in Nat /\ p \in Nat /\ m <= text + 1 /\ p + (text - m + 1) = text /\ 0 \in Nat
    BY <1>5
  <2> HIDE DEF m, p, none
  <2>2. Twice(none, "text", m, text, "start", 0, p)
    BY <1>5, <1>10, <2>1, PlacedConcat, Zenon
  <2>3. none \o Placed(Items("text", m, text) \o Item("start", 0), p)
          = (none \o Placed(Items("text", m, text), p)) \o Placed(Item("start", 0), p + (text - m + 1))
    BY <2>2, Zenon DEF Twice
  <2>4. e = none \o Placed(Items("text", m, text) \o Item("start", 0), p)
    BY DEF m, p, none
  <2>5. a = none \o Placed(Items("text", m, text), p)
    BY DEF m, p, none
  <2> HIDE DEF a, e
  <2>6. QED
    BY <2>1, <2>3, <2>4, <2>5, Zenon
<1>13. d = e \o Placed(Item("start", 0), 0)
  OBVIOUS
<1> HIDE DEF a, e, none, d, items
<1>14. MixesMore(a, e, "start", 0, text, <<>>)
  <2>1. 0 \in Nat /\ "start" \in EntryKinds \ {"text", "voice"}
    BY <1>5
  <2>2. QED
    BY <1>5, <1>11, <1>12, <2>1, MixesOne, Zenon
<1>15. Told(e, 0, text, <<>>)
  <2>1. "start" \in {"start", "end"} /\ "start" # "frame"
    OBVIOUS
  <2>2. Mixes(e, text, <<>>) /\ Since(e, {"start", "end"}) = <<>>
    BY <1>14, <2>1, Zenon DEF MixesMore
  <2>3. Only(<<>>, "frame") = <<>> /\ NumbersOf(<<>>) = <<>> /\ UpTo(0) = <<>>
    BY HearsNothing DEF NumbersOf, UpTo
  <2>4. QED
    BY <2>2, <2>3, Zenon DEF Told
<1>16. Told(d, 0, text, <<>>)
  <2>1. 0 \in Nat /\ "start" \in {"start", "end", "diff"} /\ "start" # "diff"
    OBVIOUS
  <2>2. ToldMore(e, d, "start", 0, text, <<>>)
    BY <1>13, <1>15, <2>1, ToldOne, Zenon
  <2>3. QED
    BY <2>1, <2>2, Zenon DEF ToldMore
<1>17. e \in Seq(Entry) /\ d \in Seq(Entry)
  BY <1>15, <1>16, Zenon DEF Told, Mixes
<1>18. worker' \in [{"base", "tts"} -> Seq(Entry)] /\ worker'["tts"] = d
  BY <1>3, <1>9, <1>17
<1>19. at' \in [Conversations -> Nat]
  <2>1. text + 1 \in Nat /\ 1 \in Nat
    BY <1>5
  <2>2. QED
    BY <1>1, <1>3, <2>1
<1>20. last_hidden' \in HiddenSet /\ last_hidden'.seen = e
  BY <1>1, <1>6, <1>17 DEF Hidden, HiddenSet
<1>21. Len(frames') = 0 /\ conv' = <<>> /\ text' = text
  BY <1>1, <1>2
<1>22. Leads(e, d)
  BY <1>13 DEF Leads
<1>23. TalkingMixed'
  BY <1>1, <1>15, <1>16, <1>18, <1>20, <1>21, <1>22 DEF TalkingMixed, Shared
<1>24. QED
  BY <1>1, <1>3, <1>4, <1>18, <1>19, <1>20, <1>23 DEF MixInv

LEMMA EndOfSpeechMixes == ASSUME Sharded, MixInv, EndOfSpeech PROVE MixInv'
<1> DEFINE c == worker["tts"]
           p == at["pos"]
           e == c \o Placed(Item("end", 0), p)
<1>1. /\ version = "1.5B" /\ mode = "loop" /\ UNCHANGED <<version, mode, text, cursor, pos_hidden, neg, frames>>
      /\ conv' = <<>> /\ Hear(worker, cache, "end") /\ at' = [at EXCEPT !["pos"] = @ + 1]
  BY DEF EndOfSpeech
<1>2. LoopingMixed
  BY <1>1, IsLoopingMixed
<1>3. Told(e, Len(frames), text, <<>>)
  <2>1. /\ Told(c, Len(frames), text, conv) /\ Len(frames) \in Nat /\ p \in Nat
        /\ "end" \in {"start", "end", "diff"} /\ "end" # "diff"
    BY <1>2 DEF LoopingMixed
  <2>2. e = c \o Placed(Item("end", 0), p)
    OBVIOUS
  <2> HIDE DEF c, p, e
  <2>3. ToldMore(c, e, "end", Len(frames), text, conv)
    BY <2>1, <2>2, ToldOne, Zenon
  <2>4. QED
    BY <2>1, <2>3, Zenon DEF ToldMore
<1>4. worker' = [worker EXCEPT !["tts"] = e] /\ last_hidden' = Hidden(e, FALSE)
  BY <1>1 DEF Hear
<1> HIDE DEF e
<1>5. e \in Seq(Entry)
  BY <1>3, Zenon DEF Told, Mixes
<1>6. worker' \in [{"base", "tts"} -> Seq(Entry)] /\ worker'["tts"] = e
  BY <1>2, <1>4, <1>5 DEF LoopingMixed
<1>7. at' \in [Conversations -> Nat]
  BY <1>1, <1>2 DEF LoopingMixed
<1>8. last_hidden' \in HiddenSet /\ last_hidden'.seen = e
  BY <1>4, <1>5 DEF Hidden, HiddenSet
<1>9. conv' \in Seq(Nat) /\ (\A j \in DOMAIN frames : FrameMixed(j))'
  BY <1>1, <1>2, MixedSame DEF LoopingMixed
<1>10. QED
  BY <1>1, <1>2, <1>3, <1>6, <1>7, <1>8, <1>9, LoopMixes DEF LoopingMixed

LEMMA StartOfSpeechMixes == ASSUME Sharded, MixInv, StartOfSpeech PROVE MixInv'
<1> DEFINE c == worker["tts"]
           p == at["pos"]
           z == 0
           d == c \o Placed(Item("start", 0), z)
           e == d \o Placed(Item("start", 0), p)
<1>1. /\ version = "1.5B" /\ mode = "loop" /\ UNCHANGED <<version, mode, text, cursor, pos_hidden, neg, frames>>
      /\ conv' = <<>> /\ Hear([worker EXCEPT !["tts"] = d], cache, "start")
      /\ at' = [at EXCEPT !["pos"] = @ + 1, !["neg"] = 1]
  BY DEF StartOfSpeech
<1>2. LoopingMixed
  BY <1>1, IsLoopingMixed
<1>3. Told(e, Len(frames), text, <<>>) /\ Told(d, Len(frames), text, <<>>)
  <2>1. /\ Told(c, Len(frames), text, conv) /\ Len(frames) \in Nat /\ p \in Nat /\ z \in Nat
        /\ "start" \in {"start", "end", "diff"} /\ "start" # "diff"
    BY <1>2 DEF LoopingMixed
  <2>2. d = c \o Placed(Item("start", 0), z) /\ e = d \o Placed(Item("start", 0), p)
    OBVIOUS
  <2> HIDE DEF c, p, d, e, z
  <2>3. ToldMore(c, d, "start", Len(frames), text, conv)
    BY <2>1, <2>2, ToldOne, Zenon
  <2>4. Told(d, Len(frames), text, <<>>)
    BY <2>1, <2>3, Zenon DEF ToldMore
  <2>5. ToldMore(d, e, "start", Len(frames), text, <<>>)
    BY <2>1, <2>2, <2>4, ToldOne, Zenon
  <2>6. QED
    BY <2>1, <2>4, <2>5, Zenon DEF ToldMore
<1>4. d \in Seq(Entry) /\ e \in Seq(Entry)
  BY <1>3, Zenon DEF Told, Mixes
<1>5. e = d \o Placed(Item("start", 0), at["pos"])
  OBVIOUS
<1> HIDE DEF d, e
<1>6. [worker EXCEPT !["tts"] = d]["tts"] = d
  BY <1>2 DEF LoopingMixed
<1>7. worker' = [[worker EXCEPT !["tts"] = d] EXCEPT !["tts"] = e] /\ last_hidden' = Hidden(e, FALSE)
  BY <1>1, <1>5, <1>6 DEF Hear
<1>8. worker' \in [{"base", "tts"} -> Seq(Entry)] /\ worker'["tts"] = e
  BY <1>2, <1>4, <1>7 DEF LoopingMixed
<1>9. at' \in [Conversations -> Nat]
  <2>1. /\ at["pos"] + 1 \in Nat /\ 1 \in Nat /\ at \in [Conversations -> Nat]
        /\ at' = [at EXCEPT !["pos"] = at["pos"] + 1, !["neg"] = 1]
    BY <1>1, <1>2 DEF LoopingMixed
  <2>2. QED
    BY <2>1
<1>10. last_hidden' \in HiddenSet /\ last_hidden'.seen = e
  BY <1>4, <1>7 DEF Hidden, HiddenSet
<1>11. conv' \in Seq(Nat) /\ (\A j \in DOMAIN frames : FrameMixed(j))'
  BY <1>1, <1>2, MixedSame DEF LoopingMixed
<1>12. QED
  BY <1>1, <1>2, <1>3, <1>8, <1>9, <1>10, <1>11, LoopMixes DEF LoopingMixed

\* The negative condition is the positive one with a placeholder, and perhaps a start between.
Extends(c, e) == IsPrefix(c, e) /\ Len(e) - Len(c) \in {1, 2}

LEMMA LeadsOn ==
  ASSUME NEW h, NEW c, NEW n \in Nat, NEW t, NEW told, Told(h, n, t, told), Leads(h, c), Told(c, n, t, told),
         NEW p \in Nat, NEW e, e = c \o Placed(Item("diff", 0), p)
  PROVE  Extends(h, e)
<1>1. Len(c) \in Nat /\ Len(e) = Len(c) + 1 /\ Starts(c, e) /\ Told(e, n, t, told)
  <2>1. "diff" \in {"start", "end", "diff"}
    OBVIOUS
  <2>2. ToldMore(c, e, "diff", n, t, told)
    BY <2>1, ToldOne, Zenon
  <2>3. QED
    BY <2>2, Zenon DEF ToldMore
<1>2. h \in Seq(Entry) /\ c \in Seq(Entry) /\ e \in Seq(Entry)
  BY <1>1 DEF Told, Mixes
<1>3. CASE c = h
  <2>1. IsPrefix(h, e)
    BY <1>1, <1>2, <1>3, StartsIs
  <2>2. Len(e) - Len(h) = 1
    BY <1>1, <1>3
  <2>3. QED
    BY <2>1, <2>2 DEF Extends
<1>4. CASE c # h
  <2>1. PICK q \in Nat : c = h \o Placed(Item("start", 0), q)
    BY <1>4 DEF Leads
  <2>2. Len(h) \in Nat /\ Len(c) = Len(h) + 1 /\ Starts(h, c)
    <3>1. "start" \in {"start", "end", "diff"}
      OBVIOUS
    <3>2. ToldMore(h, c, "start", n, t, told)
      BY <2>1, <3>1, ToldOne, Zenon
    <3>3. QED
      BY <3>2, Zenon DEF ToldMore
  <2>3. Starts(h, e) /\ Len(e) - Len(h) = 2
    BY <1>1, <2>2 DEF Starts
  <2>4. IsPrefix(h, e)
    BY <1>2, <2>3, StartsIs
  <2>5. QED
    BY <2>3, <2>4 DEF Extends
<1>5. QED
  BY <1>3, <1>4

LEMMA SpeakMixes == ASSUME Sharded, MixInv, Speak PROVE MixInv'
<1> DEFINE c == worker["tts"]
           h == last_hidden.seen
           n == Len(frames)
           p == at["neg"]
           q == at["pos"]
           b == c \o Placed(Item("diff", 0), p)
           e == b \o Placed(Item("frame", n + 1), q)
           told == Append(conv, n + 1)
           f == Frame(h, b, told, FALSE)
<1>1. /\ version = "1.5B" /\ mode = "loop" /\ UNCHANGED <<version, mode, text, cursor, pos_hidden>>
      /\ at' = [at EXCEPT !["pos"] = @ + 1, !["neg"] = @ + 1]
  BY DEF Speak
<1>2. LoopingMixed
  BY <1>1, IsLoopingMixed
<1>3. n \in Nat /\ conv \in Seq(Nat) /\ frames \in Seq(FrameSet) /\ p \in Nat /\ q \in Nat
  BY <1>2 DEF LoopingMixed
<1>4. Seen("neg", Item("diff", 0)) = b
  BY DEF Seen, Context, Model
<1>5. Grown(worker, cache, "neg", Item("diff", 0)).worker = [worker EXCEPT !["tts"] = b]
  BY <1>4 DEF Grown, Model
<1>6. [worker EXCEPT !["tts"] = b]["tts"] = b
  BY <1>2 DEF LoopingMixed
<1>7. conv' = told /\ frames' = Append(frames, f) /\ last_hidden' = Hidden(e, FALSE) /\ neg' = b
  BY <1>4, <1>5, <1>6 DEF Speak
<1>8. worker' = [worker EXCEPT !["tts"] = e]
  BY <1>5, <1>6 DEF Speak
<1>a. b = c \o Placed(Item("diff", 0), p) /\ e = b \o Placed(Item("frame", n + 1), q)
  OBVIOUS
<1>9. /\ Told(b, n, text, conv) /\ Extends(h, b) /\ Told(h, n, text, conv)
      /\ Told(e, n + 1, text, conv \o <<n + 1>>)
  <2>1. Told(c, n, text, conv) /\ Told(h, n, text, conv) /\ Leads(h, c) /\ "diff" \in {"start", "end", "diff"}
    BY <1>2 DEF LoopingMixed
  <2> HIDE DEF b, e, c, h, n, p, q
  <2>2. Told(b, n, text, conv)
    <3>1. ToldMore(c, b, "diff", n, text, conv)
      BY <1>3, <1>a, <2>1, ToldOne, Zenon
    <3>2. QED
      BY <3>1, Zenon DEF ToldMore
  <2>3. Extends(h, b)
    BY <1>3, <1>a, <2>1, LeadsOn, Zenon
  <2>4. Told(e, n + 1, text, conv \o <<n + 1>>)
    BY <1>3, <1>a, <2>2, ToldFrame, Zenon
  <2>5. QED
    BY <2>1, <2>2, <2>3, <2>4
<1>10. told \in Seq(Nat) /\ told = conv \o <<n + 1>> /\ n + 1 \in Nat
  BY <1>3
<1>11. b \in Seq(Entry) /\ e \in Seq(Entry) /\ h \in Seq(Entry)
  <2> HIDE DEF b, e, h, n, told
  <2>1. QED
    BY <1>9, Zenon DEF Told, Mixes
<1> HIDE DEF b, e, told
<1>12. f = [cond |-> h, neg |-> b, conv |-> told, stop |-> FALSE]
  BY DEF Frame, Latent
<1> HIDE DEF f, h
<1>13. f \in FrameSet /\ f.cond = h /\ f.neg = b /\ f.conv = told /\ ~ f.stop
  BY <1>10, <1>11, <1>12 DEF FrameSet
<1> HIDE DEF n
<1>14. frames'[n + 1] = f /\ Len(frames') = n + 1
  BY <1>3, <1>7, <1>13 DEF n
<1>15. MixedIs(frames', "1.5B", n + 1)
  <2> DEFINE j == n + 1
             fs == frames'
             heard == NumbersOf(Only(h, "text"))
  <2>1. j - 1 = n /\ text \in Nat /\ text > 0
    BY <1>2, <1>3 DEF LoopingMixed
  <2>2. fs[j].cond = h /\ fs[j].neg = b /\ fs[j].conv = conv \o <<j>>
    BY <1>10, <1>13, <1>14
  <2>3. Mixes(h, text, UpTo(n)) /\ conv = NumbersOf(Only(Since(h, {"start", "end"}), "frame"))
    BY <1>9 DEF Told
  <2>4. heard = UpTo(text) /\ Len(heard) = text /\ Only(h, "voice") = <<>> /\ NumbersOf(Only(h, "frame")) = UpTo(n)
    BY <2>1, <2>3, MixesLen DEF Mixes
  <2>5. heard # <<>>
    <3> HIDE DEF heard
    <3>1. QED
      BY <2>1, <2>4
  <2>6. IsPrefix(h, b) /\ Len(b) - Len(h) \in {1, 2}
    BY <1>9 DEF Extends
  <2> HIDE DEF j, fs
  <2>7. QED
    BY <2>1, <2>2, <2>3, <2>4, <2>5, <2>6, Zenon DEF MixedIs, fs, j
<1>16. frames' \in Seq(FrameSet) /\ (\A j \in DOMAIN frames : FrameMixed(j))'
  <2>1. MixedIs(frames', version, Len(frames) + 1)
    BY <1>1, <1>15, Zenon DEF n
  <2>2. (\A j \in DOMAIN frames : FrameMixed(j)) /\ version' = version
    BY <1>1, <1>2 DEF LoopingMixed
  <2>3. QED
    BY <1>3, <1>7, <1>13, <2>1, <2>2, MixedGrow
<1>17. worker' \in [{"base", "tts"} -> Seq(Entry)] /\ worker'["tts"] = e
  BY <1>2, <1>8, <1>11 DEF LoopingMixed
<1>18. at' \in [Conversations -> Nat]
  <2>1. at["pos"] + 1 \in Nat /\ at["neg"] + 1 \in Nat /\ at' = [at EXCEPT !["pos"] = at["pos"] + 1, !["neg"] = at["neg"] + 1]
    BY <1>1, <1>2 DEF LoopingMixed
  <2>2. QED
    BY <1>2, <2>1 DEF LoopingMixed
<1>19. last_hidden' \in HiddenSet /\ last_hidden'.seen = e
  BY <1>7, <1>11 DEF Hidden, HiddenSet
<1>20. Told(worker'["tts"], Len(frames'), text', conv')
  BY <1>1, <1>7, <1>9, <1>10, <1>14, <1>17
<1>21. conv' \in Seq(Nat) /\ neg' \in Seq(Entry)
  BY <1>7, <1>10, <1>11
<1>22. QED
  BY <1>1, <1>2, <1>16, <1>17, <1>18, <1>19, <1>20, <1>21, LoopMixes DEF LoopingMixed

LEMMA EndLoopMixes == ASSUME MixInv, EndLoop PROVE MixInv'
<1>1. /\ version = "1.5B" /\ mode' = "done" /\ version # "0.5B"
      /\ UNCHANGED <<version, text, cursor, left, cache, worker, at, last_hidden, pos_hidden, neg, conv, frames>>
  BY DEF EndLoop
<1>2. TalkingMixed /\ \A j \in DOMAIN frames : FrameMixed(j)
  BY <1>1 DEF MixInv
<1>3. (\A j \in DOMAIN frames : FrameMixed(j))'
  BY <1>1, <1>2, MixedSame
<1>4. TalkingMixed'
  BY <1>1, <1>2 DEF TalkingMixed
<1>5. QED
  BY <1>1, <1>3, <1>4 DEF MixInv

-----------------------------------------------------------------------------
LEMMA InitSpeech == SpeechAssumption /\ SpeechInit => SpInv
<1> SUFFICES ASSUME SpeechAssumption, SpeechInit PROVE SpInv
  OBVIOUS
<1>1. VoiceLen \in Nat /\ MaxText \in Nat /\ version \in {"0.5B", "1.5B"}
  BY DEF SpeechAssumption, SpeechInit
<1>2. Hears(Injected, 0, <<>>) /\ Voices(Injected) = VoiceLen /\ Len(Injected) = VoiceLen /\ Injected \in Seq(Entry)
  BY <1>1, HearsVoice
<1>3. Hears(<<>>, 0, <<>>) /\ <<>> \in Seq(Entry) /\ Only(<<>>, "text") = <<>>
  BY HearsNothing
<1>4. /\ version \in Versions /\ text \in Nat /\ cursor = 0 /\ mode = "prefill" /\ left = 0
      /\ cache = [s \in Conversations |-> IF version = "0.5B" THEN Injected ELSE <<>>]
      /\ at = [s \in Conversations |-> IF version = "0.5B" THEN VoiceLen ELSE 0]
      /\ last_hidden = NoHidden /\ pos_hidden = NoHidden
      /\ neg = (IF version = "0.5B" THEN Injected ELSE <<>>) /\ conv = <<>> /\ frames = <<>>
  BY <1>1 DEF SpeechInit
<1>5. NoHidden \in HiddenSet
  BY <1>3 DEF NoHidden, Hidden, HiddenSet
<1>6. cache \in [Conversations -> Seq(Entry)] /\ at \in [Conversations -> Nat] /\ neg \in Seq(Entry)
  BY <1>1, <1>2, <1>3, <1>4
<1>7. frames \in Seq(FrameSet) /\ DOMAIN frames = {} /\ Len(frames) = 0 /\ conv \in Seq(Nat)
  BY <1>4
<1>8. "pos" \in Conversations /\ "neg" \in Conversations
  BY DEF Conversations
<1>9. Fed = <<>>
  <2> DEFINE a == UpTo((Len(frames) + 1) - 1)
             S == {k \in DOMAIN frames : ~ frames[k].stop}
  <2>1. a = <<>>
    BY <1>7 DEF UpTo
  <2>2. Fed = Among(a, S)
    BY Zenon DEF Fed, FedBack
  <2> HIDE DEF S, a
  <2>3. a \in Seq(Nat) /\ \A i \in 1 .. Len(a) : a[i] \in S
    BY <2>1
  <2>4. Among(a, S) = a
    BY <2>3, AmongAll, Zenon
  <2>5. QED
    BY <2>1, <2>2, <2>4
<1>10. version = "0.5B" => Streaming
  <2> SUFFICES ASSUME version = "0.5B" PROVE Streaming
    OBVIOUS
  <2>1. cache["pos"] = Injected /\ cache["neg"] = Injected /\ neg = Injected /\ at["pos"] = VoiceLen /\ at["neg"] = VoiceLen
    BY <1>4, <1>8
  <2>2. QED
    BY <1>2, <1>4, <1>9, <2>1 DEF Streaming
<1>11. version = "1.5B" => Talking
  BY <1>4, <1>7, <1>8 DEF Talking
<1>12. QED
  BY <1>4, <1>5, <1>6, <1>7, <1>10, <1>11 DEF SpInv

LEMMA NextSpeech == SpeechAssumption /\ ~ Sharded /\ SpInv /\ [SpeechNext]_svars => SpInv'
<1> SUFFICES ASSUME SpeechAssumption, ~ Sharded, SpInv, [SpeechNext]_svars PROVE SpInv'
  OBVIOUS
<1>1. CASE ReadText
  BY <1>1, ReadTextKeeps
<1>2. CASE SpeakInWindow
  BY <1>2, SpeakInWindowKeeps
<1>3. CASE EndWindow
  BY <1>3, EndWindowKeeps
<1>4. CASE SpeakOn
  BY <1>4, SpeakOnKeeps
<1>5. CASE Prefill
  BY <1>5, PrefillKeeps
<1>6. CASE EndOfSpeech
  BY <1>6, EndOfSpeechKeeps
<1>7. CASE StartOfSpeech
  BY <1>7, StartOfSpeechKeeps
<1>8. CASE Speak
  BY <1>8, SpeakKeeps
<1>9. CASE EndLoop
  BY <1>9, EndLoopKeeps
<1>10. CASE UNCHANGED svars
  <2>1. UNCHANGED <<version, mode, text, cursor, left, cache, worker, at, last_hidden, pos_hidden, neg, conv, frames>>
    BY <1>10 DEF svars
  <2>2. (\A j \in DOMAIN frames : FrameOK(j))' /\ Fed' = Fed
    BY <2>1, FramesSame DEF SpInv
  <2>3. Streaming => Streaming'
    BY <2>1, <2>2 DEF Streaming, WindowHeld
  <2>4. Talking => Talking'
    BY <2>1 DEF Talking
  <2>5. QED
    BY <2>1, <2>2, <2>3, <2>4 DEF SpInv
<1>11. QED
  BY <1>1, <1>2, <1>3, <1>4, <1>5, <1>6, <1>7, <1>8, <1>9, <1>10 DEF SpeechNext

-----------------------------------------------------------------------------
(* Speech: the layers on the master, or on a worker.                       *)

SpeechInv == IF Sharded THEN MixInv ELSE SpInv

LEMMA LocalStays == ASSUME ~ Sharded, [SpeechNext]_svars PROVE worker' = worker
<1>1. CASE ReadText
  BY <1>1 DEF ReadText, Grown
<1>2. ASSUME NEW l, FeedBack(l) PROVE worker' = worker
  BY <1>2 DEF FeedBack, Both, Grown
<1>3. CASE SpeakInWindow
  BY <1>2, <1>3 DEF SpeakInWindow
<1>4. CASE EndWindow
  BY <1>4 DEF EndWindow
<1>5. CASE SpeakOn
  BY <1>2, <1>5 DEF SpeakOn
<1>6. CASE Prefill
  BY <1>6 DEF Prefill
<1>7. CASE EndOfSpeech
  BY <1>7 DEF EndOfSpeech, Hear
<1>8. CASE StartOfSpeech
  BY <1>8 DEF StartOfSpeech, Hear
<1>9. CASE Speak
  BY <1>9 DEF Speak
<1>10. CASE EndLoop
  BY <1>10 DEF EndLoop
<1>11. CASE UNCHANGED svars
  BY <1>11 DEF svars
<1>12. QED
  BY <1>1, <1>3, <1>4, <1>5, <1>6, <1>7, <1>8, <1>9, <1>10, <1>11 DEF SpeechNext

LEMMA InitMixes == ASSUME SpeechAssumption, SpeechInit, Sharded PROVE MixInv
<1>1. VoiceLen \in Nat /\ MaxText \in Nat /\ version \in {"0.5B", "1.5B"}
  BY DEF SpeechAssumption, SpeechInit
<1>2. Injected \in Seq(Entry)
  BY <1>1, HearsVoice
<1>3. Mixes(<<>>, 0, <<>>) /\ <<>> \in Seq(Entry)
  BY MixesNothing DEF Mixes
<1>4. /\ version \in Versions /\ text \in Nat \ {0} /\ cursor = 0 /\ mode = "prefill" /\ left = 0
      /\ at = [s \in Conversations |-> IF version = "0.5B" THEN VoiceLen ELSE 0]
      /\ last_hidden = NoHidden /\ pos_hidden = NoHidden
      /\ neg = (IF version = "0.5B" THEN Injected ELSE <<>>) /\ conv = <<>> /\ frames = <<>>
  BY <1>1 DEF SpeechInit
<1>5. worker = [m \in {"base", "tts"} |-> <<>>]
  <2>1. PICK sharded \in Shardings : worker = [m \in IF sharded THEN {"base", "tts"} ELSE {} |-> <<>>]
    BY DEF SpeechInit
  <2>2. CASE sharded
    BY <2>1, <2>2
  <2>3. CASE ~ sharded
    <3>1. DOMAIN worker = {}
      BY <2>1, <2>3
    <3>2. QED
      BY <3>1 DEF Sharded
  <2>4. QED
    BY <2>2, <2>3
<1>6. NoHidden \in HiddenSet
  BY <1>3 DEF NoHidden, Hidden, HiddenSet
<1>7. at \in [Conversations -> Nat] /\ neg \in Seq(Entry) /\ at["pos"] = (IF version = "0.5B" THEN VoiceLen ELSE 0)
  <2>1. "pos" \in Conversations
    BY DEF Conversations
  <2>2. QED
    BY <1>1, <1>2, <1>3, <1>4, <2>1
<1>8. worker \in [{"base", "tts"} -> Seq(Entry)] /\ worker["tts"] = <<>>
  BY <1>3, <1>5
<1>9. frames \in Seq(FrameSet) /\ DOMAIN frames = {} /\ Len(frames) = 0 /\ conv \in Seq(Nat)
  BY <1>4
<1>10. Fed = <<>>
  <2> DEFINE a == UpTo((Len(frames) + 1) - 1)
             S == {k \in DOMAIN frames : ~ frames[k].stop}
  <2>1. a = <<>>
    BY <1>9 DEF UpTo
  <2>2. Fed = Among(a, S)
    BY Zenon DEF Fed, FedBack
  <2> HIDE DEF S, a
  <2>3. a \in Seq(Nat) /\ \A i \in 1 .. Len(a) : a[i] \in S
    BY <2>1
  <2>4. Among(a, S) = a
    BY <2>3, AmongAll, Zenon
  <2>5. QED
    BY <2>1, <2>2, <2>4
<1>11. version = "0.5B" => StreamingMixed
  <2> SUFFICES ASSUME version = "0.5B" PROVE StreamingMixed
    OBVIOUS
  <2>1. Mixes(Shared, cursor, Doubled(Fed)) /\ NegativeMixed(neg, Fed)
    BY <1>3, <1>4, <1>8, <1>10, DoubledNone DEF Shared, NegativeMixed
  <2>2. QED
    BY <1>4, <2>1 DEF StreamingMixed
<1>12. version = "1.5B" => TalkingMixed
  BY <1>4, <1>7, <1>8 DEF TalkingMixed, Shared
<1>13. QED
  BY <1>4, <1>6, <1>7, <1>8, <1>9, <1>11, <1>12 DEF MixInv

LEMMA NextMixes == ASSUME SpeechAssumption, Sharded, MixInv, [SpeechNext]_svars PROVE MixInv'
<1>1. CASE ReadText
  BY <1>1, ReadTextMixes
<1>2. CASE SpeakInWindow
  BY <1>2, SpeakInWindowMixes
<1>3. CASE EndWindow
  BY <1>3, EndWindowMixes
<1>4. CASE SpeakOn
  BY <1>4, SpeakOnMixes
<1>5. CASE Prefill
  BY <1>5, PrefillMixes
<1>6. CASE EndOfSpeech
  BY <1>6, EndOfSpeechMixes
<1>7. CASE StartOfSpeech
  BY <1>7, StartOfSpeechMixes
<1>8. CASE Speak
  BY <1>8, SpeakMixes
<1>9. CASE EndLoop
  BY <1>9, EndLoopMixes
<1>10. CASE UNCHANGED svars
  <2>1. UNCHANGED <<version, mode, text, cursor, left, cache, worker, at, last_hidden, pos_hidden, neg, conv, frames>>
    BY <1>10 DEF svars
  <2>2. (\A j \in DOMAIN frames : FrameMixed(j))' /\ Fed' = Fed
    BY <2>1, MixedSame DEF MixInv
  <2>3. StreamingMixed => StreamingMixed'
    BY <2>1, <2>2 DEF StreamingMixed, Shared
  <2>4. TalkingMixed => TalkingMixed'
    BY <2>1 DEF TalkingMixed, Shared
  <2>5. QED
    BY <2>1, <2>2, <2>3, <2>4 DEF MixInv
<1>11. QED
  BY <1>1, <1>2, <1>3, <1>4, <1>5, <1>6, <1>7, <1>8, <1>9, <1>10 DEF SpeechNext

LEMMA InitSpeaks == SpeechAssumption /\ SpeechInit => SpeechInv
  BY InitSpeech, InitMixes DEF SpeechInv

LEMMA NextSpeaks == SpeechAssumption /\ SpeechInv /\ [SpeechNext]_svars => SpeechInv'
<1> SUFFICES ASSUME SpeechAssumption, SpeechInv, [SpeechNext]_svars PROVE SpeechInv'
  OBVIOUS
<1>1. CASE Sharded
  <2>1. MixInv'
    BY <1>1, NextMixes DEF SpeechInv
  <2>2. DOMAIN worker' = {"base", "tts"}
    BY <2>1 DEF MixInv
  <2>3. Sharded'
    BY <2>2 DEF Sharded
  <2>4. QED
    BY <2>1, <2>3 DEF SpeechInv
<1>2. CASE ~ Sharded
  <2>1. SpInv'
    BY <1>2, NextSpeech DEF SpeechInv
  <2>2. ~ Sharded'
    BY <1>2, LocalStays DEF Sharded
  <2>3. QED
    BY <2>1, <2>2 DEF SpeechInv
<1>3. QED
  BY <1>1, <1>2

LEMMA InvConditioned == SpeechInv => Conditioned
<1>1. CASE Sharded
  BY <1>1, Zenon DEF SpeechInv, MixInv, Conditioned
<1>2. CASE ~ Sharded
  BY <1>2, Zenon DEF SpeechInv, SpInv, Conditioned
<1>3. QED
  BY <1>1, <1>2

\* Both VibeVoice models sample each frame of speech from the conditions it should be sampled
\* from as long as the layers are on the master; on a worker, whose one cache both
\* conversations share, every frame is sampled from the mixture FrameMixed says.
THEOREM SpeechConditioned == ASSUME SpeechAssumption PROVE SpeechSpec => []Conditioned
<1>1. QED
  BY InitSpeaks, NextSpeaks, InvConditioned, PTL DEF SpeechSpec

=============================================================================
