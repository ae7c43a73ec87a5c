---------------------------- MODULE ComputeProofs ---------------------------
(***************************************************************************)
(* Proofs about what a layer computes.                                     *)
(*                                                                         *)
(* Kernels: Computed, for launches of every shape (Shaped), any size of    *)
(* workgroup, block and tile, and every interleaving of the SIMD groups.   *)
(* First the index arithmetic: which element a thread writes and which it  *)
(* reads (Covered, Agrees).  Then the reductions (Summed): KernelsInv says *)
(* which barriers keep the groups in step, and therefore whose sum is in   *)
(* each slot of the shared array.                                          *)
(*                                                                         *)
(* Experts: Mixed, for any number of experts and of tokens.  First where   *)
(* a tensor is in its shard (ShardAt), by induction over the files; so an  *)
(* expert is read from its own tensors (ReadsOwn), and stays so in the     *)
(* cache (Filled).  Then what each path of a pass has added to the rows    *)
(* (OnPath).                                                               *)
(*                                                                         *)
(* StableDiffusion: Complete and Painted, for any number of samples,       *)
(* steps and pictures to a batch.  First the packing of tensors into one   *)
(* (UnpackIs), so the networks see what was sent; then one step of         *)
(* denoising (PredictionIs).  PaintInv says what the pictures shown so far *)
(* and the latents are.  In a guided batch the repeated pairs of prompts   *)
(* (RepeatedIs) meet the repeated latents (InputIs) row by row, which is   *)
(* where the two sides of Met come from.                                   *)
(***************************************************************************)
EXTENDS Kernels, Experts, StableDiffusion, SequenceTheorems, FiniteSetTheorems,
        WellFoundedInduction, TLAPS

(* Arithmetic of positions. *)

\* Quotient and remainder of a number written with them.
LEMMA Quotients ==
  ASSUME NEW k \in Nat \ {0}, NEW q \in Nat, NEW r \in 0 .. k - 1
  PROVE  (q * k + r) \div k = q /\ (q * k + r) % k = r
  OBVIOUS

LEMMA DivMod ==
  ASSUME NEW k \in Nat \ {0}, NEW n \in Nat
  PROVE  /\ n \div k \in Nat /\ n % k \in 0 .. k - 1
         /\ n = (n \div k) * k + (n % k)
  OBVIOUS

\* q is below p: so is its whole multiple of k.
LEMMA Fits ==
  ASSUME NEW k \in Nat, NEW p \in Nat, NEW q \in 0 .. p - 1, NEW r \in 0 .. k - 1
  PROVE  q * k + r \in 0 .. p * k - 1
<1>1. p * k = q * k + k + (p - q - 1) * k
  OBVIOUS
<1>2. q * k \in Nat /\ (p - q - 1) * k \in Nat
  OBVIOUS
<1>3. QED
  BY <1>1, <1>2

\* And the other way round.
LEMMA Within ==
  ASSUME NEW k \in Nat \ {0}, NEW p \in Nat, NEW n \in 0 .. p * k - 1
  PROVE  n \div k \in 0 .. p - 1
<1> DEFINE q == n \div k
<1>1. q \in Nat /\ n % k \in Nat /\ n = q * k + (n % k)
  BY DivMod
<1> HIDE DEF q
<1>2. ASSUME q >= p PROVE FALSE
  <2>1. q * k = p * k + (q - p) * k
    BY <1>1
  <2>2. (q - p) * k \in Nat
    BY <1>1, <1>2
  <2>3. QED
    BY <1>1, <2>1, <2>2
<1>3. q \in 0 .. p - 1
  BY <1>1, <1>2
<1>4. QED
  BY <1>3 DEF q

\* Rounded up, so many parts are enough.
LEMMA Enough ==
  ASSUME NEW n \in Nat \ {0}, NEW k \in Nat \ {0}
  PROVE  DivCeil(n, k) \in Nat \ {0} /\ DivCeil(n, k) * k \in Nat /\ n <= DivCeil(n, k) * k
<1> DEFINE q == (n + k - 1) \div k
<1>1. q \in Nat /\ n <= q * k
  OBVIOUS
<1>2. q # 0 /\ q * k \in Nat
  BY <1>1
<1>3. QED
  BY <1>1, <1>2 DEF DivCeil

-----------------------------------------------------------------------------
(* Agrees. *)

\* An operand of rows further apart than they are long, read as if it were packed.
LEMMA PointwiseMatches ==
  ASSUME NEW l, Shaped(l), l.op \in CudaPointwise \cup MetalPointwise
  PROVE  PointwiseAgrees(l.op, l.dims)
<1> DEFINE d == (l.dims)
<1>1. /\ l.op \notin {"cuda_elementwise", "metal_elementwise", "vulkan_elementwise", "vulkan_gemv",
                       "vulkan_gemm"}
      /\ ~ Gathers(l) /\ l.op \notin RowOps
  BY DEF CudaPointwise, MetalPointwise, Gathers, RowOps
<1>2. d \in Sizes(3) /\ d[3] >= d[2]
  BY <1>1 DEF Shaped
<1>3. d[1] \in Nat \ {0} /\ d[2] \in Nat \ {0} /\ d[3] \in Nat \ {0}
  BY <1>2 DEF Sizes
<1>4. SUFFICES ASSUME ~ Refuses(l.op, d) PROVE PointwiseAgrees(l.op, l.dims)
  BY DEF PointwiseAgrees
<1>5. PICK o : o \in Operands(l.op)
  BY DEF Operands, CudaPointwise, MetalPointwise, SiluMul, StableSoftplus, Add3, ExpMul, SubMul,
         F8E4M3ToF32, MetalSilu
<1>6. ASSUME NEW r \in 0 .. d[1] - 1, NEW c \in 0 .. d[2] - 1
      PROVE  Reads(l.op, d, (r * d[2]) + c) = CpuReads(l.op, d, r, c) <=> (r = 0 \/ ~ Astray(l.op, d))
  <2>1. CASE r = 0 \/ ~ Astray(l.op, d)
    <3>1. r = 0 \/ d[1] = 1 \/ d[3] = d[2]
      BY <1>2, <1>3, <1>4, <2>1 DEF Refuses, Astray, Strided
    <3>2. r * d[2] = r * d[3]
      BY <1>3, <3>1
    <3>3. QED
      BY <2>1, <3>2 DEF Reads, CpuReads
  <2>2. CASE ~ (r = 0 \/ ~ Astray(l.op, d))
    <3>1. r \in Nat \ {0} /\ d[3] > d[2]
      BY <2>2 DEF Astray, Strided
    <3>2. PICK k \in Nat \ {0} : d[3] = d[2] + k
      <4>1. d[3] - d[2] \in Nat \ {0} /\ d[3] = d[2] + (d[3] - d[2])
        BY <1>3, <3>1
      <4>2. QED
        BY <4>1
    <3>3. r * d[3] = (r * d[2]) + (r * k) /\ r * k = k + (r - 1) * k /\ (r - 1) * k \in Nat
      BY <1>3, <3>1, <3>2
    <3>4. (r * d[2]) + c # (r * d[3]) + c
      <4> DEFINE x == r * d[2]
                 y == (r - 1) * k
      <4>1. x \in Nat /\ y \in Nat /\ c \in Nat /\ r * d[3] = x + (k + y)
        BY <1>3, <3>1, <3>2, <3>3
      <4> HIDE DEF x, y
      <4>2. x + c # (x + (k + y)) + c
        BY <3>2, <4>1
      <4>3. QED
        BY <4>1, <4>2 DEF x
    <3> DEFINE a == (r * d[2]) + c
               b == (r * d[3]) + c
    <3>5. a # b
      BY <3>4
    <3>6. Reads(l.op, d, a) = {<<q, a>> : q \in Operands(l.op)}
          /\ CpuReads(l.op, d, r, c) = {<<q, b>> : q \in Operands(l.op)}
      BY DEF Reads, CpuReads
    <3> HIDE DEF a, b
    <3>7. <<o, a>> \in Reads(l.op, d, a) /\ <<o, a>> \notin CpuReads(l.op, d, r, c)
      BY <1>5, <3>5, <3>6
    <3>8. QED
      BY <2>2, <3>7 DEF a
  <2>3. QED
    BY <2>1, <2>2
<1>7. QED
  BY <1>6 DEF PointwiseAgrees

Known(d) == /\ Bn(d) \in Nat \ {0} /\ Ch(d) \in Nat \ {0}
            /\ Tm(d) \in Nat \ {0} /\ Ks(d) \in Nat \ {0}

\* Element <<b, c, t>> of the output is number i.
Element(d, n, b, c, t, i) ==
  /\ Known(d) /\ n \in Nat \ {0}
  /\ b \in 0 .. Bn(d) - 1 /\ c \in 0 .. Ch(d) - 1 /\ t \in 0 .. n - 1
  /\ i = (b * Ch(d) + c) * n + t

LEMMA ElementAt ==
  ASSUME NEW d, NEW n, NEW b, NEW c, NEW t, NEW i, Element(d, n, b, c, t, i)
  PROVE  /\ i \in Nat
         /\ i % n = t /\ i \div n = b * Ch(d) + c
         /\ (b * Ch(d) + c) % Ch(d) = c /\ (b * Ch(d) + c) \div Ch(d) = b
         /\ i % (Ch(d) * n) = c * n + t /\ i \div (Ch(d) * n) = b /\ i \div (n * Ch(d)) = b
         /\ (c * n + t) \div n = c
<1> DEFINE C == Ch(d)
<1>1. b \in Nat /\ C \in Nat \ {0} /\ n \in Nat \ {0} /\ c \in 0 .. C - 1 /\ t \in 0 .. n - 1
      /\ i = (b * C + c) * n + t
  BY DEF Element, Known
<1> HIDE DEF C
<1>2. b * C + c \in Nat /\ b * C \in Nat
  BY <1>1
<1>3. i \in Nat /\ i % n = t /\ i \div n = b * C + c
  <2> DEFINE row == b * C + c
  <2>1. row \in Nat /\ i = row * n + t
    BY <1>1, <1>2
  <2> HIDE DEF row
  <2>2. i % n = t /\ i \div n = row
    BY <1>1, <2>1, Quotients
  <2>3. row * n \in Nat /\ t \in Nat
    BY <1>1, <2>1
  <2>4. QED
    BY <2>1, <2>2, <2>3 DEF row
<1>4. (b * C + c) % C = c /\ (b * C + c) \div C = b
  BY <1>1, Quotients
<1>5. C * n \in Nat \ {0} /\ c * n + t \in 0 .. C * n - 1
  BY <1>1, Fits
<1>6. i = b * (C * n) + (c * n + t)
  BY <1>1
<1>7. i % (C * n) = c * n + t /\ i \div (C * n) = b
  <2> DEFINE k == C * n
             r == c * n + t
  <2>1. k \in Nat \ {0} /\ r \in 0 .. k - 1 /\ i = b * k + r
    BY <1>5, <1>6
  <2> HIDE DEF k, r
  <2>2. i % k = r /\ i \div k = b
    BY <1>1, <2>1, Quotients
  <2>3. QED
    BY <2>2 DEF k, r
<1>8. n * C = C * n
  BY <1>1
<1>9. (c * n + t) \div n = c
  BY <1>1, Quotients
<1>10. QED
  BY <1>3, <1>4, <1>7, <1>8, <1>9 DEF C

LEMMA AddsScaled ==
  ASSUME NEW d, NEW b, NEW c, NEW t, NEW i, Element(d, Tm(d), b, c, t, i)
  PROVE  CudaAddScaled(d, i) = CpuAddScaled(d, b, c, t) /\ MetalAddScaled(d, i) = CpuAddScaled(d, b, c, t)
<1>1. i = Index(d, b, c, t)
  BY DEF Index, Element
<1>2. QED
  BY <1>1, ElementAt DEF CudaAddScaled, MetalAddScaled, CpuAddScaled

LEMMA ConvolvesSilu ==
  ASSUME NEW d, NEW b, NEW c, NEW i, Element(d, 1, b, c, 0, i)
  PROVE  ConvSilu(d, i) = CpuConvSilu(d, b, c)
<1>1. i = b * Ch(d) + c
  BY DEF Element, Known
<1>2. i % Ch(d) = c
  BY <1>1, ElementAt
<1>3. QED
  BY <1>1, <1>2 DEF ConvSilu, CpuConvSilu

LEMMA ConvolvesBias ==
  ASSUME NEW d, NEW b, NEW c, NEW t, NEW i, Element(d, OutLen(d), b, c, t, i)
  PROVE  ConvBias(d, i) = CpuConvBias(d, b, c, t) /\ MetalConvBias(d, i) = CpuConvBias(d, b, c, t)
<1>1. /\ i \div OutLen(d) = b * Ch(d) + c /\ i % OutLen(d) = t
      /\ (b * Ch(d) + c) % Ch(d) = c /\ i \div (OutLen(d) * Ch(d)) = b
  BY ElementAt
<1>2. ConvBias(d, i) = CpuConvBias(d, b, c, t)
  BY <1>1 DEF ConvBias, CpuConvBias
<1>3. MetalConvBias(d, i) = CpuConvBias(d, b, c, t)
  BY <1>1 DEF MetalConvBias, CpuConvBias
<1>4. QED
  BY <1>2, <1>3

LEMMA Regroups == ASSUME NEW p \in Nat, NEW q \in Nat, NEW r \in Nat PROVE p + (q - r) = (p + q) - r
  OBVIOUS

LEMMA ConvolvesContext ==
  ASSUME NEW d, NEW b, NEW c, NEW t, NEW i, Element(d, Tm(d), b, c, t, i)
  PROVE  ConvCtx(d, i) = CpuConvCtx(d, b, c, t)
<1> DEFINE row == b * Ch(d) + c
           joined(p, k) == IF p < Ks(d) - 1 THEN <<"ctx", row * (Ks(d) - 1) + p, k>>
                           ELSE <<"input", row * Tm(d) + p - (Ks(d) - 1), k>>
<1>1. i \div Tm(d) = row /\ i % Tm(d) = t /\ row % Ch(d) = c
  BY ElementAt
<1>2. ASSUME NEW k \in Taps(d) PROVE CtxAt(d, row, t + k, k) = joined(t + k, k)
  <2>1. row * Tm(d) \in Nat /\ Ks(d) - 1 \in Nat /\ t + k \in Nat
    BY DEF Element, Known, Taps
  <2>2. row * Tm(d) + ((t + k) - (Ks(d) - 1)) = row * Tm(d) + (t + k) - (Ks(d) - 1)
    BY <2>1, Regroups, Zenon
  <2>3. QED
    BY <2>2 DEF CtxAt
<1>3. ConvCtx(d, i) = {<<"bias", c>>} \cup
        UNION {{CtxAt(d, row, t + k, k), <<"weight", c * Ks(d) + k, k>>} : k \in Taps(d)}
  BY <1>1 DEF ConvCtx
<1>4. CpuConvCtx(d, b, c, t) = {<<"bias", c>>} \cup
        UNION {{joined(t + k, k), <<"weight", c * Ks(d) + k, k>>} : k \in Taps(d)}
  BY DEF CpuConvCtx
<1> HIDE DEF joined, row
<1>5. {{CtxAt(d, row, t + k, k), <<"weight", c * Ks(d) + k, k>>} : k \in Taps(d)}
      = {{joined(t + k, k), <<"weight", c * Ks(d) + k, k>>} : k \in Taps(d)}
  BY <1>2
<1>6. QED
  BY <1>3, <1>4, <1>5

\* The row of an element.
LEMMA RowAt ==
  ASSUME NEW d, NEW b, NEW c, NEW t, NEW i, Element(d, Tm(d), b, c, t, i)
  PROVE  Row(d, i) = CpuRow(d, b, c) /\ i = Index(d, b, c, t) /\ i % Tm(d) = t
<1>1. i \div Tm(d) = b * Ch(d) + c /\ i % Tm(d) = t
  BY ElementAt
<1>2. QED
  BY <1>1 DEF Row, CpuRow, Index, Element

LEMMA NormsGated ==
  ASSUME NEW d, NEW b, NEW c, NEW t, NEW i, Element(d, Tm(d), b, c, t, i)
  PROVE  RmsNormGated(d, i) = CpuNormGated(d, b, c, t)
  BY RowAt DEF RmsNormGated, CpuNormGated

LEMMA Modulates ==
  ASSUME NEW d, NEW b, NEW c, NEW t, NEW i, Element(d, Tm(d), b, c, t, i)
  PROVE  AdaLnModulate(d, i) = CpuAdaLn(d, b, c, t)
  BY RowAt DEF AdaLnModulate, CpuAdaLn

\* The output has as many elements as the positions it numbers.
LEMMA Numbered ==
  ASSUME NEW d, NEW b, NEW c, NEW t, NEW i, Element(d, Tm(d), b, c, t, i)
  PROVE  i \in 0 .. Bn(d) * Ch(d) * Tm(d) - 1
<1> DEFINE rows == Bn(d) * Ch(d)
           row  == b * Ch(d) + c
<1>1. /\ Ch(d) \in Nat \ {0} /\ Bn(d) \in Nat \ {0} /\ b \in 0 .. Bn(d) - 1
      /\ c \in 0 .. Ch(d) - 1
  BY DEF Element, Known
<1>2. row \in 0 .. rows - 1
  BY <1>1, Fits
<1>3. rows \in Nat
  BY <1>1
<1>4. Tm(d) \in Nat /\ t \in 0 .. Tm(d) - 1 /\ i = row * Tm(d) + t
  BY DEF Element, Known
<1> HIDE DEF rows, row
<1>5. i \in 0 .. rows * Tm(d) - 1
  BY <1>2, <1>3, <1>4, Fits
<1>6. QED
  BY <1>5 DEF rows

\* AddRmsNorm, whose output has n elements of each kind.
LEMMA TwoOutputs ==
  ASSUME NEW d, NEW i, NEW n, n = Bn(d) * Ch(d) * Tm(d)
  PROVE  AddRmsNorm(d, i) = IF i < n THEN {<<"a", i>>, <<"b", i>>}
                            ELSE ({"a", "b"} \X Row(d, i - n)) \cup {<<"w", (i - n) % Tm(d)>>}
  BY DEF AddRmsNorm

LEMMA AddsNormed ==
  ASSUME NEW d, NEW b, NEW c, NEW t, NEW i, Element(d, Tm(d), b, c, t, i)
  PROVE  /\ AddRmsNorm(d, i) = {<<"a", i>>, <<"b", i>>}
         /\ AddRmsNorm(d, Bn(d) * Ch(d) * Tm(d) + i) = CpuAddRmsNorm(d, b, c, t)
<1> DEFINE all == Bn(d) * Ch(d) * Tm(d)
<1>1. i \in 0 .. all - 1
  BY Numbered
<1>2. all \in Nat
  <2>1. Bn(d) * Ch(d) \in Nat /\ Tm(d) \in Nat
    BY DEF Element, Known
  <2>2. QED
    BY <2>1
<1> HIDE DEF all
<1>3. all = Bn(d) * Ch(d) * Tm(d)
  BY DEF all
<1>4. AddRmsNorm(d, i) = {<<"a", i>>, <<"b", i>>}
  <2>1. i < all
    BY <1>1, <1>2
  <2>2. QED
    BY <1>3, <2>1, TwoOutputs
<1>5. AddRmsNorm(d, all + i) = ({"a", "b"} \X Row(d, i)) \cup {<<"w", i % Tm(d)>>}
  <2> DEFINE e == all + i
  <2>1. e - all = i /\ ~ (e < all)
    BY <1>1, <1>2
  <2> HIDE DEF e
  <2>2. AddRmsNorm(d, e) = ({"a", "b"} \X Row(d, e - all)) \cup {<<"w", (e - all) % Tm(d)>>}
    BY <1>3, <2>1, TwoOutputs
  <2>3. QED
    BY <2>1, <2>2 DEF e
<1>6. QED
  BY <1>3, <1>4, <1>5, RowAt DEF CpuAddRmsNorm

LEMMA NormsChannels ==
  ASSUME NEW d, NEW b, NEW c, NEW t, NEW i, Element(d, Tm(d), b, c, t, i)
  PROVE  RmsNormChannel(d, i) = CpuRmsNormChannel(d, b, c, t)
<1> DEFINE base == b * Ch(d) * Tm(d) + t
<1>1. /\ i \div (Ch(d) * Tm(d)) = b /\ i % Tm(d) = t
      /\ i \div Tm(d) = b * Ch(d) + c /\ (b * Ch(d) + c) % Ch(d) = c
  BY ElementAt
<1>2. RmsNormChannel(d, i)
        = {<<"x", base + j * Tm(d)>> : j \in 0 .. Ch(d) - 1} \cup {<<"w", c>>}
  BY <1>1 DEF RmsNormChannel
<1>3. ASSUME NEW j \in 0 .. Ch(d) - 1 PROVE base + j * Tm(d) = Index(d, b, j, t)
  <2>1. b \in Nat /\ Ch(d) \in Nat /\ Tm(d) \in Nat /\ t \in Nat /\ j \in Nat
    BY DEF Element, Known
  <2>2. \A p, q, r, u, v \in Nat : p * q * r + u + v * r = (p * q + v) * r + u
    OBVIOUS
  <2>3. QED
    BY <2>1, <2>2 DEF Index
<1> HIDE DEF base
<1>4. QED
  BY <1>2, <1>3 DEF CpuRmsNormChannel

LEMMA Halves ==
  ASSUME NEW n \in Nat \ {0}, n % 2 = 0
  PROVE  n \div 2 \in Nat \ {0} /\ n = n \div 2 + n \div 2
  OBVIOUS

\* Both halves of a head are paired with each other.
LEMMA Rotates ==
  ASSUME NEW d, NEW b, NEW c, NEW t, NEW i, Element(d, Tm(d), b, c, t, i), Tm(d) % 2 = 0
  PROVE  MetalRope(d, i) = CpuRope(d, b, c, t)
<1> DEFINE half == Tm(d) \div 2
           row  == (b * Ch(d) + c) * Tm(d)
           at   == c * half + (t % half)
<1>1. i \div Tm(d) = b * Ch(d) + c /\ i % Tm(d) = t /\ (b * Ch(d) + c) % Ch(d) = c
  BY ElementAt
<1>2. half \in Nat \ {0} /\ Tm(d) = half + half /\ t \in 0 .. Tm(d) - 1
  <2>1. Tm(d) \in Nat \ {0} /\ t \in 0 .. Tm(d) - 1
    BY DEF Element, Known
  <2>2. QED
    BY <2>1, Halves
<1>3. row \in Nat /\ i = row + t
  <2>1. b * Ch(d) + c \in Nat /\ Tm(d) \in Nat
    BY DEF Element, Known
  <2>2. QED
    BY <2>1 DEF Element
<1>4. MetalRope(d, i)
        = {<<"x", i>>, <<"x", IF t < half THEN i + half ELSE i - half>>, <<"cos", at>>, <<"sin", at>>}
  BY <1>1 DEF MetalRope
<1>5. CpuRope(d, b, c, t)
        = {<<"x", row + (t % half)>>, <<"x", row + ((t % half) + half)>>, <<"cos", at>>, <<"sin", at>>}
  BY DEF CpuRope, Index
<1> HIDE DEF half, row, at
<1>6. IF t < half THEN t % half = t ELSE t % half = t - half
  <2>1. CASE t < half
    BY <1>2, <2>1
  <2>2. CASE ~ (t < half)
    <3> DEFINE r == t - half
    <3>1. r \in 0 .. half - 1 /\ t = 1 * half + r
      BY <1>2, <2>2
    <3> HIDE DEF r
    <3>2. (1 * half + r) % half = r
      BY <1>2, <3>1, Quotients
    <3>3. QED
      BY <2>2, <3>1, <3>2 DEF r
  <2>3. QED
    BY <2>1, <2>2
<1>7. CASE t < half
  <2>1. row + (t % half) = i /\ row + ((t % half) + half) = i + half
    BY <1>2, <1>3, <1>6, <1>7
  <2>2. QED
    BY <1>4, <1>5, <1>7, <2>1
<1>8. CASE ~ (t < half)
  <2>1. row + (t % half) = i - half /\ row + ((t % half) + half) = i
    BY <1>2, <1>3, <1>6, <1>8
  <2>2. QED
    BY <1>4, <1>5, <1>8, <2>1
<1>9. QED
  BY <1>7, <1>8

LEMMA GathersRight ==
  ASSUME NEW l, Shaped(l), Gathers(l),
         NEW b \in 0 .. Bn(l.dims) - 1, NEW c \in 0 .. Ch(l.dims) - 1, NEW t \in 0 .. Along(l) - 1
  PROVE  Gathered(l, b, c, t)
<1> DEFINE d == l.dims
           i == (b * Ch(d) + c) * Along(l) + t
<1>1. /\ l.op \notin {"cuda_elementwise", "metal_elementwise", "vulkan_elementwise", "vulkan_gemv",
                       "vulkan_gemm"}
      /\ l.op \notin CudaPointwise \cup MetalPointwise /\ l.op \notin RowOps
  BY DEF CudaPointwise, MetalPointwise, Gathers, RowOps
<1>2. /\ d \in Sizes(4) /\ (l.op = "conv_bias" => Ks(d) <= Tm(d))
      /\ (l.op = "rope" => Tm(d) % 2 = 0)
  BY <1>1 DEF Shaped
<1>3. Known(d)
  BY <1>2 DEF Sizes, Known, Bn, Ch, Tm, Ks
<1>4. Along(l) \in Nat \ {0}
  BY <1>2, <1>3 DEF Along, OutLen, Known, Gathers
<1>5. Element(d, Along(l), b, c, t, i)
  BY <1>3, <1>4 DEF Element
<1> HIDE DEF d, i
<1>6. CASE l.op = "conv_silu"
  <2>1. Along(l) = 1 /\ t = 0
    BY <1>6 DEF Along
  <2>2. QED
    BY <1>5, <1>6, <2>1, ConvolvesSilu DEF Gathered, d, i
<1>7. CASE l.op = "conv_bias"
  <2>1. Along(l) = OutLen(d)
    BY <1>7 DEF Along, d
  <2>2. QED
    BY <1>5, <1>7, <2>1, ConvolvesBias DEF Gathered, d, i
<1>8. CASE l.op \notin {"conv_silu", "conv_bias"}
  <2>1. Element(d, Tm(d), b, c, t, i)
    BY <1>5, <1>8 DEF Along, d
  <2>2. CASE l.op = "add_scaled"
    BY <2>1, <2>2, AddsScaled DEF Gathered, d, i
  <2>3. CASE l.op = "norm_gated"
    BY <2>1, <2>3, NormsGated DEF Gathered, d, i
  <2>4. CASE l.op = "adaln"
    BY <2>1, <2>4, Modulates DEF Gathered, d, i
  <2>5. CASE l.op = "add_norm"
    BY <2>1, <2>5, AddsNormed DEF Gathered, d, i
  <2>6. CASE l.op = "norm_channel"
    BY <2>1, <2>6, NormsChannels DEF Gathered, d, i
  <2>7. CASE l.op = "rope"
    BY <1>2, <2>1, <2>7, Rotates DEF Gathered, d, i
  <2>8. CASE l.op = "conv_ctx"
    BY <2>1, <2>8, ConvolvesContext DEF Gathered, d, i
  <2>9. QED
    BY <1>8, <2>2, <2>3, <2>4, <2>5, <2>6, <2>7, <2>8 DEF Gathers
<1>9. QED
  BY <1>6, <1>7, <1>8
-----------------------------------------------------------------------------
(* Rows: workgroups of so many SIMD groups, each column read by one of them. *)

Wide(l, g) == IF l.op \in MetalOps THEN MetalWidth(l.dims[1], g)
              ELSE IF l.op = "vulkan_softmax" THEN Warps ELSE CudaBlock(l.dims[1])

LEMMA RowShape ==
  ASSUME KernelAssumption, NEW l \in Launches, l.op \in RowOps
  PROVE  l.dims[1] \in Nat \ {0} /\ l.dims[2] \in Nat \ {0}
<1>1. Shaped(l)
  BY DEF KernelAssumption
<1>2. /\ l.op \notin {"cuda_elementwise", "metal_elementwise", "vulkan_elementwise", "vulkan_gemv",
                       "vulkan_gemm"}
      /\ l.op \notin CudaPointwise \cup MetalPointwise /\ ~ Gathers(l)
  BY DEF CudaPointwise, MetalPointwise, Gathers, RowOps
<1>3. l.dims \in Sizes(2)
  BY <1>1, <1>2 DEF Shaped
<1>4. QED
  BY <1>3 DEF Sizes

\* What a Metal workgroup has of a row.
LEMMA MetalPart ==
  ASSUME NEW n \in Nat \ {0}, Warps \in Nat \ {0}, NEW g \in MetalGroups(n)
  PROVE  /\ g \in Nat /\ g * Warps \in Nat /\ g * Warps < n
         /\ MetalWidth(n, g) \in Nat \ {0} /\ MetalWidth(n, g) <= Warps
         /\ MetalWidth(n, g) <= n - g * Warps
         /\ (n <= Warps => g = 0 /\ MetalWidth(n, g) = n)
<1> DEFINE q == DivCeil(n, Warps)
<1>1. q \in Nat \ {0} /\ g \in 0 .. q - 1
  BY Enough DEF MetalGroups
<1>2. q = (n + Warps - 1) \div Warps
  BY DEF DivCeil
<1> HIDE DEF q
<1>3. q * Warps <= n + Warps - 1 /\ q * Warps \in Nat
  <2> DEFINE m == n + Warps - 1
  <2>1. m \in Nat
    OBVIOUS
  <2>2. q = m \div Warps
    BY <1>2
  <2> HIDE DEF m
  <2>3. m = q * Warps + (m % Warps) /\ m % Warps \in Nat /\ q * Warps \in Nat
    BY <1>1, <2>1, <2>2, DivMod
  <2>4. q * Warps <= m
    BY <2>1, <2>3
  <2>5. QED
    BY <2>3, <2>4 DEF m
<1>4. g * Warps + Warps <= q * Warps
  <2>1. q * Warps = g * Warps + Warps + (q - 1 - g) * Warps
    BY <1>1
  <2>2. (q - 1 - g) * Warps \in Nat /\ g * Warps \in Nat
    BY <1>1
  <2>3. QED
    BY <2>1, <2>2
<1> DEFINE at == g * Warps
<1>5. at \in Nat /\ g \in Nat
  BY <1>1
<1>6. at < n
  BY <1>3, <1>4, <1>5
<1>7. MetalWidth(n, g) = IF Warps < n - at THEN Warps ELSE n - at
  BY DEF MetalWidth, Least
<1>8. n <= Warps => g = 0
  <2>1. ASSUME n <= Warps, g # 0 PROVE FALSE
    <3>1. at = Warps + (g - 1) * Warps /\ (g - 1) * Warps \in Nat
      BY <1>5, <2>1
    <3>2. QED
      BY <1>6, <2>1, <3>1
  <2>2. QED
    BY <2>1
<1>9. g = 0 => at = 0
  BY <1>1
<1> HIDE DEF at
<1>10. MetalWidth(n, g) \in Nat \ {0} /\ MetalWidth(n, g) <= Warps /\ MetalWidth(n, g) <= n - at
  BY <1>5, <1>6, <1>7
<1>11. n <= Warps => MetalWidth(n, g) = n
  BY <1>5, <1>6, <1>7, <1>8, <1>9
<1>12. QED
  BY <1>5, <1>6, <1>8, <1>10, <1>11 DEF at

LEMMA RowGroups ==
  ASSUME KernelAssumption, NEW l \in Launches, l.op \in RowOps, NEW g \in Workgroups(l)
  PROVE  /\ g \in Nat /\ Wide(l, g) \in Nat \ {0} /\ Wide(l, g) <= Warps /\ Warps \in Nat \ {0}
         /\ Members(l, g) = 0 .. Wide(l, g) - 1
         /\ l.op \notin MetalOps => g = 0
         /\ l.op \in MetalOps /\ l.dims[1] <= Warps => g = 0 /\ Wide(l, g) = l.dims[1]
         /\ l.op \in MetalOps => \A w : Columns(l, g, w) = {g * Warps + w}
         /\ l.op \notin MetalOps => \A w : Columns(l, g, w) = {c \in 0 .. l.dims[1] - 1 : c % Wide(l, g) = w}
<1> DEFINE n == l.dims[1]
<1>1. n \in Nat \ {0} /\ Warps \in Nat \ {0}
  BY RowShape DEF KernelAssumption
<1> HIDE DEF n
<1>2. CASE l.op \in MetalOps
  <2>1. Wide(l, g) = MetalWidth(n, g) /\ g \in MetalGroups(n)
    BY <1>2 DEF Wide, Workgroups, n
  <2>2. Members(l, g) = 0 .. MetalWidth(n, g) - 1
    BY <1>2 DEF Members, MetalOps, n
  <2>3. \A w : Columns(l, g, w) = {g * Warps + w}
    BY <1>2 DEF Columns
  <2>4. /\ g \in Nat /\ Wide(l, g) \in Nat \ {0} /\ Wide(l, g) <= Warps
        /\ n <= Warps => g = 0 /\ Wide(l, g) = n
    BY <1>1, <2>1, MetalPart
  <2>5. QED
    BY <1>1, <1>2, <2>1, <2>2, <2>3, <2>4 DEF n
<1>3. CASE l.op \notin MetalOps
  <2>1. Wide(l, g) \in Nat \ {0} /\ Wide(l, g) <= Warps
    BY <1>1, <1>3 DEF Wide, CudaBlock
  <2>2. g = 0
    BY <1>3 DEF Workgroups
  <2>3. Members(l, g) = 0 .. Wide(l, g) - 1
    <3>1. l.op \in {"cuda_norm", "cuda_channel"} \/ l.op = "vulkan_softmax"
      BY <1>3 DEF RowOps, MetalOps
    <3>2. QED
      BY <1>3, <3>1 DEF Members, Wide
  <2>4. Cardinality(0 .. Wide(l, g) - 1) = Wide(l, g)
    BY <2>1, FS_Interval
  <2>5. QED
    BY <1>1, <1>3, <2>1, <2>2, <2>3, <2>4 DEF Columns
<1>4. QED
  BY <1>2, <1>3
-----------------------------------------------------------------------------
(* Covered. *)

LEMMA CudaCovers ==
  ASSUME NEW n \in Nat \ {0}, Block \in Nat \ {0}, NEW e \in 0 .. n - 1
  PROVE  Cardinality({i \in CudaThreads(n) : e \in CudaStride(n, i)}) = 1
<1> DEFINE grid == DivCeil(n, Block) * Block
<1>1. grid \in Nat /\ n <= grid
  BY Enough
<1>2. CudaThreads(n) = 0 .. grid - 1 /\ \A i : CudaStride(n, i) = {x \in 0 .. n - 1 : x % grid = i}
  BY DEF CudaThreads, CudaStride
<1> HIDE DEF grid
<1>3. e % grid = e /\ e \in 0 .. grid - 1
  BY <1>1
<1>4. {i \in CudaThreads(n) : e \in CudaStride(n, i)} = {e}
  BY <1>2, <1>3
<1>5. QED
  BY <1>4, FS_Singleton

LEMMA VulkanCovers ==
  ASSUME NEW n \in Nat \ {0}, Block \in Nat \ {0}, NEW e \in 0 .. n - 1
  PROVE  Cardinality({i \in VulkanThreads(n) : e \in VecElements(n, i)}) = 1
<1> DEFINE fours == DivCeil(n, 4)
           grid  == DivCeil(fours, Block) * Block
<1>1. fours \in Nat \ {0} /\ e \div 4 \in 0 .. fours - 1
  BY DEF DivCeil
<1>2. VulkanThreads(n) = 0 .. grid - 1
  BY DEF VulkanThreads
<1> HIDE DEF fours
<1>3. grid \in Nat /\ fours <= grid
  BY <1>1, Enough
<1> HIDE DEF grid
<1>4. e \div 4 \in VulkanThreads(n)
  BY <1>1, <1>2, <1>3
<1>5. e \in VecElements(n, e \div 4)
  BY DEF VecElements
<1>6. ASSUME NEW i \in 0 .. grid - 1, e \in VecElements(n, i) PROVE i = e \div 4
  BY <1>6 DEF VecElements
<1>7. {i \in VulkanThreads(n) : e \in VecElements(n, i)} = {e \div 4}
  BY <1>2, <1>4, <1>5, <1>6
<1>8. QED
  BY <1>7, FS_Singleton

LEMMA GemvCovers ==
  ASSUME NEW n \in Nat \ {0}, Block \in Nat \ {0}
  PROVE  0 .. n - 1 \subseteq GemvThreads(n)
<1> DEFINE grid == DivCeil(n, Block) * Block
<1>1. grid \in Nat /\ n <= grid
  BY Enough
<1>2. GemvThreads(n) = 0 .. grid - 1
  BY DEF GemvThreads
<1> HIDE DEF grid
<1>3. QED
  BY <1>1, <1>2

LEMMA RowCovers ==
  ASSUME KernelAssumption, NEW l \in Launches, l.op \in RowOps, NEW c \in 0 .. l.dims[1] - 1
  PROVE  Cardinality({m \in UNION {{<<g, w>> : w \in Members(l, g)} : g \in Workgroups(l)} :
                        c \in Columns(l, m[1], m[2])}) = 1
<1> DEFINE Whose == UNION {{<<g, w>> : w \in Members(l, g)} : g \in Workgroups(l)}
           n == l.dims[1]
<1>0. c \in Nat /\ n \in Nat \ {0} /\ Warps \in Nat \ {0} /\ c < n
  BY RowShape DEF KernelAssumption
<1>1. CASE l.op \notin MetalOps
  <2>1. Workgroups(l) = {0}
    BY <1>1 DEF Workgroups
  <2>2. /\ Wide(l, 0) \in Nat \ {0} /\ Members(l, 0) = 0 .. Wide(l, 0) - 1
        /\ \A w : Columns(l, 0, w) = {x \in 0 .. l.dims[1] - 1 : x % Wide(l, 0) = w}
    BY <1>1, <2>1, RowGroups
  <2> DEFINE at == c % Wide(l, 0)
  <2>3. at \in 0 .. Wide(l, 0) - 1
    BY <1>0, <2>2, DivMod, Zenon
  <2>4. Whose = {<<0, w>> : w \in 0 .. Wide(l, 0) - 1}
    BY <2>1, <2>2
  <2>5. ASSUME NEW w \in 0 .. Wide(l, 0) - 1 PROVE c \in Columns(l, 0, w) <=> w = at
    BY <2>2
  <2> HIDE DEF at
  <2>6. {m \in {<<0, w>> : w \in 0 .. Wide(l, 0) - 1} : c \in Columns(l, m[1], m[2])} = {<<0, at>>}
    BY <2>3, <2>5
  <2>7. QED
    BY <2>4, <2>6, FS_Singleton
<1>2. CASE l.op \in MetalOps
  <2> DEFINE h == c \div Warps
             at == c % Warps
  <2>1. h \in Nat /\ at \in 0 .. Warps - 1 /\ c = h * Warps + at
    BY <1>0, DivMod
  <2>2. h \in MetalGroups(n)
    <3>1. DivCeil(n, Warps) \in Nat \ {0} /\ n <= DivCeil(n, Warps) * Warps
          /\ DivCeil(n, Warps) * Warps \in Nat
      BY <1>0, Enough
    <3>2. c \in 0 .. DivCeil(n, Warps) * Warps - 1
      BY <1>0, <3>1
    <3>3. h \in 0 .. DivCeil(n, Warps) - 1
      BY <1>0, <3>1, <3>2, Within
    <3>4. QED
      BY <3>3 DEF MetalGroups
  <2>3. Workgroups(l) = MetalGroups(n)
    BY <1>2 DEF Workgroups
  <2>4. at \in Members(l, h)
    <3>1. Members(l, h) = 0 .. Wide(l, h) - 1 /\ Wide(l, h) = MetalWidth(n, h)
      BY <1>2, <2>2, <2>3, RowGroups DEF Wide
    <3>2. MetalWidth(n, h) = IF Warps < n - h * Warps THEN Warps ELSE n - h * Warps
      BY DEF MetalWidth, Least
    <3> DEFINE x == h * Warps
    <3>3. x \in Nat /\ c = x + at
      BY <1>0, <2>1
    <3> HIDE DEF x, at
    <3>4. at < IF Warps < n - x THEN Warps ELSE n - x
      BY <1>0, <2>1, <3>3
    <3>5. at \in 0 .. (IF Warps < n - x THEN Warps ELSE n - x) - 1
      BY <1>0, <2>1, <3>3, <3>4
    <3>6. QED
      BY <3>1, <3>2, <3>5 DEF x
  <2>5. ASSUME NEW m \in Whose PROVE c \in Columns(l, m[1], m[2]) <=> m = <<h, at>>
    <3>1. PICK g \in Workgroups(l) : m \in {<<g, w>> : w \in Members(l, g)}
      OBVIOUS
    <3>2. PICK w \in Members(l, g) : m = <<g, w>>
      BY <3>1
    <3>3. g \in Nat /\ w \in 0 .. Wide(l, g) - 1 /\ Wide(l, g) \in Nat /\ Wide(l, g) <= Warps
          /\ Columns(l, g, w) = {g * Warps + w}
      BY <1>2, RowGroups
    <3>4. w \in 0 .. Warps - 1
      BY <1>0, <3>3
    <3>5. c = g * Warps + w => g = h /\ w = at
      BY <1>0, <3>3, <3>4, Quotients
    <3> HIDE DEF h, at
    <3>6. c = g * Warps + w <=> (g = h /\ w = at)
      BY <2>1, <3>5
    <3>7. QED
      BY <3>2, <3>3, <3>6
  <2>6. <<h, at>> \in Whose
    BY <2>2, <2>3, <2>4
  <2> HIDE DEF h, at, Whose
  <2>7. {m \in Whose : c \in Columns(l, m[1], m[2])} = {<<h, at>>}
    BY <2>5, <2>6
  <2>8. QED
    BY <2>7, FS_Singleton DEF Whose
<1>3. QED
  BY <1>1, <1>2

\* Threads y of groups g, each with w neighbouring places: who has place z.
InTile(w, S, g, y, z) == \E j \in 0 .. w - 1 : z = g * w * S + y * w + j
TileOf(w, S, g, y, z) == g = z \div (w * S) /\ y = (z % (w * S)) \div w
LEMMA Tiled ==
  ASSUME NEW w \in Nat \ {0}, NEW S \in Nat \ {0}, NEW z \in Nat, NEW g \in Nat, NEW y \in 0 .. S - 1
  PROVE  InTile(w, S, g, y, z) <=> TileOf(w, S, g, y, z)
<1> DEFINE k == w * S
<1>1. k \in Nat \ {0} /\ k = S * w /\ k = w * S
  OBVIOUS
<1> HIDE DEF k
<1>2. ASSUME NEW j \in 0 .. w - 1, z = g * w * S + y * w + j
      PROVE  g = z \div k /\ y = (z % k) \div w
  <2> DEFINE r == y * w + j
  <2>1. r \in 0 .. S * w - 1
    BY Fits
  <2>2. z = g * k + r
    BY <1>1, <1>2
  <2>3. r \div w = y
    BY Quotients
  <2> HIDE DEF r
  <2>4. z \div k = g /\ z % k = r
    BY <1>1, <2>1, <2>2, Quotients
  <2>5. QED
    BY <2>3, <2>4
<1>3. ASSUME g = z \div k, y = (z % k) \div w
      PROVE  \E j \in 0 .. w - 1 : z = g * w * S + y * w + j
  <2> DEFINE r == z % k
             j == r % w
  <2>1. r \in Nat /\ z = g * k + r
    <3>1. z % k \in 0 .. k - 1 /\ z = (z \div k) * k + (z % k)
      BY <1>1, DivMod, Zenon
    <3>2. QED
      BY <1>3, <3>1
  <2>2. y = r \div w
    BY <1>3
  <2> HIDE DEF r
  <2>3. j \in 0 .. w - 1 /\ r = y * w + j
    BY <2>1, <2>2, DivMod
  <2>4. g * k = g * w * S
    BY <1>1
  <2>5. y * w \in Nat /\ g * w * S \in Nat
    OBVIOUS
  <2> HIDE DEF j
  <2>6. z = g * w * S + y * w + j
    BY <2>1, <2>3, <2>4, <2>5
  <2>7. QED
    BY <2>3, <2>6
<1>4. QED
  BY <1>2, <1>3 DEF k, InTile, TileOf

LEMMA ColumnOf ==
  ASSUME NEW S \in Nat \ {0}, S = Side, NEW t, NEW z \in Nat, t[1][2] \in Nat, t[2][2] \in 0 .. S - 1
  PROVE  z \in GemmCols(t) <=> t[1][2] = z \div (4 * S) /\ t[2][2] = (z % (4 * S)) \div 4
<1> DEFINE g == t[1][2]
           y == t[2][2]
<1>1. z \in GemmCols(t) <=> \E j \in 0 .. 3 : z = g * 4 * S + y * 4 + j
  BY DEF GemmCols
<1> HIDE DEF g, y
<1>2. g \in Nat /\ y \in 0 .. S - 1
  BY DEF g, y
<1>3. InTile(4, S, g, y, z) <=> g = z \div (4 * S) /\ y = (z % (4 * S)) \div 4
  <2>1. ASSUME NEW w \in Nat \ {0}
        PROVE  InTile(w, S, g, y, z) <=> TileOf(w, S, g, y, z)
    BY <1>2, Tiled
  <2>2. QED
    BY <2>1 DEF TileOf
<1>4. QED
  BY <1>1, <1>3 DEF g, y, InTile

LEMMA RowOf ==
  ASSUME NEW S \in Nat \ {0}, S = Side, NEW t, NEW z \in Nat, t[1][1] \in Nat, t[2][1] \in 0 .. S - 1,
         NEW m, ~ SmallTile(m)
  PROVE  z \in GemmRows(m, t) <=> t[1][1] = z \div (2 * S) /\ t[2][1] = (z % (2 * S)) \div 2
<1> DEFINE g == t[1][1]
           y == t[2][1]
<1>1. z \in GemmRows(m, t) <=> z = g * 2 * S + y * 2 \/ z = g * 2 * S + y * 2 + 1
  BY DEF GemmRows
<1> HIDE DEF g, y
<1>2. g \in Nat /\ y \in 0 .. S - 1
  BY DEF g, y
<1>3. InTile(2, S, g, y, z) <=> g = z \div (2 * S) /\ y = (z % (2 * S)) \div 2
  <2>1. ASSUME NEW w \in Nat \ {0}
        PROVE  InTile(w, S, g, y, z) <=> TileOf(w, S, g, y, z)
    BY <1>2, Tiled
  <2>2. QED
    BY <2>1 DEF TileOf
<1>4. g * 2 * S + y * 2 \in Nat
  BY <1>2
<1>5. InTile(2, S, g, y, z) <=> z = g * 2 * S + y * 2 \/ z = g * 2 * S + y * 2 + 1
  BY <1>4 DEF InTile
<1>6. QED
  BY <1>1, <1>3, <1>5 DEF g, y

\* Element e is written by the threads that have its row and its column.
LEMMA GemmElement ==
  ASSUME NEW m \in Nat \ {0}, NEW n \in Nat \ {0}, NEW e \in 0 .. m * n - 1, NEW t,
         GemmRows(m, t) \subseteq Nat, GemmCols(t) \subseteq Nat
  PROVE  e \in GemmElements(m, n, t) <=> e \div n \in GemmRows(m, t) /\ e % n \in GemmCols(t)
<1> DEFINE r == e \div n
           c == e % n
<1>1. m * n \in Nat /\ e \in Nat
  OBVIOUS
<1>2. r \in 0 .. m - 1
  BY <1>1, Within
<1>3. c \in 0 .. n - 1 /\ e = r * n + c
  BY <1>1, DivMod
<1>4. ASSUME NEW rr \in GemmRows(m, t), rr < m, NEW cc \in GemmCols(t), cc < n, e = rr * n + cc
      PROVE  rr = r /\ cc = c
  <2>1. rr \in Nat /\ cc \in 0 .. n - 1
    BY <1>4
  <2>2. (rr * n + cc) \div n = rr /\ (rr * n + cc) % n = cc
    BY <2>1, Quotients
  <2>3. QED
    BY <1>4, <2>2
<1> HIDE DEF r, c
<1>5. e \in GemmElements(m, n, t)
        <=> \E rr \in GemmRows(m, t), cc \in GemmCols(t) : rr < m /\ cc < n /\ e = rr * n + cc
  BY DEF GemmElements
<1>6. QED
  BY <1>2, <1>3, <1>4, <1>5 DEF r, c

LEMMA GemmCovers ==
  ASSUME KernelAssumption, NEW m \in Nat \ {0}, NEW n \in Nat \ {0}, NEW e \in 0 .. m * n - 1
  PROVE  \E t \in GemmThreads(m, n) : /\ {u \in GemmThreads(m, n) : e \in GemmElements(m, n, u)} = {t}
                                     /\ Accumulates(m, t)
<1> DEFINE r  == e \div n
           c  == e % n
           gy == c \div (4 * Side)
           tx == (c % (4 * Side)) \div 4
           gx == IF SmallTile(m) THEN 0 ELSE r \div (2 * Side)
           ty == IF SmallTile(m) THEN r ELSE (r % (2 * Side)) \div 2
           t  == <<<<gx, gy>>, <<ty, tx>>>>
           across == IF SmallTile(m) THEN 0 .. DivCeil(m, Side \div 2) - 1 ELSE 0 .. DivCeil(m, 2 * Side) - 1
           along  == 0 .. DivCeil(n, 4 * Side) - 1
<1>1. Side \in Nat \ {0} /\ Side \div 2 \in Nat \ {0} /\ Side = Side \div 2 + Side \div 2
  BY Halves DEF KernelAssumption
<1>2. m * n \in Nat /\ e \in Nat
  OBVIOUS
<1>3. r \in 0 .. m - 1
  BY <1>2, Within
<1>4. c \in 0 .. n - 1
  BY <1>2, DivMod
<1> HIDE DEF r, c
<1>5. gy \in along /\ tx \in 0 .. Side - 1
  <2> DEFINE k == 4 * Side
  <2>1. k \in Nat \ {0}
    BY <1>1
  <2>2. c \in 0 .. DivCeil(n, k) * k - 1 /\ DivCeil(n, k) \in Nat /\ c \in Nat
    BY <1>4, <2>1, Enough
  <2> HIDE DEF k
  <2>3. c \div k \in 0 .. DivCeil(n, k) - 1
    BY <2>1, <2>2, Within
  <2>4. c % k \in 0 .. k - 1
    BY <2>1, <2>2, DivMod
  <2>5. (c % k) \div 4 \in 0 .. Side - 1
    BY <1>1, <2>4 DEF k
  <2>6. QED
    BY <2>3, <2>5 DEF k
<1>6. gx \in across /\ ty \in 0 .. Side - 1 /\ (SmallTile(m) => ty < Side \div 2)
  <2>1. CASE SmallTile(m)
    <3>1. m <= Side \div 2
      BY <2>1 DEF SmallTile
    <3>2. DivCeil(m, Side \div 2) \in Nat \ {0}
      BY <1>1, Enough
    <3>3. QED
      BY <1>1, <1>3, <2>1, <3>1, <3>2
  <2>2. CASE ~ SmallTile(m)
    <3> DEFINE k == 2 * Side
    <3>1. k \in Nat \ {0}
      BY <1>1
    <3>2. r \in 0 .. DivCeil(m, k) * k - 1 /\ DivCeil(m, k) \in Nat /\ r \in Nat
      BY <1>3, <3>1, Enough
    <3> HIDE DEF k
    <3>3. r \div k \in 0 .. DivCeil(m, k) - 1
      BY <3>1, <3>2, Within
    <3>4. r % k \in 0 .. k - 1
      BY <3>1, <3>2, DivMod
    <3>5. (r % k) \div 2 \in 0 .. Side - 1
      BY <1>1, <3>4 DEF k
    <3>6. QED
      BY <2>2, <3>3, <3>5 DEF k
  <2>3. QED
    BY <2>1, <2>2
<1>7. GemmThreads(m, n) = (across \X along) \X ((0 .. Side - 1) \X (0 .. Side - 1))
  BY DEF GemmThreads, GemmGroups
<1>8. across \subseteq Nat /\ along \subseteq Nat /\ (SmallTile(m) => across = {0})
  <2>1. SmallTile(m) => DivCeil(m, Side \div 2) = 1
    <3>1. SUFFICES ASSUME SmallTile(m) PROVE DivCeil(m, Side \div 2) = 1
      OBVIOUS
    <3> DEFINE h == Side \div 2
    <3>2. h \in Nat \ {0} /\ m <= h
      BY <1>1, <3>1 DEF SmallTile
    <3> HIDE DEF h
    <3>3. (m + h - 1) \div h = 1
      BY <3>2
    <3>4. QED
      BY <3>3 DEF DivCeil, h
  <2>2. QED
    BY <2>1
<1> HIDE DEF gy, tx, gx, ty, across, along
<1>9. ASSUME NEW u \in GemmThreads(m, n) PROVE e \in GemmElements(m, n, u) <=> u = t
  <2>1. /\ u = <<<<u[1][1], u[1][2]>>, <<u[2][1], u[2][2]>>>>
        /\ u[1][1] \in across /\ u[1][2] \in along /\ u[2][1] \in 0 .. Side - 1 /\ u[2][2] \in 0 .. Side - 1
    BY <1>7
  <2>2. u[1][1] \in Nat /\ u[1][2] \in Nat /\ r \in Nat /\ c \in Nat
    BY <1>3, <1>4, <1>8, <2>1
  <2>3. c \in GemmCols(u) <=> u[1][2] = gy /\ u[2][2] = tx
    BY <1>1, <2>1, <2>2, ColumnOf DEF gy, tx
  <2>4. r \in GemmRows(m, u) <=> u[1][1] = gx /\ u[2][1] = ty
    <3>1. CASE SmallTile(m)
      <4>1. u[1][1] = 0
        BY <1>8, <2>1, <3>1
      <4>2. GemmRows(m, u) = {u[2][1]}
        BY <1>1, <2>1, <3>1, <4>1 DEF GemmRows
      <4>3. QED
        BY <3>1, <4>1, <4>2 DEF gx, ty
    <3>2. CASE ~ SmallTile(m)
      BY <1>1, <2>1, <2>2, <3>2, RowOf DEF gx, ty
    <3>3. QED
      BY <3>1, <3>2
  <2>5. GemmRows(m, u) \subseteq Nat
    <3>1. u[2][1] \in Nat /\ u[1][1] * Side \in Nat /\ u[1][1] * 2 * Side \in Nat
      BY <1>1, <2>1, <2>2
    <3>2. QED
      BY <3>1 DEF GemmRows
  <2>6. GemmCols(u) \subseteq Nat
    <3>1. u[2][2] * 4 \in Nat /\ u[1][2] * 4 * Side \in Nat
      BY <1>1, <2>1, <2>2
    <3>2. QED
      BY <3>1 DEF GemmCols
  <2>7. e \in GemmElements(m, n, u) <=> r \in GemmRows(m, u) /\ c \in GemmCols(u)
    BY <2>5, <2>6, GemmElement DEF r, c
  <2>8. QED
    BY <2>1, <2>3, <2>4, <2>7
<1>10. t \in GemmThreads(m, n)
  BY <1>5, <1>6, <1>7
<1>11. Accumulates(m, t)
  BY <1>6 DEF Accumulates
<1> HIDE DEF t
<1>12. {u \in GemmThreads(m, n) : e \in GemmElements(m, n, u)} = {t}
  BY <1>9, <1>10
<1>13. QED
  BY <1>10, <1>11, <1>12

\* The shape of the launch at hand.
LEMMA ShapeOf ==
  ASSUME KernelAssumption, NEW l \in Launches
  PROVE  /\ l.op \in {"cuda_elementwise", "metal_elementwise", "vulkan_elementwise", "vulkan_gemv"} =>
              l.dims[1] \in Nat \ {0}
         /\ l.op = "vulkan_gemm" => l.dims[1] \in Nat \ {0} /\ l.dims[2] \in Nat \ {0}
  BY DEF KernelAssumption, Shaped, Sizes, CudaPointwise, MetalPointwise, Gathers, RowOps

LEMMA LaunchCovers ==
  ASSUME KernelAssumption, launch \in Launches \cup {NoLaunch}
  PROVE  Covered
<1> DEFINE d == launch.dims
<1>1. Block \in Nat \ {0}
  BY DEF KernelAssumption
<1>2. CASE launch = NoLaunch
  BY <1>2 DEF NoLaunch, Covered, RowOps
<1>3. CASE launch \in Launches
  <2>1. CASE launch.op = "cuda_elementwise"
    <3>1. d[1] \in Nat \ {0}
      BY <1>3, <2>1, ShapeOf
    <3>2. \A e \in 0 .. d[1] - 1 : Cardinality({i \in CudaThreads(d[1]) : e \in CudaStride(d[1], i)}) = 1
      BY <1>1, <3>1, CudaCovers
    <3> HIDE DEF d
    <3>3. QED
      BY <2>1, <3>2 DEF Covered, d, RowOps
  <2>2. CASE launch.op = "metal_elementwise"
    <3>1. MetalThreads(d[1]) = 0 .. d[1] - 1
      BY DEF MetalThreads
    <3> HIDE DEF d
    <3>2. QED
      BY <2>2, <3>1 DEF Covered, d, RowOps
  <2>3. CASE launch.op = "vulkan_elementwise"
    <3>1. d[1] \in Nat \ {0}
      BY <1>3, <2>3, ShapeOf
    <3>2. \A e \in 0 .. d[1] - 1 : Cardinality({i \in VulkanThreads(d[1]) : e \in VecElements(d[1], i)}) = 1
      BY <1>1, <3>1, VulkanCovers
    <3> HIDE DEF d
    <3>3. QED
      BY <2>3, <3>2 DEF Covered, d, RowOps
  <2>4. CASE launch.op = "vulkan_gemv"
    <3>1. d[1] \in Nat \ {0}
      BY <1>3, <2>4, ShapeOf
    <3>2. 0 .. d[1] - 1 \subseteq GemvThreads(d[1])
      BY <1>1, <3>1, GemvCovers
    <3> HIDE DEF d
    <3>3. QED
      BY <2>4, <3>2 DEF Covered, d, RowOps
  <2>5. CASE launch.op = "vulkan_gemm"
    <3>1. d[1] \in Nat \ {0} /\ d[2] \in Nat \ {0}
      BY <1>3, <2>5, ShapeOf
    <3>2. \A e \in 0 .. d[1] * d[2] - 1 :
            \E t \in GemmThreads(d[1], d[2]) :
              /\ {u \in GemmThreads(d[1], d[2]) : e \in GemmElements(d[1], d[2], u)} = {t}
              /\ Accumulates(d[1], t)
      BY <3>1, GemmCovers
    <3> HIDE DEF d
    <3>3. QED
      BY <2>5, <3>2 DEF Covered, d, RowOps
  <2>6. CASE launch.op \in RowOps
    <3>1. \A c \in 0 .. d[1] - 1 :
            Cardinality({m \in UNION {{<<g, w>> : w \in Members(launch, g)} : g \in Workgroups(launch)} :
                           c \in Columns(launch, m[1], m[2])}) = 1
      BY <1>3, <2>6, RowCovers
    <3>2. launch.op \notin {"cuda_elementwise", "metal_elementwise", "vulkan_elementwise", "vulkan_gemv",
                            "vulkan_gemm"}
      BY <2>6 DEF RowOps
    <3> HIDE DEF d
    <3>3. QED
      BY <2>6, <3>1, <3>2 DEF Covered, d
  <2>7. CASE /\ launch.op \notin {"cuda_elementwise", "metal_elementwise", "vulkan_elementwise",
                                 "vulkan_gemv", "vulkan_gemm"}
             /\ launch.op \notin RowOps
    BY <2>7 DEF Covered
  <2>8. QED
    BY <2>1, <2>2, <2>3, <2>4, <2>5, <2>6, <2>7
<1>4. QED
  BY <1>2, <1>3

LEMMA LaunchAgrees ==
  ASSUME KernelAssumption, launch \in Launches \cup {NoLaunch}
  PROVE  Agrees
<1>1. CASE launch = NoLaunch
  BY <1>1 DEF NoLaunch, Agrees, Gathers, CudaPointwise, MetalPointwise
<1>2. CASE launch \in Launches
  <2>1. Shaped(launch)
    BY <1>2 DEF KernelAssumption
  <2>2. launch.op \in CudaPointwise \cup MetalPointwise => PointwiseAgrees(launch.op, launch.dims)
    BY <2>1, PointwiseMatches
  <2>3. Gathers(launch) =>
          \A b \in 0 .. Bn(launch.dims) - 1, c \in 0 .. Ch(launch.dims) - 1, t \in 0 .. Along(launch) - 1 :
            Gathered(launch, b, c, t)
    BY <2>1, GathersRight
  <2>4. QED
    BY <2>2, <2>3 DEF Agrees
<1>3. QED
  BY <1>1, <1>2
-----------------------------------------------------------------------------
(* Summed.  Pass p of a reduction begins with the step PutAt(l, p).          *)

Leads(l)     == l.op \in {"cuda_channel", "vulkan_softmax"}
Size(l)      == IF Leads(l) THEN 6 ELSE 4
PutAt(l, p)  == (p - 1) * Size(l) + 1
SlotsOf(l, p) == IF l.op = "metal_softmax" THEN p ELSE 1

\* The barriers: no group is past one that another has not reached.
InStep(l, g, at) ==
  \A p \in 1 .. Passes(l) : \A v, w \in 0 .. Wide(l, g) - 1 :
    /\ at[v] > PutAt(l, p) + 1 => at[w] >= PutAt(l, p) + 1
    /\ Leads(l) /\ at[v] > PutAt(l, p) + 3 => at[w] >= PutAt(l, p) + 3

\* What group w put into its slot in pass p is there until it puts something else;
\* slot 0 holds the total once the first group has added it up.
Stays(l, p, w, at) == l.op = "metal_softmax" \/ at[w] <= PutAt(l, p) + Size(l)
SlotsHold(l, g, at, slots) ==
  \A p \in 1 .. Passes(l) : \A w \in 0 .. Wide(l, g) - 1 :
    at[w] > PutAt(l, p) /\ Stays(l, p, w, at) =>
      slots[SlotsOf(l, p)][w] = IF Leads(l) /\ w = 0 /\ at[w] > PutAt(l, p) + 2
                                THEN WholeRow(l, p) ELSE Own(l, g, p, w)

SumsHold(l, g, at, has) ==
  \A p \in 1 .. Passes(l) : \A w \in 0 .. Wide(l, g) - 1 :
    at[w] = PutAt(l, p) + Size(l) - 1 => has[w] \in Sums(l, g, p, w)

\* Nobody writes a slot that has no group.
RowTypes(l, g, at, has, slots) ==
  /\ at \in [0 .. Wide(l, g) - 1 -> 1 .. LastStep(l) + 1]
  /\ DOMAIN has = 0 .. Wide(l, g) - 1
  /\ DOMAIN slots = 1 .. 2 /\ \A a \in 1 .. 2 : DOMAIN slots[a] = 0 .. Warps - 1
  /\ \A a \in 1 .. 2, i \in Wide(l, g) .. Warps - 1 : slots[a][i] = Garbage

RowHolds(l, g, at, has, slots) ==
  /\ RowTypes(l, g, at, has, slots) /\ InStep(l, g, at) /\ SlotsHold(l, g, at, slots)
  /\ SumsHold(l, g, at, has)

KernelsInv ==
  /\ launch \in Launches \cup {NoLaunch}
  /\ IF launch.op \in RowOps
       THEN tgroup \in Workgroups(launch) /\ RowHolds(launch, tgroup, pc, sum, shared)
       ELSE pc = <<>>

\* More than one pass: two of a softmax, or one per position.
LEMMA PassCount ==
  ASSUME KernelAssumption, NEW l \in Launches, l.op \in RowOps
  PROVE  /\ Passes(l) \in Nat \ {0}
         /\ Passes(l) > 1 => l.op \in {"metal_softmax", "vulkan_softmax", "metal_attention"}
         /\ \A p \in 1 .. Passes(l) : SlotsOf(l, p) \in 1 .. 2
<1>1. CASE l.op = "metal_attention"
  <2>1. Passes(l) = l.dims[2] /\ \A p : SlotsOf(l, p) = 1
    BY <1>1 DEF Passes, SlotsOf
  <2>2. QED
    BY <1>1, <2>1, RowShape
<1>2. CASE l.op \in {"metal_softmax", "vulkan_softmax"}
  <2>1. Passes(l) = 2 /\ \A p \in 1 .. 2 : SlotsOf(l, p) \in 1 .. 2
    BY <1>2 DEF Passes, SlotsOf
  <2>2. QED
    BY <1>2, <2>1
<1>3. CASE l.op \in {"cuda_norm", "cuda_channel", "metal_norm"}
  <2>1. Passes(l) = 1 /\ \A p : SlotsOf(l, p) = 1
    BY <1>3 DEF Passes, SlotsOf
  <2>2. QED
    BY <1>3, <2>1
<1>4. QED
  BY <1>1, <1>2, <1>3 DEF RowOps

\* The passes come one after the other.
LEMMA PutOrder ==
  ASSUME KernelAssumption, NEW l \in Launches, l.op \in RowOps,
         NEW p \in 1 .. Passes(l), NEW q \in 1 .. Passes(l)
  PROVE  /\ PutAt(l, p) \in Nat \ {0} /\ PutAt(l, q) \in Nat \ {0}
         /\ p < q => PutAt(l, p) + Size(l) <= PutAt(l, q)
         /\ PutAt(l, p) + Size(l) <= Passes(l) * Size(l) + 1
<1>1. Passes(l) \in Nat
  BY PassCount
<1>2. CASE Leads(l)
  BY <1>1, <1>2 DEF PutAt, Size
<1>3. CASE ~ Leads(l)
  BY <1>1, <1>3 DEF PutAt, Size
<1>4. QED
  BY <1>2, <1>3

\* Which pass a step belongs to, and what the steps of a pass are.
LEMMA StepAt ==
  ASSUME KernelAssumption, NEW l \in Launches, l.op \in RowOps, NEW i \in 1 .. LastStep(l), NEW p,
         p = PassOf(l, i)
  PROVE  /\ p \in 1 .. Passes(l)
         /\ LastStep(l) = Passes(l) * Size(l)
         /\ ArrayOf(l, i) = SlotsOf(l, p)
         /\ i \in PutAt(l, p) .. PutAt(l, p) + Size(l) - 1
         /\ At(l, i) = "put" <=> i = PutAt(l, p)
         /\ At(l, i) = "sync" <=> i = PutAt(l, p) + 1 \/ (Leads(l) /\ i = PutAt(l, p) + 3)
         /\ At(l, i) = "all" => l.op \in MetalOps /\ i = PutAt(l, p) + 2
         /\ At(l, i) = "first" => l.op = "cuda_norm" /\ i = PutAt(l, p) + 2
         /\ At(l, i) = "lead" <=> Leads(l) /\ i = PutAt(l, p) + 2
         /\ At(l, i) = "read" <=> Leads(l) /\ i = PutAt(l, p) + 4
         /\ i = PutAt(l, p) + Size(l) - 2 => At(l, i) \in {"all", "first", "read"}
         /\ At(l, i) = "use" => i = PutAt(l, p) + Size(l) - 1
<1> DEFINE j == (i - 1) % Size(l)
           n == Passes(l)
<1>1. n \in Nat \ {0}
  BY PassCount
<1>2. Len(Body(l)) = Size(l)
  BY DEF Body, Size, Leads, RowOps, MetalOps, CudaNorm, CudaChannel, MetalReduce, VulkanReduce
<1>3. LastStep(l) = n * Size(l) /\ p = ((i - 1) \div Size(l)) + 1 /\ At(l, i) = Body(l)[j + 1]
  BY <1>2 DEF LastStep, PassOf, At
<1>4. ArrayOf(l, i) = SlotsOf(l, p)
  BY DEF ArrayOf, SlotsOf
<1> HIDE DEF n
<1>5. p \in 1 .. n /\ i = PutAt(l, p) + j /\ j \in 0 .. Size(l) - 1
  <2>1. CASE Leads(l)
    BY <1>1, <1>3, <2>1 DEF PutAt, Size
  <2>2. CASE ~ Leads(l)
    BY <1>1, <1>3, <2>2 DEF PutAt, Size
  <2>3. QED
    BY <2>1, <2>2
<1> HIDE DEF j
<1>6. p \in 1 .. Passes(l) /\ LastStep(l) = Passes(l) * Size(l)
  BY <1>3, <1>5 DEF n
<1>7. CASE Leads(l)
  <2>1. Body(l) = <<"put", "sync", "lead", "sync", "read", "use">> /\ Size(l) = 6
    BY <1>7 DEF Body, Leads, MetalOps, CudaChannel, VulkanReduce, Size
  <2>2. j \in {0, 1, 2, 3, 4, 5}
    BY <1>5, <2>1
  <2>3. At(l, i) = <<"put", "sync", "lead", "sync", "read", "use">>[j + 1]
    BY <1>3, <2>1
  <2>4. \/ j = 0 /\ At(l, i) = "put"
        \/ j = 1 /\ At(l, i) = "sync"
        \/ j = 2 /\ At(l, i) = "lead"
        \/ j = 3 /\ At(l, i) = "sync"
        \/ j = 4 /\ At(l, i) = "read"
        \/ j = 5 /\ At(l, i) = "use"
    <3>1. ASSUME j = 0 PROVE At(l, i) = "put"
      BY <2>3, <3>1
    <3>2. ASSUME j = 1 PROVE At(l, i) = "sync"
      BY <2>3, <3>2
    <3>3. ASSUME j = 2 PROVE At(l, i) = "lead"
      BY <2>3, <3>3
    <3>4. ASSUME j = 3 PROVE At(l, i) = "sync"
      BY <2>3, <3>4
    <3>5. ASSUME j = 4 PROVE At(l, i) = "read"
      BY <2>3, <3>5
    <3>6. ASSUME j = 5 PROVE At(l, i) = "use"
      BY <2>3, <3>6
    <3>7. QED
      BY <2>2, <3>1, <3>2, <3>3, <3>4, <3>5, <3>6
  <2>5. PutAt(l, p) \in Nat
    BY <1>1, <1>5, <2>1 DEF PutAt
  <2>6. QED
    BY <1>4, <1>5, <1>6, <1>7, <2>1, <2>4, <2>5
<1>8. CASE ~ Leads(l)
  <2>1. Size(l) = 4 /\ j \in {0, 1, 2, 3}
    BY <1>5, <1>8 DEF Size
  <2>2. PutAt(l, p) \in Nat
    BY <1>1, <1>5, <2>1 DEF PutAt
  <2>3. CASE l.op = "cuda_norm"
    <3>1. Body(l) = <<"put", "sync", "first", "use">>
      BY <2>3 DEF Body, MetalOps, CudaNorm
    <3>2. At(l, i) = <<"put", "sync", "first", "use">>[j + 1]
      BY <1>3, <3>1
    <3>3. \/ j = 0 /\ At(l, i) = "put"
          \/ j = 1 /\ At(l, i) = "sync"
          \/ j = 2 /\ At(l, i) = "first"
          \/ j = 3 /\ At(l, i) = "use"
      <4>1. ASSUME j = 0 PROVE At(l, i) = "put"
        BY <3>2, <4>1
      <4>2. ASSUME j = 1 PROVE At(l, i) = "sync"
        BY <3>2, <4>2
      <4>3. ASSUME j = 2 PROVE At(l, i) = "first"
        BY <3>2, <4>3
      <4>4. ASSUME j = 3 PROVE At(l, i) = "use"
        BY <3>2, <4>4
      <4>5. QED
        BY <2>1, <4>1, <4>2, <4>3, <4>4
    <3>4. QED
      BY <1>4, <1>5, <1>6, <1>8, <2>1, <2>2, <2>3, <3>3
  <2>4. CASE l.op # "cuda_norm"
    <3>1. l.op \in MetalOps
      BY <1>8, <2>4 DEF RowOps, MetalOps, Leads
    <3>2. Body(l) = <<"put", "sync", "all", "use">>
      BY <3>1 DEF Body, MetalOps, MetalReduce
    <3>3. At(l, i) = <<"put", "sync", "all", "use">>[j + 1]
      BY <1>3, <3>2
    <3>4. \/ j = 0 /\ At(l, i) = "put"
          \/ j = 1 /\ At(l, i) = "sync"
          \/ j = 2 /\ At(l, i) = "all"
          \/ j = 3 /\ At(l, i) = "use"
      <4>1. ASSUME j = 0 PROVE At(l, i) = "put"
        BY <3>3, <4>1
      <4>2. ASSUME j = 1 PROVE At(l, i) = "sync"
        BY <3>3, <4>2
      <4>3. ASSUME j = 2 PROVE At(l, i) = "all"
        BY <3>3, <4>3
      <4>4. ASSUME j = 3 PROVE At(l, i) = "use"
        BY <3>3, <4>4
      <4>5. QED
        BY <2>1, <4>1, <4>2, <4>3, <4>4
    <3>5. QED
      BY <1>4, <1>5, <1>6, <1>8, <2>1, <2>2, <3>1, <3>4
  <2>5. QED
    BY <2>3, <2>4
<1>9. QED
  BY <1>7, <1>8

\* Which pass of how many, when a step of a row is taken.
LEMMA Moves ==
  ASSUME KernelAssumption, KernelsInv, launch.op \in RowOps, NEW w \in DOMAIN pc, Runs(w), Advance(w)
  PROVE  /\ launch \in Launches /\ w \in 0 .. Wide(launch, tgroup) - 1 /\ DOMAIN pc = 0 .. Wide(launch, tgroup) - 1
         /\ pc[w] \in 1 .. LastStep(launch)
         /\ pc' \in [0 .. Wide(launch, tgroup) - 1 -> 1 .. LastStep(launch) + 1]
         /\ pc'[w] = pc[w] + 1
         /\ \A v \in 0 .. Wide(launch, tgroup) - 1 : pc[v] \in Nat /\ (v # w => pc'[v] = pc[v])
<1>1. launch \in Launches
  BY DEF KernelsInv, NoLaunch, RowOps
<1>2. pc \in [0 .. Wide(launch, tgroup) - 1 -> 1 .. LastStep(launch) + 1]
  BY DEF KernelsInv, RowHolds, RowTypes
<1>3. Wide(launch, tgroup) \in Nat \ {0}
  BY <1>1, RowGroups DEF KernelsInv
<1>4. LastStep(launch) \in Nat
  BY <1>1, PassCount DEF LastStep, Body, RowOps, MetalOps, CudaNorm, CudaChannel, MetalReduce, VulkanReduce
<1>5. pc[w] \in 1 .. LastStep(launch)
  BY <1>2, <1>4 DEF Runs
<1>6. DOMAIN pc = 0 .. Wide(launch, tgroup) - 1 /\ w \in 0 .. Wide(launch, tgroup) - 1
  BY <1>2
<1>7. pc' = [pc EXCEPT ![w] = pc[w] + 1] /\ pc[w] + 1 \in 1 .. LastStep(launch) + 1
  BY <1>4, <1>5 DEF Advance
<1>8. pc' \in [0 .. Wide(launch, tgroup) - 1 -> 1 .. LastStep(launch) + 1]
  BY <1>2, <1>6, <1>7
<1>9. pc'[w] = pc[w] + 1 /\ \A v \in 0 .. Wide(launch, tgroup) - 1 : v # w => pc'[v] = pc[v]
  BY <1>6, <1>7
<1>10. \A v \in 0 .. Wide(launch, tgroup) - 1 : pc[v] \in Nat
  BY <1>2
<1>11. QED
  BY <1>1, <1>5, <1>6, <1>8, <1>9, <1>10

\* A step of pass p lies in no other pass.
LEMMA OwnPass ==
  ASSUME KernelAssumption, NEW l \in Launches, l.op \in RowOps, NEW i \in 1 .. LastStep(l),
         NEW q \in 1 .. Passes(l), i \in PutAt(l, q) .. PutAt(l, q) + Size(l) - 1
  PROVE  PassOf(l, i) = q
<1> DEFINE p == PassOf(l, i)
<1>1. p \in 1 .. Passes(l) /\ i \in PutAt(l, p) .. PutAt(l, p) + Size(l) - 1
  BY StepAt
<1>2. Size(l) \in Nat
  BY DEF Size
<1> HIDE DEF p
<1>3. Passes(l) \in Nat
  BY PassCount
<1>4. ~ (p < q) /\ ~ (q < p)
  BY <1>1, <1>2, PutOrder
<1>5. QED
  BY <1>1, <1>3, <1>4 DEF p

\* A barrier is passed by a group only when all have come to it.
LEMMA StaysInStep ==
  ASSUME KernelAssumption, KernelsInv, launch.op \in RowOps, NEW w \in DOMAIN pc, Runs(w), Advance(w),
         At(launch, pc[w]) = "sync" => \A v \in Members0 : pc[v] >= pc[w]
  PROVE  InStep(launch, tgroup, pc')
<1> DEFINE l == launch
           i == pc[w]
<1>1. /\ l \in Launches /\ w \in 0 .. Wide(l, tgroup) - 1 /\ i \in 1 .. LastStep(l)
      /\ pc'[w] = i + 1
      /\ \A v \in 0 .. Wide(l, tgroup) - 1 : pc[v] \in Nat /\ (v # w => pc'[v] = pc[v])
  BY Moves, Zenon
<1>2. Members0 = 0 .. Wide(l, tgroup) - 1
  BY <1>1, RowGroups DEF Members0, KernelsInv
<1>3. InStep(l, tgroup, pc)
  BY DEF KernelsInv, RowHolds
<1>4. ASSUME NEW q \in 1 .. Passes(l), NEW v \in 0 .. Wide(l, tgroup) - 1, NEW u \in 0 .. Wide(l, tgroup) - 1,
             NEW k \in {1, 3}, k = 3 => Leads(l), pc'[v] > PutAt(l, q) + k
      PROVE  pc'[u] >= PutAt(l, q) + k
  <2>1. PutAt(l, q) \in Nat \ {0} /\ Size(l) \in {4, 6} /\ (Leads(l) => Size(l) = 6)
    BY <1>1, PutOrder DEF Size
  <2>2. CASE pc[v] > PutAt(l, q) + k
    <3>1. pc[u] >= PutAt(l, q) + k
      BY <1>1, <1>3, <1>4, <2>2 DEF InStep
    <3>2. QED
      BY <1>1, <2>1, <3>1
  <2>3. CASE ~ (pc[v] > PutAt(l, q) + k)
    <3>1. v = w /\ i = PutAt(l, q) + k
      BY <1>1, <1>4, <2>1, <2>3
    <3>2. i \in PutAt(l, q) .. PutAt(l, q) + Size(l) - 1
      BY <1>1, <1>4, <2>1, <3>1
    <3>3. PassOf(l, i) = q
      BY <1>1, <3>2, OwnPass
    <3>4. At(l, i) = "sync"
      BY <1>1, <1>4, <3>1, <3>3, StepAt
    <3>5. pc[u] >= i
      BY <1>2, <3>4
    <3>6. QED
      BY <1>1, <2>1, <3>1, <3>5
  <2>4. QED
    BY <2>2, <2>3
<1>5. QED
  BY <1>4 DEF InStep

\* A step that writes no slot keeps them: what a group has put is still there.
LEMMA SlotsStay ==
  ASSUME KernelAssumption, KernelsInv, launch.op \in RowOps, NEW w \in DOMAIN pc, Runs(w), Advance(w),
         At(launch, pc[w]) # "put", At(launch, pc[w]) # "lead" \/ w # 0, shared' = shared
  PROVE  SlotsHold(launch, tgroup, pc', shared')
<1> DEFINE l == launch
           i == pc[w]
<1>1. /\ l \in Launches /\ w \in 0 .. Wide(l, tgroup) - 1 /\ i \in 1 .. LastStep(l)
      /\ pc'[w] = i + 1
      /\ \A v \in 0 .. Wide(l, tgroup) - 1 : pc[v] \in Nat /\ (v # w => pc'[v] = pc[v])
  BY Moves, Zenon
<1>2. SlotsHold(l, tgroup, pc, shared)
  BY DEF KernelsInv, RowHolds
<1>3. ASSUME NEW q \in 1 .. Passes(l), NEW v \in 0 .. Wide(l, tgroup) - 1,
             pc'[v] > PutAt(l, q), Stays(l, q, v, pc')
      PROVE  shared[SlotsOf(l, q)][v] = IF Leads(l) /\ v = 0 /\ pc'[v] > PutAt(l, q) + 2
                                        THEN WholeRow(l, q) ELSE Own(l, tgroup, q, v)
  <2>1. PutAt(l, q) \in Nat \ {0} /\ Size(l) \in {4, 6} /\ (Leads(l) => Size(l) = 6)
    BY <1>1, PutOrder DEF Size
  <2>2. CASE v # w
    <3>1. pc'[v] = pc[v]
      BY <1>1, <2>2
    <3>2. Stays(l, q, v, pc)
      BY <1>3, <3>1 DEF Stays
    <3>3. QED
      BY <1>2, <1>3, <3>1, <3>2 DEF SlotsHold
  <2>3. CASE v = w
    <3>1. ASSUME i = PutAt(l, q) PROVE FALSE
      <4>1. PassOf(l, i) = q
        BY <1>1, <2>1, <3>1, OwnPass
      <4>2. QED
        BY <1>1, <3>1, <4>1, StepAt
    <3>2. ASSUME Leads(l), w = 0, i = PutAt(l, q) + 2 PROVE FALSE
      <4>1. PassOf(l, i) = q
        BY <1>1, <2>1, <3>2, OwnPass
      <4>2. QED
        BY <1>1, <3>2, <4>1, StepAt
    <3>3. pc[v] > PutAt(l, q)
      BY <1>1, <1>3, <2>1, <2>3, <3>1
    <3>4. Stays(l, q, v, pc)
      BY <1>1, <1>3, <2>1, <2>3 DEF Stays
    <3>5. Leads(l) /\ v = 0 => (pc'[v] > PutAt(l, q) + 2 <=> pc[v] > PutAt(l, q) + 2)
      BY <1>1, <2>1, <2>3, <3>2
    <3>6. QED
      BY <1>2, <3>3, <3>4, <3>5 DEF SlotsHold
  <2>4. QED
    BY <2>2, <2>3
<1>4. QED
  BY <1>3 DEF SlotsHold

\* A group comes to the last step of a pass with a sum it may have.
LEMMA SumsStay ==
  ASSUME KernelAssumption, KernelsInv, launch.op \in RowOps, NEW w \in DOMAIN pc, Runs(w), Advance(w),
         \A v \in DOMAIN pc : v # w => sum'[v] = sum[v],
         At(launch, pc[w]) \in {"all", "first", "read"}
           => sum'[w] \in Sums(launch, tgroup, PassOf(launch, pc[w]), w)
  PROVE  SumsHold(launch, tgroup, pc', sum')
<1> DEFINE l == launch
           i == pc[w]
           p == PassOf(l, i)
<1>1. /\ l \in Launches /\ w \in 0 .. Wide(l, tgroup) - 1 /\ i \in 1 .. LastStep(l)
      /\ DOMAIN pc = 0 .. Wide(l, tgroup) - 1
      /\ pc'[w] = i + 1
      /\ \A v \in 0 .. Wide(l, tgroup) - 1 : pc[v] \in Nat /\ (v # w => pc'[v] = pc[v])
  BY Moves, Zenon
<1>2. SumsHold(l, tgroup, pc, sum)
  BY DEF KernelsInv, RowHolds
<1>3. ASSUME NEW q \in 1 .. Passes(l), NEW v \in 0 .. Wide(l, tgroup) - 1,
             pc'[v] = PutAt(l, q) + Size(l) - 1
      PROVE  sum'[v] \in Sums(l, tgroup, q, v)
  <2>1. PutAt(l, q) \in Nat \ {0} /\ Size(l) = IF Leads(l) THEN 6 ELSE 4
    BY <1>1, PutOrder DEF Size
  <2>2. CASE v # w
    BY <1>1, <1>2, <1>3, <2>2 DEF SumsHold
  <2>3. CASE v = w
    <3>1. i = PutAt(l, q) + Size(l) - 2
      BY <1>1, <1>3, <2>1, <2>3
    <3>2. p = q
      BY <1>1, <2>1, <3>1, OwnPass
    <3>3. At(l, i) \in {"all", "first", "read"}
      BY <1>1, <2>1, <3>1, <3>2, StepAt
    <3>4. QED
      BY <1>3, <2>3, <3>2, <3>3
  <2>4. QED
    BY <2>2, <2>3
<1>4. QED
  BY <1>3 DEF SumsHold

\* The groups of a workgroup that has the row to itself read all its columns.
LEMMA OwnAll ==
  ASSUME KernelAssumption, NEW l \in Launches, l.op \in RowOps, NEW g \in Workgroups(l), NEW p,
         l.op \in MetalOps => l.dims[1] <= Warps
  PROVE  UNION {Own(l, g, p, w) : w \in 0 .. Wide(l, g) - 1} = WholeRow(l, p)
<1>1. CASE l.op \notin MetalOps
  <2>1. Wide(l, g) \in Nat \ {0} /\ \A w \in 0 .. Wide(l, g) - 1 :
          Columns(l, g, w) = {c \in 0 .. l.dims[1] - 1 : c % Wide(l, g) = w}
    BY <1>1, RowGroups
  <2>2. \A c \in 0 .. l.dims[1] - 1 : c % Wide(l, g) \in 0 .. Wide(l, g) - 1
    <3>1. \A c \in 0 .. l.dims[1] - 1 : c \in Nat
      OBVIOUS
    <3>2. QED
      BY <2>1, <3>1, DivMod, Zenon
  <2>3. \A c \in 0 .. l.dims[1] - 1 : c \in Columns(l, g, c % Wide(l, g))
    BY <2>1, <2>2
  <2>4. \A w \in 0 .. Wide(l, g) - 1 : Columns(l, g, w) \subseteq 0 .. l.dims[1] - 1
    BY <2>1
  <2>5. QED
    BY <2>2, <2>3, <2>4 DEF Own, WholeRow
<1>2. CASE l.op \in MetalOps
  <2>1. g = 0 /\ Wide(l, g) = l.dims[1] /\ Warps \in Nat /\ \A w : Columns(l, g, w) = {g * Warps + w}
    BY <1>2, RowGroups
  <2>2. \A w \in 0 .. l.dims[1] - 1 : Columns(l, g, w) = {w}
    BY <2>1
  <2>3. QED
    BY <2>1, <2>2 DEF Own, WholeRow
<1>3. QED
  BY <1>1, <1>2

\* A group that has passed the first barrier of its pass finds in a slot what its
\* owner put there in this pass, or, in Metal's fused attention, in the next one.
LEMMA AllPut ==
  ASSUME KernelAssumption, KernelsInv, launch.op \in RowOps, NEW w \in DOMAIN pc, Runs(w), Advance(w),
         NEW p \in 1 .. Passes(launch), pc[w] = PutAt(launch, p) + 2,
         At(launch, pc[w]) # "lead" \/ w = 0,
         NEW v \in 0 .. Wide(launch, tgroup) - 1
  PROVE  \/ shared[SlotsOf(launch, p)][v] = Own(launch, tgroup, p, v)
         \/ /\ launch.op = "metal_attention" /\ p < Passes(launch) /\ v # w
            /\ shared[SlotsOf(launch, p)][v] = Own(launch, tgroup, p + 1, v)
<1> DEFINE l == launch
<1>1. /\ l \in Launches /\ w \in 0 .. Wide(l, tgroup) - 1 /\ pc[w] \in 1 .. LastStep(l)
      /\ pc \in [0 .. Wide(l, tgroup) - 1 -> 1 .. LastStep(l) + 1]
      /\ \A u \in 0 .. Wide(l, tgroup) - 1 : pc[u] \in Nat
  BY Moves DEF KernelsInv, RowHolds, RowTypes
<1>2. InStep(l, tgroup, pc) /\ SlotsHold(l, tgroup, pc, shared)
  BY DEF KernelsInv, RowHolds
<1>3. PutAt(l, p) \in Nat \ {0} /\ Size(l) = IF Leads(l) THEN 6 ELSE 4
  BY <1>1, PutOrder DEF Size
<1>4. pc[v] >= PutAt(l, p) + 1
  BY <1>1, <1>2, <1>3 DEF InStep
<1>5. PassOf(l, pc[w]) = p
  BY <1>1, <1>3, OwnPass
<1>6. Leads(l) => w = 0
  BY <1>1, <1>5, StepAt
<1>7. CASE Stays(l, p, v, pc)
  <2>1. ~ (Leads(l) /\ v = 0 /\ pc[v] > PutAt(l, p) + 2)
    BY <1>1, <1>3, <1>6
  <2>2. pc[v] > PutAt(l, p)
    BY <1>1, <1>3, <1>4
  <2>3. QED
    BY <1>2, <1>7, <2>1, <2>2 DEF SlotsHold
<1>8. CASE ~ Stays(l, p, v, pc)
  <2>1. l.op # "metal_softmax" /\ pc[v] > PutAt(l, p) + Size(l)
    BY <1>1, <1>3, <1>8 DEF Stays
  <2>2. ~ Leads(l)
    <3>1. ASSUME Leads(l) PROVE FALSE
      <4>1. pc[v] > PutAt(l, p) + 3
        BY <1>1, <1>3, <2>1, <3>1
      <4>2. pc[w] >= PutAt(l, p) + 3
        BY <1>1, <1>2, <3>1, <4>1 DEF InStep
      <4>3. QED
        BY <1>1, <1>3, <4>2
    <3>2. QED
      BY <3>1
  <2>3. Passes(l) \in Nat \ {0} /\ LastStep(l) = Passes(l) * Size(l) /\ Size(l) = 4
    BY <1>1, <1>3, <1>5, <2>2, PassCount, StepAt
  <2>4. p # Passes(l)
    <3>1. PutAt(l, Passes(l)) + Size(l) = LastStep(l) + 1
      BY <2>3 DEF PutAt
    <3>2. pc[v] <= LastStep(l) + 1
      BY <1>1, <2>3
    <3>3. LastStep(l) \in Nat
      BY <2>3
    <3>4. QED
      BY <1>1, <1>3, <2>1, <2>3, <3>1, <3>2, <3>3
  <2>5. p < Passes(l) /\ p + 1 \in 1 .. Passes(l)
    BY <2>3, <2>4
  <2>6. l.op = "metal_attention"
    BY <1>1, <2>1, <2>2, <2>3, <2>5, PassCount DEF Leads
  <2>7. PutAt(l, p + 1) = PutAt(l, p) + 4
    BY <2>3 DEF PutAt
  <2>8. ~ (pc[v] > PutAt(l, p + 1) + 1)
    <3>1. ASSUME pc[v] > PutAt(l, p + 1) + 1 PROVE FALSE
      <4>1. pc[w] >= PutAt(l, p + 1) + 1
        BY <1>1, <1>2, <2>5, <3>1 DEF InStep
      <4>2. QED
        BY <1>1, <1>3, <2>7, <4>1
    <3>2. QED
      BY <3>1
  <2>9. pc[v] > PutAt(l, p + 1) /\ Stays(l, p + 1, v, pc)
    BY <1>1, <1>3, <2>1, <2>3, <2>7, <2>8 DEF Stays
  <2>10. shared[SlotsOf(l, p + 1)][v] = Own(l, tgroup, p + 1, v)
    BY <1>2, <2>2, <2>5, <2>9 DEF SlotsHold
  <2>11. SlotsOf(l, p + 1) = SlotsOf(l, p)
    BY <2>6 DEF SlotsOf
  <2>12. v # w
    BY <1>1, <1>3, <2>1, <2>3
  <2>13. QED
    BY <2>5, <2>6, <2>10, <2>11, <2>12
<1>9. QED
  BY <1>7, <1>8

\* The arrays keep their sizes, and only the places named change.
LEMMA TypesStay ==
  ASSUME KernelAssumption, KernelsInv, launch.op \in RowOps, NEW w \in DOMAIN pc, Runs(w), Advance(w),
         DOMAIN sum' = DOMAIN sum,
         DOMAIN shared' = DOMAIN shared, \A a \in 1 .. 2 : DOMAIN shared'[a] = DOMAIN shared[a],
         \A a \in 1 .. 2, i \in Wide(launch, tgroup) .. Warps - 1 : shared'[a][i] = shared[a][i]
  PROVE  RowTypes(launch, tgroup, pc', sum', shared')
<1>1. pc' \in [0 .. Wide(launch, tgroup) - 1 -> 1 .. LastStep(launch) + 1]
  BY Moves, Zenon
<1>2. RowTypes(launch, tgroup, pc, sum, shared)
  BY DEF KernelsInv, RowHolds
<1>3. QED
  BY <1>1, <1>2 DEF RowTypes

LEMMA RowArrays ==
  ASSUME KernelsInv, launch.op \in RowOps
  PROVE  /\ DOMAIN sum = DOMAIN pc /\ DOMAIN pc = 0 .. Wide(launch, tgroup) - 1
         /\ tgroup \in Workgroups(launch)
         /\ DOMAIN shared = 1 .. 2 /\ \A a \in 1 .. 2 : DOMAIN shared[a] = 0 .. Warps - 1
  BY DEF KernelsInv, RowHolds, RowTypes

(* One lemma per step of a group. *)

LEMMA PutKeeps ==
  ASSUME KernelAssumption, KernelsInv, launch.op \in RowOps, NEW w \in DOMAIN pc, Put(w)
  PROVE  RowHolds(launch, tgroup, pc', sum', shared')
<1> DEFINE l == launch
           i == pc[w]
           p == PassOf(l, i)
           own == {<<p, c>> : c \in Columns(l, tgroup, w)}
<1>1. /\ Runs(w) /\ Advance(w) /\ At(l, i) = "put"
      /\ sum' = [sum EXCEPT ![w] = own]
      /\ shared' = [shared EXCEPT ![ArrayOf(l, i)][w] = own]
  BY DEF Put
<1>2. /\ l \in Launches /\ w \in 0 .. Wide(l, tgroup) - 1 /\ i \in 1 .. LastStep(l)
      /\ DOMAIN pc = 0 .. Wide(l, tgroup) - 1
      /\ pc'[w] = i + 1
      /\ \A v \in 0 .. Wide(l, tgroup) - 1 : pc[v] \in Nat /\ (v # w => pc'[v] = pc[v])
  BY <1>1, Moves
<1>3. p \in 1 .. Passes(l) /\ i = PutAt(l, p) /\ ArrayOf(l, i) = SlotsOf(l, p)
  BY <1>1, <1>2, StepAt
<1>4. own = Own(l, tgroup, p, w)
  BY RowArrays DEF Own
<1> HIDE DEF own
<1>5. SlotsOf(l, p) \in 1 .. 2
  BY <1>2, <1>3, PassCount
<1>6. w \in 0 .. Warps - 1
  BY <1>2, RowGroups, RowArrays DEF KernelAssumption
<1>7. /\ DOMAIN shared' = DOMAIN shared /\ \A a \in 1 .. 2 : DOMAIN shared'[a] = DOMAIN shared[a]
      /\ \A a \in 1 .. 2, v \in 0 .. Warps - 1 :
           shared'[a][v] = IF a = SlotsOf(l, p) /\ v = w THEN own ELSE shared[a][v]
  BY <1>1, <1>3, <1>5, <1>6, RowArrays
<1>8. DOMAIN sum' = DOMAIN sum /\ \A v \in DOMAIN pc : v # w => sum'[v] = sum[v]
  BY <1>1, RowArrays
<1>9. SlotsHold(l, tgroup, pc, shared)
  BY DEF KernelsInv, RowHolds
<1>10. ASSUME NEW q \in 1 .. Passes(l), NEW v \in 0 .. Wide(l, tgroup) - 1,
              pc'[v] > PutAt(l, q), Stays(l, q, v, pc')
       PROVE  shared'[SlotsOf(l, q)][v] = IF Leads(l) /\ v = 0 /\ pc'[v] > PutAt(l, q) + 2
                                          THEN WholeRow(l, q) ELSE Own(l, tgroup, q, v)
  <2>1. /\ PutAt(l, q) \in Nat \ {0} /\ Size(l) \in {4, 6}
        /\ (p < q => PutAt(l, p) + Size(l) <= PutAt(l, q))
        /\ (q < p => PutAt(l, q) + Size(l) <= PutAt(l, p))
    BY <1>2, <1>3, PutOrder DEF Size
  <2>2. v \in 0 .. Warps - 1 /\ SlotsOf(l, q) \in 1 .. 2
    BY <1>2, RowGroups, RowArrays, PassCount DEF KernelAssumption
  <2>3. CASE v # w
    <3>1. pc'[v] = pc[v] /\ shared'[SlotsOf(l, q)][v] = shared[SlotsOf(l, q)][v]
      BY <1>2, <1>7, <2>2, <2>3
    <3>2. Stays(l, q, v, pc)
      BY <1>10, <3>1 DEF Stays
    <3>3. QED
      BY <1>9, <1>10, <3>1, <3>2 DEF SlotsHold
  <2>4. CASE v = w /\ q = p
    <3>1. shared'[SlotsOf(l, q)][v] = own
      BY <1>5, <1>6, <1>7, <2>4
    <3>2. ~ (pc'[v] > PutAt(l, q) + 2)
      BY <1>2, <1>3, <2>1, <2>4
    <3>3. QED
      BY <1>4, <2>4, <3>1, <3>2
  <2>5. CASE v = w /\ q # p
    <3>1. Passes(l) \in Nat /\ p \in Nat /\ q \in Nat
      BY <1>2, <1>3, PassCount
    <3>2. q < p
      BY <1>2, <1>3, <1>10, <2>1, <2>5, <3>1
    <3>3. PutAt(l, q) + Size(l) <= i /\ ~ (pc'[v] <= PutAt(l, q) + Size(l))
      BY <1>2, <1>3, <2>1, <2>5, <3>2
    <3>4. l.op = "metal_softmax"
      BY <1>10, <2>5, <3>3 DEF Stays
    <3>5. shared'[SlotsOf(l, q)][v] = shared[SlotsOf(l, q)][v] /\ ~ Leads(l)
      BY <1>7, <2>2, <2>5, <3>4 DEF SlotsOf, Leads
    <3>6. pc[v] > PutAt(l, q) /\ Stays(l, q, v, pc)
      BY <1>2, <2>1, <2>5, <3>3, <3>4 DEF Stays
    <3>7. QED
      BY <1>9, <3>5, <3>6 DEF SlotsHold
  <2>6. QED
    BY <2>3, <2>4, <2>5
<1>11. SlotsHold(l, tgroup, pc', shared')
  BY <1>10 DEF SlotsHold
<1>12. RowTypes(l, tgroup, pc', sum', shared')
  <2>1. \A a \in 1 .. 2, k \in Wide(l, tgroup) .. Warps - 1 : k \in 0 .. Warps - 1 /\ k # w
    BY <1>2, RowGroups, RowArrays
  <2>2. \A a \in 1 .. 2, k \in Wide(l, tgroup) .. Warps - 1 : shared'[a][k] = shared[a][k]
    BY <1>7, <2>1
  <2>3. QED
    BY <1>1, <1>7, <1>8, <2>2, TypesStay
<1>13. InStep(l, tgroup, pc')
  BY <1>1, StaysInStep
<1>14. SumsHold(l, tgroup, pc', sum')
  BY <1>1, <1>8, SumsStay
<1>15. QED
  BY <1>11, <1>12, <1>13, <1>14 DEF RowHolds

LEMMA WaitKeeps ==
  ASSUME KernelAssumption, KernelsInv, launch.op \in RowOps, NEW w \in DOMAIN pc, Sync(w) \/ Use(w)
  PROVE  RowHolds(launch, tgroup, pc', sum', shared')
<1>1. /\ Runs(w) /\ Advance(w) /\ sum' = sum /\ shared' = shared
      /\ At(launch, pc[w]) \in {"sync", "use"}
      /\ At(launch, pc[w]) = "sync" => \A v \in Members0 : pc[v] >= pc[w]
  BY DEF Sync, Use
<1>2. InStep(launch, tgroup, pc')
  BY <1>1, StaysInStep
<1>3. SlotsHold(launch, tgroup, pc', shared')
  BY <1>1, SlotsStay
<1>4. SumsHold(launch, tgroup, pc', sum')
  BY <1>1, SumsStay
<1>5. RowTypes(launch, tgroup, pc', sum', shared')
  BY <1>1, TypesStay
<1>6. QED
  BY <1>2, <1>3, <1>4, <1>5 DEF RowHolds

\* A step that only writes the sum of its group, to one it may have.
LEMMA SumKeeps ==
  ASSUME KernelAssumption, KernelsInv, launch.op \in RowOps, NEW w \in DOMAIN pc, Runs(w), Advance(w),
         At(launch, pc[w]) \in {"all", "first", "read"}, NEW new,
         sum' = [sum EXCEPT ![w] = new], shared' = shared,
         new \in Sums(launch, tgroup, PassOf(launch, pc[w]), w)
  PROVE  RowHolds(launch, tgroup, pc', sum', shared')
<1>1. /\ DOMAIN sum' = DOMAIN sum /\ sum'[w] = new
      /\ \A v \in DOMAIN pc : v # w => sum'[v] = sum[v]
  BY RowArrays
<1>2. InStep(launch, tgroup, pc')
  BY StaysInStep
<1>3. SlotsHold(launch, tgroup, pc', shared')
  BY SlotsStay
<1>4. SumsHold(launch, tgroup, pc', sum')
  BY <1>1, SumsStay
<1>5. RowTypes(launch, tgroup, pc', sum', shared')
  BY <1>1, TypesStay
<1>6. QED
  BY <1>2, <1>3, <1>4, <1>5 DEF RowHolds

\* The sums of a Metal workgroup, and of the groups with a leader.
LEMMA MetalSums ==
  ASSUME NEW l, l.op \in MetalOps, NEW g, NEW p, NEW w
  PROVE  Sums(l, g, p, w) = {Added(l, g, p, ahead) : ahead \in SUBSET Ahead(l, g, p, w)}
<1> DEFINE these == {Added(l, g, p, ahead) : ahead \in SUBSET Ahead(l, g, p, w)}
<1>1. l.op \notin {"cuda_norm", "cuda_channel", "vulkan_softmax"}
  BY DEF MetalOps
<1>2. Sums(l, g, p, w) =
        CASE l.op = "cuda_norm" -> {IF w = 0 THEN WholeRow(l, p) ELSE {}}
          [] l.op = "cuda_channel" -> {WholeRow(l, p)}
          [] l.op = "vulkan_softmax" ->
               {WholeRow(l, p)} \cup (IF 0 \in Ahead(l, g, p, w) THEN {Own(l, g, p + 1, 0)} ELSE {})
          [] l.op \in MetalOps -> these
  BY DEF Sums
<1> HIDE DEF these
<1>3. Sums(l, g, p, w) = these
  BY <1>1, <1>2
<1>4. QED
  BY <1>3 DEF these

LEMMA OtherSums ==
  ASSUME NEW l, l.op \in {"cuda_norm", "cuda_channel", "vulkan_softmax"}, NEW g, NEW p, NEW w
  PROVE  /\ l.op = "cuda_norm" => Sums(l, g, p, w) = {IF w = 0 THEN WholeRow(l, p) ELSE {}}
         /\ l.op = "cuda_channel" => Sums(l, g, p, w) = {WholeRow(l, p)}
         /\ l.op = "vulkan_softmax" =>
              Sums(l, g, p, w) = {WholeRow(l, p)} \cup
                                 (IF 0 \in Ahead(l, g, p, w) THEN {Own(l, g, p + 1, 0)} ELSE {})
<1> DEFINE these == {Added(l, g, p, ahead) : ahead \in SUBSET Ahead(l, g, p, w)}
<1>1. l.op \notin MetalOps
  BY DEF MetalOps
<1>2. Sums(l, g, p, w) =
        CASE l.op = "cuda_norm" -> {IF w = 0 THEN WholeRow(l, p) ELSE {}}
          [] l.op = "cuda_channel" -> {WholeRow(l, p)}
          [] l.op = "vulkan_softmax" ->
               {WholeRow(l, p)} \cup (IF 0 \in Ahead(l, g, p, w) THEN {Own(l, g, p + 1, 0)} ELSE {})
          [] l.op \in MetalOps -> these
  BY DEF Sums
<1> HIDE DEF these
<1>3. QED
  BY <1>1, <1>2

LEMMA AllSlotsKeeps ==
  ASSUME KernelAssumption, KernelsInv, launch.op \in RowOps, NEW w \in DOMAIN pc, AllSlots(w)
  PROVE  RowHolds(launch, tgroup, pc', sum', shared')
<1> DEFINE l == launch
           g == tgroup
           i == pc[w]
           p == PassOf(l, i)
           n == l.dims[1]
           new == UNION {SlotOf(ArrayOf(l, i), k) : k \in 0 .. n - 1}
           slots == shared[SlotsOf(l, p)]
           early == {v \in Ahead(l, g, p, w) : slots[v] # Own(l, g, p, v)}
           rest == IF n > Warps THEN Garbage ELSE {}
           mine == UNION {Own(l, g, IF v \in early THEN p + 1 ELSE p, v) : v \in Members(l, g)}
<1>1. /\ Runs(w) /\ Advance(w) /\ At(l, i) = "all" /\ shared' = shared
      /\ sum' = [sum EXCEPT ![w] = new]
  BY DEF AllSlots
<1>2. l \in Launches /\ i \in 1 .. LastStep(l) /\ g \in Workgroups(l)
  BY <1>1, Moves, RowArrays
<1>3. /\ p \in 1 .. Passes(l) /\ i = PutAt(l, p) + 2 /\ ArrayOf(l, i) = SlotsOf(l, p)
      /\ l.op \in MetalOps
  BY <1>1, <1>2, StepAt
<1>4. /\ Wide(l, g) \in Nat \ {0} /\ Wide(l, g) <= Warps /\ Warps \in Nat /\ n \in Nat \ {0}
      /\ n <= Warps => Wide(l, g) = n
  BY <1>2, <1>3, RowGroups, RowShape
<1>5. ASSUME NEW v \in 0 .. Wide(l, g) - 1
      PROVE  slots[v] = Own(l, g, IF v \in early THEN p + 1 ELSE p, v)
  <2>1. \/ slots[v] = Own(l, g, p, v)
        \/ /\ l.op = "metal_attention" /\ p < Passes(l) /\ v # w
           /\ slots[v] = Own(l, g, p + 1, v)
    BY <1>1, <1>3, AllPut
  <2>2. Members(l, g) = 0 .. Wide(l, g) - 1
    BY <1>2, RowGroups
  <2>3. QED
    BY <2>1, <2>2 DEF Ahead
<1>6. \A a \in 1 .. 2, k \in Wide(l, g) .. Warps - 1 : shared[a][k] = Garbage
  BY DEF KernelsInv, RowHolds, RowTypes
<1>7. SlotsOf(l, p) \in 1 .. 2
  BY <1>2, <1>3, PassCount
<1>8. \A k \in Nat : SlotOf(ArrayOf(l, i), k) = IF k < Wide(l, g) THEN slots[k] ELSE Garbage
  <2>1. \A k \in Nat : SlotOf(ArrayOf(l, i), k) = IF k < Warps THEN slots[k] ELSE Garbage
    BY <1>3 DEF SlotOf
  <2>2. \A k \in Nat : ~ (k < Wide(l, g)) /\ k < Warps => slots[k] = Garbage
    BY <1>4, <1>6, <1>7
  <2> HIDE DEF slots
  <2>3. QED
    BY <1>4, <2>1, <2>2
<1> HIDE DEF slots, early, g, n
<1>9. Members(l, g) = 0 .. Wide(l, g) - 1
  BY <1>2, RowGroups DEF g
<1>10. new = mine \cup rest
  <2>1. \A v \in 0 .. Wide(l, g) - 1 :
          SlotOf(ArrayOf(l, i), v) = Own(l, g, IF v \in early THEN p + 1 ELSE p, v)
    BY <1>4, <1>5, <1>8
  <2>2. ASSUME NEW x \in new PROVE x \in mine \cup rest
    <3>1. PICK k \in 0 .. n - 1 : x \in SlotOf(ArrayOf(l, i), k)
      BY <2>2
    <3>2. CASE k < Wide(l, g)
      <4>1. k \in Members(l, g) /\ x \in Own(l, g, IF k \in early THEN p + 1 ELSE p, k)
        BY <1>4, <1>9, <2>1, <3>1, <3>2
      <4>2. QED
        BY <4>1
    <3>3. CASE ~ (k < Wide(l, g))
      <4>1. x \in Garbage /\ n > Warps
        BY <1>4, <1>8, <3>1, <3>3
      <4>2. QED
        BY <4>1
    <3>4. QED
      BY <3>2, <3>3
  <2>3. ASSUME NEW x \in mine PROVE x \in new
    <3>1. PICK v \in Members(l, g) : x \in Own(l, g, IF v \in early THEN p + 1 ELSE p, v)
      BY <2>3
    <3>2. v \in 0 .. n - 1 /\ x \in SlotOf(ArrayOf(l, i), v)
      <4>1. v \in 0 .. Wide(l, g) - 1
        BY <1>9
      <4>2. v \in 0 .. n - 1
        BY <1>4, <4>1
      <4>3. QED
        BY <2>1, <3>1, <4>1, <4>2
    <3>3. QED
      BY <3>2
  <2>4. ASSUME NEW x \in rest PROVE x \in new
    <3>1. n > Warps /\ x \in Garbage
      BY <2>4
    <3>2. n - 1 \in 0 .. n - 1 /\ SlotOf(ArrayOf(l, i), n - 1) = Garbage
      BY <1>4, <1>8, <3>1
    <3>3. QED
      BY <3>1, <3>2
  <2> HIDE DEF new, mine, rest
  <2>5. QED
    BY <2>2, <2>3, <2>4
<1>11. early \in SUBSET Ahead(l, g, p, w)
  BY DEF early
<1>12. new \in Sums(l, g, p, w)
  <2>1. Added(l, g, p, early) = mine \cup rest
    BY DEF Added, n
  <2> HIDE DEF new, mine, rest
  <2>2. Sums(l, g, p, w) = {Added(l, g, p, ahead) : ahead \in SUBSET Ahead(l, g, p, w)}
    BY <1>3, MetalSums
  <2> HIDE DEF p
  <2>3. QED
    BY <1>10, <1>11, <2>1, <2>2
<1> HIDE DEF new
<1>13. QED
  BY <1>1, <1>12, SumKeeps DEF g

LEMMA FirstOnlyKeeps ==
  ASSUME KernelAssumption, KernelsInv, launch.op \in RowOps, NEW w \in DOMAIN pc, FirstOnly(w)
  PROVE  RowHolds(launch, tgroup, pc', sum', shared')
<1> DEFINE l == launch
           i == pc[w]
           p == PassOf(l, i)
           new == IF w = 0 THEN UNION {shared[1][k] : k \in Members0} ELSE {}
<1>1. /\ Runs(w) /\ Advance(w) /\ At(l, i) = "first" /\ shared' = shared
      /\ sum' = [sum EXCEPT ![w] = new]
  BY DEF FirstOnly
<1>2. l \in Launches /\ i \in 1 .. LastStep(l) /\ w \in 0 .. Wide(l, tgroup) - 1
  BY <1>1, Moves
<1>3. p \in 1 .. Passes(l) /\ i = PutAt(l, p) + 2 /\ l.op = "cuda_norm"
  BY <1>1, <1>2, StepAt
<1>4. SlotsOf(l, p) = 1 /\ l.op \notin MetalOps
  BY <1>3 DEF SlotsOf, MetalOps
<1>5. Members0 = 0 .. Wide(l, tgroup) - 1
  BY <1>2, RowGroups, RowArrays DEF Members0
<1>6. ASSUME NEW k \in 0 .. Wide(l, tgroup) - 1 PROVE shared[1][k] = Own(l, tgroup, p, k)
  BY <1>1, <1>3, <1>4, AllPut
<1>7. w = 0 => new = UNION {Own(l, tgroup, p, k) : k \in 0 .. Wide(l, tgroup) - 1}
  BY <1>5, <1>6
<1> HIDE DEF new
<1>8. w = 0 => new = WholeRow(l, p)
  BY <1>2, <1>4, <1>7, OwnAll, RowArrays
<1>9. w # 0 => new = {}
  BY DEF new
<1>10. new \in Sums(l, tgroup, p, w)
  BY <1>3, <1>8, <1>9, OtherSums
<1>11. QED
  BY <1>1, <1>10, SumKeeps

LEMMA ReadTotalKeeps ==
  ASSUME KernelAssumption, KernelsInv, launch.op \in RowOps, NEW w \in DOMAIN pc, ReadTotal(w)
  PROVE  RowHolds(launch, tgroup, pc', sum', shared')
<1> DEFINE l == launch
           i == pc[w]
           p == PassOf(l, i)
           new == shared[1][0]
<1>1. /\ Runs(w) /\ Advance(w) /\ At(l, i) = "read" /\ shared' = shared
      /\ sum' = [sum EXCEPT ![w] = new]
  BY DEF ReadTotal
<1>2. /\ l \in Launches /\ i \in 1 .. LastStep(l) /\ w \in 0 .. Wide(l, tgroup) - 1
      /\ \A v \in 0 .. Wide(l, tgroup) - 1 : pc[v] \in Nat
  BY <1>1, Moves
<1>3. /\ p \in 1 .. Passes(l) /\ i = PutAt(l, p) + 4 /\ Leads(l)
      /\ LastStep(l) = Passes(l) * Size(l) /\ Size(l) = 6
  BY <1>1, <1>2, StepAt DEF Size
<1>4. /\ Wide(l, tgroup) \in Nat \ {0} /\ PutAt(l, p) \in Nat \ {0}
      /\ \A q : SlotsOf(l, q) = 1
  BY <1>2, <1>3, RowGroups, RowArrays, PutOrder DEF SlotsOf, Leads
<1>5. /\ InStep(l, tgroup, pc) /\ SlotsHold(l, tgroup, pc, shared)
      /\ pc \in [0 .. Wide(l, tgroup) - 1 -> 1 .. LastStep(l) + 1]
  BY DEF KernelsInv, RowHolds, RowTypes
<1>6. 0 \in 0 .. Wide(l, tgroup) - 1
  BY <1>4
<1>7. pc[0] >= PutAt(l, p) + 3
  <2>1. pc[w] > PutAt(l, p) + 3
    BY <1>3, <1>4
  <2>2. QED
    BY <1>2, <1>3, <1>5, <1>6, <2>1 DEF InStep
<1>8. Passes(l) \in Nat \ {0} /\ (l.op = "cuda_channel" => Passes(l) = 1)
  BY <1>2, PassCount DEF Passes
<1>9. ASSUME Stays(l, p, 0, pc) PROVE new \in Sums(l, tgroup, p, w)
  <2>1. pc[0] > PutAt(l, p) /\ pc[0] > PutAt(l, p) + 2
    BY <1>2, <1>4, <1>6, <1>7
  <2>2. new = WholeRow(l, p)
    BY <1>3, <1>4, <1>5, <1>6, <1>9, <2>1 DEF SlotsHold
  <2> HIDE DEF new
  <2>3. QED
    BY <1>3, <2>2, OtherSums DEF Leads
<1>10. ASSUME ~ Stays(l, p, 0, pc) PROVE new \in Sums(l, tgroup, p, w)
  <2>1. pc[0] > PutAt(l, p) + 6
    BY <1>2, <1>3, <1>4, <1>6, <1>10 DEF Stays
  <2>2. p # Passes(l)
    <3>1. PutAt(l, Passes(l)) + 6 = LastStep(l) + 1 /\ LastStep(l) \in Nat
      BY <1>3, <1>8 DEF PutAt
    <3>2. pc[0] <= LastStep(l) + 1
      BY <1>5, <1>6, <3>1
    <3>3. QED
      BY <1>2, <1>4, <1>6, <2>1, <3>1, <3>2
  <2>3. p < Passes(l) /\ p + 1 \in 1 .. Passes(l)
    BY <1>3, <1>8, <2>2
  <2>4. l.op = "vulkan_softmax" /\ w # 0
    BY <1>2, <1>3, <1>4, <1>8, <2>1, <2>3 DEF Leads
  <2>5. PutAt(l, p + 1) = PutAt(l, p) + 6
    BY <1>3 DEF PutAt
  <2>6. ~ (pc[0] > PutAt(l, p + 1) + 1)
    <3>1. ASSUME pc[0] > PutAt(l, p + 1) + 1 PROVE FALSE
      <4>1. pc[w] >= PutAt(l, p + 1) + 1
        BY <1>2, <1>5, <1>6, <2>3, <3>1 DEF InStep
      <4>2. QED
        BY <1>3, <1>4, <2>5, <4>1
    <3>2. QED
      BY <3>1
  <2>7. /\ pc[0] > PutAt(l, p + 1) /\ ~ (pc[0] > PutAt(l, p + 1) + 2)
        /\ Stays(l, p + 1, 0, pc)
    BY <1>2, <1>3, <1>4, <1>6, <2>1, <2>5, <2>6 DEF Stays
  <2>8. new = Own(l, tgroup, p + 1, 0)
    BY <1>4, <1>5, <1>6, <2>3, <2>7 DEF SlotsHold
  <2> HIDE DEF new
  <2>9. 0 \in Ahead(l, tgroup, p, w)
    <3>1. Members(l, tgroup) = 0 .. Wide(l, tgroup) - 1
      BY <1>2, RowGroups, RowArrays
    <3>2. QED
      BY <1>6, <2>3, <2>4, <3>1 DEF Ahead
  <2>10. QED
    BY <2>4, <2>8, <2>9, OtherSums
<1>11. new \in Sums(l, tgroup, p, w)
  BY <1>9, <1>10
<1> HIDE DEF new
<1>12. QED
  BY <1>1, <1>11, SumKeeps

LEMMA LeadKeeps ==
  ASSUME KernelAssumption, KernelsInv, launch.op \in RowOps, NEW w \in DOMAIN pc, Lead(w)
  PROVE  RowHolds(launch, tgroup, pc', sum', shared')
<1> DEFINE l == launch
           i == pc[w]
           p == PassOf(l, i)
           total == UNION {shared[1][k] : k \in Members0}
<1>1. /\ Runs(w) /\ Advance(w) /\ At(l, i) = "lead" /\ sum' = sum
      /\ shared' = IF w = 0 THEN [shared EXCEPT ![1][0] = total] ELSE shared
  BY DEF Lead
<1>2. /\ l \in Launches /\ w \in 0 .. Wide(l, tgroup) - 1 /\ i \in 1 .. LastStep(l)
      /\ pc'[w] = i + 1
      /\ \A v \in 0 .. Wide(l, tgroup) - 1 : pc[v] \in Nat /\ (v # w => pc'[v] = pc[v])
  BY <1>1, Moves, Zenon
<1>3. p \in 1 .. Passes(l) /\ i = PutAt(l, p) + 2 /\ Leads(l) /\ Size(l) = 6
  BY <1>1, <1>2, StepAt DEF Size
<1>4. InStep(l, tgroup, pc')
  BY <1>1, StaysInStep
<1>5. SumsHold(l, tgroup, pc', sum')
  BY <1>1, SumsStay
<1>6. 0 \in 0 .. Warps - 1 /\ SlotsOf(l, p) = 1 /\ \A q : SlotsOf(l, q) = 1
  BY <1>3 DEF KernelAssumption, SlotsOf, Leads
<1> HIDE DEF total
<1>7. /\ DOMAIN shared' = DOMAIN shared /\ \A a \in 1 .. 2 : DOMAIN shared'[a] = DOMAIN shared[a]
      /\ w = 0 => \A v \in 0 .. Warps - 1 : shared'[1][v] = IF v = 0 THEN total ELSE shared[1][v]
      /\ \A a \in 1 .. 2, v \in Wide(l, tgroup) .. Warps - 1 : shared'[a][v] = shared[a][v]
  <2>1. CASE w # 0
    BY <1>1, <2>1
  <2>2. CASE w = 0
    <3>1. shared' = [shared EXCEPT ![1][0] = total]
      BY <1>1, <2>2
    <3>2. /\ DOMAIN shared' = DOMAIN shared /\ \A a \in 1 .. 2 : DOMAIN shared'[a] = DOMAIN shared[a]
          /\ \A a \in 1 .. 2, v \in 0 .. Warps - 1 :
               shared'[a][v] = IF a = 1 /\ v = 0 THEN total ELSE shared[a][v]
      BY <1>6, <3>1, RowArrays
    <3>3. \A v \in Wide(l, tgroup) .. Warps - 1 : v \in 0 .. Warps - 1 /\ v # 0
      BY <1>2, RowGroups, RowArrays
    <3>4. QED
      BY <3>2, <3>3
  <2>3. QED
    BY <2>1, <2>2
<1>8. RowTypes(l, tgroup, pc', sum', shared')
  BY <1>1, <1>7, TypesStay
<1>9. CASE w # 0
  <2>1. SlotsHold(l, tgroup, pc', shared')
    BY <1>1, <1>9, SlotsStay
  <2>2. QED
    BY <1>4, <1>5, <1>8, <2>1 DEF RowHolds
<1>10. CASE w = 0
  <2>1. Members0 = 0 .. Wide(l, tgroup) - 1
    BY <1>2, RowGroups, RowArrays DEF Members0
  <2>2. ASSUME NEW k \in 0 .. Wide(l, tgroup) - 1 PROVE shared[1][k] = Own(l, tgroup, p, k)
    <3>1. l.op # "metal_attention"
      BY <1>3 DEF Leads
    <3>2. QED
      BY <1>1, <1>3, <1>6, <1>10, <3>1, AllPut
  <2>3. total = UNION {Own(l, tgroup, p, k) : k \in 0 .. Wide(l, tgroup) - 1}
    BY <2>1, <2>2 DEF total
  <2>4. total = WholeRow(l, p)
    <3>1. l.op \notin MetalOps
      BY <1>3 DEF Leads, MetalOps
    <3>2. QED
      BY <1>2, <2>3, <3>1, OwnAll, RowArrays
  <2>5. SlotsHold(l, tgroup, pc, shared)
    BY DEF KernelsInv, RowHolds
  <2>6. ASSUME NEW q \in 1 .. Passes(l), NEW v \in 0 .. Wide(l, tgroup) - 1,
               pc'[v] > PutAt(l, q), Stays(l, q, v, pc')
        PROVE  shared'[SlotsOf(l, q)][v] = IF Leads(l) /\ v = 0 /\ pc'[v] > PutAt(l, q) + 2
                                           THEN WholeRow(l, q) ELSE Own(l, tgroup, q, v)
    <3>1. v \in 0 .. Warps - 1
      BY <1>2, RowGroups, RowArrays DEF KernelAssumption
    <3>2. CASE v # 0
      <4>1. pc'[v] = pc[v] /\ shared'[SlotsOf(l, q)][v] = shared[SlotsOf(l, q)][v]
        BY <1>2, <1>6, <1>7, <1>10, <3>1, <3>2
      <4>2. Stays(l, q, v, pc)
        BY <2>6, <4>1 DEF Stays
      <4>3. QED
        BY <2>5, <2>6, <4>1, <4>2 DEF SlotsHold
    <3>3. CASE v = 0
      <4>1. /\ PutAt(l, q) \in Nat \ {0} /\ PutAt(l, p) \in Nat \ {0}
            /\ (p < q => PutAt(l, p) + Size(l) <= PutAt(l, q))
            /\ (q < p => PutAt(l, q) + Size(l) <= PutAt(l, p))
        BY <1>2, <1>3, PutOrder
      <4>2. pc'[v] = PutAt(l, p) + 3
        BY <1>2, <1>3, <1>10, <3>3, <4>1
      <4>3. pc'[v] <= PutAt(l, q) + Size(l)
        BY <1>3, <1>10, <2>6, <3>3 DEF Stays, Leads
      <4>4. p \in Nat /\ q \in Nat
        BY <1>2, <1>3, PassCount
      <4>5. q = p
        BY <1>3, <2>6, <4>1, <4>2, <4>3, <4>4
      <4>6. shared'[SlotsOf(l, q)][v] = WholeRow(l, q) /\ pc'[v] > PutAt(l, q) + 2
        BY <1>6, <1>7, <1>10, <2>4, <3>3, <4>1, <4>2, <4>5
      <4>7. QED
        BY <1>3, <3>3, <4>6
    <3>4. QED
      BY <3>2, <3>3
  <2>7. SlotsHold(l, tgroup, pc', shared')
    BY <2>6 DEF SlotsHold
  <2>8. QED
    BY <1>4, <1>5, <1>8, <2>7 DEF RowHolds
<1>11. QED
  BY <1>9, <1>10
-----------------------------------------------------------------------------
(* The specification. *)

LEMMA LaunchHolds ==
  ASSUME KernelAssumption, KernelsInv, NEW l \in Launches, Launch(l)
  PROVE  KernelsInv'
<1>1. launch = NoLaunch /\ launch' = l
  BY DEF Launch
<1>2. CASE l.op \in RowOps
  <2>1. PICK g \in Workgroups(l) :
          /\ tgroup' = g
          /\ pc' = [w \in Members(l, g) |-> 1]
          /\ sum' = [w \in Members(l, g) |-> {}]
          /\ shared' = [a \in 1 .. 2 |-> [i \in 0 .. Warps - 1 |-> Garbage]]
    BY <1>2 DEF Launch
  <2>2. Members(l, g) = 0 .. Wide(l, g) - 1
    BY <1>2, <2>1, RowGroups
  <2>3. /\ pc' = [w \in 0 .. Wide(l, g) - 1 |-> 1] /\ sum' = [w \in 0 .. Wide(l, g) - 1 |-> {}]
        /\ tgroup' = g
    BY <2>1, <2>2
  <2>4. LastStep(l) \in Nat
    BY <1>2, PassCount DEF LastStep, Body, RowOps, MetalOps, CudaNorm, CudaChannel, MetalReduce, VulkanReduce
  <2>5. RowTypes(l, g, pc', sum', shared')
    <3>1. \A i \in Wide(l, g) .. Warps - 1 : i \in 0 .. Warps - 1
      BY <1>2, RowGroups
    <3>2. QED
      BY <2>1, <2>3, <2>4, <3>1 DEF RowTypes
  <2>6. \A w \in 0 .. Wide(l, g) - 1 : pc'[w] = 1
    BY <2>3
  <2>7. ASSUME NEW p \in 1 .. Passes(l), NEW w \in 0 .. Wide(l, g) - 1
        PROVE  /\ ~ (pc'[w] > PutAt(l, p)) /\ ~ (pc'[w] > PutAt(l, p) + 1)
               /\ ~ (pc'[w] > PutAt(l, p) + 3) /\ pc'[w] # PutAt(l, p) + Size(l) - 1
    <3>1. PutAt(l, p) \in Nat \ {0} /\ Size(l) \in {4, 6}
      BY <1>2, PutOrder DEF Size
    <3>2. QED
      BY <2>6, <3>1
  <2>8. InStep(l, g, pc') /\ SlotsHold(l, g, pc', shared') /\ SumsHold(l, g, pc', sum')
    BY <2>7 DEF InStep, SlotsHold, SumsHold
  <2>9. RowHolds(l, g, pc', sum', shared')
    BY <2>5, <2>8 DEF RowHolds
  <2>10. QED
    BY <1>1, <1>2, <2>3, <2>9 DEF KernelsInv
<1>3. CASE l.op \notin RowOps
  <2>1. pc' = pc
    BY <1>3 DEF Launch
  <2>2. pc = <<>>
    BY <1>1 DEF KernelsInv, NoLaunch, RowOps
  <2>3. QED
    BY <1>1, <1>3, <2>1, <2>2 DEF KernelsInv
<1>4. QED
  BY <1>2, <1>3

\* One step of the kernels.
LEMMA KernelSteps == KernelAssumption /\ KernelsInv /\ [KernelsNext]_kvars => KernelsInv'
<1> SUFFICES ASSUME KernelAssumption, KernelsInv, [KernelsNext]_kvars PROVE KernelsInv'
  OBVIOUS
<1>1. ASSUME NEW l \in Launches, Launch(l) PROVE KernelsInv'
  BY <1>1, LaunchHolds
<1>2. ASSUME NEW w \in DOMAIN pc, Step(w) PROVE KernelsInv'
  <2>1. launch.op \in RowOps
    BY <1>2 DEF Step, Put, Sync, AllSlots, FirstOnly, Lead, ReadTotal, Use, Runs
  <2>2. launch' = launch /\ tgroup' = tgroup
    BY <1>2 DEF Step, Put, Sync, AllSlots, FirstOnly, Lead, ReadTotal, Use
  <2>3. RowHolds(launch, tgroup, pc', sum', shared')
    BY <1>2, <2>1, PutKeeps, WaitKeeps, AllSlotsKeeps, FirstOnlyKeeps, LeadKeeps, ReadTotalKeeps DEF Step
  <2>4. QED
    BY <2>1, <2>2, <2>3 DEF KernelsInv
<1>3. ASSUME Finish PROVE KernelsInv'
  <2>1. launch' = NoLaunch /\ pc' = <<>>
    BY <1>3 DEF Finish
  <2>2. QED
    BY <2>1 DEF KernelsInv, NoLaunch, RowOps
<1>4. ASSUME UNCHANGED kvars PROVE KernelsInv'
  BY <1>4 DEF kvars, KernelsInv, RowHolds, RowTypes, InStep, SlotsHold, Stays, SumsHold
<1>5. QED
  BY <1>1, <1>2, <1>3, <1>4 DEF KernelsNext

LEMMA KernelsStart == KernelsInit => KernelsInv
BY DEF KernelsInit, KernelsInv, NoLaunch, RowOps

\* Of a row that fits, the one sum a group with columns may have is the whole row's.
LEMMA FitSums ==
  ASSUME KernelAssumption, NEW l \in Launches, l.op \in RowOps, RowFits(l), NEW g \in Workgroups(l),
         NEW w \in 0 .. Wide(l, g) - 1, Columns(l, g, w) # {}, NEW p \in 1 .. Passes(l), NEW s \in Sums(l, g, p, w)
  PROVE  s = WholeRow(l, p)
<1>1. l.dims[1] \in Nat \ {0} /\ l.dims[2] \in Nat \ {0} /\ Warps \in Nat \ {0}
  BY RowShape DEF KernelAssumption
<1>2. CASE l.op = "cuda_norm"
  <2>1. Wide(l, g) = 1
    BY <1>1, <1>2 DEF RowFits, Wide, MetalOps, CudaBlock
  <2>2. w = 0
    BY <2>1
  <2>3. QED
    BY <1>2, <2>2, OtherSums
<1>3. CASE l.op = "cuda_channel"
  BY <1>3, OtherSums
<1>4. CASE l.op = "vulkan_softmax"
  <2>1. /\ l.dims[1] = 1 /\ Wide(l, g) = Warps
        /\ Columns(l, g, w) = {c \in 0 .. l.dims[1] - 1 : c % Wide(l, g) = w}
    BY <1>4, RowGroups DEF RowFits, Wide, MetalOps
  <2>2. 0 % Warps = 0
    BY <1>1
  <2>3. w = 0
    BY <2>1, <2>2
  <2>4. 0 \notin Ahead(l, g, p, w)
    BY <2>3 DEF Ahead
  <2>5. QED
    BY <1>4, <2>4, OtherSums
<1>5. CASE l.op \in MetalOps
  <2>1. l.dims[1] <= Warps
    <3>1. l.op \in {"metal_norm", "metal_softmax"} => l.dims[1] <= Warps
      BY DEF RowFits
    <3>2. l.op = "metal_attention" => l.dims[1] = 1 \/ l.dims[1] <= Warps
      BY DEF RowFits
    <3>3. 1 <= Warps
      BY <1>1
    <3>4. QED
      BY <1>5, <3>1, <3>2, <3>3 DEF MetalOps
  <2>2. Wide(l, g) = l.dims[1]
    BY <1>5, <2>1, RowGroups
  <2>3. Ahead(l, g, p, w) = {}
    <3>1. CASE l.op = "metal_attention" /\ l.dims[1] # 1
      <4>1. Passes(l) = 1
        BY <3>1 DEF RowFits, Passes
      <4>2. ~ (p < Passes(l))
        BY <4>1
      <4>3. QED
        BY <4>2 DEF Ahead
    <3>2. CASE l.op = "metal_attention" /\ l.dims[1] = 1
      <4>1. Members(l, g) = 0 .. 0 /\ w = 0
        BY <2>2, <3>2, RowGroups
      <4>2. QED
        BY <4>1 DEF Ahead
    <3>3. CASE l.op # "metal_attention"
      BY <1>5, <3>3 DEF Ahead, MetalOps
    <3>4. QED
      BY <3>1, <3>2, <3>3
  <2>4. s = Added(l, g, p, {})
    <3>1. Sums(l, g, p, w) = {Added(l, g, p, ahead) : ahead \in SUBSET Ahead(l, g, p, w)}
      BY <1>5, MetalSums
    <3>2. SUBSET Ahead(l, g, p, w) = {{}}
      BY <2>3
    <3>3. QED
      BY <3>1, <3>2
  <2>5. Added(l, g, p, {}) = UNION {Own(l, g, p, v) : v \in 0 .. Wide(l, g) - 1}
    <3>1. ~ (l.dims[1] > Warps)
      BY <1>1, <2>1
    <3>2. Members(l, g) = 0 .. Wide(l, g) - 1
      BY RowGroups
    <3>3. QED
      BY <3>1, <3>2 DEF Added
  <2>6. QED
    BY <2>1, <2>4, <2>5, OwnAll
<1>6. QED
  BY <1>2, <1>3, <1>4, <1>5 DEF RowOps, MetalOps

\* Before the last step of a pass, and so where it is used, a sum is one it may be.
LEMMA InvComputes ==
  ASSUME KernelAssumption, KernelsInv PROVE Computed
<1>1. CASE launch \in Launches
  <2>1. Covered /\ Agrees
    BY <1>1, LaunchCovers, LaunchAgrees
  <2>2. ASSUME NEW w \in DOMAIN pc, pc[w] <= LastStep(launch), At(launch, pc[w]) = "use"
        PROVE  sum[w] \in Sums(launch, tgroup, PassOf(launch, pc[w]), w)
    <3>1. launch.op \in RowOps
      <4>1. ASSUME launch.op \notin RowOps PROVE FALSE
        <5>1. pc = <<>>
          BY <4>1 DEF KernelsInv
        <5>2. QED
          BY <2>2, <5>1
      <4>2. QED
        BY <4>1
    <3>2. SumsHold(launch, tgroup, pc, sum)
          /\ pc \in [0 .. Wide(launch, tgroup) - 1 -> 1 .. LastStep(launch) + 1]
      BY <3>1 DEF KernelsInv, RowHolds, RowTypes
    <3>3. LastStep(launch) \in Nat
      BY <1>1, <3>1, PassCount DEF LastStep, Body, RowOps, MetalOps, CudaNorm, CudaChannel, MetalReduce, VulkanReduce
    <3>4. w \in 0 .. Wide(launch, tgroup) - 1 /\ pc[w] \in 1 .. LastStep(launch)
      BY <2>2, <3>2, <3>3
    <3>5. /\ PassOf(launch, pc[w]) \in 1 .. Passes(launch)
          /\ pc[w] = PutAt(launch, PassOf(launch, pc[w])) + Size(launch) - 1
      BY <1>1, <2>2, <3>1, <3>4, StepAt
    <3>6. QED
      BY <3>2, <3>4, <3>5 DEF SumsHold
  <2>3. ASSUME launch.op \in RowOps, RowFits(launch) PROVE RowWide
    <3>1. ASSUME NEW w \in DOMAIN pc, pc[w] <= LastStep(launch), At(launch, pc[w]) = "use",
                 Columns(launch, tgroup, w) # {}
          PROVE  sum[w] = WholeRow(launch, PassOf(launch, pc[w]))
      <4>1. w \in 0 .. Wide(launch, tgroup) - 1 /\ tgroup \in Workgroups(launch)
        BY <2>3, RowArrays
      <4>2. QED
        <5>1. sum[w] \in Sums(launch, tgroup, PassOf(launch, pc[w]), w)
          BY <2>2, <3>1
        <5>2. PassOf(launch, pc[w]) \in 1 .. Passes(launch)
          <6>1. pc \in [0 .. Wide(launch, tgroup) - 1 -> 1 .. LastStep(launch) + 1]
            BY <2>3 DEF KernelsInv, RowHolds, RowTypes
          <6>2. LastStep(launch) \in Nat
            BY <1>1, <2>3, PassCount DEF LastStep, Body, RowOps, MetalOps, CudaNorm, CudaChannel, MetalReduce, VulkanReduce
          <6>3. pc[w] \in 1 .. LastStep(launch)
            BY <3>1, <4>1, <6>1, <6>2
          <6>4. QED
            BY <1>1, <2>3, <6>3, StepAt
        <5>3. QED
          BY <1>1, <2>3, <3>1, <4>1, <5>1, <5>2, FitSums
    <3>2. QED
      BY <3>1 DEF RowWide
  <2>4. QED
    BY <2>1, <2>2, <2>3 DEF Computed, Summed
<1>2. CASE launch = NoLaunch
  <2>1. Covered /\ Agrees
    BY <1>2 DEF Covered, Agrees, NoLaunch, CudaPointwise, MetalPointwise, Gathers, RowOps
  <2>2. pc = <<>>
    BY <1>2 DEF KernelsInv, NoLaunch, RowOps
  <2>3. DOMAIN pc = {} /\ launch.op \notin RowOps
    BY <1>2, <2>2 DEF NoLaunch, RowOps
  <2>4. QED
    BY <2>1, <2>3 DEF Computed, Summed
<1>3. QED
  BY <1>1, <1>2 DEF KernelsInv

\* Computed, of launches of every shape, rows wider than a workgroup and strided
\* operands among them, and for any interleaving of the SIMD groups: every element of
\* the output is written by one thread that computed it; the operands are those of
\* the CPU backend exactly where Astray does not name the launch; a row that fits is
\* scaled by the sum over all of it, any other by one of the sums of Sums and no other.
THEOREM KernelsCompute == KernelAssumption => (KernelsSpec => []Computed)
<1> SUFFICES ASSUME KernelAssumption PROVE KernelsSpec => []Computed
  OBVIOUS
<1>1. KernelsInv /\ [KernelsNext]_kvars => KernelsInv'
  BY KernelSteps
<1>2. KernelsInv => Computed
  BY InvComputes
<1>3. QED
  BY <1>1, <1>2, KernelsStart, PTL DEF KernelsSpec

-----------------------------------------------------------------------------
\* Induction, for a set of numbers.
LEMMA AllNumbers ==
  ASSUME NEW S, 0 \in S, \A n \in Nat : n \in S => n + 1 \in S
  PROVE  Nat \subseteq S
<1> DEFINE Bad == Nat \ S
<1>1. SUFFICES ASSUME Bad # {} PROVE FALSE
  OBVIOUS
<1>2. PICK x \in Bad : \A y \in Bad : ~ (<<y, x>> \in OpToRel(<, Nat))
  BY <1>1, WFMin, NatLessThanWellFounded
<1>3. \A a, b \in Nat : a < b => <<a, b>> \in OpToRel(<, Nat)
  BY DEF OpToRel
<1>4. x \in Nat /\ x # 0
  OBVIOUS
<1>5. x - 1 \in Nat /\ x - 1 < x /\ (x - 1) + 1 = x
  BY <1>4
<1>6. x - 1 \notin Bad
  BY <1>2, <1>3, <1>4, <1>5, Zenon
<1>7. x \in S
  BY <1>4, <1>5, <1>6
<1>8. QED
  BY <1>7

-----------------------------------------------------------------------------
(* What FlattenSeq does to sequences of one length. *)

\* The first n of the sequences s, one after the other.
Joined(s, n, f) ==
  /\ DOMAIN f = 1 .. n
  /\ \A i \in 1 .. n : f[i] = IF i = 1 THEN s[i] ELSE f[i - 1] \o s[i]

LEMMA JoinedExists ==
  ASSUME NEW s, NEW n \in Nat
  PROVE  \E f : f = [i \in 1 .. n |-> IF i = 1 THEN s[i] ELSE f[i - 1] \o s[i]]
<1> DEFINE Good == {m \in Nat : \E f : f = [i \in 1 .. m |-> IF i = 1 THEN s[i] ELSE f[i - 1] \o s[i]]}
<1>1. 0 \in Good
  <2>1. \A f : [i \in 1 .. 0 |-> IF i = 1 THEN s[i] ELSE f[i - 1] \o s[i]] = <<>>
    OBVIOUS
  <2>2. QED
    BY <2>1
<1>2. ASSUME NEW m \in Nat, m \in Good PROVE m + 1 \in Good
  <2>1. PICK f : f = [i \in 1 .. m |-> IF i = 1 THEN s[i] ELSE f[i - 1] \o s[i]]
    BY <1>2
  <2> DEFINE g == [i \in 1 .. m + 1 |-> IF i = m + 1 THEN IF i = 1 THEN s[i] ELSE f[m] \o s[i]
                                         ELSE f[i]]
  <2>2. ASSUME NEW i \in 1 .. m + 1
        PROVE  g[i] = IF i = 1 THEN s[i] ELSE g[i - 1] \o s[i]
    <3>1. CASE i = m + 1
      <4>1. m # 0 => m \in 1 .. m + 1 /\ m # m + 1
        OBVIOUS
      <4>2. m # 0 => g[m] = f[m]
        BY <4>1
      <4>3. g[i] = IF i = 1 THEN s[i] ELSE f[m] \o s[i]
        BY <3>1
      <4>4. i - 1 = m
        BY <3>1
      <4>5. i # 1 => m # 0
        BY <3>1
      <4>6. QED
        BY <4>2, <4>3, <4>4, <4>5, Zenon
    <3>2. CASE i # m + 1
      <4>1. i \in 1 .. m
        BY <3>2
      <4>2. g[i] = f[i]
        BY <3>2
      <4>3. f[i] = IF i = 1 THEN s[i] ELSE f[i - 1] \o s[i]
        BY <2>1, <4>1, Zenon
      <4>4. i # 1 => i - 1 \in 1 .. m + 1 /\ i - 1 # m + 1
        BY <4>1
      <4>5. i # 1 => g[i - 1] = f[i - 1]
        BY <4>4
      <4>6. QED
        BY <4>2, <4>3, <4>5, Zenon
    <3>3. QED
      BY <3>1, <3>2
  <2>3. g = [i \in 1 .. m + 1 |-> g[i]]
    OBVIOUS
  <2> HIDE DEF g
  <2>4. [i \in 1 .. m + 1 |-> g[i]] = [i \in 1 .. m + 1 |-> IF i = 1 THEN s[i] ELSE g[i - 1] \o s[i]]
    BY <2>2, Zenon
  <2>5. g = [i \in 1 .. m + 1 |-> IF i = 1 THEN s[i] ELSE g[i - 1] \o s[i]]
    BY <2>3, <2>4, Zenon
  <2>6. m + 1 \in Nat
    OBVIOUS
  <2>7. QED
    BY <2>5, <2>6, Zenon
<1>3. Nat \subseteq Good
  <2> HIDE DEF Good
  <2>1. QED
    BY <1>1, <1>2, AllNumbers, Zenon
<1>4. QED
  BY <1>3

LEMMA FlattenIs ==
  ASSUME NEW s, NEW n \in Nat, Len(s) = n, n # 0
  PROVE  \E f : Joined(s, n, f) /\ FlattenSeq(s) = f[n]
<1> DEFINE flat == CHOOSE f : f = [i \in 1 .. n |-> IF i = 1 THEN s[i] ELSE f[i - 1] \o s[i]]
<1>1. flat = [i \in 1 .. n |-> IF i = 1 THEN s[i] ELSE flat[i - 1] \o s[i]]
  BY JoinedExists, Zenon
<1>2. FlattenSeq(s) = flat[n]
  BY DEF FlattenSeq
<1> HIDE DEF flat
<1>3. Joined(s, n, flat)
  BY <1>1 DEF Joined
<1>4. QED
  BY <1>2, <1>3

\* Where element j of the i-th part is, when the parts have length k.
Place(i, k, j) == (i - 1) * k + j

LEMMA Placed ==
  ASSUME NEW k \in Nat, NEW m \in Nat, NEW i \in 1 .. m, NEW j \in 1 .. k
  PROVE  Place(i, k, j) \in 1 .. m * k /\ Place(m + 1, k, j) = m * k + j
<1>1. m * k = (i - 1) * k + k + (m - i) * k
  OBVIOUS
<1>2. (i - 1) * k \in Nat /\ (m - i) * k \in Nat /\ m * k \in Nat
  OBVIOUS
<1>3. (i - 1) * k + j \in 1 .. m * k
  BY <1>1, <1>2
<1>4. (m + 1) - 1 = m
  OBVIOUS
<1>5. QED
  BY <1>3, <1>4, Zenon DEF Place

\* r holds the first m sequences of s, of length k.
Holds(T, k, s, m, r) ==
  /\ r \in Seq(T) /\ Len(r) = m * k
  /\ \A i \in 1 .. m, j \in 1 .. k : r[Place(i, k, j)] = s[i][j]

\* One more.
LEMMA HoldsMore ==
  ASSUME NEW T, NEW k \in Nat, NEW s, NEW m \in Nat, NEW r, Holds(T, k, s, m, r),
         s[m + 1] \in Seq(T), Len(s[m + 1]) = k
  PROVE  Holds(T, k, s, m + 1, r \o s[m + 1])
<1> DEFINE q == r \o s[m + 1]
<1>1. r \in Seq(T) /\ Len(r) = m * k
  BY DEF Holds
<1>2. m * k \in Nat /\ (m + 1) * k = m * k + k
  OBVIOUS
<1>3. /\ q \in Seq(T) /\ Len(q) = (m + 1) * k
      /\ \A x \in 1 .. m * k + k : q[x] = IF x <= m * k THEN r[x] ELSE s[m + 1][x - m * k]
  <2>1. /\ q \in Seq(T) /\ Len(q) = Len(r) + Len(s[m + 1])
        /\ \A x \in 1 .. Len(r) + Len(s[m + 1]) : q[x] = IF x <= Len(r) THEN r[x] ELSE s[m + 1][x - Len(r)]
    BY <1>1, ConcatProperties, Zenon
  <2>2. QED
    BY <1>1, <1>2, <2>1
<1> HIDE DEF q
<1>4. ASSUME NEW i \in 1 .. m + 1, NEW j \in 1 .. k
      PROVE  q[Place(i, k, j)] = s[i][j]
  <2>1. CASE i \in 1 .. m
    <3>1. Place(i, k, j) \in 1 .. m * k
      BY <2>1, Placed
    <3>2. q[Place(i, k, j)] = r[Place(i, k, j)]
      <4> HIDE DEF Place
      <4>1. Place(i, k, j) \in 1 .. m * k + k /\ Place(i, k, j) <= m * k
        BY <1>2, <3>1
      <4>2. QED
        BY <1>3, <4>1, Zenon
    <3>3. QED
      BY <2>1, <3>2, Zenon DEF Holds
  <2>2. CASE i = m + 1
    <3>1. Place(i, k, j) = m * k + j
      BY <2>2 DEF Place
    <3>2. /\ m * k + j \in 1 .. m * k + k /\ ~ (m * k + j <= m * k)
          /\ (m * k + j) - m * k = j
      BY <1>2
    <3>3. q[m * k + j] = s[m + 1][j]
      BY <1>3, <3>2, Zenon
    <3>4. QED
      BY <2>2, <3>1, <3>3, Zenon
  <2>3. QED
    BY <2>1, <2>2
<1>5. QED
  BY <1>3, <1>4, Zenon DEF Holds, q

LEMMA FlattenEven ==
  ASSUME NEW T, NEW k \in Nat, NEW s \in Seq(Seq(T)),
         \A i \in 1 .. Len(s) : Len(s[i]) = k
  PROVE  Holds(T, k, s, Len(s), FlattenSeq(s))
<1> DEFINE n == Len(s)
<1>0. n \in Nat /\ \A i \in 1 .. n : s[i] \in Seq(T)
  BY ElementOfSeq, LenProperties
<1>1. CASE n = 0
  <2>1. s = <<>>
    BY <1>1, EmptySeq
  <2>2. FlattenSeq(s) = <<>>
    BY <1>1, <2>1 DEF FlattenSeq
  <2>3. <<>> \in Seq(T) /\ Len(<<>>) = 0 * k
    OBVIOUS
  <2>4. QED
    BY <1>1, <2>2, <2>3 DEF Holds
<1>2. CASE n # 0
  <2> HIDE DEF n
  <2>1. PICK f : Joined(s, n, f) /\ FlattenSeq(s) = f[n]
    BY <1>0, <1>2, FlattenIs, Zenon DEF n
  <2> DEFINE Good == {m \in Nat : m \in 1 .. n => Holds(T, k, s, m, f[m])}
  <2>2. 0 \in Good
    OBVIOUS
  <2>3. ASSUME NEW m \in Nat, m \in Good PROVE m + 1 \in Good
    <3>1. SUFFICES ASSUME m + 1 \in 1 .. n PROVE Holds(T, k, s, m + 1, f[m + 1])
      OBVIOUS
    <3>2. s[m + 1] \in Seq(T) /\ Len(s[m + 1]) = k
      BY <1>0, <3>1 DEF n
    <3>3. CASE m = 0
      <4>0. m + 1 = 1
        BY <3>3
      <4>1. f[1] = s[1]
        BY <2>1, <3>1, <4>0, Zenon DEF Joined
      <4>2. ASSUME NEW i \in 1 .. 1, NEW j \in 1 .. k PROVE s[1][Place(i, k, j)] = s[i][j]
        <5>1. i = 1 /\ (1 - 1) * k + j = j
          OBVIOUS
        <5>2. QED
          BY <5>1, Zenon DEF Place
      <4>3. Len(s[1]) = 1 * k /\ s[1] \in Seq(T)
        BY <3>2, <3>3
      <4>4. Holds(T, k, s, 1, f[1])
        BY <4>1, <4>2, <4>3, Zenon DEF Holds
      <4>5. QED
        BY <4>0, <4>4, Zenon
    <3>4. CASE m # 0
      <4>1. m \in 1 .. n /\ m + 1 # 1 /\ (m + 1) - 1 = m
        BY <1>0, <3>1, <3>4
      <4>2. Holds(T, k, s, m, f[m])
        BY <2>3, <4>1, Zenon
      <4>3. f[m + 1] = f[m] \o s[m + 1]
        BY <2>1, <3>1, <4>1, Zenon DEF Joined
      <4>4. QED
        BY <3>2, <4>2, <4>3, HoldsMore, Zenon
    <3>5. QED
      BY <3>3, <3>4
  <2>4. n \in Good
    <3> HIDE DEF Good
    <3>1. QED
      BY <1>0, <2>2, <2>3, AllNumbers, Zenon
  <2>5. n \in 1 .. n
    BY <1>0, <1>2
  <2>6. QED
    BY <2>1, <2>4, <2>5, Zenon DEF n
<1>3. QED
  BY <1>1, <1>2

-----------------------------------------------------------------------------
(* The files of a format. *)

Owners(f)  == IF Stacked(f) THEN {All} ELSE Experts
Tensors(f) == {Name(p, e, part) : p \in ToSet(Projs), e \in Owners(f), part \in Parts(f)}

LEMMA PartSeqIs ==
  ASSUME NEW f
  PROVE  /\ Len(PartSeq(f)) \in {1, 3} /\ DOMAIN PartSeq(f) = 1 .. Len(PartSeq(f))
         /\ \A x \in 1 .. Len(PartSeq(f)) : PartSeq(f)[x] \in Parts(f)
<1>1. CASE f = "gptq"
  BY <1>1 DEF PartSeq, Parts, ToSet
<1>2. CASE f = "affine"
  BY <1>2 DEF PartSeq, Parts, ToSet
<1>3. CASE f # "gptq" /\ f # "affine"
  BY <1>3 DEF PartSeq, Parts, ToSet
<1>4. QED
  BY <1>1, <1>2, <1>3

LEMMA NamesFit ==
  ASSUME ExpertAssumption, NEW f
  PROVE  Names(f) \in Seq(Tensors(f)) /\ Len(Names(f)) \in Nat \ {0}
<1> DEFINE whose == IF Stacked(f) THEN <<All>> ELSE [i \in 1 .. NumExperts |-> i - 1]
           T == Tensors(f)
           k == Len(PartSeq(f))
           group(p, e) == [x \in DOMAIN PartSeq(f) |-> Name(Projs[p], whose[e], PartSeq(f)[x])]
           proj(p) == [e \in DOMAIN whose |-> group(p, e)]
           n == Len(whose)
<1>1. n \in Nat \ {0} /\ DOMAIN whose = 1 .. n /\ \A e \in 1 .. n : whose[e] \in Owners(f)
  <2>1. CASE Stacked(f)
    BY <2>1 DEF Owners
  <2>2. CASE ~ Stacked(f)
    BY <2>2 DEF ExpertAssumption, Owners, Experts
  <2>3. QED
    BY <2>1, <2>2
<1>2. k \in Nat \ {0} /\ DOMAIN PartSeq(f) = 1 .. k
  BY PartSeqIs
<1>3. Names(f) = FlattenSeq([p \in 1 .. 3 |-> FlattenSeq(proj(p))])
  BY DEF Names
<1> HIDE DEF whose, n, k
<1>4. ASSUME NEW p \in 1 .. 3, NEW e \in 1 .. n
      PROVE  group(p, e) \in Seq(T) /\ Len(group(p, e)) = k
  <2>1. Projs[p] \in ToSet(Projs)
    BY DEF Projs, ToSet
  <2>2. \A x \in 1 .. k : Name(Projs[p], whose[e], PartSeq(f)[x]) \in T
    <3>1. \A x \in 1 .. k : PartSeq(f)[x] \in Parts(f)
      BY PartSeqIs DEF k
    <3>2. \A a \in ToSet(Projs), b \in Owners(f), c \in Parts(f) : Name(a, b, c) \in T
      BY DEF Tensors
    <3> HIDE DEF T
    <3>3. QED
      BY <1>1, <2>1, <3>1, <3>2, Zenon
  <2>3. group(p, e) = [x \in 1 .. k |-> Name(Projs[p], whose[e], PartSeq(f)[x])]
    BY <1>2
  <2> HIDE DEF T
  <2>4. QED
    BY <1>2, <2>2, <2>3
<1>5. ASSUME NEW p \in 1 .. 3
      PROVE  FlattenSeq(proj(p)) \in Seq(T) /\ Len(FlattenSeq(proj(p))) = n * k
  <2> HIDE DEF T, group
  <2>1. proj(p) = [e \in 1 .. n |-> group(p, e)]
    BY <1>1, Zenon
  <2>2. \A e \in 1 .. n : group(p, e) \in Seq(T) /\ Len(group(p, e)) = k
    BY <1>4, Zenon
  <2> HIDE DEF proj
  <2>3. proj(p) \in Seq(Seq(T)) /\ Len(proj(p)) = n
        /\ \A e \in 1 .. n : Len(proj(p)[e]) = k
    BY <1>1, <2>1, <2>2
  <2>4. Holds(T, k, proj(p), n, FlattenSeq(proj(p)))
    BY <1>2, <2>3, FlattenEven
  <2>5. QED
    BY <2>4 DEF Holds
<1> DEFINE per == [p \in 1 .. 3 |-> FlattenSeq(proj(p))]
<1>6. /\ per \in Seq(Seq(T)) /\ Len(per) = 3
      /\ \A p \in 1 .. 3 : Len(per[p]) = n * k
  <2> HIDE DEF proj, T
  <2>1. QED
    BY <1>5
<1> HIDE DEF per, proj, T, group
<1>7. n * k \in Nat \ {0}
  BY <1>1, <1>2
<1>8. Holds(T, n * k, per, 3, FlattenSeq(per))
  BY <1>6, <1>7, FlattenEven
<1>9. FlattenSeq(per) \in Seq(T) /\ Len(FlattenSeq(per)) = 3 * (n * k)
  BY <1>8 DEF Holds
<1>10. Names(f) = FlattenSeq(per)
  BY <1>3 DEF per
<1>11. QED
  BY <1>7, <1>9, <1>10 DEF T

LEMMA FilesFit ==
  ASSUME ExpertAssumption, NEW f, NEW w \in {"whole", "split", "torn"},
         NEW s \in DOMAIN Files(f)[w]
  PROVE  Files(f)[w][s] \in Seq(Tensors(f))
<1> DEFINE names == Names(f)
           half == Len(names) \div 2
           T == Tensors(f)
<1>1. names \in Seq(T) /\ Len(names) \in Nat \ {0} /\ names # <<>>
  BY NamesFit, EmptySeq
<1>2. Files(f) = [whole |-> <<names>>,
                  split |-> <<SubSeq(names, 1, half), SubSeq(names, half + 1, Len(names))>>,
                  torn  |-> <<Tail(names)>>]
  BY DEF Files
<1> HIDE DEF names, T
<1>3. CASE w = "whole"
  BY <1>1, <1>2, <1>3 DEF T
<1>4. CASE w = "torn"
  <2>1. Tail(names) \in Seq(T)
    BY <1>1, HeadTailProperties
  <2>2. Files(f)[w] = <<Tail(names)>>
    BY <1>2, <1>4
  <2>3. Files(f)[w][s] = Tail(names)
    BY <2>2
  <2>4. QED
    BY <2>1, <2>3, Zenon DEF T
<1>5. CASE w = "split"
  <2>1. half \in 0 .. Len(names)
    BY <1>1
  <2> HIDE DEF half
  <2>2. \A i \in 1 .. Len(names) : names[i] \in T
    BY <1>1, ElementOfSeq
  <2>3. \A i \in 1 .. half : names[i] \in T
    BY <1>1, <2>1, <2>2
  <2>4. \A i \in half + 1 .. Len(names) : names[i] \in T
    BY <1>1, <2>1, <2>2
  <2>5. SubSeq(names, 1, half) \in Seq(T)
    BY <1>1, <2>1, <2>3, SubSeqProperties
  <2>6. SubSeq(names, half + 1, Len(names)) \in Seq(T)
    BY <1>1, <2>1, <2>4, SubSeqProperties
  <2>7. Files(f)[w] = <<SubSeq(names, 1, half), SubSeq(names, half + 1, Len(names))>>
    BY <1>2, <1>5
  <2>8. Files(f)[w][s] \in {SubSeq(names, 1, half), SubSeq(names, half + 1, Len(names))}
    BY <2>7
  <2>9. QED
    BY <2>5, <2>6, <2>8, Zenon DEF T
<1>6. QED
  BY <1>3, <1>4, <1>5

-----------------------------------------------------------------------------
(* Where a tensor is in its shard. *)

\* Cells of a tensor.
Span(f)    == IF Stacked(f) THEN NumExperts ELSE 1
CellSet(f) == {Name(p, e, part) : p \in ToSet(Projs), e \in Experts, part \in Parts(f)}

LEMMA WideIs ==
  ASSUME ExpertAssumption, NEW f
  PROVE  Span(f) \in Nat \ {0}
  BY DEF ExpertAssumption, Span

LEMMA CellsFit ==
  ASSUME ExpertAssumption, NEW f, NEW n \in Tensors(f)
  PROVE  /\ Cells(n) \in Seq(CellSet(f)) /\ Len(Cells(n)) = Span(f)
         /\ Stacked(f) => \A i \in Experts : Cells(n)[i + 1] = Name(n[1], i, n[3])
         /\ ~ Stacked(f) => Cells(n) = <<n>>
<1>1. PICK p \in ToSet(Projs), e \in Owners(f), part \in Parts(f) : n = Name(p, e, part)
  BY DEF Tensors
<1>2. n[1] = p /\ n[2] = e /\ n[3] = part
  BY <1>1 DEF Name
<1>3. NumExperts \in Nat \ {0}
  BY DEF ExpertAssumption
<1>4. \A i \in Experts : Name(p, i, part) \in CellSet(f)
  BY DEF CellSet
<1>5. CASE Stacked(f)
  <2>1. e = All
    BY <1>5 DEF Owners
  <2>2. Cells(n) = [i \in 1 .. NumExperts |-> Name(p, i - 1, part)]
    BY <1>2, <2>1, Zenon DEF Cells
  <2>3. \A i \in 1 .. NumExperts : Name(p, i - 1, part) \in CellSet(f)
    <3>1. \A i \in 1 .. NumExperts : i - 1 \in Experts
      BY <1>3 DEF Experts
    <3>2. QED
      BY <1>4, <3>1, Zenon
  <2>4. Cells(n) \in Seq(CellSet(f)) /\ Len(Cells(n)) = NumExperts
    BY <1>3, <2>2, <2>3
  <2>5. ASSUME NEW i \in Experts PROVE Cells(n)[i + 1] = Name(p, i, part)
    <3>1. i + 1 \in 1 .. NumExperts /\ (i + 1) - 1 = i
      BY <1>3 DEF Experts
    <3>2. Cells(n)[i + 1] = Name(p, (i + 1) - 1, part)
      BY <2>2, <3>1, Zenon
    <3>3. QED
      BY <3>1, <3>2, Zenon
  <2>6. QED
    BY <1>2, <1>5, <2>4, <2>5, Zenon DEF Span
<1>6. CASE ~ Stacked(f)
  <2>1. e \in Experts
    BY <1>6 DEF Owners
  <2>2. e # All
    BY <1>3, <2>1 DEF Experts, All
  <2>3. Cells(n) = <<n>>
    BY <1>2, <2>2 DEF Cells
  <2>4. n \in CellSet(f)
    BY <1>1, <1>4, <2>1
  <2>5. Cells(n) \in Seq(CellSet(f)) /\ Len(Cells(n)) = 1
    BY <2>3, <2>4
  <2>6. QED
    BY <1>6, <2>3, <2>5 DEF Span
<1>7. QED
  BY <1>5, <1>6

LEMMA DataFits ==
  ASSUME ExpertAssumption, NEW f, NEW names \in Seq(Tensors(f))
  PROVE  Holds(CellSet(f), Span(f), [i \in DOMAIN names |-> Cells(names[i])], Len(names), Data(names))
<1> DEFINE s == [i \in DOMAIN names |-> Cells(names[i])]
           C == CellSet(f)
           k == Span(f)
<1>1. Len(names) \in Nat /\ DOMAIN names = 1 .. Len(names)
      /\ \A i \in 1 .. Len(names) : names[i] \in Tensors(f)
  BY LenProperties, ElementOfSeq
<1>2. k \in Nat
  BY WideIs
<1>3. \A i \in 1 .. Len(names) : Cells(names[i]) \in Seq(C) /\ Len(Cells(names[i])) = k
  BY <1>1, CellsFit
<1> HIDE DEF C, k
<1>4. s = [i \in 1 .. Len(names) |-> Cells(names[i])]
  BY <1>1, Zenon
<1> HIDE DEF s
<1>5. s \in Seq(Seq(C)) /\ Len(s) = Len(names) /\ \A i \in 1 .. Len(s) : Len(s[i]) = k
  BY <1>1, <1>3, <1>4
<1>6. Holds(C, k, s, Len(names), FlattenSeq(s))
  <2>1. Holds(C, k, s, Len(s), FlattenSeq(s))
    BY <1>2, <1>5, FlattenEven
  <2>2. QED
    BY <1>5, <2>1, Zenon
<1>7. QED
  BY <1>6, Zenon DEF Data, s, C, k

\* The data of a tensor starts where its entry says, and are its cells.
LEMMA ShardAt ==
  ASSUME ExpertAssumption, NEW f, NEW names \in Seq(Tensors(f)), NEW i \in 1 .. Len(names),
         NEW j \in 1 .. Span(f)
  PROVE  TensorAt(names, i) \in Nat /\ Shard(names)[TensorAt(names, i) + j] = Cells(names[i])[j]
<1> DEFINE T == Tensors(f)
           C == CellSet(f)
           k == Span(f)
           n == Len(names)
           head == [x \in 1 .. Header(names) |-> None]
           data == Data(names)
<1>1. n \in Nat /\ k \in Nat \ {0} /\ DOMAIN names = 1 .. n /\ \A x \in 1 .. n : names[x] \in T
  BY WideIs, LenProperties, ElementOfSeq
<1>2. /\ data \in Seq(C) /\ Len(data) = n * k
      /\ data[Place(i, k, j)] = Cells(names[i])[j]
  <2>1. /\ data \in Seq(C) /\ Len(data) = n * k
        /\ \A x \in 1 .. n, y \in 1 .. k : data[Place(x, k, y)] = [z \in DOMAIN names |-> Cells(names[z])][x][y]
    <3> DEFINE s == [z \in DOMAIN names |-> Cells(names[z])]
    <3>1. Holds(C, k, s, n, data)
      BY DataFits
    <3> HIDE DEF s, C, k, n, data
    <3>2. /\ data \in Seq(C) /\ Len(data) = n * k
          /\ \A x \in 1 .. n, y \in 1 .. k : data[Place(x, k, y)] = s[x][y]
      BY <3>1, Zenon DEF Holds
    <3>3. QED
      BY <3>2, Zenon DEF s
  <2>2. [z \in DOMAIN names |-> Cells(names[z])][i] = Cells(names[i])
    BY <1>1
  <2>3. QED
    BY <2>1, <2>2, Zenon
<1>3. Len(Data(SubSeq(names, 1, i - 1))) = (i - 1) * k
  <2> DEFINE before == SubSeq(names, 1, i - 1)
  <2>1. before \in Seq(T) /\ Len(before) = i - 1
    <3> HIDE DEF T
    <3>1. \A x \in 1 .. i - 1 : names[x] \in T
      BY <1>1
    <3>2. QED
      BY <1>1, <3>1, SubSeqProperties
  <2> HIDE DEF before
  <2>2. Len(Data(before)) = Len(before) * k
    BY <2>1, DataFits, Zenon DEF Holds
  <2>3. QED
    BY <2>1, <2>2, Zenon DEF before
<1>4. TensorAt(names, i) = 1 + n + (i - 1) * k
  BY <1>3 DEF TensorAt, Header
<1>5. Place(i, k, j) = (i - 1) * k + j /\ Place(i, k, j) \in 1 .. n * k
  <2>1. j \in 1 .. k
    OBVIOUS
  <2> HIDE DEF k, n
  <2>2. n \in Nat /\ k \in Nat /\ i \in 1 .. n
    BY <1>1 DEF n
  <2>3. QED
    BY <2>1, <2>2, Placed DEF Place
<1>6. head \in Seq(C \cup {None}) /\ Len(head) = 1 + n
  <2>1. Header(names) = 1 + n
    BY DEF Header
  <2> HIDE DEF n
  <2>2. QED
    BY <1>1, <2>1
<1>7. data \in Seq(C \cup {None})
  <2> HIDE DEF data, C
  <2>1. QED
    BY <1>2, SeqMonotonic
<1> HIDE DEF head, data, C, k, n
<1> DEFINE q == Place(i, k, j)
<1>8. (head \o data)[1 + n + q] = data[q]
  <2>1. /\ \A x \in 1 .. Len(head) + Len(data) : (head \o data)[x] =
                     IF x <= Len(head) THEN head[x] ELSE data[x - Len(head)]
    BY <1>6, <1>7, ConcatProperties, Zenon
  <2>2. q \in 1 .. Len(data) /\ n \in Nat
    BY <1>1, <1>2, <1>5, Zenon
  <2> HIDE DEF q
  <2>3. Len(data) \in Nat
    BY <1>7, LenProperties
  <2>4. /\ 1 + n + q \in 1 .. Len(head) + Len(data) /\ ~ (1 + n + q <= Len(head))
        /\ (1 + n + q) - Len(head) = q
    BY <1>6, <2>2, <2>3
  <2>5. QED
    BY <2>1, <2>4, Zenon
<1>9. TensorAt(names, i) + j = 1 + n + q /\ TensorAt(names, i) \in Nat
  <2>1. (i - 1) * k \in Nat
    BY <1>1
  <2>2. j \in Nat /\ n \in Nat
    BY <1>1 DEF k
  <2>3. q = (i - 1) * k + j
    BY <1>5
  <2> HIDE DEF q
  <2>4. QED
    BY <1>4, <2>1, <2>2, <2>3
<1>10. Shard(names) = head \o data
  BY Zenon DEF Shard, head, data
<1>11. QED
  BY <1>2, <1>8, <1>9, <1>10, Zenon

-----------------------------------------------------------------------------
(* Reading. *)

\* The index names tensors of the format, each where its shard has it.
Listed(n, names, i) ==
  /\ names[i] = n
  /\ index[n].at = TensorAt(names, i) /\ index[n].size = Len(Cells(n))
  /\ shards[index[n].shard] = Shard(names)
Indexed ==
  \A n \in DOMAIN index :
    /\ n \in Tensors(format)
    /\ \E names \in Seq(Tensors(format)) : \E i \in 1 .. Len(names) : Listed(n, names, i)

LEMMA InitIndexed ==
  ASSUME ExpertAssumption, ExpertInit
  PROVE  Indexed
<1>1. PICK w \in {"whole", "split", "torn"} :
        /\ shards = [s \in DOMAIN Files(format)[w] |-> Shard(Files(format)[w][s])]
        /\ index = FromIndex(Files(format)[w])
  BY DEF ExpertInit
<1> DEFINE files == Files(format)[w]
           T == Tensors(format)
<1>2. \A s \in DOMAIN files : files[s] \in Seq(T)
  BY FilesFit
<1>3. shards = [s \in DOMAIN files |-> Shard(files[s])] /\ index = FromIndex(files)
  BY <1>1
<1> HIDE DEF files, T
<1>4. ASSUME NEW n \in DOMAIN index
      PROVE  n \in T /\ \E names \in Seq(T) : \E i \in 1 .. Len(names) : Listed(n, names, i)
  <2> DEFINE s == CHOOSE s \in DOMAIN files : n \in ToSet(files[s])
             i == CHOOSE i \in DOMAIN files[s] : files[s][i] = n
  <2>1. /\ n \in UNION {ToSet(files[x]) : x \in DOMAIN files}
        /\ index[n] = [shard |-> s, at |-> TensorAt(files[s], i), size |-> Len(Cells(n))]
    BY <1>3 DEF FromIndex
  <2>2. \E x \in DOMAIN files : n \in ToSet(files[x])
    BY <2>1
  <2>3. s \in DOMAIN files /\ n \in ToSet(files[s])
    BY <2>2, Zenon
  <2>4. i \in DOMAIN files[s] /\ files[s][i] = n
    <3> HIDE DEF s
    <3>1. \E x \in DOMAIN files[s] : files[s][x] = n
      BY <2>3 DEF ToSet
    <3>2. QED
      BY <3>1, Zenon
  <2> HIDE DEF s, i
  <2>5. files[s] \in Seq(T) /\ DOMAIN files[s] = 1 .. Len(files[s])
    BY <1>2, <2>3, LenProperties
  <2>6. n \in T
    BY <2>4, <2>5, ElementOfSeq
  <2>7. shards[s] = Shard(files[s])
    BY <1>3, <2>3
  <2>8. index[n].shard = s /\ index[n].at = TensorAt(files[s], i) /\ index[n].size = Len(Cells(n))
    BY <2>1
  <2>9. Listed(n, files[s], i)
    BY <2>4, <2>7, <2>8, Zenon DEF Listed
  <2>10. QED
    BY <2>4, <2>5, <2>6, <2>9, Zenon
<1>5. QED
  BY <1>4, Zenon DEF Indexed, T

LEMMA SliceIs ==
  ASSUME ExpertAssumption, Indexed, NEW n \in DOMAIN index, NEW o \in Nat, NEW l \in Nat \ {0},
         o + l <= Span(format)
  PROVE  /\ n \in Tensors(format)
         /\ Slice(n, o, l) \in Seq(CellSet(format)) /\ Len(Slice(n, o, l)) = l
         /\ \A x \in 1 .. l : Slice(n, o, l)[x] = Cells(n)[o + x]
<1>0. PICK names \in Seq(Tensors(format)) : \E i \in 1 .. Len(names) : Listed(n, names, i)
  BY DEF Indexed
<1>1. PICK i \in 1 .. Len(names) : Listed(n, names, i)
  BY <1>0
<1> DEFINE C == CellSet(format)
           k == Span(format)
           file == Shard(names)
           start == TensorAt(names, i)
           at == start + o
<1>2. n \in Tensors(format)
  BY DEF Indexed
<1>3. k \in Nat /\ Cells(n) \in Seq(C) /\ Len(Cells(n)) = k
  BY <1>2, WideIs, CellsFit
<1>4. names[i] = n /\ Slice(n, o, l) = SubSeq(file, at + 1, at + l)
  BY <1>1, Zenon DEF Slice, Listed
<1>5. \A j \in 1 .. k : start \in Nat /\ file[start + j] = Cells(n)[j]
  BY <1>4, ShardAt
<1> HIDE DEF start, file, C, k
<1>6. 1 \in 1 .. k
  BY <1>3 DEF k
<1>7. start \in Nat
  BY <1>5, <1>6
<1>8. ASSUME NEW x \in 1 .. l
      PROVE  file[at + 1 + x - 1] = Cells(n)[o + x] /\ Cells(n)[o + x] \in C
  <2>1. o + x \in 1 .. k /\ at + 1 + x - 1 = start + (o + x)
    BY <1>3, <1>7 DEF k
  <2>2. Cells(n)[o + x] \in C
    BY <1>3, <2>1, ElementOfSeq
  <2>3. file[start + (o + x)] = Cells(n)[o + x]
    BY <1>5, <2>1, Zenon
  <2>4. QED
    BY <2>1, <2>2, <2>3, Zenon
<1> DEFINE m == at + 1
           z == at + l
<1>9. m \in Int /\ z \in Int /\ z - m + 1 = l /\ m <= z
  BY <1>7
<1>10. \A y \in m .. z : file[y] \in C
  <2>1. SUFFICES ASSUME NEW y \in m .. z PROVE file[y] \in C
    OBVIOUS
  <2>2. y - at \in 1 .. l /\ at + 1 + (y - at) - 1 = y
    BY <1>7, <2>1
  <2>3. QED
    BY <1>8, <2>2, Zenon
<1>11. /\ SubSeq(file, m, z) \in Seq(C) /\ Len(SubSeq(file, m, z)) = l
       /\ \A x \in 1 .. l : SubSeq(file, m, z)[x] = file[m + x - 1]
  <2> HIDE DEF m, z
  <2>1. /\ SubSeq(file, m, z) \in Seq(C)
        /\ Len(SubSeq(file, m, z)) = IF m <= z THEN z - m + 1 ELSE 0
        /\ \A x \in 1 .. z - m + 1 : SubSeq(file, m, z)[x] = file[m + x - 1]
    BY <1>9, <1>10, SubSeqProperties
  <2>2. QED
    BY <1>9, <2>1
<1>12. Slice(n, o, l) = SubSeq(file, m, z)
  BY <1>4
<1>13. \A x \in 1 .. l : file[m + x - 1] = Cells(n)[o + x]
  BY <1>8, Zenon
<1> HIDE DEF m, z
<1>14. QED
  BY <1>2, <1>11, <1>12, <1>13, Zenon DEF C

\* A whole tensor of a format that is not stacked; an expert of one that is.
LEMMA TensorIs ==
  ASSUME ExpertAssumption, Indexed, ~ Stacked(format), NEW n \in DOMAIN index
  PROVE  TensorBytes(n) = <<n>>
<1>0. PICK names \in Seq(Tensors(format)) : \E i \in 1 .. Len(names) : Listed(n, names, i)
  BY DEF Indexed
<1>1. PICK i \in 1 .. Len(names) : Listed(n, names, i)
  BY <1>0
<1>2. n \in Tensors(format)
  BY DEF Indexed
<1>3. Cells(n) = <<n>> /\ Span(format) = 1 /\ Len(Cells(n)) = 1
  BY <1>2, CellsFit DEF Span
<1>4. TensorBytes(n) = Slice(n, 0, 1)
  BY <1>1, <1>3, Zenon DEF TensorBytes, Listed
<1>5. /\ Slice(n, 0, 1) \in Seq(CellSet(format)) /\ Len(Slice(n, 0, 1)) = 1
      /\ \A x \in 1 .. 1 : Slice(n, 0, 1)[x] = Cells(n)[0 + x]
  <2>1. 0 + 1 <= Span(format) /\ 0 \in Nat /\ 1 \in Nat \ {0}
    BY <1>3
  <2>2. QED
    BY <2>1, SliceIs, Zenon
<1>6. QED
  BY <1>3, <1>4, <1>5

LEMMA ExpertSliceIs ==
  ASSUME ExpertAssumption, Indexed, Stacked(format), NEW n \in DOMAIN index, NEW i \in Experts
  PROVE  Slice(n, i, 1) = <<Name(n[1], i, n[3])>>
<1>1. NumExperts \in Nat \ {0} /\ Span(format) = NumExperts
  BY DEF ExpertAssumption, Span
<1>2. i \in Nat /\ 1 \in Nat \ {0} /\ i + 1 <= Span(format)
  BY <1>1 DEF Experts
<1>3. /\ n \in Tensors(format)
      /\ Slice(n, i, 1) \in Seq(CellSet(format)) /\ Len(Slice(n, i, 1)) = 1
      /\ \A x \in 1 .. 1 : Slice(n, i, 1)[x] = Cells(n)[i + x]
  BY <1>2, SliceIs, Zenon
<1>4. Cells(n)[i + 1] = Name(n[1], i, n[3])
  BY <1>3, CellsFit, Zenon
<1> HIDE DEF Name
<1>5. QED
  BY <1>3, <1>4

-----------------------------------------------------------------------------
(* DiskExpertProvider computes an expert from its own tensors. *)

\* What the shards hold of expert i in projection p.
OwnCells(p, i) == {<<Name(p, i, part)>> : part \in Parts(format)}

LEMMA ListedNames ==
  ASSUME NEW i \in Experts, Readable(i), NEW p \in ToSet(Projs), NEW part \in Parts(format)
  PROVE  Name(p, IF Stacked(format) THEN All ELSE i, part) \in DOMAIN index
  BY Zenon DEF Readable, HasTensor

LEMMA WholeCells ==
  ASSUME ExpertAssumption, Indexed, ~ Stacked(format),
         NEW i \in Experts, Readable(i), NEW p \in ToSet(Projs)
  PROVE  {TensorBytes(Name(p, i, part)) : part \in Parts(format)} = OwnCells(p, i)
<1>1. \A part \in Parts(format) : TensorBytes(Name(p, i, part)) = <<Name(p, i, part)>>
  BY ListedNames, TensorIs, Zenon
<1>2. QED
  BY <1>1, Zenon DEF OwnCells

LEMMA SliceCells ==
  ASSUME ExpertAssumption, Indexed, Stacked(format),
         NEW i \in Experts, Readable(i), NEW p \in ToSet(Projs)
  PROVE  {Slice(Name(p, All, part), i, 1) : part \in Parts(format)} = OwnCells(p, i)
<1>1. ASSUME NEW part \in Parts(format)
      PROVE  Slice(Name(p, All, part), i, 1) = <<Name(p, i, part)>>
  <2>1. Name(p, All, part) \in DOMAIN index
    BY ListedNames, Zenon
  <2>2. Name(p, All, part)[1] = p /\ Name(p, All, part)[3] = part
    BY DEF Name
  <2>3. QED
    BY <2>1, <2>2, ExpertSliceIs, Zenon
<1>2. QED
  BY <1>1, Zenon DEF OwnCells

LEMMA ReadsOwn ==
  ASSUME ExpertAssumption, Indexed, NEW i \in Experts, Readable(i)
  PROVE  ToDevice(Uncached(i)) = OwnWeights(i)
<1> DEFINE w == Uncached(i)
           m(p) == Matrix(OwnCells(p, i), dtype, device)
<1>1. ASSUME NEW p \in ToSet(Projs)
      PROVE  \E dev : w[p] = Matrix(OwnCells(p, i), dtype, dev)
  <2>1. CASE format = "gptq"
    <3>1. w[p] = GptqWeight(p, i)
      BY <2>1 DEF Uncached
    <3>2. ~ Stacked(format)
      BY <2>1 DEF Stacked
    <3>3. QED
      BY <2>1, <3>1, <3>2, WholeCells, Zenon DEF GptqWeight
  <2>2. CASE format = "affine"
    <3>1. w[p] = AffineWeight(p, i)
      BY <2>2 DEF Uncached
    <3>2. Stacked(format)
      BY <2>2 DEF Stacked
    <3>3. QED
      BY <2>2, <3>1, <3>2, SliceCells, Zenon DEF AffineWeight
  <2>3. CASE format = "stacked"
    <3>1. w[p] = StackedWeight(p, i)
      BY <2>3 DEF Uncached
    <3>2. Stacked(format) /\ Parts(format) = {"weight"}
      BY <2>3 DEF Stacked, Parts, PartSeq, ToSet
    <3>3. {Slice(Name(p, All, part), i, 1) : part \in {"weight"}} = {Slice(Name(p, All, "weight"), i, 1)}
      OBVIOUS
    <3>4. QED
      BY <3>1, <3>2, <3>3, SliceCells, Zenon DEF StackedWeight
  <2>4. CASE format # "gptq" /\ ~ Stacked(format)
    <3>1. w[p] = PlainWeight(p, i)
      BY <2>4 DEF Uncached, Stacked
    <3>2. Parts(format) = {"weight"}
      BY <2>4 DEF Stacked, Parts, PartSeq, ToSet
    <3>3. {TensorBytes(Name(p, i, part)) : part \in {"weight"}} = {TensorBytes(Name(p, i, "weight"))}
      OBVIOUS
    <3>4. {TensorBytes(Name(p, i, "weight"))} = OwnCells(p, i)
      BY <2>4, <3>2, <3>3, WholeCells, Zenon
    <3> HIDE DEF w
    <3>5. \/ w[p] = Matrix(OwnCells(p, i), dtype, device)
          \/ w[p] = Matrix(OwnCells(p, i), dtype, "cpu")
      BY <3>1, <3>4 DEF PlainWeight
    <3>6. QED
      BY <3>5, Zenon
  <2>5. QED
    BY <2>1, <2>2, <2>3, <2>4 DEF Stacked
<1> HIDE DEF w
<1>2. ASSUME NEW p \in ToSet(Projs) PROVE [w[p] EXCEPT !.dev = device] = m(p)
  <2>1. PICK dev : w[p] = Matrix(OwnCells(p, i), dtype, dev)
    BY <1>1
  <2>2. QED
    BY <2>1 DEF Matrix
<1>3. ToDevice(w) = [p \in ToSet(Projs) |-> m(p)]
  BY <1>2, Zenon DEF ToDevice
<1>4. OwnWeights(i) = [p \in ToSet(Projs) |-> m(p)]
  BY Zenon DEF OwnWeights, OwnCells
<1>5. QED
  BY <1>3, <1>4, Zenon DEF w

\* The cache holds, for each expert it has, that expert.
Filled ==
  /\ DOMAIN cache = Experts
  /\ \A i \in Experts : cache[i] # None => ToDevice(cache[i]) = OwnWeights(i)

LEMMA GetsOwn ==
  ASSUME ExpertAssumption, Indexed, Filled, NEW i \in Experts, CanGet(i)
  PROVE  GetExpert(i) = OwnWeights(i)
<1>1. CASE Resident
  BY <1>1 DEF GetExpert, Hit
<1>2. CASE ~ Resident /\ Hit(i)
  BY <1>2, Zenon DEF GetExpert, Filled, Hit
<1>3. CASE ~ Resident /\ ~ Hit(i)
  BY <1>3, ReadsOwn, Zenon DEF GetExpert, CanGet
<1>4. QED
  BY <1>1, <1>2, <1>3

LEMMA FilledAfter ==
  ASSUME ExpertAssumption, Indexed, Filled, NEW i \in Experts, CanGet(i)
  PROVE  /\ DOMAIN CacheAfter(i) = Experts
         /\ \A e \in Experts : CacheAfter(i)[e] # None => ToDevice(CacheAfter(i)[e]) = OwnWeights(e)
<1>1. CASE Resident \/ Hit(i)
  BY <1>1, Zenon DEF CacheAfter, Filled
<1>2. CASE ~ Resident /\ ~ Hit(i)
  <2>1. ToDevice(Uncached(i)) = OwnWeights(i)
    BY <1>2, ReadsOwn, Zenon DEF CanGet
  <2>2. CacheAfter(i) \in {cache, [cache EXCEPT ![i] = Uncached(i)]}
    BY <1>2 DEF CacheAfter, Remember
  <2>3. CASE CacheAfter(i) = cache
    BY <2>3, Zenon DEF Filled
  <2>4. CASE CacheAfter(i) = [cache EXCEPT ![i] = Uncached(i)]
    <3>1. DOMAIN CacheAfter(i) = Experts
      BY <2>4 DEF Filled
    <3>2. ASSUME NEW e \in Experts
          PROVE  CacheAfter(i)[e] = IF e = i THEN Uncached(i) ELSE cache[e]
      <4> HIDE DEF Uncached
      <4>1. QED
        BY <2>4 DEF Filled
    <3>3. QED
      BY <2>1, <3>1, <3>2, Zenon DEF Filled
  <2>5. QED
    BY <2>2, <2>3, <2>4
<1>3. QED
  BY <1>1, <1>2

LEMMA InitFilled ==
  ASSUME ExpertAssumption, ExpertInit
  PROVE  Filled
<1>1. cache = [i \in Experts |-> IF Caching /\ Readable(i) THEN Uncached(i) ELSE None]
  BY DEF ExpertInit, Warm
<1>2. Indexed
  BY InitIndexed
<1>3. DOMAIN cache = Experts
  BY <1>1
<1>4. ASSUME NEW i \in Experts, cache[i] # None PROVE ToDevice(cache[i]) = OwnWeights(i)
  <2>1. cache[i] = IF Caching /\ Readable(i) THEN Uncached(i) ELSE None
    BY <1>1, Zenon
  <2>2. cache[i] = Uncached(i) /\ Readable(i)
    BY <1>4, <2>1, Zenon
  <2>3. QED
    BY <1>2, <2>2, ReadsOwn, Zenon
<1>5. QED
  BY <1>3, <1>4, Zenon DEF Filled

-----------------------------------------------------------------------------
(* A pass: what each path has added to the rows so far. *)

Tops       == {s \in [1 .. TopK -> Experts] : IsInjective(s)}
Take(t, e) == Share(OwnWeights(e), t, e)
Shares     == {Take(t, e) : t \in DOMAIN top, e \in Experts} \cup {SharedExpert}
Ran(t, d)  == {e \in ToSet(top[t]) : e < d}

\* The rows of a token: its first n experts; those of its experts below d.
First(n) == [k \in 1 .. n |-> Take(1, top[1][k])]
Mixes(t, d, r) ==
  /\ r \in Seq(Shares)
  /\ ToSet(r) = {Take(t, e) : e \in Ran(t, d)} /\ Len(r) = Cardinality(Ran(t, d))

OnPath ==
  \/ Path = "batched" /\ (due = 0 \/ (due = NumExperts /\ out[1] = First(TopK)))
  \/ Path = "direct" /\ due \in 0 .. TopK /\ out[1] = First(due)
  \/ Path = "table" /\ due \in 0 .. NumExperts /\ \A t \in DOMAIN top : Mixes(t, due, out[t])

PassInv ==
  /\ top \in Seq(Tops) /\ DOMAIN out = DOMAIN top
  /\ Running => ~ failed /\ OnPath

MixInv == Indexed /\ Filled /\ PassInv /\ Mixed

LEMMA ExpertNumbers ==
  ASSUME ExpertAssumption
  PROVE  /\ NumExperts \in Nat \ {0} /\ TopK \in Nat \ {0} /\ TopK <= NumExperts
         /\ Experts \subseteq Nat /\ \A e \in Experts : e < NumExperts
         /\ Returned = NumExperts + 1
  BY DEF ExpertAssumption, Experts, Returned

\* The experts of a token.
LEMMA TopFacts ==
  ASSUME ExpertAssumption, PassInv, NEW t \in DOMAIN top
  PROVE  /\ Len(top) \in Nat /\ DOMAIN top = 1 .. Len(top) /\ t \in Nat \ {0}
         /\ top[t] \in Tops /\ DOMAIN top[t] = 1 .. TopK
         /\ \A k \in 1 .. TopK : top[t][k] \in Experts /\ top[t][k] \in ToSet(top[t])
         /\ ToSet(top[t]) = {top[t][k] : k \in 1 .. TopK}
         /\ ToSet(top[t]) \subseteq Experts
<1>1. Len(top) \in Nat /\ DOMAIN top = 1 .. Len(top) /\ top[t] \in Tops
  BY LenProperties, ElementOfSeq DEF PassInv
<1>2. top[t] \in [1 .. TopK -> Experts]
  BY <1>1 DEF Tops
<1>3. ToSet(top[t]) = {top[t][k] : k \in 1 .. TopK}
  BY <1>2 DEF ToSet
<1>4. QED
  BY <1>1, <1>2, <1>3

LEMMA TopCount ==
  ASSUME ExpertAssumption, PassInv, NEW t \in DOMAIN top
  PROVE  IsFiniteSet(ToSet(top[t])) /\ Cardinality(ToSet(top[t])) = TopK
<1> DEFINE S == ToSet(top[t])
<1>1. top[t] \in [1 .. TopK -> S] /\ S = {top[t][k] : k \in 1 .. TopK} /\ IsInjective(top[t])
  <2>1. top[t] \in [1 .. TopK -> Experts] /\ IsInjective(top[t])
    BY TopFacts DEF Tops
  <2>2. S = {top[t][k] : k \in 1 .. TopK} /\ \A k \in 1 .. TopK : top[t][k] \in S
    BY TopFacts
  <2> HIDE DEF S
  <2>3. QED
    BY <2>1, <2>2
<1> HIDE DEF S
<1>2. top[t] \in Bijection(1 .. TopK, S)
  BY <1>1 DEF Bijection, Injection, Surjection, IsInjective
<1>3. TopK \in Nat /\ TopK >= 1 /\ 1 \in Int /\ TopK \in Int
  BY ExpertNumbers
<1>4. IsFiniteSet(1 .. TopK) /\ Cardinality(1 .. TopK) = TopK
  BY <1>3, FS_Interval
<1>5. ExistsBijection(1 .. TopK, S)
  BY <1>2 DEF ExistsBijection
<1>6. IsFiniteSet(S) /\ Cardinality(S) = Cardinality(1 .. TopK)
  BY <1>4, <1>5, FS_Bijection
<1>7. QED
  BY <1>4, <1>6 DEF S

LEMMA TakeIn ==
  ASSUME NEW t \in DOMAIN top, NEW e \in Experts
  PROVE  Take(t, e) \in Shares
  BY DEF Shares

\* Best first, all of them: the whole mixture.
LEMMA FirstMixes ==
  ASSUME ExpertAssumption, PassInv, 1 \in DOMAIN top
  PROVE  Mixes(1, NumExperts, First(TopK))
<1>1. Ran(1, NumExperts) = ToSet(top[1])
  BY TopFacts, ExpertNumbers DEF Ran
<1>2. /\ \A k \in 1 .. TopK : Take(1, top[1][k]) \in Shares
      /\ TopK \in Nat
  BY TopFacts, TakeIn, ExpertNumbers
<1>3. First(TopK) = [k \in 1 .. TopK |-> Take(1, top[1][k])]
  BY DEF First
<1> HIDE DEF Take, Shares
<1>4. /\ First(TopK) \in Seq(Shares) /\ Len(First(TopK)) = TopK
      /\ DOMAIN First(TopK) = 1 .. TopK
  BY <1>2, <1>3
<1>5. ToSet(First(TopK)) = {Take(1, top[1][k]) : k \in 1 .. TopK}
  BY <1>3, <1>4 DEF ToSet
<1>6. {Take(1, top[1][k]) : k \in 1 .. TopK} = {Take(1, e) : e \in ToSet(top[1])}
  BY TopFacts
<1>7. QED
  BY <1>1, <1>4, <1>5, <1>6, TopCount DEF Mixes

\* The dispatch table sends a token to its experts.
LEMMA RowIs ==
  ASSUME ExpertAssumption, PassInv, NEW e
  PROVE  TableRow(e) = {t \in DOMAIN top : e \in ToSet(top[t])}
<1>1. ASSUME NEW t \in DOMAIN top, NEW k \in 1 .. TopK
      PROVE  TopFlat(FlatAt(t, k)) = top[t][k]
  <2>1. TopK \in Nat \ {0} /\ t \in Nat \ {0}
    BY ExpertNumbers, TopFacts
  <2>2. FlatAt(t, k) - 1 = (t - 1) * TopK + (k - 1)
    <3>1. (t - 1) * TopK \in Nat
      BY <2>1
    <3>2. QED
      BY <2>1, <3>1 DEF FlatAt
  <2>3. ((t - 1) * TopK + (k - 1)) \div TopK = t - 1 /\ ((t - 1) * TopK + (k - 1)) % TopK = k - 1
    <3>1. t - 1 \in Nat /\ k - 1 \in 0 .. TopK - 1
      BY <2>1
    <3>2. QED
      BY <2>1, <3>1, Quotients
  <2>4. (t - 1) + 1 = t /\ (k - 1) + 1 = k
    BY <2>1
  <2>5. QED
    BY <2>2, <2>3, <2>4, Zenon DEF TopFlat
<1>2. QED
  BY <1>1, TopFacts DEF TableRow

-----------------------------------------------------------------------------
(* The steps. *)

\* What stays with the weights and the tokens.
LEMMA SamePass ==
  ASSUME UNCHANGED <<loaded, top>>
  PROVE  /\ Indexed' = Indexed /\ Path' = Path
         /\ \A t, e : Take(t, e)' = Take(t, e)
         /\ Shares' = Shares
         /\ \A e : OwnWeights(e)' = OwnWeights(e)
         /\ \A e : Readable(e)' = Readable(e)
<1>1. /\ block' = block /\ format' = format /\ dtype' = dtype /\ device' = device /\ norm' = norm
      /\ provider' = provider /\ shards' = shards /\ index' = index /\ top' = top
  BY DEF loaded
<1>2. \A e : OwnWeights(e)' = OwnWeights(e)
  BY <1>1 DEF OwnWeights, Parts, PartSeq
<1>3. \A t, e : Take(t, e)' = Take(t, e)
  BY <1>1, <1>2 DEF Take, Share, Weight
<1>4. Shares' = Shares
  BY <1>1, <1>3 DEF Shares, SharedExpert
<1>5. Path' = Path
  BY <1>1 DEF Path, Single
<1>6. \A e : Readable(e)' = Readable(e)
  BY <1>1 DEF Readable, Parts, PartSeq, HasTensor, Stacked
<1>7. Indexed' = Indexed
  BY <1>1 DEF Indexed, Listed
<1>8. QED
  BY <1>2, <1>3, <1>4, <1>5, <1>6, <1>7

LEMMA PathIs ==
  /\ Path \in {"batched", "direct", "table"}
  /\ Path # "table" => Single
  BY DEF Path

LEMMA InitMixes ==
  ASSUME ExpertAssumption, ExpertInit
  PROVE  MixInv
<1>1. top = <<>> /\ out = <<>> /\ due = Returned /\ failed = FALSE
  BY DEF ExpertInit
<1>2. PassInv
  BY <1>1 DEF PassInv, Running
<1>3. Mixed
  BY <1>1 DEF Mixed
<1>4. QED
  BY <1>2, <1>3, InitIndexed, InitFilled DEF MixInv

\* A pass begins with empty rows.
LEMMA BeginMixes ==
  ASSUME ExpertAssumption, MixInv, Begin
  PROVE  PassInv' /\ Mixed'
<1>1. PICK n \in 1 .. MaxTokens : top' \in [1 .. n -> {s \in [1 .. TopK -> Experts] : IsInjective(s)}]
  BY DEF Begin
<1>2. due' = 0 /\ ~ failed' /\ out' = [t \in DOMAIN top' |-> <<>>]
  BY DEF Begin
<1>3. top' \in Seq(Tops)
  BY <1>1 DEF Tops
<1>4. DOMAIN out' = DOMAIN top' /\ \A t \in DOMAIN top' : out'[t] = <<>>
  BY <1>2
<1>5. Running'
  BY <1>2, ExpertNumbers DEF Running
<1>6. ASSUME Path' = "batched" PROVE OnPath'
  BY <1>2, <1>6 DEF OnPath
<1>7. ASSUME Path' = "direct" PROVE OnPath'
  <2>1. Len(top') = 1
    BY <1>7 DEF Path, Single
  <2>2. 1 \in DOMAIN top'
    BY <1>3, <2>1, LenProperties
  <2>3. out'[1] = <<>> /\ First(due)' = <<>>
    <3>1. First(due)' = [k \in 1 .. 0 |-> Take(1, top[1][k])']
      BY <1>2 DEF First
    <3> HIDE DEF Take
    <3>2. QED
      BY <1>4, <2>2, <3>1
  <2>4. due' \in 0 .. TopK
    BY <1>2, ExpertNumbers
  <2>5. QED
    BY <1>7, <2>3, <2>4 DEF OnPath
<1>8. ASSUME Path' = "table" PROVE OnPath'
  <2>1. ASSUME NEW t \in DOMAIN top' PROVE Mixes(t, due, out[t])'
    <3>1. ToSet(top'[t]) \subseteq Nat
      <4>1. top'[t] \in [1 .. TopK -> Experts]
        BY <1>3, ElementOfSeq, LenProperties DEF Tops
      <4>2. QED
        BY <4>1, ExpertNumbers DEF ToSet
    <3>2. Ran(t, due)' = {}
      BY <1>2, <3>1 DEF Ran
    <3>3. out'[t] = <<>>
      BY <1>4
    <3>4. ToSet(<<>>) = {} /\ Len(<<>>) = 0 /\ Cardinality({}) = 0
      BY FS_EmptySet DEF ToSet
    <3>5. {Take(t, e)' : e \in {}} = {}
      OBVIOUS
    <3>6. <<>> \in Seq(Shares')
      OBVIOUS
    <3>7. QED
      BY <3>2, <3>3, <3>4, <3>5, <3>6, Zenon DEF Mixes
  <2>2. due' \in 0 .. NumExperts
    BY <1>2, ExpertNumbers
  <2>3. QED
    BY <1>8, <2>1, <2>2 DEF OnPath
<1>9. OnPath'
  <2>1. Path' \in {"batched", "direct", "table"}
    BY DEF Path
  <2>2. QED
    BY <1>6, <1>7, <1>8, <2>1
<1>10. PassInv'
  BY <1>2, <1>3, <1>4, <1>9, Zenon DEF PassInv
<1>11. Mixed'
  BY <1>5, Zenon DEF Mixed
<1>12. QED
  BY <1>10, <1>11

LEMMA BatchedMixes ==
  ASSUME ExpertAssumption, MixInv, Batched
  PROVE  PassInv' /\ Mixed'
<1>1. /\ Path = "batched" /\ due' = NumExperts /\ UNCHANGED <<loaded, top>>
      /\ Running /\ failed' = failed
      /\ out' = [out EXCEPT ![1] = [k \in 1 .. TopK |-> Share(OwnWeights(top[1][k]), 1, top[1][k])]]
  BY DEF Batched
<1>2. top \in Seq(Tops) /\ DOMAIN out = DOMAIN top /\ ~ failed
  BY <1>1 DEF MixInv, PassInv
<1>3. 1 \in DOMAIN top
  <2>1. Len(top) = 1
    BY <1>1, PathIs DEF Single
  <2>2. QED
    BY <1>2, <2>1, LenProperties
<1>4. First(TopK) = [k \in 1 .. TopK |-> Share(OwnWeights(top[1][k]), 1, top[1][k])]
  BY DEF First, Take
<1>5. out' = [out EXCEPT ![1] = First(TopK)]
  BY <1>1, <1>4, Zenon
<1>6. DOMAIN out' = DOMAIN top /\ out'[1] = First(TopK)
  BY <1>2, <1>3, <1>5
<1>7. First(TopK)' = First(TopK)
  BY <1>1, SamePass, Zenon DEF First
<1>8. Path' = "batched"
  BY <1>1, SamePass, Zenon
<1>9. OnPath'
  BY <1>1, <1>6, <1>7, <1>8, Zenon DEF OnPath
<1>10. PassInv'
  BY <1>1, <1>2, <1>6, <1>9, Zenon DEF PassInv
<1>11. Running'
  BY <1>1, ExpertNumbers DEF Running
<1>12. QED
  BY <1>10, <1>11, Zenon DEF Mixed

\* The expert of the next rank, or of the next number.
LEMMA FirstMore ==
  ASSUME NEW n \in Nat
  PROVE  Append(First(n), Take(1, top[1][n + 1])) = First(n + 1)
<1> DEFINE g(k) == Take(1, top[1][k])
           S == {g(k) : k \in 1 .. n + 1}
<1>1. First(n) = [k \in 1 .. n |-> g(k)] /\ First(n + 1) = [k \in 1 .. n + 1 |-> g(k)]
  BY DEF First
<1>2. \A k \in 1 .. n + 1 : g(k) \in S
  OBVIOUS
<1> HIDE DEF g, S
<1>3. First(n) \in Seq(S) /\ Len(First(n)) = n /\ g(n + 1) \in S
  BY <1>1, <1>2
<1>4. Append(First(n), g(n + 1)) = First(n + 1)
  BY <1>1, <1>2, <1>3
<1>5. QED
  BY <1>4 DEF g

LEMMA Appended ==
  ASSUME NEW S, NEW r \in Seq(S), NEW x \in S
  PROVE  /\ Append(r, x) \in Seq(S) /\ Len(Append(r, x)) = Len(r) + 1
         /\ ToSet(Append(r, x)) = ToSet(r) \cup {x}
<1> DEFINE p == Append(r, x)
<1>1. /\ p \in Seq(S) /\ Len(p) = Len(r) + 1
      /\ \A i \in 1 .. Len(r) : p[i] = r[i]
      /\ p[Len(r) + 1] = x
  OBVIOUS
<1> HIDE DEF p
<1>2. DOMAIN p = 1 .. Len(r) + 1 /\ DOMAIN r = 1 .. Len(r) /\ Len(r) \in Nat
  BY <1>1, LenProperties
<1>3. \A i \in DOMAIN p : p[i] \in ToSet(r) \cup {x}
  BY <1>1, <1>2 DEF ToSet
<1>4. \A i \in DOMAIN r : i \in DOMAIN p /\ p[i] = r[i]
  BY <1>1, <1>2
<1>5. Len(r) + 1 \in DOMAIN p /\ p[Len(r) + 1] = x
  BY <1>1, <1>2
<1>6. ToSet(p) = ToSet(r) \cup {x}
  BY <1>3, <1>4, <1>5 DEF ToSet
<1>7. QED
  BY <1>1, <1>6 DEF p

LEMMA MixesMore ==
  ASSUME ExpertAssumption, PassInv, NEW t \in DOMAIN top, NEW d \in Nat, NEW r, Mixes(t, d, r)
  PROVE  /\ d \notin ToSet(top[t]) => Mixes(t, d + 1, r)
         /\ d \in ToSet(top[t]) => Mixes(t, d + 1, Append(r, Take(t, d)))
<1> DEFINE E == ToSet(top[t])
<1>1. E \subseteq Nat /\ IsFiniteSet(E) /\ E \subseteq Experts
  BY TopFacts, TopCount, ExpertNumbers
<1>2. CASE d \notin E
  <2>1. Ran(t, d + 1) = Ran(t, d)
    BY <1>1, <1>2 DEF Ran
  <2>2. QED
    BY <1>2, <2>1, Zenon DEF Mixes
<1>3. CASE d \in E
  <2>1. Ran(t, d + 1) = Ran(t, d) \cup {d} /\ d \notin Ran(t, d)
    BY <1>1, <1>3 DEF Ran
  <2>2. IsFiniteSet(Ran(t, d))
    <3>1. Ran(t, d) \in SUBSET E
      BY DEF Ran
    <3> HIDE DEF E
    <3>2. QED
      BY <1>1, <3>1, FS_Subset
  <2>3. Cardinality(Ran(t, d + 1)) = Cardinality(Ran(t, d)) + 1
    BY <2>1, <2>2, FS_AddElement
  <2>4. Take(t, d) \in Shares
    BY <1>1, <1>3, TakeIn
  <2>5. r \in Seq(Shares) /\ ToSet(r) = {Take(t, e) : e \in Ran(t, d)} /\ Len(r) = Cardinality(Ran(t, d))
    BY DEF Mixes
  <2> DEFINE q == Append(r, Take(t, d))
  <2> HIDE DEF E
  <2>6. q \in Seq(Shares) /\ Len(q) = Len(r) + 1 /\ ToSet(q) = ToSet(r) \cup {Take(t, d)}
    BY <2>4, <2>5, Appended
  <2> HIDE DEF q
  <2>7. ToSet(q) = {Take(t, e) : e \in Ran(t, d + 1)}
    <3> HIDE DEF Take
    <3>1. QED
      BY <2>1, <2>5, <2>6
  <2>8. Len(q) = Cardinality(Ran(t, d + 1))
    BY <2>3, <2>5, <2>6
  <2>9. Mixes(t, d + 1, q)
    BY <2>6, <2>7, <2>8, Zenon DEF Mixes
  <2>10. QED
    BY <1>3, <2>9 DEF q, E
<1>4. QED
  BY <1>2, <1>3

LEMMA SameFilled ==
  ASSUME UNCHANGED loaded, DOMAIN cache' = Experts,
         \A i \in Experts : cache'[i] # None => ToDevice(cache'[i]) = OwnWeights(i)
  PROVE  Filled'
<1>1. device' = device
  BY DEF loaded
<1>2. \A i : OwnWeights(i)' = OwnWeights(i)
  BY DEF loaded, OwnWeights, Parts, PartSeq
<1>3. \A i : (ToDevice(cache[i]))' = ToDevice(cache'[i])
  BY <1>1 DEF ToDevice
<1>4. QED
  BY <1>2, <1>3, Zenon DEF Filled, None

\* An expert that was read: added to the rows of ts, and cached.
LEMMA RunsOwn ==
  ASSUME ExpertAssumption, MixInv, NEW e \in Experts, NEW ts, CanGet(e),
         UNCHANGED <<loaded, top>>, cache' = CacheAfter(e),
         out' = [t \in DOMAIN out |->
                   IF t \in ts THEN Append(out[t], Share(GetExpert(e), t, e)) ELSE out[t]]
  PROVE  /\ Filled'
         /\ DOMAIN out' = DOMAIN top
         /\ \A t \in DOMAIN top : out'[t] = IF t \in ts THEN Append(out[t], Take(t, e)) ELSE out[t]
<1>1. Indexed /\ Filled /\ DOMAIN out = DOMAIN top
  BY DEF MixInv, PassInv
<1>2. GetExpert(e) = OwnWeights(e)
  BY <1>1, GetsOwn, Zenon
<1>3. out' = [t \in DOMAIN out |-> IF t \in ts THEN Append(out[t], Take(t, e)) ELSE out[t]]
  BY <1>2, Zenon DEF Take
<1>4. /\ DOMAIN cache' = Experts
      /\ \A i \in Experts : cache'[i] # None => ToDevice(cache'[i]) = OwnWeights(i)
  BY <1>1, FilledAfter, Zenon
<1>5. UNCHANGED loaded
  OBVIOUS
<1>6. Filled'
  BY <1>4, <1>5, SameFilled, Zenon
<1> HIDE DEF Take
<1>7. QED
  BY <1>1, <1>3, <1>6

\* An expert that could not be read was needed.
LEMMA RunFails ==
  ASSUME ExpertAssumption, MixInv, NEW t \in DOMAIN top, NEW e \in ToSet(top[t]), ~ CanGet(e),
         due' = Returned, failed', UNCHANGED <<loaded, cache, top, out>>
  PROVE  MixInv'
<1>1. Indexed /\ Filled /\ top \in Seq(Tops) /\ DOMAIN out = DOMAIN top
  BY DEF MixInv, PassInv
<1>2. UNCHANGED <<loaded, top>> /\ UNCHANGED loaded
  OBVIOUS
<1>3. Indexed'
  BY <1>1, <1>2, SamePass, Zenon
<1>4. Filled'
  BY <1>1, <1>2, SameFilled, Zenon DEF Filled
<1>5. ~ Running'
  BY DEF Running, Returned
<1>6. PassInv'
  BY <1>1, <1>5, Zenon DEF PassInv
<1>7. ~ Readable(e)'
  BY <1>2, SamePass, Zenon DEF CanGet
<1>8. Mixed'
  BY <1>5, <1>7, Zenon DEF Mixed
<1>9. QED
  BY <1>3, <1>4, <1>6, <1>8, Zenon DEF MixInv

\* As long as the pass runs, only the rows and the cache have to be right.
LEMMA StillOnPath ==
  ASSUME ExpertAssumption, MixInv, Running, UNCHANGED <<loaded, top, failed>>, Filled',
         DOMAIN out' = DOMAIN top, due' # Returned, OnPath'
  PROVE  MixInv'
<1>1. Indexed /\ top \in Seq(Tops) /\ ~ failed
  BY DEF MixInv, PassInv
<1>2. UNCHANGED <<loaded, top>>
  OBVIOUS
<1>3. Indexed'
  BY <1>1, <1>2, SamePass, Zenon
<1>4. PassInv'
  BY <1>1, Zenon DEF PassInv
<1>5. Mixed'
  BY DEF Mixed, Running, Returned
<1>6. QED
  BY <1>3, <1>4, <1>5, Zenon DEF MixInv

LEMMA DirectMixes ==
  ASSUME ExpertAssumption, MixInv, Direct
  PROVE  MixInv'
<1> DEFINE e == top[1][due + 1]
<1>1. Running /\ Path = "direct" /\ due < TopK /\ Run(e, {1})
  BY DEF Direct
<1>2. PassInv
  BY DEF MixInv
<1>3. due \in 0 .. TopK /\ out[1] = First(due)
  BY <1>1, <1>2 DEF PassInv, OnPath
<1>4. 1 \in DOMAIN top
  <2>1. Len(top) = 1
    BY <1>1, PathIs DEF Single
  <2>2. QED
    BY <1>2, <2>1, LenProperties DEF PassInv
<1>5. due \in Nat /\ due + 1 \in 1 .. TopK /\ due + 1 # Returned
  BY <1>1, <1>3, ExpertNumbers
<1>6. e \in Experts /\ e \in ToSet(top[1])
  BY <1>2, <1>4, <1>5, TopFacts, Zenon
<1> HIDE DEF e
<1>7. CASE ~ CanGet(e)
  <2>1. due' = Returned /\ failed' = TRUE /\ UNCHANGED <<loaded, cache, top, out>>
    BY <1>1, <1>7 DEF Run
  <2>2. QED
    BY <1>4, <1>6, <1>7, <2>1, RunFails, Zenon
<1>8. CASE CanGet(e)
  <2>1. /\ due' = due + 1 /\ cache' = CacheAfter(e) /\ UNCHANGED <<loaded, top, failed>>
        /\ out' = [t \in DOMAIN out |->
                     IF t \in {1} THEN Append(out[t], Share(GetExpert(e), t, e)) ELSE out[t]]
    BY <1>1, <1>8 DEF Run
  <2>2. UNCHANGED <<loaded, top>>
    BY <2>1
  <2>3. /\ Filled' /\ DOMAIN out' = DOMAIN top
        /\ \A t \in DOMAIN top : out'[t] = IF t \in {1} THEN Append(out[t], Take(t, e)) ELSE out[t]
    BY <1>6, <1>8, <2>1, <2>2, RunsOwn, Zenon
  <2>4. out'[1] = Append(First(due), Take(1, e))
    BY <1>3, <1>4, <2>3, Zenon
  <2>5. out'[1] = First(due + 1)
    BY <1>5, <2>4, FirstMore, Zenon DEF e
  <2>6. First(due)' = First(due + 1)
    BY <2>1, <2>2, SamePass, Zenon DEF First
  <2>7. Path' = "direct" /\ due' \in 0 .. TopK /\ due' # Returned
    BY <1>1, <1>5, <2>1, <2>2, SamePass
  <2>8. OnPath'
    BY <2>5, <2>6, <2>7, Zenon DEF OnPath
  <2>9. QED
    BY <1>1, <2>1, <2>3, <2>7, <2>8, StillOnPath, Zenon
<1>9. QED
  BY <1>7, <1>8

\* Each row of the table extends the rows of its tokens.
LEMMA DispatchMixes ==
  ASSUME ExpertAssumption, MixInv, Dispatch
  PROVE  MixInv'
<1>1. /\ Running /\ Path = "table" /\ due < NumExperts
      /\ IF TableRow(due) = {} THEN due' = due + 1 /\ UNCHANGED <<loaded, cache, top, out, failed>>
                          ELSE Run(due, TableRow(due))
  BY DEF Dispatch
<1>2. PassInv /\ Filled
  BY DEF MixInv
<1>3. due \in 0 .. NumExperts /\ \A t \in DOMAIN top : Mixes(t, due, out[t])
  BY <1>1, <1>2 DEF PassInv, OnPath
<1>4. due \in Nat /\ due \in Experts /\ due + 1 \in 0 .. NumExperts /\ due + 1 # Returned
  BY <1>1, <1>3, ExpertNumbers DEF Experts
<1>5. \A t \in DOMAIN top : t \in TableRow(due) <=> due \in ToSet(top[t])
  BY <1>2, RowIs
<1>6. ASSUME due' = due + 1, UNCHANGED <<loaded, top, failed>>, Filled', DOMAIN out' = DOMAIN top,
             \A t \in DOMAIN top :
               out'[t] = IF t \in TableRow(due) THEN Append(out[t], Take(t, due)) ELSE out[t]
      PROVE  MixInv'
  <2>1. UNCHANGED <<loaded, top>>
    BY <1>6
  <2>2. ASSUME NEW t \in DOMAIN top' PROVE Mixes(t, due, out[t])'
    <3>1. t \in DOMAIN top /\ Mixes(t, due, out[t])
      BY <1>3, <2>1, Zenon
    <3>2. Mixes(t, due + 1, out'[t])
      BY <1>2, <1>4, <1>5, <1>6, <3>1, MixesMore, Zenon
    <3>3. Ran(t, due)' = Ran(t, due + 1)
      BY <1>6, Zenon DEF Ran
    <3>4. QED
      BY <2>1, <3>2, <3>3, SamePass, Zenon DEF Mixes
  <2>3. Path' = "table" /\ due' \in 0 .. NumExperts /\ due' # Returned
    BY <1>1, <1>4, <1>6, <2>1, SamePass
  <2>4. OnPath'
    BY <2>2, <2>3, Zenon DEF OnPath
  <2>5. QED
    BY <1>1, <1>6, <2>3, <2>4, StillOnPath, Zenon
<1>7. CASE TableRow(due) = {}
  <2>1. due' = due + 1 /\ UNCHANGED <<loaded, cache, top, out, failed>>
    BY <1>1, <1>7
  <2>2. UNCHANGED <<loaded, top, failed>> /\ UNCHANGED loaded /\ cache' = cache /\ out' = out
    BY <2>1
  <2>3. Filled'
    BY <1>2, <2>2, SameFilled, Zenon DEF Filled
  <2>4. DOMAIN out' = DOMAIN top
    BY <1>2, <2>2, Zenon DEF PassInv
  <2>5. \A t : t \notin TableRow(due)
    BY <1>7
  <2>6. QED
    BY <1>6, <2>1, <2>2, <2>3, <2>4, <2>5, Zenon
<1>8. CASE TableRow(due) # {} /\ ~ CanGet(due)
  <2>1. due' = Returned /\ failed' = TRUE /\ UNCHANGED <<loaded, cache, top, out>>
    BY <1>1, <1>8 DEF Run
  <2>2. PICK t \in DOMAIN top : due \in ToSet(top[t])
    BY <1>2, <1>8, RowIs
  <2>3. QED
    BY <1>8, <2>1, <2>2, RunFails, Zenon
<1>9. CASE TableRow(due) # {} /\ CanGet(due)
  <2>1. /\ due' = due + 1 /\ cache' = CacheAfter(due) /\ UNCHANGED <<loaded, top, failed>>
        /\ out' = [t \in DOMAIN out |->
                     IF t \in TableRow(due) THEN Append(out[t], Share(GetExpert(due), t, due)) ELSE out[t]]
    BY <1>1, <1>9 DEF Run
  <2>2. UNCHANGED <<loaded, top>>
    BY <2>1
  <2>3. /\ Filled' /\ DOMAIN out' = DOMAIN top
        /\ \A t \in DOMAIN top :
             out'[t] = IF t \in TableRow(due) THEN Append(out[t], Take(t, due)) ELSE out[t]
    BY <1>4, <1>9, <2>1, <2>2, RunsOwn, Zenon
  <2>4. QED
    BY <1>6, <2>1, <2>3, Zenon
<1>10. QED
  BY <1>7, <1>8, <1>9

\* When a pass returns, every row has the experts of its token.
LEMMA Returns ==
  ASSUME ExpertAssumption, MixInv, Return
  PROVE  \A t \in DOMAIN top : Mixes(t, NumExperts, out[t])
<1>1. Running /\ due = IF Path = "direct" THEN TopK ELSE NumExperts
  BY DEF Return
<1>2. PassInv /\ OnPath
  BY <1>1 DEF MixInv, PassInv
<1>3. CASE Path = "table"
  BY <1>1, <1>2, <1>3 DEF OnPath
<1>4. CASE Path # "table"
  <2>1. out[1] = First(TopK)
    BY <1>1, <1>2, <1>4, ExpertNumbers DEF OnPath
  <2>2. DOMAIN top = {1}
    <3>1. Len(top) = 1
      BY <1>4, PathIs DEF Single
    <3>2. DOMAIN top = 1 .. 1
      BY <1>2, <3>1, LenProperties DEF PassInv
    <3>3. QED
      BY <3>2
  <2>3. Mixes(1, NumExperts, First(TopK))
    BY <1>2, <2>2, FirstMixes
  <2>4. QED
    BY <2>1, <2>2, <2>3, Zenon
<1>5. QED
  BY <1>3, <1>4

LEMMA ReturnMixes ==
  ASSUME ExpertAssumption, MixInv, Return
  PROVE  MixInv'
<1>1. /\ Running /\ due' = Returned /\ UNCHANGED <<loaded, cache, top, failed>>
      /\ out' = [t \in DOMAIN out |->
                   IF block = "qwen3_5_moe" THEN Append(out[t], SharedExpert) ELSE out[t]]
  BY DEF Return
<1>2. Indexed /\ Filled /\ PassInv /\ ~ failed
  BY <1>1 DEF MixInv, PassInv
<1>3. UNCHANGED <<loaded, top>> /\ UNCHANGED loaded /\ block' = block
  BY <1>1 DEF loaded
<1>4. Indexed' /\ Filled'
  BY <1>1, <1>2, <1>3, SamePass, SameFilled, Zenon DEF Filled
<1>5. ~ Running' /\ ~ failed' /\ top' = top /\ DOMAIN out' = DOMAIN top
  BY <1>1, <1>2 DEF Running, Returned, PassInv
<1>6. PassInv'
  BY <1>2, <1>5, Zenon DEF PassInv
<1> DEFINE extra == IF block = "qwen3_5_moe" THEN {SharedExpert} ELSE {}
<1>7. ASSUME NEW t \in DOMAIN top
      PROVE  /\ ToSet(out'[t]) = extra \cup {Take(t, e) : e \in ToSet(top[t])}
             /\ Len(out'[t]) = TopK + Cardinality(extra)
  <2>1. Mixes(t, NumExperts, out[t])
    BY Returns
  <2>2. Ran(t, NumExperts) = ToSet(top[t])
    BY <1>2, TopFacts, ExpertNumbers DEF Ran
  <2>3. /\ out[t] \in Seq(Shares) /\ ToSet(out[t]) = {Take(t, e) : e \in ToSet(top[t])}
        /\ Len(out[t]) = TopK /\ TopK \in Nat
    BY <1>2, <2>1, <2>2, TopCount, ExpertNumbers DEF Mixes
  <2>4. out'[t] = IF block = "qwen3_5_moe" THEN Append(out[t], SharedExpert) ELSE out[t]
    BY <1>1, <1>2 DEF PassInv
  <2>5. CASE block = "qwen3_5_moe"
    <3>1. extra = {SharedExpert} /\ Cardinality(extra) = 1
      BY <2>5, FS_Singleton, Zenon
    <3>2. SharedExpert \in Shares
      BY DEF Shares
    <3>3. ToSet(Append(out[t], SharedExpert)) = ToSet(out[t]) \cup {SharedExpert}
          /\ Len(Append(out[t], SharedExpert)) = Len(out[t]) + 1
      BY <2>3, <3>2, Appended
    <3>4. QED
      BY <2>3, <2>4, <2>5, <3>1, <3>3
  <2>6. CASE block # "qwen3_5_moe"
    <3>1. extra = {} /\ Cardinality(extra) = 0
      BY <2>6, FS_EmptySet, Zenon
    <3>2. QED
      BY <2>3, <2>4, <2>6, <3>1
  <2>7. QED
    BY <2>5, <2>6
<1>8. Mixed'
  <2>1. ASSUME NEW t \in DOMAIN top'
        PROVE  /\ ToSet(out'[t]) = (IF block' = "qwen3_5_moe" THEN {SharedExpert} ELSE {})
                                     \cup {Share(OwnWeights(e), t, e)' : e \in ToSet(top'[t])}
               /\ Len(out'[t]) = TopK + Cardinality(IF block' = "qwen3_5_moe" THEN {SharedExpert} ELSE {})
    <3>1. \A e : Share(OwnWeights(e), t, e)' = Take(t, e)
      BY <1>3, SamePass, Zenon DEF Take
    <3>2. t \in DOMAIN top
      BY <1>5
    <3>3. {Share(OwnWeights(e), t, e)' : e \in ToSet(top'[t])} = {Take(t, e) : e \in ToSet(top[t])}
      BY <1>5, <3>1, Zenon
    <3>4. QED
      BY <1>3, <1>7, <3>2, <3>3, Zenon
  <2>2. QED
    BY <1>5, <2>1, Zenon DEF Mixed, SharedExpert, None
<1>9. QED
  BY <1>4, <1>6, <1>8, Zenon DEF MixInv

LEMMA NextMixes ==
  ASSUME ExpertAssumption, MixInv, [ExpertNext]_evars
  PROVE  MixInv'
<1>1. Indexed /\ Filled /\ PassInv
  BY DEF MixInv
<1>2. CASE Begin
  <2>1. Indexed' /\ Filled'
    <3>1. UNCHANGED loaded /\ cache' = cache
      BY <1>2 DEF Begin
    <3>2. Indexed'
      BY <1>1, <3>1 DEF Indexed, Listed, loaded
    <3>3. Filled'
      BY <1>1, <3>1, SameFilled, Zenon DEF Filled
    <3>4. QED
      BY <3>2, <3>3
  <2>2. QED
    BY <1>2, <2>1, BeginMixes, Zenon DEF MixInv
<1>3. CASE Batched
  <2>1. Indexed' /\ Filled'
    <3>1. UNCHANGED loaded /\ cache' = cache
      BY <1>3 DEF Batched
    <3>2. Indexed'
      BY <1>1, <3>1 DEF Indexed, Listed, loaded
    <3>3. Filled'
      BY <1>1, <3>1, SameFilled, Zenon DEF Filled
    <3>4. QED
      BY <3>2, <3>3
  <2>2. QED
    BY <1>3, <2>1, BatchedMixes, Zenon DEF MixInv
<1>4. CASE UNCHANGED evars
  <2>1. /\ UNCHANGED <<loaded, top>> /\ UNCHANGED loaded /\ cache' = cache /\ out' = out
        /\ due' = due /\ failed' = failed /\ block' = block
    BY <1>4 DEF evars, loaded
  <2>2. Indexed' /\ Filled'
    BY <1>1, <2>1, SamePass, SameFilled, Zenon DEF Filled
  <2>3. PassInv' /\ Mixed'
    <3>1. OnPath' = OnPath
      BY <1>4 DEF evars, loaded, OnPath, Path, Single, First, Take, Share, OwnWeights, Weight, Parts, PartSeq,
                  Mixes, Ran, Shares
    <3>2. PassInv'
      BY <1>1, <2>1, <3>1 DEF PassInv, Running, Returned
    <3>3. Mixed' = Mixed
      BY <1>4 DEF evars, loaded, Mixed, Running, Returned, Readable, HasTensor, Share, OwnWeights, Weight,
                  Parts, PartSeq
    <3>4. QED
      BY <3>2, <3>3 DEF MixInv
  <2>4. QED
    BY <2>2, <2>3, Zenon DEF MixInv
<1>5. QED
  BY <1>2, <1>3, <1>4, DirectMixes, DispatchMixes, ReturnMixes, Zenon DEF ExpertNext

LEMMA InvMixes == MixInv => Mixed
  BY DEF MixInv

\* Whatever provider serves a pass and whatever path it takes, the rows that
\* come back mix the experts of their tokens (Mixed).
THEOREM ExpertsMix ==
  ASSUME ExpertAssumption
  PROVE  ExpertSpec => []Mixed
<1>1. ExpertInit => MixInv
  BY InitMixes
<1>2. MixInv /\ [ExpertNext]_evars => MixInv'
  BY NextMixes
<1>3. MixInv => Mixed
  BY InvMixes
<1>4. QED
  BY <1>1, <1>2, <1>3, PTL DEF ExpertSpec

-----------------------------------------------------------------------------
(* Packed tensors. *)

\* A tensor whose dims say how many cells it has.
Sound(T, t) ==
  /\ t = Tensor(t.dims, t.data) /\ t.dims \in Seq(Nat) /\ t.data \in Seq(T)
  /\ Volume(t.dims) = Len(t.data)
Coded(t) == <<Len(t.dims)>> \o t.dims \o t.data

LEMMA CodedIs ==
  ASSUME NEW T, Nat \subseteq T, NEW t, Sound(T, t)
  PROVE  /\ Coded(t) \in Seq(T) /\ Len(Coded(t)) = 1 + Len(t.dims) + Len(t.data)
         /\ Coded(t)[1] = Len(t.dims)
         /\ \A j \in 1 .. Len(t.dims) : Coded(t)[1 + j] = t.dims[j]
         /\ \A j \in 1 .. Len(t.data) : Coded(t)[1 + Len(t.dims) + j] = t.data[j]
<1> DEFINE d == t.dims
           e == t.data
           k == Len(d)
           m == Len(e)
           a == <<k>>
           b == a \o d
<1>1. d \in Seq(T) /\ e \in Seq(T) /\ k \in Nat /\ m \in Nat
  BY DEF Sound
<1>2. a \in Seq(T) /\ Len(a) = 1 /\ a[1] = k
  BY <1>1
<1>3. Coded(t) = b \o e
  BY DEF Coded
<1> HIDE DEF a, d, e, k, m
<1>4. /\ b \in Seq(T) /\ Len(b) = Len(a) + Len(d)
      /\ \A i \in 1 .. Len(a) + Len(d) : b[i] = IF i <= Len(a) THEN a[i] ELSE d[i - Len(a)]
  BY <1>1, <1>2, ConcatProperties, Zenon
<1> HIDE DEF b
<1>5. /\ b \o e \in Seq(T) /\ Len(b \o e) = Len(b) + Len(e)
      /\ \A i \in 1 .. Len(b) + Len(e) : (b \o e)[i] = IF i <= Len(b) THEN b[i] ELSE e[i - Len(b)]
  <2>1. b \in Seq(T)
    BY <1>4
  <2>2. QED
    BY <1>1, <2>1, ConcatProperties, Zenon
<1> DEFINE c == b \o e
<1> HIDE DEF c
<1>6. /\ Len(b) = 1 + k /\ b[1] = k
      /\ \A j \in 1 .. k : b[1 + j] = d[j]
  <2>1. Len(b) = 1 + k
    BY <1>2, <1>4 DEF k
  <2>2. \A i \in 1 .. 1 + k : b[i] = IF i <= 1 THEN a[i] ELSE d[i - 1]
    BY <1>2, <1>4 DEF k
  <2>3. \A j \in 1 .. k : 1 + j \in 1 .. 1 + k /\ ~ (1 + j <= 1) /\ (1 + j) - 1 = j
    BY <1>1
  <2>4. \A j \in 1 .. k : b[1 + j] = d[j]
    BY <2>2, <2>3, Zenon
  <2>5. b[1] = a[1]
    BY <1>1, <2>2
  <2>6. QED
    BY <1>2, <2>1, <2>4, <2>5
<1>7. /\ c \in Seq(T) /\ Len(c) = 1 + k + m
      /\ \A i \in 1 .. 1 + k + m : c[i] = IF i <= 1 + k THEN b[i] ELSE e[i - (1 + k)]
  BY <1>5, <1>6 DEF c, m
<1>8. c[1] = k
  BY <1>1, <1>6, <1>7
<1>9. \A j \in 1 .. k : c[1 + j] = d[j]
  <2> TAKE j \in 1 .. k
  <2>1. 1 + j \in 1 .. 1 + k + m /\ 1 + j <= 1 + k
    BY <1>1
  <2>2. QED
    BY <1>6, <1>7, <2>1, Zenon
<1>10. \A j \in 1 .. m : c[1 + k + j] = e[j]
  <2> TAKE j \in 1 .. m
  <2>1. 1 + k + j \in 1 .. 1 + k + m /\ ~ (1 + k + j <= 1 + k) /\ (1 + k + j) - (1 + k) = j
    BY <1>1
  <2>2. QED
    BY <1>7, <2>1, Zenon
<1>11. QED
  BY <1>3, <1>7, <1>8, <1>9, <1>10, Zenon DEF c, d, e, k, m

\* What is read where a tensor was written.
LEMMA ReadIs ==
  ASSUME NEW T, Nat \subseteq T, NEW t, Sound(T, t), NEW x \in Seq(T), NEW at \in Nat \ {0},
         at - 1 + Len(Coded(t)) <= Len(x),
         \A j \in 1 .. Len(Coded(t)) : x[at - 1 + j] = Coded(t)[j]
  PROVE  Read(x, at) = [tensor |-> t, next |-> at + Len(Coded(t))]
<1> DEFINE d == t.dims
           e == t.data
           k == Len(d)
           m == Len(e)
           first == at + k + 1
<1>1. d \in Seq(Nat) /\ e \in Seq(T) /\ k \in Nat /\ m \in Nat /\ Volume(d) = m /\ t = Tensor(d, e)
  BY DEF Sound
<1>2. /\ Len(Coded(t)) = 1 + k + m /\ Coded(t)[1] = k
      /\ \A j \in 1 .. k : Coded(t)[1 + j] = d[j]
      /\ \A j \in 1 .. m : Coded(t)[1 + k + j] = e[j]
  <2>1. /\ Coded(t) \in Seq(T) /\ Len(Coded(t)) = 1 + Len(t.dims) + Len(t.data)
        /\ Coded(t)[1] = Len(t.dims)
        /\ \A j \in 1 .. Len(t.dims) : Coded(t)[1 + j] = t.dims[j]
        /\ \A j \in 1 .. Len(t.data) : Coded(t)[1 + Len(t.dims) + j] = t.data[j]
    BY CodedIs
  <2>2. QED
    BY <2>1
<1> HIDE DEF d, e, k, m
<1>3. x[at] = k
  <2>1. 1 \in 1 .. 1 + k + m /\ at - 1 + 1 = at
    BY <1>1
  <2>2. QED
    BY <1>2, <2>1, Zenon
<1>4. SubSeq(x, at + 1, at + k) = d
  <2> DEFINE s == SubSeq(x, at + 1, at + k)
  <2>1. s \in Seq(T) /\ Len(s) = k /\ \A j \in 1 .. k : s[j] = x[at + j]
    BY <1>1, <1>2
  <2>2. \A j \in 1 .. k : s[j] = d[j]
    <3> TAKE j \in 1 .. k
    <3>1. 1 + j \in 1 .. 1 + k + m /\ at - 1 + (1 + j) = at + j
      BY <1>1
    <3>2. x[at - 1 + (1 + j)] = Coded(t)[1 + j]
      BY <1>2, <3>1, Zenon
    <3> HIDE DEF s
    <3>3. QED
      BY <1>2, <2>1, <3>1, <3>2, Zenon
  <2> HIDE DEF s
  <2>3. d \in Seq(T) /\ Len(d) = k
    BY <1>1 DEF k
  <2>4. s = d
    BY <2>1, <2>2, <2>3, SeqEqual
  <2>5. QED
    BY <2>4 DEF s
<1>5. SubSeq(x, first, (first + m) - 1) = e
  <2> DEFINE s == SubSeq(x, first, (first + m) - 1)
  <2>1. s \in Seq(T) /\ Len(s) = m /\ \A j \in 1 .. m : s[j] = x[first - 1 + j]
    BY <1>1, <1>2
  <2>2. \A j \in 1 .. m : s[j] = e[j]
    <3> TAKE j \in 1 .. m
    <3>1. 1 + k + j \in 1 .. 1 + k + m /\ at - 1 + (1 + k + j) = first - 1 + j
      BY <1>1
    <3>2. x[at - 1 + (1 + k + j)] = Coded(t)[1 + k + j]
      BY <1>2, <3>1, Zenon
    <3> HIDE DEF s, first
    <3>3. QED
      BY <1>2, <2>1, <3>1, <3>2, Zenon
  <2> HIDE DEF s
  <2>3. Len(e) = m
    BY DEF m
  <2>4. s = e
    BY <1>1, <2>1, <2>2, <2>3, SeqEqual
  <2>5. QED
    BY <2>4 DEF s
<1>6. Read(x, at) = [tensor |-> Tensor(SubSeq(x, at + 1, at + k), SubSeq(x, first, (first + Volume(SubSeq(x, at + 1, at + k))) - 1)),
                     next |-> first + Volume(SubSeq(x, at + 1, at + k))]
  BY <1>3, Zenon DEF Read
<1> HIDE DEF first
<1>7. Read(x, at) = [tensor |-> t, next |-> first + m]
  BY <1>1, <1>4, <1>5, <1>6, Zenon
<1>8. first + m = at + Len(Coded(t))
  BY <1>1, <1>2 DEF first
<1>9. QED
  BY <1>7, <1>8, Zenon

\* The codes of tensors, one after the other, with where each ends.
Codes(ts) == [i \in DOMAIN ts |-> Coded(ts[i])]
Preceding(f, i) == IF i = 1 THEN 0 ELSE Len(f[i - 1])

\* The first m codes are where they were put.
Kept(T, q, f, m) ==
  /\ f[m] \in Seq(T) /\ Len(f[m]) = Preceding(f, m) + Len(q[m])
  /\ \A i \in 1 .. m : Preceding(f, i) \in Nat /\ Preceding(f, i) + Len(q[i]) <= Len(f[m])
  /\ \A i \in 1 .. m : \A j \in 1 .. Len(q[i]) : f[m][Preceding(f, i) + j] = q[i][j]

LEMMA JoinedReads ==
  ASSUME NEW T, NEW q, NEW n \in Nat, NEW f, Joined(q, n, f), \A i \in 1 .. n : q[i] \in Seq(T)
  PROVE  \A m \in 1 .. n : Kept(T, q, f, m)
<1> DEFINE Good(m) == Kept(T, q, f, m)
           S == {m \in Nat : m \in 1 .. n => Good(m)}
<1>1. 0 \in S
  <2> HIDE DEF Good
  <2>1. QED
    OBVIOUS
<1>2. ASSUME NEW m \in Nat, m \in S PROVE m + 1 \in S
  <2> SUFFICES ASSUME m + 1 \in 1 .. n PROVE Good(m + 1)
    OBVIOUS
  <2> DEFINE k == m + 1
  <2>0. k \in 1 .. n /\ q[k] \in Seq(T) /\ k - 1 = m /\ Len(q[k]) \in Nat
    <3>1. k \in 1 .. n /\ k - 1 = m
      OBVIOUS
    <3>2. q[k] \in Seq(T)
      BY <3>1
    <3>3. QED
      BY <3>1, <3>2, LenProperties
  <2>1. CASE m = 0
    <3>0. 1 \in 1 .. n
      BY <2>0, <2>1
    <3>1. f[1] = q[1] /\ Preceding(f, 1) = 0
      BY <3>0, Zenon DEF Joined, Preceding
    <3>2. \A i \in 1 .. 1 : i = 1
      OBVIOUS
    <3>3. \A j \in 1 .. Len(q[1]) : 0 + j = j
      OBVIOUS
    <3>4. Good(1)
      BY <2>0, <2>1, <3>1, <3>2, <3>3 DEF Kept
    <3>5. QED
      BY <2>1, <3>4
  <2>2. CASE m # 0
    <3>1. m \in 1 .. n /\ Good(m)
      BY <1>2, <2>0, <2>2
    <3>2. f[k] = f[m] \o q[k] /\ Preceding(f, k) = Len(f[m])
      <4>1. k # 1
        BY <2>2
      <4>2. f[k] = f[k - 1] \o q[k] /\ Preceding(f, k) = Len(f[k - 1])
        <5> HIDE DEF k
        <5>1. QED
          BY <2>0, <4>1, Zenon DEF Joined, Preceding
      <4>3. QED
        BY <2>0, <4>2, Zenon
    <3> DEFINE a == f[m]
               b == q[k]
               B(i) == Preceding(f, i)
    <3>3. a \in Seq(T) /\ b \in Seq(T)
      BY <2>0, <3>1 DEF Kept
    <3> HIDE DEF a, b
    <3>4. /\ a \o b \in Seq(T) /\ Len(a \o b) = Len(a) + Len(b)
          /\ \A i \in 1 .. Len(a) + Len(b) : (a \o b)[i] = IF i <= Len(a) THEN a[i] ELSE b[i - Len(a)]
      BY <3>3, ConcatProperties, Zenon
    <3>5. Len(a) \in Nat /\ Len(b) \in Nat
      BY <3>3
    <3> DEFINE c == a \o b
    <3> HIDE DEF c
    <3>6. f[k] = c /\ B(k) = Len(a)
      BY <3>2 DEF a, b, c
    <3>7. c \in Seq(T) /\ Len(c) = B(k) + Len(b)
      BY <3>4, <3>6 DEF c
    <3>8. /\ \A i \in 1 .. m : B(i) \in Nat /\ B(i) + Len(q[i]) <= Len(a)
          /\ \A i \in 1 .. m : \A j \in 1 .. Len(q[i]) : a[B(i) + j] = q[i][j]
      BY <3>1 DEF a, Kept
    <3>8a. \A i \in 1 .. m : Len(q[i]) \in Nat
      <4> TAKE i \in 1 .. m
      <4>1. i \in 1 .. n
        BY <3>1
      <4>2. QED
        BY <4>1
    <3> HIDE DEF B
    <3>9. ASSUME NEW i \in 1 .. k PROVE B(i) \in Nat /\ B(i) + Len(q[i]) <= Len(c)
      <4>1. CASE i \in 1 .. m
        BY <3>5, <3>6, <3>7, <3>8, <3>8a, <4>1
      <4>2. CASE i = k
        BY <3>5, <3>6, <3>7, <4>2 DEF b
      <4>3. QED
        BY <4>1, <4>2
    <3>10. ASSUME NEW i \in 1 .. k, NEW j \in 1 .. Len(q[i]) PROVE c[B(i) + j] = q[i][j]
      <4>1. CASE i \in 1 .. m
        <5>1. B(i) + j \in 1 .. Len(a) + Len(b) /\ B(i) + j <= Len(a)
          BY <3>5, <3>8, <3>8a, <4>1
        <5>2. c[B(i) + j] = a[B(i) + j]
          BY <3>4, <5>1, Zenon DEF c
        <5>3. QED
          BY <3>8, <4>1, <5>2, Zenon
      <4>2. CASE i = k
        <5>1. j \in 1 .. Len(b) /\ q[i] = b
          BY <4>2 DEF b
        <5>2. B(i) + j \in 1 .. Len(a) + Len(b) /\ ~ (B(i) + j <= Len(a)) /\ (B(i) + j) - Len(a) = j
          BY <3>5, <3>6, <4>2, <5>1
        <5>3. QED
          BY <3>4, <5>1, <5>2, Zenon DEF c
      <4>3. QED
        BY <4>1, <4>2
    <3>11. QED
      BY <3>6, <3>7, <3>9, <3>10, Zenon DEF B, b, Kept
  <2>3. QED
    BY <2>1, <2>2
<1>3. Nat \subseteq S
  <2> HIDE DEF S
  <2>1. QED
    BY <1>1, <1>2, AllNumbers, Zenon
<1>4. ASSUME NEW m \in 1 .. n PROVE Good(m)
  <2>1. m \in Nat
    OBVIOUS
  <2>2. m \in S
    BY <1>3, <2>1, Zenon
  <2> HIDE DEF Good
  <2>3. QED
    BY <2>2
<1>5. QED
  BY <1>4

\* What was packed is unpacked.
LEMMA UnpackIs ==
  ASSUME NEW T, Nat \subseteq T, NEW ts, NEW n \in Nat \ {0}, ts = [i \in 1 .. n |-> ts[i]],
         \A i \in 1 .. n : Sound(T, ts[i])
  PROVE  Unpack(Pack(ts)) = ts
<1> DEFINE q == [i \in DOMAIN ts |-> <<Len(ts[i].dims)>> \o ts[i].dims \o ts[i].data]
           x == Pack(ts)
<1>1. DOMAIN ts = 1 .. n /\ Len(ts) = n
  OBVIOUS
<1>2. \A i \in 1 .. n : q[i] = Coded(ts[i])
  BY <1>1 DEF Coded
<1>3. Len(q) = n
  BY <1>1
<1>4. x = <<n>> \o FlattenSeq(q)
  BY <1>1 DEF Pack
<1> HIDE DEF q, x
<1>5. PICK f : Joined(q, n, f) /\ FlattenSeq(q) = f[n]
  BY <1>3, FlattenIs
<1>6. \A i \in 1 .. n : q[i] \in Seq(T)
  BY <1>2, CodedIs
<1>7. \A m \in 1 .. n : Kept(T, q, f, m)
  BY <1>5, <1>6, JoinedReads, Zenon
<1> DEFINE B(i) == Preceding(f, i)
<1>8. /\ f[n] \in Seq(T)
      /\ \A i \in 1 .. n : B(i) \in Nat /\ B(i) + Len(q[i]) <= Len(f[n])
      /\ \A i \in 1 .. n : \A j \in 1 .. Len(q[i]) : f[n][B(i) + j] = q[i][j]
  BY <1>7 DEF Kept
<1>9. B(1) = 0 /\ \A i \in 1 .. n : i # 1 => B(i) = B(i - 1) + Len(q[i - 1])
  <2>1. ASSUME NEW i \in 1 .. n, i # 1 PROVE B(i) = B(i - 1) + Len(q[i - 1])
    <3>1. i - 1 \in 1 .. n
      BY <2>1
    <3>2. B(i) = Len(f[i - 1])
      BY <2>1 DEF Preceding
    <3>3. QED
      BY <1>7, <3>1, <3>2 DEF Kept
  <2>2. QED
    BY <2>1 DEF Preceding
<1> HIDE DEF B
<1>10. /\ x \in Seq(T) /\ Len(x) = 1 + Len(f[n]) /\ x[1] = n
       /\ \A j \in 1 .. Len(f[n]) : x[1 + j] = f[n][j]
  <2> DEFINE a == <<n>>
             b == f[n]
  <2>1. a \in Seq(T) /\ Len(a) = 1 /\ a[1] = n
    OBVIOUS
  <2>2. b \in Seq(T) /\ Len(b) \in Nat
    BY <1>8
  <2>3. x = a \o b
    BY <1>4, <1>5
  <2> HIDE DEF a, b
  <2>4. /\ a \o b \in Seq(T) /\ Len(a \o b) = Len(a) + Len(b)
        /\ \A i \in 1 .. Len(a) + Len(b) : (a \o b)[i] = IF i <= Len(a) THEN a[i] ELSE b[i - Len(a)]
    BY <2>1, <2>2, ConcatProperties, Zenon
  <2>5. x \in Seq(T) /\ Len(x) = 1 + Len(b) /\ \A i \in 1 .. 1 + Len(b) : x[i] = IF i <= 1 THEN a[i] ELSE b[i - 1]
    BY <2>1, <2>3, <2>4
  <2>6. x[1] = n
    <3>1. 1 \in 1 .. 1 + Len(b) /\ 1 <= 1
      BY <2>2
    <3>2. QED
      BY <2>1, <2>5, <3>1, Zenon
  <2>7. \A j \in 1 .. Len(b) : 1 + j \in 1 .. 1 + Len(b) /\ ~ (1 + j <= 1) /\ (1 + j) - 1 = j
    BY <2>2
  <2>8. \A j \in 1 .. Len(b) : x[1 + j] = b[j]
    BY <2>5, <2>7, Zenon
  <2>9. QED
    BY <2>5, <2>6, <2>8 DEF b
\* Each tensor is read where it begins.
<1>11. ASSUME NEW i \in 1 .. n
       PROVE  Read(x, B(i) + 2) = [tensor |-> ts[i], next |-> B(i) + 2 + Len(q[i])]
  <2> DEFINE at == B(i) + 2
             c  == Coded(ts[i])
  <2>1. q[i] = c /\ c \in Seq(T) /\ Len(c) \in Nat /\ Len(q[i]) = Len(c) /\ Len(f[n]) \in Nat
    BY <1>2, <1>6, <1>8
  <2> HIDE DEF c
  <2>2. B(i) \in Nat /\ at \in Nat \ {0} /\ at - 1 = 1 + B(i)
    BY <1>8
  <2>3. at - 1 + Len(c) <= Len(x)
    BY <1>8, <1>10, <2>1, <2>2
  <2> HIDE DEF at
  <2>4. \A j \in 1 .. Len(c) : x[at - 1 + j] = c[j]
    <3> TAKE j \in 1 .. Len(c)
    <3>1. B(i) + Len(q[i]) <= Len(f[n]) /\ f[n][B(i) + j] = q[i][j]
      BY <1>8, <2>1
    <3>2. B(i) + j \in 1 .. Len(f[n]) /\ at - 1 + j = 1 + (B(i) + j)
      <4>1. B(i) + j \in 1 .. Len(f[n])
        <5>1. j \in Nat /\ j >= 1 /\ j <= Len(q[i])
          BY <2>1
        <5>2. QED
          BY <2>1, <2>2, <3>1, <5>1
      <4>2. QED
        BY <2>1, <2>2, <4>1
    <3>3. x[1 + (B(i) + j)] = f[n][B(i) + j]
      BY <1>10, <3>2, Zenon
    <3>4. QED
      BY <2>1, <3>1, <3>2, <3>3, Zenon
  <2>5. x \in Seq(T)
    BY <1>10
  <2>6. Read(x, at) = [tensor |-> ts[i], next |-> at + Len(Coded(ts[i]))]
    BY <2>2, <2>3, <2>4, <2>5, ReadIs DEF c
  <2>7. QED
    BY <2>1, <2>6, Zenon DEF at, c
<1> DEFINE w == [i \in 1 .. n |-> [tensor |-> ts[i], next |-> B(i) + 2 + Len(q[i])]]
           part == CHOOSE g : g = [i \in 1 .. x[1] |-> Read(x, IF i = 1 THEN 2 ELSE g[i - 1].next)]
<1>12. ASSUME NEW i \in 1 .. n
       PROVE  w[i] = Read(x, IF i = 1 THEN 2 ELSE w[i - 1].next)
  <2>1. w[i] = Read(x, B(i) + 2)
    BY <1>11
  <2>2. CASE i = 1
    BY <1>9, <2>1, <2>2
  <2>3. CASE i # 1
    <3>1. i - 1 \in 1 .. n /\ B(i) = B(i - 1) + Len(q[i - 1])
      BY <1>9, <2>3
    <3>2. B(i - 1) \in Nat /\ Len(q[i - 1]) \in Nat
      BY <1>6, <1>8, <3>1
    <3>3. w[i - 1].next = B(i - 1) + 2 + Len(q[i - 1])
      BY <3>1
    <3>4. B(i - 1) + 2 + Len(q[i - 1]) = B(i) + 2
      BY <3>1, <3>2
    <3> HIDE DEF w
    <3>5. QED
      BY <2>1, <2>3, <3>3, <3>4, Zenon
  <2>4. QED
    BY <2>2, <2>3
<1>13. w = [i \in 1 .. n |-> w[i]]
  OBVIOUS
<1>14. \A i \in 1 .. n : w[i].tensor = ts[i]
  OBVIOUS
<1> HIDE DEF w
<1>15. w = [i \in 1 .. x[1] |-> Read(x, IF i = 1 THEN 2 ELSE w[i - 1].next)]
  <2>1. [i \in 1 .. n |-> w[i]] = [i \in 1 .. n |-> Read(x, IF i = 1 THEN 2 ELSE w[i - 1].next)]
    BY <1>12, Zenon
  <2>2. x[1] = n
    BY <1>10
  <2>3. QED
    BY <1>13, <2>1, <2>2, Zenon
<1>16. part = [i \in 1 .. x[1] |-> Read(x, IF i = 1 THEN 2 ELSE part[i - 1].next)]
  BY <1>15, Zenon
<1>17. Unpack(x) = [i \in 1 .. x[1] |-> part[i].tensor]
  BY DEF Unpack
<1> HIDE DEF part
<1>18. x[1] = n
  BY <1>10
<1>19. \A i \in 1 .. n : part[i] = Read(x, IF i = 1 THEN 2 ELSE part[i - 1].next)
  BY <1>16, <1>18, Zenon
<1> DEFINE S == {m \in Nat : m \in 1 .. n => part[m] = w[m]}
<1>20. 0 \in S
  OBVIOUS
<1>21. ASSUME NEW m \in Nat, m \in S PROVE m + 1 \in S
  <2> SUFFICES ASSUME m + 1 \in 1 .. n PROVE part[m + 1] = w[m + 1]
    OBVIOUS
  <2>1. (m + 1) - 1 = m /\ (m = 0 <=> m + 1 = 1) /\ (m # 0 => m \in 1 .. n)
    OBVIOUS
  <2>2. m # 0 => part[m] = w[m]
    BY <1>21, <2>1
  <2>3. /\ part[m + 1] = Read(x, IF m + 1 = 1 THEN 2 ELSE part[(m + 1) - 1].next)
        /\ w[m + 1] = Read(x, IF m + 1 = 1 THEN 2 ELSE w[(m + 1) - 1].next)
    BY <1>12, <1>19, Zenon
  <2>4. QED
    BY <2>1, <2>2, <2>3, Zenon
<1>22. Nat \subseteq S
  <2> HIDE DEF S
  <2>1. QED
    BY <1>20, <1>21, AllNumbers, Zenon
<1>23. \A i \in 1 .. n : part[i].tensor = ts[i]
  <2> TAKE i \in 1 .. n
  <2>1. i \in Nat
    OBVIOUS
  <2>2. i \in S
    BY <1>22, <2>1, Zenon
  <2>3. part[i] = w[i]
    BY <2>2
  <2>4. QED
    BY <1>14, <2>3
<1>24. [i \in 1 .. n |-> part[i].tensor] = [i \in 1 .. n |-> ts[i]]
  BY <1>23, Zenon
<1>25. QED
  BY <1>17, <1>18, <1>24, Zenon DEF x

\* A tensor that has one dim and is flat otherwise.
LEMMA VolumeIs ==
  ASSUME NEW dims, NEW k \in Nat \ {0}, Len(dims) = k, NEW n \in Nat, dims[1] = n,
         \A i \in 1 .. k : i # 1 => dims[i] = 1
  PROVE  Volume(dims) = n
<1> DEFINE w == [i \in 0 .. k |-> IF i = 0 THEN 1 ELSE n]
           upto == CHOOSE f : f = [i \in 0 .. Len(dims) |-> IF i = 0 THEN 1 ELSE f[i - 1] * dims[i]]
<1>1. w = [i \in 0 .. k |-> IF i = 0 THEN 1 ELSE w[i - 1] * dims[i]]
  <2>1. ASSUME NEW i \in 0 .. k PROVE w[i] = IF i = 0 THEN 1 ELSE w[i - 1] * dims[i]
    <3>1. CASE i = 0
      BY <3>1
    <3>2. CASE i = 1
      <4>1. w[i] = n /\ w[i - 1] = 1 /\ dims[i] = n
        BY <3>2
      <4>2. QED
        BY <3>2, <4>1
    <3>3. CASE i # 0 /\ i # 1
      <4>1. i \in 1 .. k /\ i - 1 \in 0 .. k /\ i - 1 # 0
        BY <3>3
      <4>2. w[i] = n /\ w[i - 1] = n /\ dims[i] = 1
        BY <3>3, <4>1
      <4>3. QED
        BY <3>3, <4>2
    <3>4. QED
      BY <3>1, <3>2, <3>3
  <2>2. w = [i \in 0 .. k |-> w[i]]
    OBVIOUS
  <2> HIDE DEF w
  <2>3. [i \in 0 .. k |-> w[i]] = [i \in 0 .. k |-> IF i = 0 THEN 1 ELSE w[i - 1] * dims[i]]
    BY <2>1, Zenon
  <2>4. QED
    BY <2>2, <2>3, Zenon
<1>2. w[k] = n /\ w[0] = 1 /\ \A i \in 1 .. k : w[i] = n
  OBVIOUS
<1> HIDE DEF w
<1>3. upto = [i \in 0 .. k |-> IF i = 0 THEN 1 ELSE upto[i - 1] * dims[i]]
  BY <1>1, Zenon
<1>4. Volume(dims) = upto[k]
  BY DEF Volume
<1> HIDE DEF upto
<1> DEFINE S == {m \in Nat : m \in 0 .. k => upto[m] = w[m]}
<1>5. \A i \in 0 .. k : upto[i] = IF i = 0 THEN 1 ELSE upto[i - 1] * dims[i]
  BY <1>3, Zenon
<1>6. \A i \in 0 .. k : w[i] = IF i = 0 THEN 1 ELSE w[i - 1] * dims[i]
  BY <1>1, Zenon
<1>7. 0 \in S
  BY <1>5, <1>6
<1>8. ASSUME NEW m \in Nat, m \in S PROVE m + 1 \in S
  <2> SUFFICES ASSUME m + 1 \in 0 .. k PROVE upto[m + 1] = w[m + 1]
    OBVIOUS
  <2>1. (m + 1) - 1 = m /\ m \in 0 .. k /\ m + 1 # 0
    OBVIOUS
  <2>2. upto[m] = w[m]
    BY <1>8, <2>1
  <2>3. /\ upto[m + 1] = IF m + 1 = 0 THEN 1 ELSE upto[(m + 1) - 1] * dims[m + 1]
        /\ w[m + 1] = IF m + 1 = 0 THEN 1 ELSE w[(m + 1) - 1] * dims[m + 1]
    BY <1>5, <1>6, Zenon
  <2>4. QED
    BY <2>1, <2>2, <2>3, Zenon
<1>9. Nat \subseteq S
  <2> HIDE DEF S
  <2>1. QED
    BY <1>7, <1>8, AllNumbers, Zenon
<1>10. k \in S
  BY <1>9
<1>11. upto[k] = w[k]
  BY <1>10
<1>12. QED
  BY <1>2, <1>4, <1>11

LEMMA TensorsSound ==
  ASSUME NEW T, NEW rows \in Seq(T), NEW n \in Nat
  PROVE  Sound(T, Latents(rows)) /\ Sound(T, Embeddings(rows)) /\ (n \in T => Sound(T, Scalar(n)))
<1> DEFINE k == Len(rows)
<1>0. k \in Nat
  OBVIOUS
<1>1. Volume(<<k, 1, 1, 1>>) = k
  <2> DEFINE d == <<k, 1, 1, 1>>
  <2>1. Len(d) = 4 /\ d[1] = k /\ \A i \in 1 .. 4 : i # 1 => d[i] = 1
    OBVIOUS
  <2> HIDE DEF d, k
  <2>2. Volume(d) = k
    BY <1>0, <2>1, VolumeIs
  <2>3. QED
    BY <2>2 DEF d
<1>2. Volume(<<k, 1, 1>>) = k
  <2> DEFINE d == <<k, 1, 1>>
  <2>1. Len(d) = 3 /\ d[1] = k /\ \A i \in 1 .. 3 : i # 1 => d[i] = 1
    OBVIOUS
  <2> HIDE DEF d, k
  <2>2. Volume(d) = k
    BY <1>0, <2>1, VolumeIs
  <2>3. QED
    BY <2>2 DEF d
<1>3. Volume(<<1>>) = 1
  <2> DEFINE d == <<1>>
  <2>1. Len(d) = 1 /\ d[1] = 1 /\ \A i \in 1 .. 1 : i # 1 => d[i] = 1
    OBVIOUS
  <2> HIDE DEF d
  <2>2. Volume(d) = 1
    BY <2>1, VolumeIs
  <2>3. QED
    BY <2>2 DEF d
<1>4. <<k, 1, 1, 1>> \in Seq(Nat) /\ <<k, 1, 1>> \in Seq(Nat) /\ <<1>> \in Seq(Nat)
  BY <1>0
<1>5. Sound(T, Latents(rows))
  BY <1>1, <1>4 DEF Sound, Latents, Tensor
<1>6. Sound(T, Embeddings(rows))
  BY <1>2, <1>4 DEF Sound, Embeddings, Tensor
<1>7. ASSUME n \in T PROVE Sound(T, Scalar(n))
  <2>1. <<n>> \in Seq(T) /\ Len(<<n>>) = 1
    BY <1>7
  <2>2. QED
    BY <1>3, <1>4, <2>1 DEF Sound, Scalar, Tensor
<1>8. QED
  BY <1>5, <1>6, <1>7

\* What the UNet gets, and what the autoencoder gets, unpack to what was sent.
LEMMA UnpackThree ==
  ASSUME NEW T, Nat \subseteq T, NEW rows \in Seq(T), NEW es \in Seq(T), NEW n \in Nat
  PROVE  Unpack(Pack(<<Latents(rows), Embeddings(es), Scalar(n)>>))
           = <<Latents(rows), Embeddings(es), Scalar(n)>>
<1> DEFINE ts == <<Latents(rows), Embeddings(es), Scalar(n)>>
<1>1. Sound(T, Latents(rows)) /\ Sound(T, Embeddings(es)) /\ Sound(T, Scalar(n))
  BY TensorsSound
<1>2. ts = [i \in 1 .. 3 |-> ts[i]]
  OBVIOUS
<1>3. \A i \in 1 .. 3 : Sound(T, ts[i])
  <2>1. ts[1] = Latents(rows) /\ ts[2] = Embeddings(es) /\ ts[3] = Scalar(n)
    OBVIOUS
  <2> HIDE DEF ts
  <2>2. \A i \in 1 .. 3 : i = 1 \/ i = 2 \/ i = 3
    OBVIOUS
  <2>3. QED
    BY <1>1, <2>1, <2>2, Zenon
<1> HIDE DEF ts
<1>4. 3 \in Nat \ {0}
  OBVIOUS
<1>5. Unpack(Pack(ts)) = ts
  BY <1>2, <1>3, <1>4, UnpackIs, Zenon
<1>6. QED
  BY <1>5 DEF ts

LEMMA UnpackTwo ==
  ASSUME NEW T, Nat \subseteq T, NEW rows \in Seq(T), NEW n \in Nat
  PROVE  Unpack(Pack(<<Scalar(n), Latents(rows)>>)) = <<Scalar(n), Latents(rows)>>
<1> DEFINE ts == <<Scalar(n), Latents(rows)>>
<1>1. Sound(T, Latents(rows)) /\ Sound(T, Scalar(n))
  BY TensorsSound
<1>2. ts = [i \in 1 .. 2 |-> ts[i]]
  OBVIOUS
<1>3. \A i \in 1 .. 2 : Sound(T, ts[i])
  <2>1. ts[1] = Scalar(n) /\ ts[2] = Latents(rows)
    OBVIOUS
  <2> HIDE DEF ts
  <2>2. \A i \in 1 .. 2 : i = 1 \/ i = 2
    OBVIOUS
  <2>3. QED
    BY <1>1, <2>1, <2>2, Zenon
<1> HIDE DEF ts
<1>4. 2 \in Nat \ {0}
  OBVIOUS
<1>5. Unpack(Pack(ts)) = ts
  BY <1>2, <1>3, <1>4, UnpackIs, Zenon
<1>6. QED
  BY <1>5 DEF ts

LEMMA SequenceOf ==
  ASSUME NEW T, NEW n \in Nat, NEW s, s = [i \in 1 .. n |-> s[i]], \A i \in 1 .. n : s[i] \in T
  PROVE  s \in Seq(T) /\ DOMAIN s = 1 .. n /\ Len(s) = n
  OBVIOUS

\* A function on 1 .. n is a sequence of what it holds, beside the numbers.
Values(s, n) == Nat \cup {s[i] : i \in 1 .. n}

\* What comes out of the decoder.
LEMMA DecodeIs ==
  ASSUME NEW rows, NEW n \in Nat, rows = [i \in 1 .. n |-> rows[i]]
  PROVE  Decode(rows) = [i \in 1 .. n |-> [decoded |-> rows[i]]]
<1> DEFINE T == Values(rows, n)
<1>1. Nat \subseteq T /\ rows \in Seq(T) /\ DOMAIN rows = 1 .. n
  BY DEF Values
<1> HIDE DEF T
<1> DEFINE x == Pack(<<Scalar(0), Latents(rows)>>)
<1>2. Unpack(x) = <<Scalar(0), Latents(rows)>>
  BY <1>1, UnpackTwo
<1>3. Decode(rows) = Vae(x)
  BY DEF Decode
<1> HIDE DEF x
<1>4. Unpack(x)[1].data[1] = 0 /\ Unpack(x)[2].data = rows
  <2>1. Scalar(0).data[1] = 0 /\ Latents(rows).data = rows
    BY DEF Scalar, Latents, Tensor
  <2>2. Unpack(x)[1] = Scalar(0) /\ Unpack(x)[2] = Latents(rows)
    BY <1>2
  <2>3. QED
    BY <2>1, <2>2, Zenon
<1>5. Vae(x) = IF Unpack(x)[1].data[1] = 1 THEN [i \in DOMAIN Unpack(x)[2].data |-> [encoded |-> Unpack(x)[2].data[i]]]
                  ELSE [i \in DOMAIN Unpack(x)[2].data |-> [decoded |-> Unpack(x)[2].data[i]]]
  BY DEF Vae
<1>6. Vae(x) = [i \in DOMAIN rows |-> [decoded |-> rows[i]]]
  BY <1>4, <1>5
<1>7. QED
  BY <1>1, <1>3, <1>6, Zenon

\* The UNet predicts for the latents and the prompts it is given, row by row.
PredictedRows(rows, n, es, t) ==
  [i \in 1 .. n |-> [of |-> rows[i].from, done |-> Len(rows[i].steps), under |-> es[i], at |-> t]]
LEMMA UNetIs ==
  ASSUME NEW rows, NEW n \in Nat, rows = [i \in 1 .. n |-> rows[i]],
         NEW es, NEW m \in Nat, es = [i \in 1 .. m |-> es[i]], NEW t \in Nat,
         NEW x, x = Pack(<<Latents(rows), Embeddings(es), Scalar(t)>>)
  PROVE  (UNetRuns(x) <=> n = m) /\ UNet(x) = PredictedRows(rows, n, es, t)
<1> DEFINE T == Values(rows, n) \cup Values(es, m)
<1>1. Nat \subseteq T /\ rows \in Seq(T) /\ DOMAIN rows = 1 .. n /\ es \in Seq(T) /\ Len(rows) = n /\ Len(es) = m
  <2>1. Nat \subseteq T /\ (\A i \in 1 .. n : rows[i] \in T) /\ (\A i \in 1 .. m : es[i] \in T)
    BY DEF Values
  <2> HIDE DEF T
  <2>2. rows \in Seq(T) /\ DOMAIN rows = 1 .. n /\ Len(rows) = n
    BY <2>1, SequenceOf
  <2>3. es \in Seq(T) /\ Len(es) = m
    BY <2>1, SequenceOf
  <2>4. QED
    BY <2>1, <2>2, <2>3
<1> HIDE DEF T
<1>2. Unpack(x) = <<Latents(rows), Embeddings(es), Scalar(t)>>
  BY <1>1, UnpackThree
<1>3. Unpack(x)[1].data = rows /\ Unpack(x)[2].data = es /\ Unpack(x)[3].data[1] = t
  <2>1. Scalar(t).data[1] = t /\ Latents(rows).data = rows /\ Embeddings(es).data = es
    BY DEF Scalar, Latents, Embeddings, Tensor
  <2>2. Unpack(x)[1] = Latents(rows) /\ Unpack(x)[2] = Embeddings(es) /\ Unpack(x)[3] = Scalar(t)
    BY <1>2
  <2>3. QED
    BY <2>1, <2>2, Zenon
<1>4. UNetRuns(x) <=> n = m
  BY <1>1, <1>3, Zenon DEF UNetRuns
<1>5. UNet(x) = [i \in DOMAIN Unpack(x)[1].data |->
                   [of |-> Unpack(x)[1].data[i].from, done |-> Len(Unpack(x)[1].data[i].steps),
                    under |-> Unpack(x)[2].data[i], at |-> Unpack(x)[3].data[1]]]
  BY DEF UNet
<1>6. QED
  BY <1>1, <1>3, <1>4, <1>5, Zenon DEF PredictedRows

-----------------------------------------------------------------------------
(* A request. *)

\* The fields of a request.
LEMMA RequestFacts ==
  ASSUME SdAssumption, req \in Requests
  PROVE  /\ req.guidance \in {"on", "off", "default"} /\ req.steps \in 0 .. MaxSteps + 1
         /\ req.samples \in 0 .. MaxSamples /\ req.bsize \in Nat /\ req.img2img \in BOOLEAN
         /\ req.strength \in 0 .. Strength + 1 /\ req.every \in 0 .. 2
         /\ ~ req.img2img => req.strength = Strength
<1>1. /\ req \in [guidance : {"on", "off", "default"}, steps : 0 .. MaxSteps + 1,
                  samples : 0 .. MaxSamples, bsize : UNION {Bsizes[g] : g \in DOMAIN Bsizes},
                  img2img : BOOLEAN, strength : 0 .. Strength + 1, every : 0 .. 2,
                  long : {"none", "prompt", "negative"}]
      /\ req.bsize \in Bsizes[req.guidance] /\ (req.img2img \/ req.strength = Strength)
  BY DEF Requests
<1>2. req.bsize \in Nat
  BY <1>1 DEF SdAssumption
<1>3. QED
  BY <1>1, <1>2

LEMMA TimesIs ==
  ASSUME SdAssumption, req \in Requests PROVE Times \in Nat \ {0} /\ (req.bsize # 0 => Times = req.bsize)
BY RequestFacts DEF Times

LEMMA StepsIs ==
  ASSUME SdAssumption, req \in Requests PROVE Steps \in 0 .. MaxSteps
<1>1. req.steps \in 0 .. MaxSteps + 1 /\ MaxSteps \in Nat \ {0}
  BY RequestFacts DEF SdAssumption
<1>2. QED
  BY <1>1 DEF Steps, DefaultSteps

\* A strength in range starts within the schedule.
LEMMA TStartIs ==
  ASSUME SdAssumption, req \in Requests, req.strength <= Strength PROVE TStart \in 0 .. Steps
<1> DEFINE n == Steps
           s == req.strength
           q == (n * s) \div Strength
<1>1. n \in Nat
  BY StepsIs
<1>2. Strength \in Nat \ {0} /\ s \in 0 .. Strength
  BY RequestFacts DEF SdAssumption
<1>3. TStart = IF req.img2img THEN n - q ELSE 0
  BY DEF TStart
<1> HIDE DEF n, s
<1>4. n * s \in Nat /\ n * s <= n * Strength
  <2>1. Strength = s + (Strength - s) /\ Strength - s \in Nat /\ s \in Nat
    BY <1>2
  <2>2. n * Strength = n * s + n * (Strength - s) /\ n * (Strength - s) \in Nat /\ n * s \in Nat
    BY <1>1, <2>1
  <2>3. QED
    BY <2>2
<1>5. q \in 0 .. n
  <2> DEFINE p == n * s
  <2>1. p \in Nat /\ p <= n * Strength
    BY <1>4
  <2> HIDE DEF p
  <2>2. p \div Strength \in Nat /\ p \div Strength <= n
    BY <1>1, <1>2, <2>1
  <2>3. QED
    BY <1>1, <2>2 DEF p
<1> HIDE DEF q
<1>6. QED
  BY <1>1, <1>3, <1>5 DEF n

-----------------------------------------------------------------------------
(* The prompts. *)

\* Prompts per picture.
PerText == IF Guided THEN 2 ELSE 1
Texts   == IF Guided THEN <<Both("negative"), Both("prompt")>> ELSE <<Both("prompt")>>
Prompted(es) ==
  /\ es = [i \in 1 .. PerText * Times |-> es[i]]
  /\ \A i \in 1 .. PerText * Times : es[i] = Both(IF Guided THEN RowPrompt(i) ELSE "prompt")

LEMMA PairIs == ASSUME NEW a, NEW b PROVE <<a>> \o <<b>> = <<a, b>>
<1> DEFINE T == {a, b}
<1>1. <<a>> \in Seq(T) /\ b \in T
  OBVIOUS
<1>2. Append(<<a>>, b) = <<a>> \o <<b>>
  BY <1>1, AppendIsConcat
<1>3. Append(<<a>>, b) = <<a, b>>
  <2> DEFINE s == Append(<<a>>, b)
  <2>1. s \in Seq(T) /\ Len(s) = 2 /\ s[1] = a /\ s[2] = b
    BY <1>1
  <2> HIDE DEF s
  <2>2. s = [i \in 1 .. 2 |-> s[i]]
    BY <2>1
  <2>3. [i \in 1 .. 2 |-> s[i]] = <<s[1], s[2]>>
    OBVIOUS
  <2>4. QED
    BY <2>1, <2>2, <2>3 DEF s
<1>4. QED
  BY <1>2, <1>3

LEMMA TextsIs ==
  [i \in DOMAIN EmbeddingsOf(1) |-> [m \in DOMAIN Models |-> EmbeddingsOf(Models[m])[i]]] = Texts
<1>1. CASE Guided
  <2>0. ASSUME NEW a, NEW b PROVE <<a>> \o <<b>> = <<a, b>>
    BY PairIs
  <2>1. \A m : EmbeddingsOf(m) = <<Clip(m, "negative"), Clip(m, "prompt")>>
    BY <1>1, <2>0, Zenon DEF EmbeddingsOf
  <2>2. DOMAIN EmbeddingsOf(1) = 1 .. 2
    BY <2>1
  <2>3. \A m : EmbeddingsOf(m)[1] = Clip(m, "negative") /\ EmbeddingsOf(m)[2] = Clip(m, "prompt")
    BY <2>1
  <2> DEFINE e(i) == [m \in DOMAIN Models |-> EmbeddingsOf(Models[m])[i]]
  <2>4. e(1) = Both("negative") /\ e(2) = Both("prompt")
    BY <2>3, Zenon DEF Both
  <2> HIDE DEF e
  <2>5. [i \in 1 .. 2 |-> e(i)] = <<e(1), e(2)>>
    OBVIOUS
  <2>6. Texts = <<Both("negative"), Both("prompt")>>
    BY <1>1 DEF Texts
  <2>7. [i \in DOMAIN EmbeddingsOf(1) |-> e(i)] = Texts
    BY <2>2, <2>4, <2>5, <2>6, Zenon
  <2>8. QED
    BY <2>7 DEF e
<1>2. CASE ~ Guided
  <2>1. \A m : EmbeddingsOf(m) = <<Clip(m, "prompt")>>
    BY <1>2 DEF EmbeddingsOf
  <2>2. DOMAIN EmbeddingsOf(1) = 1 .. 1
    BY <2>1
  <2>3. \A m : EmbeddingsOf(m)[1] = Clip(m, "prompt")
    BY <2>1
  <2> DEFINE e(i) == [m \in DOMAIN Models |-> EmbeddingsOf(Models[m])[i]]
  <2>4. e(1) = Both("prompt")
    BY <2>3, Zenon DEF Both
  <2> HIDE DEF e
  <2>5. [i \in 1 .. 1 |-> e(i)] = <<e(1)>>
    OBVIOUS
  <2>6. Texts = <<Both("prompt")>>
    BY <1>2 DEF Texts
  <2>7. [i \in DOMAIN EmbeddingsOf(1) |-> e(i)] = Texts
    BY <2>2, <2>4, <2>5, <2>6, Zenon
  <2>8. QED
    BY <2>7 DEF e
<1>3. QED
  BY <1>1, <1>2

\* A row of two columns, and the column it ends in.
LEMMA Halved ==
  ASSUME NEW n \in Nat, NEW m \in 1 .. 2 * n
  PROVE  \E i \in 1 .. n, j \in 1 .. 2 : m = (i - 1) * 2 + j /\ (m % 2 = 1 <=> j = 1)
<1> DEFINE j == IF m % 2 = 1 THEN 1 ELSE 2
           i == (m - j) \div 2 + 1
<1>1. i \in 1 .. n /\ j \in 1 .. 2 /\ m = (i - 1) * 2 + j /\ (m % 2 = 1 <=> j = 1)
  OBVIOUS
<1>2. QED
  BY <1>1

LEMMA RepeatedIs ==
  ASSUME SdAssumption, req \in Requests PROVE Prompted(Repeated(Texts, Times))
<1> DEFINE n == Times
           k == PerText
           T == {Both("negative"), Both("prompt")}
           s == [i \in 1 .. n |-> Texts]
           r == FlattenSeq(s)
<1>1. n \in Nat \ {0}
  BY TimesIs
<1>2. Texts \in Seq(T) /\ Len(Texts) = k /\ k \in Nat
  <2>0. Both("negative") \in T /\ Both("prompt") \in T
    OBVIOUS
  <2> HIDE DEF T
  <2>1. CASE Guided
    BY <2>0, <2>1 DEF Texts, PerText
  <2>2. CASE ~ Guided
    BY <2>0, <2>2 DEF Texts, PerText
  <2>3. QED
    BY <2>1, <2>2
<1> HIDE DEF T, n, k
<1>3. s \in Seq(Seq(T)) /\ Len(s) = n
  BY <1>1, <1>2
<1>4. \A i \in 1 .. n : s[i] = Texts
  OBVIOUS
<1> HIDE DEF s
<1>5. \A i \in 1 .. Len(s) : Len(s[i]) = k
  BY <1>2, <1>3, <1>4
<1>6. Holds(T, k, s, n, r)
  <2>1. Holds(T, k, s, Len(s), FlattenSeq(s))
    BY <1>2, <1>3, <1>5, FlattenEven
  <2>2. QED
    BY <1>3, <2>1
<1> HIDE DEF r
<1>7. /\ r \in Seq(T) /\ Len(r) = n * k
      /\ \A i \in 1 .. n, j \in 1 .. k : r[Place(i, k, j)] = Texts[j]
  BY <1>4, <1>6, Zenon DEF Holds
<1>8. k * n = n * k /\ r = [i \in 1 .. k * n |-> r[i]]
  <2>1. k * n = n * k
    BY <1>1, <1>2
  <2>2. r = [i \in 1 .. n * k |-> r[i]]
    BY <1>7
  <2>3. QED
    BY <2>1, <2>2
<1>9. ASSUME NEW m \in 1 .. k * n PROVE r[m] = Both(IF Guided THEN RowPrompt(m) ELSE "prompt")
  <2>1. CASE ~ Guided
    <3>1. k = 1 /\ Texts = <<Both("prompt")>> /\ m \in 1 .. n
      BY <1>1, <1>9, <2>1 DEF k, PerText, Texts
    <3>2. Place(m, k, 1) = m /\ 1 \in 1 .. k
      <4>1. (m - 1) * 1 + 1 = m
        BY <3>1
      <4>2. QED
        BY <3>1, <4>1 DEF Place
    <3>3. r[m] = Texts[1]
      BY <1>7, <3>1, <3>2, Zenon
    <3>4. QED
      BY <2>1, <3>1, <3>3
  <2>2. CASE Guided
    <3>1. k = 2 /\ Texts = <<Both("negative"), Both("prompt")>>
      BY <2>2 DEF k, PerText, Texts
    <3>2. n \in Nat /\ m \in 1 .. 2 * n
      BY <1>1, <1>9, <3>1
    <3>3. PICK i \in 1 .. n, j \in 1 .. 2 : m = (i - 1) * 2 + j /\ (m % 2 = 1 <=> j = 1)
      BY <3>2, Halved
    <3>4. r[m] = Texts[j]
      <4>1. Place(i, k, j) = m /\ j \in 1 .. k
        BY <3>1, <3>3 DEF Place
      <4>2. QED
        BY <1>7, <4>1
    <3>5. RowPrompt(m) = IF j = 1 THEN "negative" ELSE "prompt"
      BY <3>3 DEF RowPrompt
    <3>6. Texts[j] = Both(RowPrompt(m))
      BY <3>1, <3>5
    <3>7. QED
      BY <2>2, <3>4, <3>6
  <2>3. QED
    BY <2>1, <2>2
<1>11. Repeated(Texts, Times) = r
  BY DEF Repeated, r, s, n
<1>12. Prompted(r)
  BY <1>8, <1>9, Zenon DEF Prompted, n, k
<1>13. QED
  BY <1>11, <1>12

-----------------------------------------------------------------------------
(* A batch of latent images. *)

\* Rows of a batch: image to image starts from one.
Width  == IF req.img2img THEN 1 ELSE req.bsize

LEMMA WidthIs ==
  ASSUME SdAssumption, req \in Requests PROVE Width \in Nat /\ PerText \in {1, 2}
BY RequestFacts DEF Width, PerText

LEMMA InputIs ==
  ASSUME SdAssumption, req \in Requests, latents = [j \in 1 .. Width |-> latents[j]]
  PROVE  /\ Input = [i \in 1 .. PerText * Width |-> Input[i]]
         /\ ~ Guided => Input = latents
         /\ Guided => \A j \in 1 .. Width : Input[j] = latents[j] /\ Input[Width + j] = latents[j]
<1> DEFINE w == Width
           l == latents
           T == {l[j] : j \in 1 .. w}
<1>1. w \in Nat
  BY WidthIs
<1>2. l = [j \in 1 .. w |-> l[j]]
  OBVIOUS
<1>3. l \in Seq(T) /\ Len(l) = w
  <2> HIDE DEF w, l
  <2>1. QED
    BY <1>1, <1>2
<1>4. CASE ~ Guided
  <2>1. Input = l /\ PerText = 1
    BY <1>4 DEF Input, PerText
  <2>2. 1 * w = w
    BY <1>1
  <2>3. QED
    BY <1>2, <1>4, <2>1, <2>2
<1>5. CASE Guided
  <2>1. Input = l \o l /\ PerText = 2
    BY <1>5 DEF Input, PerText
  <2> HIDE DEF w, l, T
  <2>2. /\ l \o l \in Seq(T) /\ Len(l \o l) = Len(l) + Len(l)
        /\ \A i \in 1 .. Len(l) + Len(l) : (l \o l)[i] = IF i <= Len(l) THEN l[i] ELSE l[i - Len(l)]
    BY <1>3, ConcatProperties, Zenon
  <2> DEFINE q == l \o l
  <2> HIDE DEF q
  <2>3. /\ q \in Seq(T) /\ Len(q) = w + w
        /\ \A i \in 1 .. w + w : q[i] = IF i <= w THEN l[i] ELSE l[i - w]
    BY <1>3, <2>2 DEF q
  <2>4. q = [i \in 1 .. 2 * w |-> q[i]]
    BY <1>1, <2>3
  <2>5. ASSUME NEW j \in 1 .. w PROVE q[j] = l[j] /\ q[w + j] = l[j]
    <3>1. j \in 1 .. w + w /\ w + j \in 1 .. w + w /\ j <= w /\ ~ (w + j <= w) /\ (w + j) - w = j
      BY <1>1
    <3>2. QED
      BY <2>3, <3>1
  <2>6. QED
    BY <1>5, <2>1, <2>4, <2>5 DEF q, l, w
<1>6. QED
  BY <1>4, <1>5

\* What the UNet predicts of a latent image under a prompt.
Guess(l, prompt) == [of |-> l.from, done |-> Len(l.steps), under |-> Both(prompt), at |-> step]
Guesses(l, j)    == [i \in DOMAIN Met(j) |-> Guess(l, Met(j)[i])]

\* The UNet runs on a full batch, and its answer is split by picture.
LEMMA PredictionIs ==
  ASSUME SdAssumption, req \in Requests, latents = [j \in 1 .. Width |-> latents[j]],
         Prompted(emb), step \in Nat
  PROVE  /\ UNetRuns(Packed) <=> Width = Times
         /\ Width = Times
              => \A j \in 1 .. Width : Chunks(UNet(Packed))[j] = Guesses(latents[j], j)
<1> DEFINE w == Width
           n == PerText * w
           m == PerText * Times
           es == emb
           q  == Input
           x == Packed
<1>0. w \in Nat /\ Times \in Nat \ {0} /\ PerText \in {1, 2}
  BY WidthIs, TimesIs
<1>1. n \in Nat /\ m \in Nat /\ (n = m <=> w = Times)
  BY <1>0
<1>2. q = [i \in 1 .. n |-> q[i]] /\ es = [i \in 1 .. m |-> es[i]]
  BY InputIs DEF Prompted
<1>3. x = Pack(<<Latents(q), Embeddings(es), Scalar(step)>>)
  BY DEF Packed
<1> HIDE DEF w, n, m, es, q, x
<1> DEFINE u == PredictedRows(q, n, es, step)
<1>5. (UNetRuns(x) <=> n = m) /\ UNet(x) = u
  BY <1>1, <1>2, <1>3, UNetIs
<1>6. \A i \in 1 .. n : u[i] = [of |-> q[i].from, done |-> Len(q[i].steps), under |-> es[i], at |-> step]
  BY Zenon DEF PredictedRows
<1>6a. Len(u) = n /\ DOMAIN u = 1 .. n
  BY <1>1 DEF PredictedRows
<1> HIDE DEF u
<1>7. ASSUME w = Times, NEW j \in 1 .. w PROVE Chunks(u)[j] = Guesses(latents[j], j)
  <2>0. n = m /\ \A i \in 1 .. n : es[i] = Both(IF Guided THEN RowPrompt(i) ELSE "prompt")
    BY <1>1, <1>7 DEF Prompted, es, m
  <2>1. CASE Guided
    <3>1. n = 2 * w /\ n \div 2 = w /\ j \in 1 .. n /\ w + j \in 1 .. n
      BY <1>0, <1>7, <2>1 DEF n, PerText
    <3>2. q[j] = latents[j] /\ q[w + j] = latents[j]
      BY <1>7, <2>1, InputIs DEF q, w
    <3>2a. es[j] = Both(RowPrompt(j)) /\ es[w + j] = Both(RowPrompt(w + j))
      BY <2>0, <2>1, <3>1
    <3>3. u[j] = Guess(latents[j], RowPrompt(j)) /\ u[w + j] = Guess(latents[j], RowPrompt(w + j))
      BY <1>6, <3>1, <3>2, <3>2a, Zenon DEF Guess
    <3>5. Chunks(u) = [i \in 1 .. w |-> <<u[i], u[w + i]>>]
      BY <1>6a, <2>1, <3>1 DEF Chunks
    <3>6. Chunks(u)[j] = <<Guess(latents[j], RowPrompt(j)), Guess(latents[j], RowPrompt(w + j))>>
      BY <1>7, <3>3, <3>5
    <3>7. Met(j) = <<RowPrompt(j), RowPrompt(w + j)>>
      BY <1>7, <2>1 DEF Met
    <3>8. \A a, b : DOMAIN <<a, b>> = 1 .. 2 /\ <<a, b>>[1] = a /\ <<a, b>>[2] = b
      OBVIOUS
    <3>9. Guesses(latents[j], j) = [i \in 1 .. 2 |-> Guess(latents[j], Met(j)[i])]
      <4>1. DOMAIN Met(j) = 1 .. 2
        BY <3>7, <3>8
      <4>2. QED
        BY <4>1, Zenon DEF Guesses
    <3> DEFINE g(i) == Guess(latents[j], Met(j)[i])
    <3>10. g(1) = Guess(latents[j], RowPrompt(j)) /\ g(2) = Guess(latents[j], RowPrompt(w + j))
      BY <3>7, <3>8, Zenon
    <3> HIDE DEF g
    <3>11. [i \in 1 .. 2 |-> g(i)] = <<g(1), g(2)>>
      OBVIOUS
    <3>12. Guesses(latents[j], j) = [i \in 1 .. 2 |-> g(i)]
      BY <3>9 DEF g
    <3>13. QED
      BY <3>6, <3>10, <3>11, <3>12, Zenon
  <2>2. CASE ~ Guided
    <3>1. n = w
      BY <1>0, <2>2 DEF n, PerText
    <3>2. q = latents /\ es[j] = Both("prompt")
      BY <1>7, <2>0, <2>2, <3>1, InputIs DEF q
    <3>3. u[j] = Guess(latents[j], "prompt")
      BY <1>6, <1>7, <3>1, <3>2, Zenon DEF Guess
    <3>4. Chunks(u)[j] = <<u[j]>>
      BY <1>6a, <1>7, <2>2, <3>1 DEF Chunks
    <3>5. Met(j) = <<"prompt">>
      BY <2>2 DEF Met
    <3>6. DOMAIN Met(j) = 1 .. 1 /\ Met(j)[1] = "prompt"
      BY <3>5
    <3> DEFINE g(i) == Guess(latents[j], Met(j)[i])
    <3>7. Guesses(latents[j], j) = [i \in 1 .. 1 |-> g(i)] /\ g(1) = Guess(latents[j], "prompt")
      BY <3>6, Zenon DEF Guesses
    <3> HIDE DEF g
    <3>8. [i \in 1 .. 1 |-> g(i)] = <<g(1)>>
      OBVIOUS
    <3>9. QED
      BY <3>3, <3>4, <3>7, <3>8, Zenon
  <2>3. QED
    BY <2>1, <2>2
<1>8. QED
  BY <1>1, <1>5, <1>7, Zenon DEF x, w

\* The steps of a picture that is as it should be.
LEMMA WantedShape ==
  ASSUME NEW s, NEW j, NEW to
  PROVE  Wanted(s, j, to) = [from |-> Start(s, j), steps |-> Wanted(s, j, to).steps]
BY DEF Wanted

LEMMA WantedIs ==
  ASSUME NEW s, NEW j, NEW to
  PROVE  /\ Wanted(s, j, to).from = Start(s, j)
         /\ Wanted(s, j, to) = [from |-> Start(s, j), steps |-> Wanted(s, j, to).steps]
         /\ Wanted(s, j, to).steps =
              [k \in 1 .. to - TStart |->
                 [at |-> TStart + k - 1,
                  used |-> [i \in DOMAIN Met(j) |-> Seen(Start(s, j), k - 1, Met(j)[i])]]]
BY DEF Wanted

LEMMA AppendIs ==
  ASSUME NEW s, NEW n \in Nat, s = [k \in 1 .. n |-> s[k]], NEW e
  PROVE  Append(s, e) = [k \in 1 .. n + 1 |-> IF k = n + 1 THEN e ELSE s[k]]
<1> DEFINE T == {s[k] : k \in 1 .. n} \cup {e}
<1>1. s \in Seq(T) /\ Len(s) = n /\ e \in T
  OBVIOUS
<1> HIDE DEF T
<1>2. Append(s, e) = [k \in 1 .. n + 1 |-> IF k = n + 1 THEN e ELSE s[k]]
  BY <1>1
<1>3. QED
  BY <1>2

\* One step more of every picture.
LEMMA SteppedIs ==
  ASSUME SdAssumption, req \in Requests, req.strength <= Strength, Prompted(emb),
         latents = [j \in 1 .. Width |-> latents[j]], step \in TStart .. Steps,
         Width = Times, NEW j \in 1 .. Width, latents[j] = Wanted(sample, j, step)
  PROVE  Stepped[j] = Wanted(sample, j, step + 1)
<1> DEFINE l   == latents[j]
           f   == Start(sample, j)
           old == Wanted(sample, j, step).steps
           n   == step - TStart
           used(k) == [i \in DOMAIN Met(j) |-> Seen(f, k - 1, Met(j)[i])]
           g(k) == [at |-> TStart + k - 1, used |-> used(k)]
           e   == [at |-> step, used |-> Chunks(UNet(Packed))[j]]
<1>1. TStart \in Nat /\ Steps \in Nat /\ step \in Nat /\ n \in Nat /\ step = TStart + n
  BY TStartIs, StepsIs
<1>2. old = [k \in 1 .. n |-> g(k)] /\ l = [from |-> f, steps |-> old]
  BY WantedIs
<1>3. Len(old) = n
  BY <1>1, <1>2
<1>4. l.from = f /\ l.steps = old
  <2> HIDE DEF l, f, old
  <2>1. QED
    BY <1>2
<1>5. Chunks(UNet(Packed))[j] = Guesses(l, j)
  BY <1>1, PredictionIs
<1>6. Guesses(l, j) = used(n + 1)
  <2>1. \A p : Guess(l, p) = Seen(f, n, p)
    BY <1>1, <1>3, <1>4, Zenon DEF Guess, Seen
  <2>2. (n + 1) - 1 = n
    BY <1>1
  <2> HIDE DEF l, f, n
  <2>3. used(n + 1) = [i \in DOMAIN Met(j) |-> Seen(f, n, Met(j)[i])]
    BY <2>2
  <2> HIDE DEF used
  <2>4. QED
    BY <2>1, <2>3, Zenon DEF Guesses
<1>7. e = g(n + 1)
  <2>1. TStart + (n + 1) - 1 = step
    BY <1>1
  <2> HIDE DEF used, n
  <2>2. QED
    BY <1>5, <1>6, <2>1
<1>8. Stepped[j] = [l EXCEPT !.steps = Append(@, e)]
  BY DEF Stepped
<1> HIDE DEF used, e, f, l, old, n
<1>9. Stepped[j] = [from |-> f, steps |-> Append(old, e)]
  BY <1>2, <1>8
<1>10. old = [k \in 1 .. n |-> old[k]] /\ \A k \in 1 .. n : old[k] = g(k)
  BY <1>2
<1>11. Append(old, e) = [k \in 1 .. n + 1 |-> IF k = n + 1 THEN e ELSE old[k]]
  BY <1>1, <1>10, AppendIs
<1> HIDE DEF g
<1>12. [k \in 1 .. n + 1 |-> IF k = n + 1 THEN e ELSE old[k]] = [k \in 1 .. n + 1 |-> g(k)]
  <2>1. ASSUME NEW k \in 1 .. n + 1 PROVE (IF k = n + 1 THEN e ELSE old[k]) = g(k)
    <3>1. CASE k = n + 1
      BY <1>7, <3>1
    <3>2. CASE k # n + 1
      <4>1. k \in 1 .. n
        BY <1>1, <3>2
      <4>2. QED
        BY <1>10, <3>2, <4>1
    <3>3. QED
      BY <3>1, <3>2
  <2>2. QED
    BY <2>1, Zenon
<1>13. Wanted(sample, j, step + 1) = [from |-> f, steps |-> [k \in 1 .. n + 1 |-> g(k)]]
  <2>1. (step + 1) - TStart = n + 1
    BY <1>1
  <2>2. Wanted(sample, j, step + 1).steps = [k \in 1 .. (step + 1) - TStart |-> g(k)]
    BY WantedIs DEF g, used, f
  <2>3. Wanted(sample, j, step + 1) = [from |-> f, steps |-> Wanted(sample, j, step + 1).steps]
    <3>1. Wanted(sample, j, step + 1) = [from |-> Start(sample, j), steps |-> Wanted(sample, j, step + 1).steps]
      BY WantedShape
    <3>2. QED
      BY <3>1 DEF f
  <2>4. Wanted(sample, j, step + 1).steps = [k \in 1 .. n + 1 |-> g(k)]
    BY <2>1, <2>2
  <2>5. QED
    BY <2>3, <2>4, Zenon
<1>14. QED
  BY <1>9, <1>11, <1>12, <1>13, Zenon

LEMMA SteppedShape ==
  ASSUME NEW n \in Nat, latents = [j \in 1 .. n |-> latents[j]]
  PROVE  Stepped = [j \in 1 .. n |-> Stepped[j]]
<1>1. DOMAIN latents = 1 .. n
  OBVIOUS
<1>2. QED
  BY <1>1 DEF Stepped

\* Before its first step a picture is what it starts from.
LEMMA FreshIs ==
  ASSUME SdAssumption, req \in Requests, req.strength <= Strength, NEW s, NEW j
  PROVE  Wanted(s, j, TStart) = Fresh(Start(s, j))
<1>1. TStart \in Nat
  BY TStartIs, StepsIs
<1>2. TStart - TStart = 0
  BY <1>1
<1> DEFINE f == Start(s, j)
           h(k) == [at |-> TStart + k - 1,
                    used |-> [i \in DOMAIN Met(j) |-> Seen(f, k - 1, Met(j)[i])]]
<1>3. Wanted(s, j, TStart).steps = [k \in 1 .. 0 |-> h(k)]
  <2>1. Wanted(s, j, TStart).steps = [k \in 1 .. TStart - TStart |-> h(k)]
    BY WantedIs
  <2> HIDE DEF h
  <2>2. QED
    BY <1>2, <2>1
<1> HIDE DEF h
<1>4. [k \in 1 .. 0 |-> h(k)] = <<>>
  OBVIOUS
<1>5. Wanted(s, j, TStart) = [from |-> f, steps |-> Wanted(s, j, TStart).steps]
  BY WantedIs
<1> HIDE DEF f
<1>6. Wanted(s, j, TStart) = [from |-> f, steps |-> <<>>]
  BY <1>3, <1>4, <1>5, Zenon
<1>7. QED
  BY <1>6 DEF Fresh, f

\* What is shown of a batch.
LEMMA ShowIs ==
  ASSUME NEW rows, NEW n \in Nat, rows = [j \in 1 .. n |-> rows[j]], req.bsize \in Nat, n >= req.bsize, NEW at
  PROVE  /\ Splits(rows)
         /\ Show(rows, at) = [sample |-> sample, at |-> at, images |-> [j \in 1 .. req.bsize |-> [decoded |-> rows[j]]]]
<1> DEFINE b == req.bsize
           d == [i \in 1 .. n |-> [decoded |-> rows[i]]]
<1>1. Splits(rows)
  BY DEF Splits
<1>2. Decode(rows) = d
  BY DecodeIs
<1>3. SubSeq(d, 1, b) = [j \in 1 .. b |-> [decoded |-> rows[j]]]
  <2> DEFINE s == SubSeq(d, 1, b)
             T == {d[i] : i \in 1 .. n}
  <2>1. d \in Seq(T) /\ Len(d) = n /\ \A i \in 1 .. n : d[i] = [decoded |-> rows[i]]
    OBVIOUS
  <2> HIDE DEF d, T
  <2>2. s \in Seq(T) /\ Len(s) = b /\ \A j \in 1 .. b : s[j] = d[j]
    BY <2>1
  <2> HIDE DEF s
  <2>3. s = [j \in 1 .. b |-> s[j]]
    BY <2>2
  <2>4. \A j \in 1 .. b : s[j] = [decoded |-> rows[j]]
    BY <2>1, <2>2
  <2>5. [j \in 1 .. b |-> s[j]] = [j \in 1 .. b |-> [decoded |-> rows[j]]]
    BY <2>4, Zenon
  <2>6. QED
    BY <2>3, <2>5 DEF s
<1>4. QED
  BY <1>1, <1>2, <1>3, Zenon DEF Show

-----------------------------------------------------------------------------
(* What is shown. *)

Right(b) ==
  /\ b.images = [j \in 1 .. req.bsize |-> b.images[j]]
  /\ \A j \in 1 .. req.bsize :
       b.images[j] = [decoded |-> Wanted(b.sample, j, IF b.at = Steps THEN Steps ELSE b.at + 1)]
\* The batches in s are right, in order, and those of the moments in N.
Gallery(s, N) ==
  /\ Len(s) \in Nat /\ s = [i \in 1 .. Len(s) |-> s[i]]
  /\ {<<b.sample, b.at>> : b \in ToSet(s)} = N
  /\ \A i, j \in DOMAIN s : i < j => Before(s[i], s[j])
  /\ \A i \in DOMAIN s : Right(s[i])
Intermediate(to) == {t \in TStart .. to - 1 : req.every # 0 /\ t % req.every = 0}
\* The moments before timestep `to` of sample n.
Noted(n, to) == ((0 .. n - 1) \X Moments) \cup ({n} \X Intermediate(to))

LEMMA NoneShown == Gallery(<<>>, {})
BY DEF Gallery, ToSet

\* One batch more.
LEMMA OneMore ==
  ASSUME NEW s, NEW N, Gallery(s, N), NEW b, Right(b),
         \A p \in N : p[1] < b.sample \/ (p[1] = b.sample /\ p[2] < b.at)
  PROVE  Gallery(Append(s, b), N \cup {<<b.sample, b.at>>})
<1> DEFINE n == Len(s)
           t == Append(s, b)
<1>1. n \in Nat /\ s = [i \in 1 .. n |-> s[i]] /\ DOMAIN s = 1 .. n
  BY DEF Gallery
<1> HIDE DEF n
<1>2. t = [i \in 1 .. n + 1 |-> IF i = n + 1 THEN b ELSE s[i]]
  BY <1>1, AppendIs
<1> HIDE DEF t
<1>3. DOMAIN t = 1 .. n + 1 /\ Len(t) = n + 1 /\ t[n + 1] = b /\ \A i \in 1 .. n : t[i] = s[i]
  BY <1>1, <1>2
<1>4. Len(t) \in Nat /\ t = [i \in 1 .. Len(t) |-> t[i]]
  <2>1. t = [i \in 1 .. n + 1 |-> t[i]]
    BY <1>2
  <2>2. QED
    BY <1>1, <1>3, <2>1
<1>5. \A i \in 1 .. n + 1 : i \in 1 .. n \/ i = n + 1
  BY <1>1
<1>6. {<<c.sample, c.at>> : c \in ToSet(t)} = N \cup {<<b.sample, b.at>>}
  <2>1. ToSet(t) = ToSet(s) \cup {b}
    BY <1>1, <1>3, <1>5 DEF ToSet
  <2>2. {<<c.sample, c.at>> : c \in ToSet(s)} = N
    BY DEF Gallery
  <2>3. QED
    BY <2>1, <2>2
<1>7. ASSUME NEW i \in 1 .. n PROVE Before(s[i], b)
  <2>1. <<s[i].sample, s[i].at>> \in N
    <3>1. s[i] \in ToSet(s)
      BY <1>1 DEF ToSet
    <3>2. {<<c.sample, c.at>> : c \in ToSet(s)} = N
      BY DEF Gallery
    <3>3. QED
      BY <3>1, <3>2
  <2>2. QED
    BY <2>1 DEF Before
<1>8. ASSUME NEW i \in DOMAIN t, NEW j \in DOMAIN t, i < j PROVE Before(t[i], t[j])
  <2>1. i \in 1 .. n /\ t[i] = s[i]
    BY <1>1, <1>3, <1>8
  <2>2. CASE j = n + 1
    BY <1>3, <1>7, <2>1, <2>2
  <2>3. CASE j \in 1 .. n
    <3>1. Before(s[i], s[j])
      BY <1>1, <1>8, <2>1, <2>3 DEF Gallery
    <3>2. QED
      BY <1>3, <2>1, <2>3, <3>1
  <2>4. QED
    BY <1>3, <1>5, <2>2, <2>3
<1>9. ASSUME NEW i \in DOMAIN t PROVE Right(t[i])
  <2>1. CASE i = n + 1
    BY <1>3, <2>1
  <2>2. CASE i \in 1 .. n
    <3>1. Right(s[i])
      BY <1>1, <2>2 DEF Gallery
    <3>2. QED
      BY <1>3, <2>2, <3>1
  <2>3. QED
    BY <1>3, <1>5, <2>1, <2>2
<1>10. QED
  BY <1>4, <1>6, <1>8, <1>9, Zenon DEF Gallery, t

\* The moments before one.
LEMMA NotedBefore ==
  ASSUME NEW n \in Nat, NEW to \in Nat, TStart \in Nat, NEW p \in Noted(n, to)
  PROVE  p[1] < n \/ (p[1] = n /\ p[2] < to)
<1>1. CASE p \in (0 .. n - 1) \X Moments
  BY <1>1
<1>2. CASE p \in {n} \X Intermediate(to)
  BY <1>2 DEF Intermediate
<1>3. QED
  BY <1>1, <1>2 DEF Noted

LEMMA NotedNone == ASSUME TStart \in Nat PROVE Noted(0, TStart) = {}
BY DEF Noted, Intermediate

\* Which moments are past after a step, and after a sample.
LEMMA NotedStep ==
  ASSUME NEW n \in Nat, TStart \in Nat, Steps \in Nat, step \in TStart .. Steps
  PROVE  Noted(n, step + 1) = IF Due THEN Noted(n, step) \cup {<<n, step>>} ELSE Noted(n, step)
<1>1. Intermediate(step + 1) = IF Due THEN Intermediate(step) \cup {step} ELSE Intermediate(step)
  <2>1. \A t : t \in TStart .. (step + 1) - 1 <=> t \in TStart .. step - 1 \/ t = step
    OBVIOUS
  <2>2. CASE Due
    BY <2>1, <2>2 DEF Due, Intermediate
  <2>3. CASE ~ Due
    BY <2>1, <2>3 DEF Due, Intermediate
  <2>4. QED
    BY <2>2, <2>3
<1>2. \A A : {n} \X (A \cup {step}) = ({n} \X A) \cup {<<n, step>>}
  OBVIOUS
<1>3. QED
  BY <1>1, <1>2 DEF Noted

LEMMA NotedSample ==
  ASSUME NEW n \in Nat, TStart \in Nat, Steps \in Nat
  PROVE  Noted(n, Steps) \cup {<<n, Steps>>} = Noted(n + 1, TStart)
<1>1. Moments = Intermediate(Steps) \cup {Steps}
  BY DEF Moments, Intermediate
<1>2. Intermediate(TStart) = {}
  BY DEF Intermediate
<1>3. 0 .. (n + 1) - 1 = (0 .. n - 1) \cup {n}
  OBVIOUS
<1>4. \A A, M : (((0 .. n - 1) \cup {n}) \X M) \cup ({n + 1} \X {}) = ((0 .. n - 1) \X M) \cup ({n} \X M)
  OBVIOUS
<1>5. {n} \X Moments = ({n} \X Intermediate(Steps)) \cup {<<n, Steps>>}
  BY <1>1
<1>6. Noted(n + 1, TStart) = ((0 .. n - 1) \X Moments) \cup ({n} \X Moments)
  BY <1>2, <1>3, <1>4, Zenon DEF Noted
<1>7. QED
  BY <1>5, <1>6 DEF Noted

-----------------------------------------------------------------------------
(* The invariant. *)

Denoising ==
  /\ sample \in 0 .. req.samples - 1 /\ step \in TStart .. Steps
  /\ latents = [j \in 1 .. Width |-> latents[j]]
  /\ Width = Times => \A j \in 1 .. Width : latents[j] = Wanted(sample, j, step)
  /\ Gallery(shown, Noted(sample, step))

PaintInv ==
  /\ SdTypeOK
  /\ stage = "idle" => shown = <<>> /\ sample = 0 /\ result = "ok"
  /\ stage # "idle" => req \in Requests
  /\ stage \in {"embed", "encode", "sample", "denoise"} => result = "ok" /\ req.strength <= Strength
  /\ stage \in {"embed", "encode"} => shown = <<>> /\ sample = 0
  /\ stage \in {"encode", "sample", "denoise"} => Prompted(emb)
  /\ stage = "sample" => sample \in 0 .. req.samples /\ Gallery(shown, Noted(sample, TStart))
  /\ stage = "denoise" => Denoising
  /\ stage = "done" => Complete /\ \A i \in DOMAIN shown : Right(shown[i])

\* What a request fixes.
LEMMA Fixed ==
  ASSUME UNCHANGED <<version, req, init>>
  PROVE  /\ UNCHANGED <<Steps, TStart, Guided, Width, Times, Moments, Requests, TooLong>>
         /\ \A es : Prompted(es)' <=> Prompted(es)
         /\ \A s, j, to : Wanted(s, j, to)' = Wanted(s, j, to)
         /\ \A b : Right(b)' <=> Right(b)
         /\ \A s, N : Gallery(s, N)' <=> Gallery(s, N)
         /\ \A n, to : Noted(n, to)' = Noted(n, to)
<1>1. UNCHANGED <<Steps, Guided, Models, Width, Times, PerText, TooLong>>
  BY DEF Steps, DefaultSteps, Guided, DefaultOn, Models, Width, Times, PerText, TooLong
<1>2. TStart' = TStart
  BY <1>1 DEF TStart
<1>3. Moments' = Moments
  BY <1>1, <1>2 DEF Moments
<1>4. \A p : Both(p)' = Both(p)
  BY <1>1 DEF Both
<1>5. \A s, j : Start(s, j)' = Start(s, j)
  BY <1>1, <1>2 DEF Start
<1>6. \A f, n, p : Seen(f, n, p)' = Seen(f, n, p)
  BY <1>2, <1>4, Zenon DEF Seen
<1>6a. (\A i : RowPrompt(i)' = RowPrompt(i)) /\ \A j : Met(j)' = Met(j)
  BY <1>1 DEF RowPrompt, Met
<1>7. \A s, j, to : Wanted(s, j, to)' = Wanted(s, j, to)
  BY <1>1, <1>2, <1>5, <1>6, <1>6a, Zenon DEF Wanted
<1>8. \A es : Prompted(es)' <=> Prompted(es)
  BY <1>1, <1>4, <1>6a, Zenon DEF Prompted
<1>9. \A b : Right(b)' <=> Right(b)
  BY <1>1, <1>7, Zenon DEF Right
<1>10. \A s, N : Gallery(s, N)' <=> Gallery(s, N)
  BY <1>9, Zenon DEF Gallery
<1>11. \A to : Intermediate(to)' = Intermediate(to)
  BY <1>2, Zenon DEF Intermediate
<1>12. \A n, to : Noted(n, to)' = Noted(n, to)
  BY <1>3, <1>11, Zenon DEF Noted
<1>13. Requests' = Requests
  BY DEF Requests
<1>14. QED
  BY <1>1, <1>2, <1>3, <1>7, <1>8, <1>9, <1>10, <1>12, <1>13

LEMMA InitPaints == SdAssumption /\ SdInit => PaintInv
BY DEF SdAssumption, SdInit, PaintInv, SdTypeOK

LEMMA EmbedPaints == SdAssumption /\ PaintInv /\ Embed => PaintInv'
<1> SUFFICES ASSUME SdAssumption, PaintInv, Embed PROVE PaintInv'
  OBVIOUS
<1>0. /\ UNCHANGED <<version, req, init, sample, step, latents, shown>> /\ stage = "embed"
      /\ req \in Requests /\ result = "ok" /\ req.strength <= Strength /\ shown = <<>> /\ sample = 0
  BY DEF Embed, PaintInv
<1>1. CASE TooLong
  <2>1. stage' = "done" /\ result' = "error"
    BY <1>1 DEF Embed, Conclude
  <2>2. TooLong'
    BY <1>0, <1>1, Fixed
  <2>3. QED
    BY <1>0, <2>1, <2>2 DEF PaintInv, SdTypeOK, Complete
<1>2. CASE ~ TooLong
  <2>1. stage' = "encode" /\ result' = result
    BY <1>2 DEF Embed
  <2>2. emb' = Repeated(Texts, Times)
    BY <1>2, TextsIs, Zenon DEF Embed
  <2>3. Prompted(emb')
    BY <1>0, <2>2, RepeatedIs
  <2>4. Prompted(emb)'
    BY <1>0, <2>3, Fixed
  <2>5. QED
    BY <1>0, <2>1, <2>4 DEF PaintInv, SdTypeOK
<1>3. QED
  BY <1>1, <1>2

LEMMA BeginPaints == SdAssumption /\ PaintInv /\ BeginSample => PaintInv'
<1> SUFFICES ASSUME SdAssumption, PaintInv, BeginSample PROVE PaintInv'
  OBVIOUS
<1>0. /\ UNCHANGED <<version, req, emb, init, sample, shown>> /\ stage = "sample"
      /\ req \in Requests /\ result = "ok" /\ req.strength <= Strength /\ Prompted(emb)
      /\ sample \in 0 .. req.samples /\ Gallery(shown, Noted(sample, TStart)) /\ SdTypeOK
  BY DEF BeginSample, PaintInv
<1>f. /\ UNCHANGED <<Steps, TStart, Guided, Width, Times, Moments, Requests, TooLong>>
      /\ \A es : Prompted(es)' <=> Prompted(es)
      /\ \A s, j, to : Wanted(s, j, to)' = Wanted(s, j, to)
      /\ \A b : Right(b)' <=> Right(b)
      /\ \A s, N : Gallery(s, N)' <=> Gallery(s, N)
      /\ \A n, to : Noted(n, to)' = Noted(n, to)
  BY <1>0, Fixed
<1>1. TStart \in 0 .. Steps /\ Steps \in 0 .. MaxSteps /\ MaxSteps \in Nat /\ req.samples \in 0 .. MaxSamples /\ MaxSamples \in Nat
  BY <1>0, TStartIs, StepsIs, RequestFacts DEF SdAssumption
<1>2. CASE sample = req.samples
  <2>1. stage' = "done" /\ result' = "ok" /\ UNCHANGED <<step, latents>>
    BY <1>2 DEF BeginSample, Conclude
  <2>2. Noted(sample, TStart) = (0 .. req.samples - 1) \X Moments
    BY <1>1, <1>2 DEF Noted, Intermediate
  <2>3. /\ \A i, j \in DOMAIN shown : i < j => Before(shown[i], shown[j])
        /\ {<<b.sample, b.at>> : b \in ToSet(shown)} = (0 .. req.samples - 1) \X Moments
        /\ \A i \in DOMAIN shown : Right(shown[i])
    BY <1>0, <2>2 DEF Gallery
  <2>4. Complete'
    BY <1>0, <1>f, <2>1, <2>3 DEF Complete
  <2>5. \A i \in DOMAIN shown' : Right(shown[i])'
    BY <1>0, <1>f, <2>3
  <2>6. QED
    BY <1>0, <2>1, <2>4, <2>5 DEF PaintInv, SdTypeOK
<1>3. CASE sample # req.samples
  <2>1. /\ latents' = CASE ~ req.img2img -> [i \in 1 .. req.bsize |-> Fresh(Noise(sample, i))]
                        [] req.img2img /\ TStart < Steps -> <<Fresh(Noised(init, sample, TStart))>>
                        [] OTHER -> <<Fresh(init)>>
        /\ step' = TStart /\ stage' = "denoise" /\ result' = result
    BY <1>3 DEF BeginSample
  <2>2. latents' = [j \in 1 .. Width |-> Fresh(Start(sample, j))]
    <3>1. CASE ~ req.img2img
      BY <2>1, <3>1 DEF Width, Start
    <3>2. CASE req.img2img /\ TStart < Steps
      <4>1. Width = 1 /\ \A j : Start(sample, j) = Noised(init, sample, TStart)
        BY <3>2 DEF Width, Start
      <4>2. latents' = <<Fresh(Noised(init, sample, TStart))>>
        BY <2>1, <3>2
      <4>3. QED
        BY <4>1, <4>2
    <3>3. CASE req.img2img /\ ~ (TStart < Steps)
      <4>1. Width = 1 /\ \A j : Start(sample, j) = init
        BY <3>3 DEF Width, Start
      <4>2. latents' = <<Fresh(init)>>
        BY <2>1, <3>3
      <4>3. QED
        BY <4>1, <4>2
    <3>4. QED
      BY <3>1, <3>2, <3>3
  <2>3. \A j : Wanted(sample, j, TStart) = Fresh(Start(sample, j))
    BY <1>0, FreshIs
  <2>4. latents' = [j \in 1 .. Width |-> Wanted(sample, j, TStart)]
    BY <2>2, <2>3, Zenon
  <2>5. latents' = [j \in 1 .. Width' |-> latents[j]']
    BY <1>f, <2>4
  <2>6. \A j \in 1 .. Width' : latents[j]' = Wanted(sample, j, step)'
    <3>1. \A j \in 1 .. Width : latents'[j] = Wanted(sample, j, TStart)
      BY <2>4
    <3>2. \A j : Wanted(sample, j, step)' = Wanted(sample, j, TStart)
      BY <1>0, <1>f, <2>1
    <3>3. QED
      BY <1>f, <3>1, <3>2
  <2>7. Gallery(shown, Noted(sample, step))'
    BY <1>0, <1>f, <2>1
  <2>8. (sample \in 0 .. req.samples - 1)' /\ (step \in TStart .. Steps)'
    BY <1>0, <1>1, <1>3, <1>f, <2>1
  <2>9. Denoising'
    BY <2>5, <2>6, <2>7, <2>8 DEF Denoising
  <2>10. SdTypeOK'
    BY <1>0, <1>1, <2>1 DEF SdTypeOK
  <2>11. Prompted(emb)'
    BY <1>0, <1>f
  <2>12. QED
    BY <1>0, <2>1, <2>9, <2>10, <2>11 DEF PaintInv
<1>4. QED
  BY <1>2, <1>3

\* A step of denoising gives each picture one step more of what it wants.
LEMMA DenoisePaints == SdAssumption /\ PaintInv /\ Denoise => PaintInv'
<1> SUFFICES ASSUME SdAssumption, PaintInv, Denoise PROVE PaintInv'
  OBVIOUS
<1>0. /\ UNCHANGED <<version, req, emb, init, sample>> /\ stage = "denoise" /\ step < Steps
      /\ req \in Requests /\ result = "ok" /\ req.strength <= Strength /\ Prompted(emb) /\ SdTypeOK /\ Denoising
  BY DEF Denoise, PaintInv
<1>f. /\ UNCHANGED <<Steps, TStart, Guided, Width, Times, Moments, Requests, TooLong>>
      /\ \A es : Prompted(es)' <=> Prompted(es)
      /\ \A s, j, to : Wanted(s, j, to)' = Wanted(s, j, to)
      /\ \A b : Right(b)' <=> Right(b)
      /\ \A s, N : Gallery(s, N)' <=> Gallery(s, N)
      /\ \A n, to : Noted(n, to)' = Noted(n, to)
  BY <1>0, Fixed
<1>1. TStart \in 0 .. Steps /\ Steps \in 0 .. MaxSteps /\ MaxSteps \in Nat /\ req.bsize \in Nat /\ req.samples \in Nat
      /\ Width \in Nat /\ Times \in Nat \ {0} /\ Times >= req.bsize
  BY <1>0, TStartIs, StepsIs, RequestFacts, WidthIs, TimesIs DEF SdAssumption
<1>2. /\ sample \in 0 .. req.samples - 1 /\ step \in TStart .. Steps
      /\ latents = [j \in 1 .. Width |-> latents[j]]
      /\ Width = Times => \A j \in 1 .. Width : latents[j] = Wanted(sample, j, step)
      /\ Gallery(shown, Noted(sample, step))
  BY <1>0 DEF Denoising
<1>3. sample \in Nat /\ step \in Nat
  BY <1>1, <1>2
<1>4. UNetRuns(Packed) <=> Width = Times
  BY <1>0, <1>2, <1>3, PredictionIs
<1>5. Splits(latents) <=> Width >= req.bsize
  <2>1. Len(latents) = Width
    BY <1>1, <1>2
  <2>2. QED
    BY <2>1 DEF Splits
<1>6. CASE ~ (UNetRuns(Packed) /\ (Due => Splits(latents)))
  <2>1. stage' = "done" /\ result' = "error" /\ UNCHANGED <<latents, step, shown>>
    BY <1>6 DEF Denoise, Conclude
  <2>2. Width # Times
    BY <1>1, <1>4, <1>5, <1>6
  <2>3. IF req.img2img THEN req.bsize > 1 ELSE req.bsize = 0
    BY <1>1, <2>2 DEF Width, Times
  <2>3a. req.samples > 0
    BY <1>1, <1>2
  <2>4. Complete'
    BY <1>0, <2>1, <2>3, <2>3a DEF Complete
  <2>5. \A i \in DOMAIN shown' : Right(shown[i])'
    BY <1>2, <1>f, <2>1 DEF Gallery
  <2>6. QED
    BY <1>0, <2>1, <2>4, <2>5 DEF PaintInv, SdTypeOK
<1>7. CASE UNetRuns(Packed) /\ (Due => Splits(latents))
  <2>1. /\ latents' = Stepped /\ step' = step + 1 /\ UNCHANGED <<stage, result>>
        /\ shown' = IF Due THEN Append(shown, Show(Stepped, step)) ELSE shown
    BY <1>7 DEF Denoise
  <2>2. Width = Times
    BY <1>4, <1>7
  <2>3. Stepped = [j \in 1 .. Width |-> Stepped[j]]
    BY <1>1, <1>2, SteppedShape
  <2>4. \A j \in 1 .. Width : Stepped[j] = Wanted(sample, j, step + 1)
    <3> TAKE j \in 1 .. Width
    <3>1. latents[j] = Wanted(sample, j, step)
      BY <1>2, <2>2
    <3>2. QED
      BY <1>0, <1>2, <2>2, <3>1, SteppedIs
  <2>5. Gallery(shown', Noted(sample, step + 1))
    <3>1. CASE ~ Due
      <4>1. shown' = shown /\ Noted(sample, step + 1) = Noted(sample, step)
        BY <1>1, <1>2, <1>3, <2>1, <3>1, NotedStep
      <4>2. QED
        BY <1>2, <4>1
    <3>2. CASE Due
      <4> DEFINE b == Show(Stepped, step)
      <4>1. b = [sample |-> sample, at |-> step, images |-> [j \in 1 .. req.bsize |-> [decoded |-> Stepped[j]]]]
        <5>1. Width \in Nat /\ req.bsize \in Nat /\ Width >= req.bsize
          BY <1>1, <2>2
        <5>2. QED
          BY <2>3, <5>1, ShowIs, Zenon DEF b
      <4> HIDE DEF b
      <4>2. b.sample = sample /\ b.at = step /\ b.images = [j \in 1 .. req.bsize |-> b.images[j]]
            /\ \A j \in 1 .. req.bsize : b.images[j] = [decoded |-> Stepped[j]]
        BY <4>1
      <4>3. (IF b.at = Steps THEN Steps ELSE b.at + 1) = step + 1
        BY <1>0, <1>1, <1>3, <4>2
      <4>4. Right(b)
        <5>1. \A j \in 1 .. req.bsize : j \in 1 .. Width
          BY <1>1, <2>2
        <5>2. QED
          BY <2>4, <4>2, <4>3, <5>1 DEF Right
      <4>5. \A p \in Noted(sample, step) : p[1] < b.sample \/ (p[1] = b.sample /\ p[2] < b.at)
        <5>1. TStart \in Nat
          BY <1>1
        <5>2. QED
          BY <1>3, <4>2, <5>1, NotedBefore
      <4>6. Gallery(Append(shown, b), Noted(sample, step) \cup {<<b.sample, b.at>>})
        BY <1>2, <4>4, <4>5, OneMore
      <4>7. Noted(sample, step + 1) = Noted(sample, step) \cup {<<b.sample, b.at>>}
        BY <1>1, <1>2, <1>3, <3>2, <4>2, NotedStep
      <4>8. shown' = Append(shown, b)
        BY <2>1, <3>2 DEF b
      <4>9. QED
        BY <4>6, <4>7, <4>8
    <3>3. QED
      BY <3>1, <3>2
  <2>6. Gallery(shown, Noted(sample, step))'
    <3>1. Noted(sample, step)' = Noted(sample, step + 1)
      BY <1>0, <1>f, <2>1
    <3>2. QED
      BY <1>f, <2>5, <3>1
  <2>7. latents' = [j \in 1 .. Width' |-> latents[j]']
    BY <1>f, <2>1, <2>3
  <2>8. (Width = Times => \A j \in 1 .. Width : latents[j] = Wanted(sample, j, step))'
    <3>1. \A j : Wanted(sample, j, step)' = Wanted(sample, j, step + 1)
      BY <1>0, <1>f, <2>1
    <3>2. QED
      BY <1>f, <2>1, <2>4, <3>1
  <2>9. (sample \in 0 .. req.samples - 1)' /\ (step \in TStart .. Steps)'
    BY <1>0, <1>1, <1>2, <1>f, <2>1
  <2>10. Denoising'
    BY <2>6, <2>7, <2>8, <2>9 DEF Denoising
  <2>11. SdTypeOK'
    BY <1>0, <1>1, <1>2, <2>1 DEF SdTypeOK
  <2>12. Prompted(emb)'
    BY <1>0, <1>f
  <2>13. QED
    BY <1>0, <2>1, <2>10, <2>11, <2>12 DEF PaintInv
<1>8. QED
  BY <1>6, <1>7

LEMMA FinalPaints == SdAssumption /\ PaintInv /\ Final => PaintInv'
<1> SUFFICES ASSUME SdAssumption, PaintInv, Final PROVE PaintInv'
  OBVIOUS
<1>0. /\ UNCHANGED <<version, req, emb, init, step, latents>> /\ stage = "denoise" /\ step >= Steps
      /\ req \in Requests /\ result = "ok" /\ req.strength <= Strength /\ Prompted(emb) /\ SdTypeOK /\ Denoising
  BY DEF Final, PaintInv
<1>f. /\ UNCHANGED <<Steps, TStart, Guided, Width, Times, Moments, Requests, TooLong>>
      /\ \A es : Prompted(es)' <=> Prompted(es)
      /\ \A b : Right(b)' <=> Right(b)
      /\ \A s, N : Gallery(s, N)' <=> Gallery(s, N)
      /\ \A n, to : Noted(n, to)' = Noted(n, to)
  BY <1>0, Fixed
<1>1. TStart \in 0 .. Steps /\ Steps \in 0 .. MaxSteps /\ MaxSteps \in Nat /\ req.bsize \in Nat
      /\ req.samples \in 0 .. MaxSamples /\ MaxSamples \in Nat /\ Width \in Nat
  BY <1>0, TStartIs, StepsIs, RequestFacts, WidthIs DEF SdAssumption
<1>2. /\ sample \in 0 .. req.samples - 1 /\ step \in TStart .. Steps
      /\ latents = [j \in 1 .. Width |-> latents[j]]
      /\ Width = Times => \A j \in 1 .. Width : latents[j] = Wanted(sample, j, step)
      /\ Gallery(shown, Noted(sample, step))
  BY <1>0 DEF Denoising
<1>3. sample \in Nat /\ step = Steps /\ Steps \in Nat /\ TStart \in Nat
  BY <1>0, <1>1, <1>2
<1>5. Splits(latents) <=> Width >= req.bsize
  <2>1. Len(latents) = Width
    BY <1>1, <1>2
  <2>2. QED
    BY <2>1 DEF Splits
<1>6. CASE ~ Splits(latents)
  <2>1. stage' = "done" /\ result' = "error" /\ UNCHANGED <<shown, sample>>
    BY <1>6 DEF Final, Conclude
  <2>2. Width < req.bsize
    BY <1>1, <1>5, <1>6
  <2>3. req.img2img /\ req.bsize > 1 /\ req.samples > 0
    BY <1>1, <1>2, <2>2 DEF Width
  <2>4. Complete'
    BY <1>0, <2>1, <2>3 DEF Complete
  <2>5. \A i \in DOMAIN shown' : Right(shown[i])'
    BY <1>2, <1>f, <2>1 DEF Gallery
  <2>6. QED
    BY <1>0, <2>1, <2>4, <2>5 DEF PaintInv, SdTypeOK
<1>7. CASE Splits(latents)
  <2>1. shown' = Append(shown, Show(latents, Steps)) /\ sample' = sample + 1 /\ stage' = "sample" /\ result' = result
    BY <1>7 DEF Final
  <2>2. Width >= req.bsize /\ (req.bsize # 0 => Width = Times)
    BY <1>1, <1>5, <1>7 DEF Width, Times
  <2> DEFINE b == Show(latents, Steps)
  <2>3. b = [sample |-> sample, at |-> Steps, images |-> [j \in 1 .. req.bsize |-> [decoded |-> latents[j]]]]
    <3>1. Width \in Nat /\ req.bsize \in Nat /\ Width >= req.bsize
      BY <1>1, <2>2
    <3>2. QED
      BY <1>2, <3>1, ShowIs, Zenon DEF b
  <2> HIDE DEF b
  <2>4. b.sample = sample /\ b.at = Steps /\ b.images = [j \in 1 .. req.bsize |-> b.images[j]]
        /\ \A j \in 1 .. req.bsize : b.images[j] = [decoded |-> latents[j]]
    BY <2>3
  <2>5. Right(b)
    <3>1. CASE req.bsize = 0
      BY <2>4, <3>1 DEF Right
    <3>2. CASE req.bsize # 0
      <4>1. \A j \in 1 .. req.bsize : latents[j] = Wanted(sample, j, step)
        BY <1>1, <1>2, <2>2, <3>2 DEF Times
      <4>2. QED
        BY <1>3, <2>4, <4>1 DEF Right
    <3>3. QED
      BY <3>1, <3>2
  <2>6. \A p \in Noted(sample, step) : p[1] < b.sample \/ (p[1] = b.sample /\ p[2] < b.at)
    BY <1>3, <2>4, NotedBefore
  <2>7. Gallery(Append(shown, b), Noted(sample, step) \cup {<<b.sample, b.at>>})
    BY <1>2, <2>5, <2>6, OneMore
  <2>8. Noted(sample, step) \cup {<<b.sample, b.at>>} = Noted(sample + 1, TStart)
    BY <1>3, <2>4, NotedSample
  <2>9. Gallery(shown', Noted(sample + 1, TStart))
    BY <2>1, <2>7, <2>8 DEF b
  <2>10. Gallery(shown, Noted(sample, TStart))'
    <3>1. Noted(sample, TStart)' = Noted(sample + 1, TStart)
      BY <1>f, <2>1
    <3>2. QED
      BY <1>f, <2>9, <3>1
  <2>11. sample' \in 0 .. req'.samples /\ sample' \in 0 .. MaxSamples
    BY <1>0, <1>1, <1>2, <2>1
  <2>12. Prompted(emb)'
    BY <1>0, <1>f
  <2>13. QED
    BY <1>0, <2>1, <2>10, <2>11, <2>12 DEF PaintInv, SdTypeOK
<1>8. QED
  BY <1>6, <1>7

\* Every step keeps the invariant,
LEMMA NextPaints == SdAssumption /\ PaintInv /\ [SdNext]_svars => PaintInv'
<1> SUFFICES ASSUME SdAssumption, PaintInv, [SdNext]_svars PROVE PaintInv'
  OBVIOUS
<1>1. CASE Generate
  <2>1. /\ stage = "idle" /\ req' \in Requests /\ shown' = <<>> /\ sample' = 0 /\ step' = step /\ version' = version /\ result = "ok"
        /\ \/ req'.strength > Strength /\ stage' = "done" /\ result' = "error"
           \/ ~ (req'.strength > Strength) /\ stage' = "embed" /\ result' = "ok"
    BY <1>1 DEF Generate, Conclude, PaintInv
  <2>2. Requests' = Requests
    BY DEF Requests
  <2>3. SdTypeOK'
    BY <2>1, <2>2 DEF PaintInv, SdTypeOK
  <2>4. CASE req'.strength > Strength /\ stage' = "done" /\ result' = "error"
    BY <2>1, <2>2, <2>3, <2>4 DEF PaintInv, Complete
  <2>5. CASE ~ (req'.strength > Strength) /\ stage' = "embed" /\ result' = "ok"
    <3>1. req'.strength \in 0 .. Strength + 1 /\ Strength \in Nat
      BY <2>1 DEF Requests, SdAssumption
    <3>2. QED
      BY <2>1, <2>2, <2>3, <2>5, <3>1 DEF PaintInv
  <2>6. QED
    BY <2>1, <2>4, <2>5
<1>2. CASE Embed
  BY <1>2, EmbedPaints
<1>3. CASE EncodeImage
  <2>1. /\ UNCHANGED <<version, req, emb, sample, step, latents, shown>> /\ stage = "encode" /\ result = "ok"
        /\ req \in Requests /\ req.strength <= Strength /\ shown = <<>> /\ sample = 0 /\ Prompted(emb)
        /\ \/ Steps = 0 /\ stage' = "done" /\ result' = "error"
           \/ stage' = "sample" /\ result' = result
    BY <1>3 DEF EncodeImage, Conclude, PaintInv
  <2>2. Steps' = Steps /\ Requests' = Requests /\ TStart' = TStart /\ Guided' = Guided /\ PerText' = PerText /\ Times' = Times
    BY <2>1 DEF Steps, DefaultSteps, Requests, TStart, Guided, DefaultOn, PerText, Times
  <2>3. SdTypeOK'
    BY <2>1, <2>2 DEF PaintInv, SdTypeOK
  <2>4. CASE Steps = 0 /\ stage' = "done" /\ result' = "error"
    BY <2>1, <2>2, <2>3, <2>4 DEF PaintInv, Complete
  <2>5. CASE stage' = "sample" /\ result' = result
    <3>1. \A p : Both(p)' = Both(p)
      BY <2>1 DEF Both, Models
    <3>2. Prompted(emb)'
      BY <2>1, <2>2, <3>1 DEF Prompted, RowPrompt
    <3>3. Gallery(shown, Noted(sample, TStart))'
      <4>1. TStart' \in Nat
        BY <2>1, <2>2, TStartIs, StepsIs
      <4>2. Noted(sample, TStart)' = {}
        BY <2>1, <4>1 DEF Noted, Intermediate
      <4>3. QED
        BY <2>1, <4>2 DEF Gallery, ToSet
    <3>4. req.samples \in Nat
      BY <2>1, RequestFacts DEF SdAssumption
    <3>5. QED
      BY <2>1, <2>2, <2>3, <2>5, <3>2, <3>3, <3>4 DEF PaintInv
  <2>6. QED
    BY <2>1, <2>4, <2>5
<1>4. CASE BeginSample
  BY <1>4, BeginPaints
<1>5. CASE Denoise
  BY <1>5, DenoisePaints
<1>6. CASE Final
  BY <1>6, FinalPaints
<1>7. CASE ReturnImages
  BY <1>7 DEF ReturnImages, PaintInv, SdTypeOK, SdAssumption
<1>8. CASE UNCHANGED svars
  <2>1. UNCHANGED <<version, req, stage, emb, init, sample, step, latents, shown, result>>
    BY <1>8 DEF svars
  <2>2. /\ UNCHANGED <<Steps, TStart, Guided, Width, Times, Moments, Requests, TooLong>>
        /\ \A es : Prompted(es)' <=> Prompted(es)
        /\ \A s, j, to : Wanted(s, j, to)' = Wanted(s, j, to)
        /\ \A b : Right(b)' <=> Right(b)
        /\ \A s, N : Gallery(s, N)' <=> Gallery(s, N)
        /\ \A n, to : Noted(n, to)' = Noted(n, to)
    BY <2>1, Fixed
  <2>3. Denoising' <=> Denoising
    BY <2>1, <2>2 DEF Denoising
  <2>4. Complete' <=> Complete
    BY <2>1, <2>2 DEF Complete
  <2>5. SdTypeOK' <=> SdTypeOK
    BY <2>1, <2>2 DEF SdTypeOK
  <2>6. QED
    BY <2>1, <2>2, <2>3, <2>4, <2>5 DEF PaintInv
<1>9. QED
  BY <1>1, <1>2, <1>3, <1>4, <1>5, <1>6, <1>7, <1>8 DEF SdNext

\* and the invariant gives what a caller is promised.
LEMMA InvPaints ==
  ASSUME SdAssumption, PaintInv
  PROVE  SdTypeOK /\ Complete /\ Painted
<1>1. SdTypeOK /\ Complete
  BY DEF PaintInv, Complete
<1>2. ASSUME NEW i \in DOMAIN shown PROVE Right(shown[i]) /\ req \in Requests
  <2>1. stage \in {"idle", "embed", "encode", "sample", "denoise", "done"}
    BY DEF PaintInv, SdTypeOK
  <2>2. stage \notin {"idle", "embed", "encode"}
    BY DEF PaintInv
  <2>3. CASE stage = "done"
    BY <2>3 DEF PaintInv
  <2>4. CASE stage = "sample"
    BY <2>4 DEF PaintInv, Gallery
  <2>5. CASE stage = "denoise"
    BY <2>5 DEF PaintInv, Denoising, Gallery
  <2>6. QED
    BY <2>1, <2>2, <2>3, <2>4, <2>5
<1>3. ASSUME NEW i \in DOMAIN shown
      PROVE  /\ Len(shown[i].images) = req.bsize
             /\ \A j \in DOMAIN shown[i].images :
                  LET to == IF shown[i].at = Steps THEN Steps ELSE shown[i].at + 1
                  IN  shown[i].images[j] = [decoded |-> Wanted(shown[i].sample, j, to)]
  <2>1. Right(shown[i]) /\ req.bsize \in Nat
    BY <1>2, <1>3, RequestFacts
  <2>2. DOMAIN shown[i].images = 1 .. req.bsize
    BY <2>1 DEF Right
  <2>3. Len(shown[i].images) = req.bsize
    BY <2>1 DEF Right
  <2>4. QED
    BY <2>1, <2>2, <2>3, Zenon DEF Right
<1>4. QED
  BY <1>1, <1>3, Zenon DEF Painted

\* StableDiffusion: a request hands out the pictures it asked for, each once
\* and in order, and each denoised over all its timesteps from its own noise,
\* guided by exactly the two prompts that repeat and chunk leave its place in
\* the batch: its own in a batch of one, swapped or twice the same elsewhere.
THEOREM PicturesPainted ==
  ASSUME SdAssumption PROVE SdSpec => [](SdTypeOK /\ Complete /\ Painted)
<1>1. SdInit => PaintInv
  BY InitPaints
<1>2. PaintInv /\ [SdNext]_svars => PaintInv'
  BY NextPaints
<1>3. PaintInv => SdTypeOK /\ Complete /\ Painted
  BY InvPaints
<1>4. QED
  BY <1>1, <1>2, <1>3, PTL DEF SdSpec
=============================================================================
