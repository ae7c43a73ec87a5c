------------------------------- MODULE Kernels -------------------------------
(***************************************************************************)
(* The fused kernels of the CUDA, Metal and Vulkan backends: which thread   *)
(* writes which element of the output, which elements of its operands an    *)
(* element is computed from, and how the SIMD groups (warps, waves) of a    *)
(* workgroup combine their partial sums through shared memory.              *)
(*                                                                          *)
(* A row is measured in SIMD groups: one column stands for the columns one  *)
(* group of 32 lanes reads at once, and the lanes of a group move together. *)
(* Groups of a workgroup interleave freely between barriers.  A partial sum *)
(* is the set of <<pass, column>> pairs that went into it.                  *)
(***************************************************************************)
EXTENDS Naturals, Sequences, FiniteSets

CONSTANTS
    Launches,  \* the launches the program makes: records [op, dims]
    Warps,     \* SIMD groups of the largest workgroup, and slots of the shared array (32)
    Block,     \* threads of an elementwise workgroup (CUDA 1024, Vulkan 256)
    Side       \* side of a square GEMM workgroup (16)

VARIABLES
    launch,  \* the launch in flight
    tgroup,  \* the workgroup of the row that is followed
    pc,      \* where each of its SIMD groups is in the kernel
    sum,     \* the value each SIMD group holds
    shared   \* the workgroup's shared arrays

kvars == <<launch, tgroup, pc, sum, shared>>

DivCeil(a, b) == (a + b - 1) \div b
Least(a, b) == IF a < b THEN a ELSE b
NoLaunch == [op |-> "none", dims |-> <<>>]
----------------------------------------------------------------------------
(* Elementwise kernels, GEMV and GEMM: which elements a thread writes.      *)

\* CUDA: for_num_elems launches whole blocks, each thread strides over the grid.
CudaThreads(n) == 0 .. (DivCeil(n, Block) * Block) - 1
CudaStride(n, i) == {e \in 0 .. n - 1 : e % (DivCeil(n, Block) * Block) = i}

\* Metal: dispatch_threads starts exactly one thread per element.
MetalThreads(n) == 0 .. n - 1

\* Vulkan: four elements per thread, the last ones one by one.
VulkanThreads(n) == 0 .. DivCeil(DivCeil(n, 4), Block) * Block - 1
VecElements(n, i) == {e \in 4 * i .. 4 * i + 3 : e < n}

\* Vulkan GEMV: one output column per thread.
GemvThreads(n) == 0 .. (DivCeil(n, Block) * Block) - 1

\* Mutant of SmallTile: the small tile up to 16 rows, as the comment has it.
SmallByDoc(m) == m <= Side
\* Vulkan GEMM uses the small kernel up to half a workgroup's side of rows: the
\* threads of the other half only help loading and would write zeros.
SmallTile(m) == m <= Side \div 2
GemmGroups(m, n) ==
    IF SmallTile(m) THEN (0 .. DivCeil(m, Side \div 2) - 1) \X (0 .. DivCeil(n, 4 * Side) - 1)
    ELSE (0 .. DivCeil(m, 2 * Side) - 1) \X (0 .. DivCeil(n, 4 * Side) - 1)
GemmThreads(m, n) == GemmGroups(m, n) \X ((0 .. Side - 1) \X (0 .. Side - 1))
\* The rows a thread accumulates, and those it writes without having done so.
GemmRows(m, t) ==
    IF SmallTile(m) THEN {t[1][1] * Side + t[2][1]}
    ELSE {t[1][1] * 2 * Side + t[2][1] * 2, t[1][1] * 2 * Side + t[2][1] * 2 + 1}
GemmCols(t) == {t[1][2] * 4 * Side + t[2][2] * 4 + j : j \in 0 .. 3}
Accumulates(m, t) == SmallTile(m) => t[2][1] < Side \div 2
GemmElements(m, n, t) ==
    {r * n + c : r \in {r \in GemmRows(m, t) : r < m}, c \in {c \in GemmCols(t) : c < n}}
----------------------------------------------------------------------------
(* Pointwise kernels: element e of the output is computed from element e of  *)
(* every operand, each operand read from its start offset on.               *)

SiluMul == {"gate", "up"}
StableSoftplus == {"x"}
Add3 == {"a", "b", "c"}
ExpMul == {"x", "y"}
SubMul == {"a", "b", "c"}
F8E4M3ToF32 == {"src"}
MetalSilu == {"x"}
Operands(op) ==
    CASE op \in {"silu_mul", "metal_silu_mul"} -> SiluMul
      [] op = "softplus" -> StableSoftplus
      [] op \in {"add3", "metal_add3"} -> Add3
      [] op = "exp_mul" -> ExpMul
      [] op = "sub_mul" -> SubMul
      [] op = "f8_to_f32" -> F8E4M3ToF32
      [] op = "metal_silu" -> MetalSilu
CudaPointwise == {"silu_mul", "softplus", "add3", "exp_mul", "sub_mul", "f8_to_f32"}
MetalPointwise == {"metal_silu_mul", "metal_add3", "metal_silu"}

\* dims is <<rows, columns, pitch>>: a view of part of the last dimension, as
\* narrow and chunk return it, has rows further apart than they are long.
Strided(d) == d[1] > 1 /\ d[3] > d[2]
\* The CUDA operations refuse an operand that is not contiguous.
Refuses(op, d) == op \in CudaPointwise /\ Strided(d)
Reads(op, d, e) == {<<o, e>> : o \in Operands(op)}
\* What the CPU backend reads, whatever the strides.
CpuReads(op, d, r, c) == {<<o, (r * d[3]) + c>> : o \in Operands(op)}
\* The Metal operations take any operand for packed.
Astray(op, d) == op \in MetalPointwise /\ Strided(d)
\* Of an operand that is not contiguous they read the first row alone as the CPU does.
PointwiseAgrees(op, d) ==
    Refuses(op, d) \/ \A r \in 0 .. d[1] - 1, c \in 0 .. d[2] - 1 :
                          Reads(op, d, (r * d[2]) + c) = CpuReads(op, d, r, c)
                            <=> (r = 0 \/ ~ Astray(op, d))
----------------------------------------------------------------------------
(* Kernels that gather: the operands output element i is computed from.     *)

\* <<batch, channels, time, kernel>>
Bn(d) == d[1]
Ch(d) == d[2]
Tm(d) == d[3]
Ks(d) == d[4]
OutLen(d) == Tm(d) - Ks(d) + 1
Taps(d) == 0 .. Ks(d) - 1

CudaAddScaled(d, i) ==
    {<<"a", i>>, <<"b", i>>, <<"c", (i % (Ch(d) * Tm(d))) \div Tm(d)>>}
MetalAddScaled(d, i) ==
    {<<"a", i>>, <<"b", i>>, <<"c", (i \div Tm(d)) % Ch(d)>>}
ConvSilu(d, i) ==
    UNION {{<<"window", i * Ks(d) + k, k>>, <<"weight", (i % Ch(d)) * Ks(d) + k, k>>} : k \in Taps(d)}
ConvBias(d, i) ==
    LET row == i \div OutLen(d)
    IN  {<<"bias", row % Ch(d)>>} \cup
        UNION {{<<"input", row * Tm(d) + (i % OutLen(d)) + k, k>>,
                <<"weight", (row % Ch(d)) * Ks(d) + k, k>>} : k \in Taps(d)}
MetalConvBias(d, i) ==
    LET c == (i \div OutLen(d)) % Ch(d)
        b == i \div (OutLen(d) * Ch(d))
    IN  {<<"bias", c>>} \cup
        UNION {{<<"input", (b * Ch(d) + c) * Tm(d) + (i % OutLen(d)) + k, k>>,
                <<"weight", c * Ks(d) + k, k>>} : k \in Taps(d)}
\* Mutant of CtxAt: the context is read one column late.
CtxLate(d, row, pos, k) ==
    IF pos <= Ks(d) - 1 THEN <<"ctx", row * (Ks(d) - 1) + pos, k>>
    ELSE <<"input", row * Tm(d) + (pos - (Ks(d) - 1)), k>>
\* The context of the frame before is read in place of the first columns.
CtxAt(d, row, pos, k) ==
    IF pos < Ks(d) - 1 THEN <<"ctx", row * (Ks(d) - 1) + pos, k>>
    ELSE <<"input", row * Tm(d) + (pos - (Ks(d) - 1)), k>>
ConvCtx(d, i) ==
    LET row == i \div Tm(d)
    IN  {<<"bias", row % Ch(d)>>} \cup
        UNION {{CtxAt(d, row, (i % Tm(d)) + k, k),
                <<"weight", (row % Ch(d)) * Ks(d) + k, k>>} : k \in Taps(d)}

\* Kernels over rows of Tm(d) elements, and one over the channels of a time step.
Row(d, i) == {(i \div Tm(d)) * Tm(d) + j : j \in 0 .. Tm(d) - 1}
RmsNormGated(d, i) == {<<"x", j>> : j \in Row(d, i)} \cup {<<"z", i>>, <<"w", i % Tm(d)>>}
AdaLnModulate(d, i) ==
    {<<"x", j>> : j \in Row(d, i)} \cup {<<"w", i % Tm(d)>>, <<"scale", i>>, <<"shift", i>>}
\* The residual rows come first in the output, then the normed rows.
AddRmsNorm(d, i) ==
    LET el == Bn(d) * Ch(d) * Tm(d)
    IN  IF i < el THEN {<<"a", i>>, <<"b", i>>}
        ELSE ({"a", "b"} \X Row(d, i - el)) \cup {<<"w", (i - el) % Tm(d)>>}
RmsNormChannel(d, i) ==
    LET base == (i \div (Ch(d) * Tm(d))) * Ch(d) * Tm(d) + (i % Tm(d))
    IN  {<<"x", base + c * Tm(d)>> : c \in 0 .. Ch(d) - 1} \cup {<<"w", (i \div Tm(d)) % Ch(d)>>}
\* Here channels are positions and time is the head dimension.
MetalRope(d, i) ==
    LET half == Tm(d) \div 2
        lane == i % Tm(d)
        at == ((i \div Tm(d)) % Ch(d)) * half + (lane % half)
    IN  {<<"x", i>>, <<"x", IF lane < half THEN i + half ELSE i - half>>, <<"cos", at>>, <<"sin", at>>}

\* The CPU backend, which the others must agree with: element <<b, c, t>>.
Index(d, b, c, t) == (b * Ch(d) + c) * Tm(d) + t
CpuAddScaled(d, b, c, t) == {<<"a", Index(d, b, c, t)>>, <<"b", Index(d, b, c, t)>>, <<"c", c>>}
CpuRow(d, b, c) == {Index(d, b, c, j) : j \in 0 .. Tm(d) - 1}
CpuNormGated(d, b, c, t) ==
    {<<"x", j>> : j \in CpuRow(d, b, c)} \cup {<<"z", Index(d, b, c, t)>>, <<"w", t>>}
CpuAdaLn(d, b, c, t) ==
    {<<"x", j>> : j \in CpuRow(d, b, c)} \cup
    {<<"w", t>>, <<"scale", Index(d, b, c, t)>>, <<"shift", Index(d, b, c, t)>>}
CpuAddRmsNorm(d, b, c, t) == ({"a", "b"} \X CpuRow(d, b, c)) \cup {<<"w", t>>}
CpuRmsNormChannel(d, b, c, t) == {<<"x", Index(d, b, j, t)>> : j \in 0 .. Ch(d) - 1} \cup {<<"w", c>>}
\* Pair t of a head is rotated by the angle of its position.
CpuRope(d, b, c, t) ==
    LET half == Tm(d) \div 2
        pair == t % half
        angle == c * half + pair
    IN  {<<"x", Index(d, b, c, pair)>>, <<"x", Index(d, b, c, pair + half)>>,
         <<"cos", angle>>, <<"sin", angle>>}
CpuConvSilu(d, b, c) ==
    UNION {{<<"window", (b * Ch(d) + c) * Ks(d) + k, k>>, <<"weight", c * Ks(d) + k, k>>} :
             k \in Taps(d)}
CpuConvBias(d, b, c, t) ==
    {<<"bias", c>>} \cup
    UNION {{<<"input", (b * Ch(d) + c) * Tm(d) + t + k, k>>, <<"weight", c * Ks(d) + k, k>>} :
             k \in Taps(d)}
\* [ctx, input] is concatenated along time first.
CpuConvCtx(d, b, c, t) ==
    LET joined(p, k) ==
          IF p < Ks(d) - 1 THEN <<"ctx", (b * Ch(d) + c) * (Ks(d) - 1) + p, k>>
          ELSE <<"input", (b * Ch(d) + c) * Tm(d) + p - (Ks(d) - 1), k>>
    IN  {<<"bias", c>>} \cup
        UNION {{joined(t + k, k), <<"weight", c * Ks(d) + k, k>>} : k \in Taps(d)}

\* Length of a row of the output.
Along(l) ==
    CASE l.op = "conv_silu" -> 1
      [] l.op = "conv_bias" -> OutLen(l.dims)
      [] OTHER -> Tm(l.dims)
Gathers(l) == l.op \in {"add_scaled", "conv_silu", "conv_bias", "conv_ctx", "norm_gated",
                        "adaln", "add_norm", "norm_channel", "rope"}
Gathered(l, b, c, t) ==
    LET i == (b * Ch(l.dims) + c) * Along(l) + t
    IN  CASE l.op = "add_scaled" ->
               /\ CudaAddScaled(l.dims, i) = CpuAddScaled(l.dims, b, c, t)
               /\ MetalAddScaled(l.dims, i) = CpuAddScaled(l.dims, b, c, t)
          [] l.op = "conv_silu" -> ConvSilu(l.dims, i) = CpuConvSilu(l.dims, b, c)
          [] l.op = "conv_bias" ->
               /\ ConvBias(l.dims, i) = CpuConvBias(l.dims, b, c, t)
               /\ MetalConvBias(l.dims, i) = CpuConvBias(l.dims, b, c, t)
          [] l.op = "norm_gated" -> RmsNormGated(l.dims, i) = CpuNormGated(l.dims, b, c, t)
          [] l.op = "adaln" -> AdaLnModulate(l.dims, i) = CpuAdaLn(l.dims, b, c, t)
          [] l.op = "add_norm" ->
               /\ AddRmsNorm(l.dims, i) = {<<"a", i>>, <<"b", i>>}
               /\ AddRmsNorm(l.dims, Bn(l.dims) * Ch(l.dims) * Tm(l.dims) + i)
                    = CpuAddRmsNorm(l.dims, b, c, t)
          [] l.op = "norm_channel" -> RmsNormChannel(l.dims, i) = CpuRmsNormChannel(l.dims, b, c, t)
          [] l.op = "rope" -> MetalRope(l.dims, i) = CpuRope(l.dims, b, c, t)
          [] l.op = "conv_ctx" -> ConvCtx(l.dims, i) = CpuConvCtx(l.dims, b, c, t)
----------------------------------------------------------------------------
(* Kernels that reduce a row.  dims is <<columns, passes>>.                 *)

RowOps == {"cuda_norm", "cuda_channel", "metal_norm", "metal_softmax", "metal_attention",
           "vulkan_softmax"}
MetalOps == {"metal_norm", "metal_softmax", "metal_attention"}

\* CUDA: one group below the largest size, the largest workgroup from there on.
CudaBlock(n) == IF n < Warps THEN 1 ELSE Warps
\* Metal: a row wider than a workgroup is split over several workgroups.
MetalGroups(n) == 0 .. DivCeil(n, Warps) - 1
MetalWidth(n, g) == Least(Warps, n - g * Warps)

Workgroups(l) == IF l.op \in MetalOps THEN MetalGroups(l.dims[1]) ELSE {0}
Members(l, g) ==
    0 .. (CASE l.op \in {"cuda_norm", "cuda_channel"} -> CudaBlock(l.dims[1])
            [] l.op \in MetalOps -> MetalWidth(l.dims[1], g)
            [] OTHER -> Warps) - 1
\* The columns a member reads and writes.
Columns(l, g, w) ==
    IF l.op \in MetalOps THEN {g * Warps + w}
    ELSE {c \in 0 .. l.dims[1] - 1 : c % Cardinality(Members(l, g)) = w}

\* Mutant of CudaChannel: no second barrier.
CudaEager == <<"put", "sync", "lead", "read", "use">>
\* One reduction, as each SIMD group executes it.
CudaNorm == <<"put", "sync", "first", "use">>
CudaChannel == <<"put", "sync", "lead", "sync", "read", "use">>
MetalReduce == <<"put", "sync", "all", "use">>
VulkanReduce == <<"put", "sync", "lead", "sync", "read", "use">>
Body(l) ==
    CASE l.op = "cuda_norm" -> CudaNorm
      [] l.op = "cuda_channel" -> CudaChannel
      [] l.op \in MetalOps -> MetalReduce
      [] l.op = "vulkan_softmax" -> VulkanReduce
\* Reductions of the kernel, one after the other: maximum and sum, mean and
\* variance, or one per position of the KV cache.
Passes(l) ==
    CASE l.op \in {"metal_softmax", "vulkan_softmax"} -> 2
      [] l.op = "metal_attention" -> l.dims[2]
      [] OTHER -> 1
PassOf(l, i) == ((i - 1) \div Len(Body(l))) + 1
At(l, i) == Body(l)[((i - 1) % Len(Body(l))) + 1]
LastStep(l) == Passes(l) * Len(Body(l))
\* Metal's two reductions in one kernel have an array each; the loop of the fused
\* attention and the Vulkan shader use one array for all.
ArrayOf(l, i) == IF l.op = "metal_softmax" THEN PassOf(l, i) ELSE 1

\* The launches: some output and passes, a convolution no longer than its input, an
\* even head dimension to rotate, rows of an operand that do not overlap.
Sizes(n) == [1 .. n -> Nat \ {0}]
Shaped(l) ==
    \/ /\ l.op \in {"cuda_elementwise", "metal_elementwise", "vulkan_elementwise", "vulkan_gemv"}
       /\ l.dims \in Sizes(1)
    \/ l.op = "vulkan_gemm" /\ l.dims \in Sizes(2)
    \/ /\ l.op \in CudaPointwise \cup MetalPointwise /\ l.dims \in Sizes(3)
       /\ l.dims[3] >= l.dims[2]
    \/ /\ Gathers(l) /\ l.dims \in Sizes(4)
       /\ l.op = "conv_bias" => Ks(l.dims) <= Tm(l.dims)
       /\ l.op = "rope" => Tm(l.dims) % 2 = 0
    \/ l.op \in RowOps /\ l.dims \in Sizes(2)
KernelAssumption ==
    /\ Warps \in Nat \ {0} /\ Block \in Nat \ {0}
    /\ Side \in Nat \ {0} /\ Side % 2 = 0
    /\ \A l \in Launches : Shaped(l)

\* What a slot nobody wrote holds.
Garbage == {<<0, 0>>}
SlotOf(a, i) == IF i < Warps THEN shared[a][i] ELSE Garbage
WholeRow(l, pass) == {<<pass, c>> : c \in 0 .. l.dims[1] - 1}
----------------------------------------------------------------------------
KernelsInit ==
    /\ launch = NoLaunch
    /\ tgroup = 0
    /\ pc = <<>>
    /\ sum = <<>>
    /\ shared = <<>>

Launch(l) ==
    /\ launch = NoLaunch
    /\ launch' = l
    /\ IF l.op \in RowOps
         THEN \E g \in Workgroups(l) :
                /\ tgroup' = g
                /\ pc' = [w \in Members(l, g) |-> 1]
                /\ sum' = [w \in Members(l, g) |-> {}]
                /\ shared' = [a \in 1 .. 2 |-> [i \in 0 .. Warps - 1 |-> Garbage]]
         ELSE UNCHANGED <<tgroup, pc, sum, shared>>

Runs(w) == /\ launch.op \in RowOps
           /\ pc[w] <= LastStep(launch)
Advance(w) == pc' = [pc EXCEPT ![w] = @ + 1]
Members0 == Members(launch, tgroup)

\* The sum over the group's own lanes, stored in its slot.
Put(w) ==
    /\ Runs(w) /\ At(launch, pc[w]) = "put"
    /\ LET own == {<<PassOf(launch, pc[w]), c>> : c \in Columns(launch, tgroup, w)}
       IN  /\ sum' = [sum EXCEPT ![w] = own]
           /\ shared' = [shared EXCEPT ![ArrayOf(launch, pc[w])][w] = own]
    /\ Advance(w)
    /\ UNCHANGED <<launch, tgroup>>

\* A barrier: a group passes once every group of the workgroup has reached it.
Sync(w) ==
    /\ Runs(w) /\ At(launch, pc[w]) = "sync"
    /\ \A v \in Members0 : pc[v] >= pc[w]
    /\ Advance(w)
    /\ UNCHANGED <<launch, tgroup, sum, shared>>

\* Every group adds up as many slots as the row has groups.
AllSlots(w) ==
    /\ Runs(w) /\ At(launch, pc[w]) = "all"
    /\ sum' = [sum EXCEPT ![w] = UNION {SlotOf(ArrayOf(launch, pc[w]), i) : i \in 0 .. launch.dims[1] - 1}]
    /\ Advance(w)
    /\ UNCHANGED <<launch, tgroup, shared>>

\* The lanes whose index in the block is below the number of groups add up the
\* slots, the others zeros: lanes of the first group only.
FirstOnly(w) ==
    /\ Runs(w) /\ At(launch, pc[w]) = "first"
    /\ sum' = [sum EXCEPT ![w] = IF w = 0 THEN UNION {shared[1][i] : i \in Members0} ELSE {}]
    /\ Advance(w)
    /\ UNCHANGED <<launch, tgroup, shared>>

\* The first group adds up the slots into slot 0, the others go on.
Lead(w) ==
    /\ Runs(w) /\ At(launch, pc[w]) = "lead"
    /\ shared' = IF w = 0 THEN [shared EXCEPT ![1][0] = UNION {shared[1][i] : i \in Members0}]
                 ELSE shared
    /\ Advance(w)
    /\ UNCHANGED <<launch, tgroup, sum>>

ReadTotal(w) ==
    /\ Runs(w) /\ At(launch, pc[w]) = "read"
    /\ sum' = [sum EXCEPT ![w] = shared[1][0]]
    /\ Advance(w)
    /\ UNCHANGED <<launch, tgroup, shared>>

\* The columns of the group are scaled by what it holds.
Use(w) ==
    /\ Runs(w) /\ At(launch, pc[w]) = "use"
    /\ Advance(w)
    /\ UNCHANGED <<launch, tgroup, sum, shared>>

Finish ==
    /\ launch /= NoLaunch
    /\ launch.op \in RowOps => \A w \in Members0 : pc[w] > LastStep(launch)
    /\ launch' = NoLaunch
    /\ tgroup' = 0
    /\ pc' = <<>> /\ sum' = <<>> /\ shared' = <<>>

Step(w) == Put(w) \/ Sync(w) \/ AllSlots(w) \/ FirstOnly(w) \/ Lead(w) \/ ReadTotal(w) \/ Use(w)

KernelsNext ==
    \/ \E l \in Launches : Launch(l)
    \/ \E w \in DOMAIN pc : Step(w)
    \/ Finish

KernelsSpec == KernelsInit /\ [][KernelsNext]_kvars
----------------------------------------------------------------------------
TypeOK ==
    /\ launch \in Launches \cup {NoLaunch}
    /\ tgroup \in Nat
    /\ DOMAIN pc = DOMAIN sum
    /\ \A w \in DOMAIN pc : pc[w] \in 1 .. LastStep(launch) + 1

\* Every element of the output is written by exactly one thread, one that has
\* computed it.
Covered ==
    LET d == launch.dims IN
    CASE launch.op = "cuda_elementwise" ->
           \A e \in 0 .. d[1] - 1 : Cardinality({i \in CudaThreads(d[1]) : e \in CudaStride(d[1], i)}) = 1
      [] launch.op = "metal_elementwise" -> MetalThreads(d[1]) = 0 .. d[1] - 1
      [] launch.op = "vulkan_elementwise" ->
           \A e \in 0 .. d[1] - 1 : Cardinality({i \in VulkanThreads(d[1]) : e \in VecElements(d[1], i)}) = 1
      [] launch.op = "vulkan_gemv" -> 0 .. d[1] - 1 \subseteq GemvThreads(d[1])
      [] launch.op = "vulkan_gemm" ->
           \A e \in 0 .. d[1] * d[2] - 1 :
             \E t \in GemmThreads(d[1], d[2]) :
               /\ {u \in GemmThreads(d[1], d[2]) : e \in GemmElements(d[1], d[2], u)} = {t}
               /\ Accumulates(d[1], t)
      [] launch.op \in RowOps ->
           \A c \in 0 .. d[1] - 1 :
             Cardinality({m \in UNION {{<<g, w>> : w \in Members(launch, g)} : g \in Workgroups(launch)} :
                           c \in Columns(launch, m[1], m[2])}) = 1
      [] OTHER -> TRUE

\* The kernels of the GPU backends compute an element from the same operands as
\* the CPU backend; Metal's pointwise ones do so for the first row only when the
\* rows of an operand are further apart than they are long.
Agrees ==
    /\ launch.op \in CudaPointwise \cup MetalPointwise => PointwiseAgrees(launch.op, launch.dims)
    /\ Gathers(launch) =>
      \A b \in 0 .. Bn(launch.dims) - 1, c \in 0 .. Ch(launch.dims) - 1, t \in 0 .. Along(launch) - 1 :
        Gathered(launch, b, c, t)

\* A SIMD group scales its columns by the sum over the whole row, of the pass it
\* is in, however the groups of the workgroup interleave.
RowWide ==
    \A w \in DOMAIN pc :
      (/\ pc[w] <= LastStep(launch)
       /\ At(launch, pc[w]) = "use"
       /\ Columns(launch, tgroup, w) /= {})
        => sum[w] = WholeRow(launch, PassOf(launch, pc[w]))

\* The rows every group scales by their whole sum: of CUDA's gated norm those of one
\* group, of Metal's reductions those of one workgroup, and of the two whose shared
\* array one barrier too few protects those without a second group or position.
RowFits(l) ==
    CASE l.op = "cuda_norm" -> l.dims[1] < Warps
      [] l.op = "cuda_channel" -> TRUE
      [] l.op \in {"metal_norm", "metal_softmax"} -> l.dims[1] <= Warps
      [] l.op = "metal_attention" -> l.dims[1] = 1 \/ (l.dims[1] <= Warps /\ l.dims[2] = 1)
      [] l.op = "vulkan_softmax" -> l.dims[1] = 1

\* What group w may scale by in pass p of a launch: without the first group's help
\* nothing, and while other groups are ahead, what those have put in their slots for
\* the pass to come; a workgroup with part of a row adds up slots nobody wrote, too.
Own(l, g, p, w) == {<<p, c>> : c \in Columns(l, g, w)}
Ahead(l, g, p, w) ==
    IF l.op \in {"metal_attention", "vulkan_softmax"} /\ p < Passes(l) THEN Members(l, g) \ {w} ELSE {}
Added(l, g, p, ahead) ==
    (UNION {Own(l, g, IF v \in ahead THEN p + 1 ELSE p, v) : v \in Members(l, g)})
      \cup (IF l.dims[1] > Warps THEN Garbage ELSE {})
Sums(l, g, p, w) ==
    CASE l.op = "cuda_norm" -> {IF w = 0 THEN WholeRow(l, p) ELSE {}}
      [] l.op = "cuda_channel" -> {WholeRow(l, p)}
      [] l.op = "vulkan_softmax" ->
           {WholeRow(l, p)} \cup (IF 0 \in Ahead(l, g, p, w) THEN {Own(l, g, p + 1, 0)} ELSE {})
      [] l.op \in MetalOps -> {Added(l, g, p, ahead) : ahead \in SUBSET Ahead(l, g, p, w)}

\* A row that fits is scaled by its whole sum, any other by one of the sums above.
Summed ==
    /\ launch.op \in RowOps /\ RowFits(launch) => RowWide
    /\ \A w \in DOMAIN pc :
         pc[w] <= LastStep(launch) /\ At(launch, pc[w]) = "use"
           => sum[w] \in Sums(launch, tgroup, PassOf(launch, pc[w]), w)

\* What the kernels of the GPU backends compute, of every launch and however the
\* groups of a workgroup interleave: each element of the output once, by a thread
\* that has computed it, from the operands the CPU backend uses, and rows by their
\* whole sum. What goes wrong, with strided operands and with rows that do not fit,
\* goes wrong in no other way than Agrees and Summed say.
Computed == Covered /\ Agrees /\ Summed
=============================================================================
