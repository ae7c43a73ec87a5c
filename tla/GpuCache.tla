------------------------------ MODULE GpuCache ------------------------------
(***************************************************************************)
(* The buffers of the Vulkan backend: the pool of output buffers, the       *)
(* activation cache that lets the next operation find the output of the     *)
(* last one, and the weight caches, by tensor id and by address.            *)
(*                                                                          *)
(* A tensor is an id and a view of a storage.  A storage sits at a heap     *)
(* address from its creation until its last tensor is dropped; then the     *)
(* allocator may put another storage there.  What a storage holds is the    *)
(* id of the tensor it was made for, and so what an operation must read of  *)
(* a tensor is that value, seen straight or transposed.                     *)
(***************************************************************************)
EXTENDS Naturals, Sequences, FiniteSets

CONSTANTS
    Addresses,          \* the heap, as far as tensors of one shape go
    NumWeights,         \* weights of the model
    Halves,             \* whether a weight is F16: preprocessing makes an F32 copy
    Fifo,               \* entries of the activation cache (16)
    MaxTensors,         \* bound on the tensors ever made
    MaxViewed,          \* bound: no view is made when so many tensors have been
    MaxBuffers          \* bound on the buffers ever allocated

VARIABLES
    tensors,  \* the tensors the program holds
    made,     \* how many were ever made
    gpu,      \* the backend's buffers and caches
    read,     \* of each operand of the last dispatch: what is due, where it is, what was got
    sat       \* the storages that were ever at an address

GpuAssumption == NumWeights \in Nat /\ Fifo \in Nat \ {0} /\ Halves \subseteq BOOLEAN

gpuvars == <<tensors, made, gpu, read, sat>>

None == [x \in {} |-> 0]
Value(t) == <<t.of, t.view>>
Weight(t) == t.of <= NumWeights
Used == {t.at : t \in tensors}
Key(t) == <<t.at, t.view>>
Assign(f, k, v) == [x \in DOMAIN f \cup {k} |-> IF x = k THEN v ELSE f[x]]
----------------------------------------------------------------------------
(* The backend.  g is its state: held, what every buffer holds; pool, the   *)
(* free output buffers; acts, the activation cache; byId, views and halves, *)
(* the weight caches.                                                       *)

NoBuffers == [held |-> <<>>, pool |-> <<>>, acts |-> <<>>, byId |-> None, views |-> None,
              halves |-> None]

\* A new buffer, filled.
Uploaded(g, v) == [g EXCEPT !.held = Append(@, v)]

\* The buffer alloc_output returns: the last one released, or a new one.
OutputBuffer(g) == IF g.pool = <<>> THEN Len(g.held) + 1 ELSE g.pool[Len(g.pool)]
AllocOutput(g) ==
    IF g.pool = <<>> THEN Uploaded(g, <<0, FALSE>>)
    ELSE [g EXCEPT !.pool = SubSeq(@, 1, Len(@) - 1)]
ReleaseOutput(g, b) == [g EXCEPT !.pool = Append(@, b)]

\* The entry of the activation cache for a tensor id, 0 if there is none.
Position(g, id) ==
    IF \E i \in 1 .. Len(g.acts) : g.acts[i].id = id
    THEN CHOOSE i \in 1 .. Len(g.acts) : g.acts[i].id = id
    ELSE 0
Without(s, i) == SubSeq(s, 1, i - 1) \o SubSeq(s, i + 1, Len(s))

\* Mutant of CacheActivation: nothing is evicted.
CacheForever(g, id, b) == [g EXCEPT !.acts = Append(@, [id |-> id, buf |-> b])]

\* The oldest entry goes back to the pool: a hit takes its entry out of the
\* cache, so no one else holds the buffer.
CacheActivation(g, id, b) ==
    LET full == Len(g.acts) >= Fifo
        h == IF full THEN ReleaseOutput([g EXCEPT !.acts = Tail(@)], g.acts[1].buf) ELSE g
    IN  [h EXCEPT !.acts = Append(@, [id |-> id, buf |-> b])]

\* Mutant of IsView: contiguous tensors are found by address too.
AnyView(t) == TRUE
\* Contiguous tensors are found by id, the others by address and layout.
IsView(t) == t.view

\* get_or_upload: the buffer, and the backend afterwards.
GetOrUpload(g, t) ==
    LET i == Position(g, t.id)
        new == Len(g.held) + 1
        up == Uploaded(g, Value(t))
    IN  CASE i > 0 -> [buf |-> g.acts[i].buf, gpu |-> [g EXCEPT !.acts = Without(@, i)]]
          [] i = 0 /\ t.id \in DOMAIN g.byId -> [buf |-> g.byId[t.id], gpu |-> g]
          [] i = 0 /\ t.id \notin DOMAIN g.byId /\ IsView(t) /\ Key(t) \in DOMAIN g.views ->
               [buf |-> g.views[Key(t)], gpu |-> g]
          [] OTHER ->
               [buf |-> new,
                gpu |-> IF IsView(t) THEN [up EXCEPT !.views = Assign(@, Key(t), new)]
                        ELSE [up EXCEPT !.byId = Assign(@, t.id, new)]]

\* The operands of an operation, one after the other.
Operands(g, ts) ==
    LET first == GetOrUpload(g, ts[1])
        second == GetOrUpload(first.gpu, ts[2])
    IN  IF Len(ts) = 1 THEN [bufs |-> <<first.buf>>, gpu |-> first.gpu]
        ELSE [bufs |-> <<first.buf, second.buf>>, gpu |-> second.gpu]

\* A read of tensor t that finds v.
Got(t, v) == [due |-> Value(t), at |-> t.at, got |-> v]

\* The dispatch writes the output buffer after reading the operands.
Dispatched(g, bufs, ts, id) ==
    LET b == OutputBuffer(g)
        h == AllocOutput(g)
    IN  /\ read' = {Got(ts[i], h.held[bufs[i]]) : i \in DOMAIN ts}
        /\ gpu' = CacheActivation([h EXCEPT !.held[b] = <<id, FALSE>>], id, b)
----------------------------------------------------------------------------
NewTensor(a) == [id |-> made + 1, at |-> a, of |-> made + 1, view |-> FALSE]
\* The next storage sits at the addresses A.
Seated(A) == sat' = [a \in Addresses |-> IF a \in A THEN sat[a] \cup {made + 1} ELSE sat[a]]
Room == made < MaxTensors /\ Len(gpu'.held) <= MaxBuffers

GpuInit ==
    /\ tensors = {}
    /\ made = 0
    /\ gpu = NoBuffers
    /\ read = {}
    /\ sat = [a \in Addresses |-> {}]

\* preprocess_linear_weight uploads the weight under the id of its F32 form.  Of
\* an F16 weight that is a copy that is gone when the function returns; its
\* transpose is also kept as F16, under the address the copy had.
PreprocessWeight(a) ==
    /\ made < NumWeights
    /\ a \notin Used
    /\ tensors' = tensors \cup {NewTensor(a)}
    /\ made' = made + 1
    /\ \/ /\ FALSE \in Halves
          /\ gpu' = GetOrUpload(gpu, NewTensor(a)).gpu
          /\ Seated({a})
       \/ /\ TRUE \in Halves
          /\ \E copy \in Addresses \ (Used \cup {a}) :
               LET w == Uploaded(gpu, <<made + 1, FALSE>>)
                   n == Len(w.held) + 1
               IN  /\ gpu' = [Uploaded(w, <<made + 1, TRUE>>) EXCEPT
                                !.halves = Assign(@, <<copy, TRUE>>, n)]
                   /\ Seated({a, copy})
    /\ Room
    /\ read' = {}

\* A tensor computed on the CPU.
Compute(a) ==
    /\ made >= NumWeights /\ made < MaxTensors
    /\ a \notin Used
    /\ tensors' = tensors \cup {NewTensor(a)}
    /\ made' = made + 1
    /\ read' = {}
    /\ Seated({a})
    /\ UNCHANGED gpu

\* t() and narrow: a tensor of its own on the same storage, of a weight or of an
\* activation (FLUX.2 multiplies the halves of one).
Transpose(t) ==
    /\ made >= NumWeights /\ made < MaxTensors /\ made < MaxViewed
    /\ ~t.view
    /\ tensors' = tensors \cup {[t EXCEPT !.id = made + 1, !.view = TRUE]}
    /\ made' = made + 1
    /\ read' = {}
    /\ UNCHANGED <<gpu, sat>>

\* The elementwise operations and the softmax, and a matmul that is not batched.
\* A one-row product prefers the F16 form of its right operand.
Elementwise(ts, a) ==
    LET o == Operands(gpu, ts)
    IN  Dispatched(o.gpu, o.bufs, ts, made + 1)
Matmul(ts, one) ==
    LET o == Operands(gpu, ts)
        half == one /\ Key(ts[2]) \in DOMAIN o.gpu.halves
    IN  Dispatched(o.gpu, IF half THEN <<o.bufs[1], o.gpu.halves[Key(ts[2])]>> ELSE o.bufs, ts,
                   made + 1)
\* A batch uploads its operands anew and releases its output buffers.
Batched(ts) ==
    LET u == Uploaded(Uploaded(gpu, Value(ts[1])), Value(ts[2]))
        b == OutputBuffer(u)
    IN  /\ read' = {Got(ts[1], u.held[Len(u.held) - 1]), Got(ts[2], u.held[Len(u.held)])}
        /\ gpu' = ReleaseOutput([AllocOutput(u) EXCEPT !.held[b] = <<made + 1, FALSE>>], b)

\* An operation of a model: its result is a new tensor.
Operation(a) ==
    /\ made >= NumWeights
    /\ a \notin Used
    /\ \E x, y \in tensors :
         \/ Elementwise(<<x>>, a)
         \/ Elementwise(<<x, y>>, a)
         \/ \E one \in BOOLEAN : Matmul(<<x, y>>, one)
         \/ Batched(<<x, y>>)
    /\ Room
    /\ tensors' = tensors \cup {NewTensor(a)}
    /\ made' = made + 1
    /\ Seated({a})

\* Rust drops a tensor.  The weights stay.
Drop(t) ==
    /\ ~(Weight(t) /\ ~t.view)
    /\ tensors' = tensors \ {t}
    /\ read' = {}
    /\ UNCHANGED <<made, gpu, sat>>

GpuNext ==
    \/ \E a \in Addresses : PreprocessWeight(a) \/ Compute(a) \/ Operation(a)
    \/ \E t \in tensors : Transpose(t) \/ Drop(t)

GpuSpec == GpuInit /\ [][GpuNext]_gpuvars
----------------------------------------------------------------------------
TypeOK ==
    /\ Cardinality(tensors) <= made
    /\ \A s, t \in tensors : (s.id = t.id => s = t) /\ (s.at = t.at <=> s.of = t.of)
    /\ Len(gpu.acts) <= Fifo

\* A dispatch reads what the operands hold now, not what was in a cache under the
\* same address or in a buffer that has been given out again.
ReadsFresh == \A r \in read : r.got = r.due

\* What a dispatch reads of a contiguous operand is what that holds now, and so it is
\* of a view of a weight as long as no weight is F16.  Of any other view it is
\* what a view at the operand's address holds or once held, and nothing else: the
\* caches by address outlive the storage (weight_cache.views, f16_views).
ReadsRight ==
    \A r \in read :
      /\ ~r.due[2] => r.got = r.due
      /\ r.due[1] <= NumWeights /\ DOMAIN gpu.halves = {} => r.got = r.due
      /\ r.got[2] = r.due[2] /\ {r.due[1], r.got[1]} \subseteq sat[r.at]

\* A buffer of the pool is in no cache, and is there once.
Owned ==
    LET cached == {gpu.acts[i].buf : i \in DOMAIN gpu.acts}
        kept == {gpu.byId[i] : i \in DOMAIN gpu.byId} \cup {gpu.views[k] : k \in DOMAIN gpu.views}
                \cup {gpu.halves[k] : k \in DOMAIN gpu.halves}
        free == {gpu.pool[i] : i \in DOMAIN gpu.pool}
    IN  /\ Cardinality(free) = Len(gpu.pool)
        /\ free \cap (cached \cup kept) = {}
        /\ cached \cap kept = {}

Current == ReadsRight /\ Owned
=============================================================================
