----------------------------- MODULE CachesProofs ---------------------------
(***************************************************************************)
(* Proofs about the three caches of the system.                            *)
(*                                                                         *)
(* GpuCache: a dispatch reads what its contiguous operands hold, and of a  *)
(* view what a view at its address holds or once held, for every number of *)
(* tensors, buffers, weights and cache entries and weights of both kinds.  *)
(* Run gpu_stale shows a view that is read stale.                          *)
(*                                                                         *)
(* Attention: a row is computed from its own tokens, for every layout of   *)
(* layers, window, context and convolution, and any sequence of requests.  *)
(*                                                                         *)
(* ModelCache: a pull in which nothing fails returns the whole model, for  *)
(* every set of layouts and shards, number of revisions and of failures.   *)
(***************************************************************************)
EXTENDS GpuCache, Attention, ModelCache, SequenceTheorems, FiniteSetTheorems,
        WellFoundedInduction, TLAPS

-----------------------------------------------------------------------------
(* GpuCache. *)

\* The tensors of the program, and the storages H that were at each address.
Program(T, n, H) ==
  /\ n \in Nat /\ T \subseteq [id : 1 .. n, at : Addresses, of : 1 .. n, view : BOOLEAN]
  /\ \A s, t \in T : (s.id = t.id => s = t) /\ (s.at = t.at <=> s.of = t.of)
  /\ \A t \in T : (t.view \/ t.of = t.id) /\ t.of \in H[t.at]

\* While no weight is F16 nothing but a weight was ever where a weight is.
Steady(F, T, n, H) ==
  /\ n <= NumWeights => \A t \in T : ~ t.view
  /\ F = {} => \A t \in T : t.of <= NumWeights => H[t.at] = {t.of}
  /\ F = {} /\ n <= NumWeights => \A a \in Addresses : H[a] # {} => \E t \in T : t.at = a

Buffers(g) == 1 .. Len(g.held)
CachedActs(g)  == 1 .. Len(g.acts)

Backend(g) ==
  /\ g = [held |-> g.held, pool |-> g.pool, acts |-> g.acts, byId |-> g.byId, views |-> g.views,
          halves |-> g.halves]
  /\ g.held \in Seq(Nat \X BOOLEAN)
  /\ g.pool \in Seq(Nat)
  /\ g.acts \in Seq([id : Nat, buf : Nat])

\* Under an address a buffer holds a view of a storage that was there.
Seen(H, k, v) == \E a \in Addresses : \E o \in H[a] : k = <<a, TRUE>> /\ v = <<o, TRUE>>
Remembers(g, f, H) == \A k \in DOMAIN f : f[k] \in Buffers(g) /\ Seen(H, k, g.held[f[k]])

\* A cached buffer holds what its entry says.
Sound(g, H, T, n) ==
  /\ Backend(g)
  /\ \A i \in DOMAIN g.byId :
       i \in 1 .. n /\ g.byId[i] \in Buffers(g) /\ g.held[g.byId[i]] = <<i, FALSE>>
  /\ Remembers(g, g.views, H)
  /\ Remembers(g, g.halves, H)
  /\ \A i \in CachedActs(g) :
       /\ g.acts[i].id \in 1 .. n /\ g.acts[i].buf \in Buffers(g)
       /\ g.held[g.acts[i].buf] = <<g.acts[i].id, FALSE>>
  /\ \A t \in T : t.view => t.id \notin DOMAIN g.byId /\ \A i \in CachedActs(g) : g.acts[i].id # t.id

InPool(g, b) == \E i \in 1 .. Len(g.pool) : g.pool[i] = b
InActs(g, b) == \E i \in CachedActs(g) : g.acts[i].buf = b
Kept(g, b)   == \/ \E i \in DOMAIN g.byId : g.byId[i] = b
                \/ \E k \in DOMAIN g.views : g.views[k] = b
                \/ \E k \in DOMAIN g.halves : g.halves[k] = b

\* A buffer is in one place.
Apart(g) ==
  /\ \A i, j \in 1 .. Len(g.pool) : g.pool[i] = g.pool[j] => i = j
  /\ \A i, j \in CachedActs(g) : g.acts[i].buf = g.acts[j].buf => i = j
  /\ \A b : InPool(g, b) => b \in Buffers(g) /\ ~ InActs(g, b) /\ ~ Kept(g, b)
  /\ \A b : InActs(g, b) => ~ Kept(g, b)

\* A buffer is in none.
Free(g, b) == b \in Buffers(g) /\ ~ InPool(g, b) /\ ~ InActs(g, b) /\ ~ Kept(g, b)

GpuInv ==
  /\ Program(tensors, made, sat)
  /\ Steady(DOMAIN gpu.halves, tensors, made, sat)
  /\ Sound(gpu, sat, tensors, made)
  /\ Apart(gpu)
  /\ ReadsRight

----------------------------------------------------------------------------
(* The operators of the backend.                                            *)

\* Without leaves the other elements, in order.
LEMMA WithoutOf ==
  ASSUME NEW S, NEW s \in Seq(S), NEW i \in 1 .. Len(s)
  PROVE  /\ Without(s, i) \in Seq(S) /\ Len(Without(s, i)) = Len(s) - 1
         /\ \A j \in 1 .. Len(s) - 1 : Without(s, i)[j] = IF j < i THEN s[j] ELSE s[j + 1]
<1> DEFINE a == SubSeq(s, 1, i - 1)
           b == SubSeq(s, i + 1, Len(s))
<1>1. Len(s) \in Nat /\ i \in Nat /\ i - 1 \in Int /\ i + 1 \in Int /\ i <= Len(s) /\ 1 <= i
  OBVIOUS
<1>2. \A k \in 1 .. i - 1 : s[k] \in S
  BY <1>1
<1>3. \A k \in i + 1 .. Len(s) : s[k] \in S
  BY <1>1
<1>4. a \in Seq(S) /\ Len(a) = i - 1 /\ \A k \in 1 .. i - 1 : a[k] = s[k]
  <2>1. /\ a \in Seq(S) /\ Len(a) = IF 1 <= i - 1 THEN (i - 1) - 1 + 1 ELSE 0
        /\ \A k \in 1 .. (i - 1) - 1 + 1 : a[k] = s[1 + k - 1]
    BY <1>1, <1>2, SubSeqProperties
  <2>2. QED
    BY <1>1, <2>1
<1>5. b \in Seq(S) /\ Len(b) = Len(s) - i /\ \A k \in 1 .. Len(s) - i : b[k] = s[i + k]
  <2>1. /\ b \in Seq(S) /\ Len(b) = IF i + 1 <= Len(s) THEN Len(s) - (i + 1) + 1 ELSE 0
        /\ \A k \in 1 .. Len(s) - (i + 1) + 1 : b[k] = s[(i + 1) + k - 1]
    BY <1>1, <1>3, SubSeqProperties
  <2>2. QED
    BY <1>1, <2>1
<1> HIDE DEF a, b
<1>6. /\ a \o b \in Seq(S) /\ Len(a \o b) = Len(a) + Len(b)
      /\ \A k \in 1 .. Len(a) + Len(b) : (a \o b)[k] = IF k <= Len(a) THEN a[k] ELSE b[k - Len(a)]
  BY <1>4, <1>5, ConcatProperties
<1>7. Len(a \o b) = Len(s) - 1
  BY <1>1, <1>4, <1>5, <1>6
<1>8. ASSUME NEW k \in 1 .. Len(s) - 1 PROVE (a \o b)[k] = IF k < i THEN s[k] ELSE s[k + 1]
  <2>1. (a \o b)[k] = IF k <= i - 1 THEN a[k] ELSE b[k - (i - 1)]
    BY <1>1, <1>4, <1>5, <1>6
  <2>2. CASE k < i
    BY <1>1, <1>4, <2>1, <2>2
  <2>3. CASE ~ (k < i)
    <3>1. k - (i - 1) \in 1 .. Len(s) - i
      BY <1>1, <2>3
    <3>2. b[k - (i - 1)] = s[i + (k - (i - 1))]
      BY <1>5, <3>1
    <3>3. i + (k - (i - 1)) = k + 1
      BY <1>1
    <3>4. QED
      BY <1>1, <2>1, <2>3, <3>2, <3>3
  <2>4. QED
    BY <2>2, <2>3
<1>9. Without(s, i) = a \o b
  BY DEF Without, a, b
<1>10. QED
  BY <1>6, <1>7, <1>8, <1>9

\* A backend is sound if its caches are those of a sound one, and the buffers they
\* name hold what they held there.
LEMMA SoundSame ==
  ASSUME NEW g, NEW h, NEW H, NEW T, NEW n, Sound(g, H, T, n), Backend(h),
         h.byId = g.byId, h.views = g.views, h.halves = g.halves, h.acts = g.acts,
         \A b \in Buffers(g) : InActs(g, b) \/ Kept(g, b) => b \in Buffers(h) /\ h.held[b] = g.held[b]
  PROVE  Sound(h, H, T, n)
<1>1. ASSUME NEW i \in DOMAIN h.byId
      PROVE  i \in 1 .. n /\ h.byId[i] \in Buffers(h) /\ h.held[h.byId[i]] = <<i, FALSE>>
  <2>1. i \in 1 .. n /\ g.byId[i] \in Buffers(g) /\ g.held[g.byId[i]] = <<i, FALSE>>
    BY DEF Sound
  <2>2. Kept(g, g.byId[i])
    BY DEF Kept
  <2>3. QED
    BY <2>1, <2>2
<1>2. ASSUME NEW k \in DOMAIN h.views
      PROVE  h.views[k] \in Buffers(h) /\ Seen(H, k, h.held[h.views[k]])
  <2>1. g.views[k] \in Buffers(g) /\ Seen(H, k, g.held[g.views[k]])
    BY DEF Sound, Remembers
  <2>2. Kept(g, g.views[k])
    BY DEF Kept
  <2>3. QED
    BY <2>1, <2>2
<1>6. ASSUME NEW k \in DOMAIN h.halves
      PROVE  h.halves[k] \in Buffers(h) /\ Seen(H, k, h.held[h.halves[k]])
  <2>1. g.halves[k] \in Buffers(g) /\ Seen(H, k, g.held[g.halves[k]])
    BY DEF Sound, Remembers
  <2>2. Kept(g, g.halves[k])
    BY DEF Kept
  <2>3. QED
    BY <2>1, <2>2
<1>3. ASSUME NEW i \in CachedActs(h)
      PROVE  /\ h.acts[i].id \in 1 .. n /\ h.acts[i].buf \in Buffers(h)
             /\ h.held[h.acts[i].buf] = <<h.acts[i].id, FALSE>>
  <2>1. /\ i \in CachedActs(g) /\ g.acts[i].id \in 1 .. n /\ g.acts[i].buf \in Buffers(g)
        /\ g.held[g.acts[i].buf] = <<g.acts[i].id, FALSE>>
    BY DEF Sound, CachedActs
  <2>2. InActs(g, g.acts[i].buf)
    BY <2>1 DEF InActs
  <2>3. QED
    BY <2>1, <2>2
<1>4. \A t \in T : t.view => t.id \notin DOMAIN h.byId /\ \A i \in CachedActs(h) : h.acts[i].id # t.id
  BY DEF Sound, CachedActs
<1>5. QED
  BY <1>1, <1>2, <1>3, <1>4, <1>6 DEF Sound, Remembers

\* A new buffer is the last, and in no place yet.
LEMMA UploadedOf ==
  ASSUME NEW g, NEW H, NEW T, NEW n, Sound(g, H, T, n), Apart(g), NEW v \in Nat \X BOOLEAN
  PROVE  /\ Sound(Uploaded(g, v), H, T, n) /\ Apart(Uploaded(g, v))
         /\ Free(Uploaded(g, v), Len(g.held) + 1)
         /\ Len(Uploaded(g, v).held) = Len(g.held) + 1
         /\ Uploaded(g, v).held[Len(g.held) + 1] = v /\ Uploaded(g, v).halves = g.halves
         /\ \A b \in Buffers(g) : Uploaded(g, v).held[b] = g.held[b]
<1> DEFINE h == Uploaded(g, v)
<1>1. Backend(g)
  BY DEF Sound
<1>2. h = [held |-> Append(g.held, v), pool |-> g.pool, acts |-> g.acts, byId |-> g.byId,
           views |-> g.views, halves |-> g.halves]
  <2>1. g = [held |-> g.held, pool |-> g.pool, acts |-> g.acts, byId |-> g.byId, views |-> g.views,
             halves |-> g.halves]
    BY <1>1 DEF Backend
  <2>2. h = [g EXCEPT !.held = Append(g.held, v)]
    BY DEF Uploaded
  <2>3. QED
    BY <2>1, <2>2
<1>3. /\ h.held = Append(g.held, v) /\ h.pool = g.pool /\ h.acts = g.acts /\ h.byId = g.byId
      /\ h.views = g.views /\ h.halves = g.halves
  BY <1>2
<1>4. g.held \in Seq(Nat \X BOOLEAN) /\ Len(g.held) \in Nat
  BY <1>1 DEF Backend
<1>5. /\ Append(g.held, v) \in Seq(Nat \X BOOLEAN) /\ Len(Append(g.held, v)) = Len(g.held) + 1
      /\ Append(g.held, v)[Len(g.held) + 1] = v
      /\ \A b \in Buffers(g) : Append(g.held, v)[b] = g.held[b]
  BY <1>4, AppendProperties DEF Buffers
<1>6. Backend(h)
  BY <1>1, <1>2, <1>5 DEF Backend
<1> HIDE DEF h
<1>7. \A b \in Buffers(g) : b \in Buffers(h) /\ h.held[b] = g.held[b]
  BY <1>3, <1>4, <1>5 DEF Buffers
<1>8. Sound(h, H, T, n)
  BY <1>3, <1>6, <1>7, SoundSame
<1>9. /\ \A b : InPool(h, b) = InPool(g, b) /\ InActs(h, b) = InActs(g, b)
      /\ \A b : Kept(h, b) = Kept(g, b)
  BY <1>3 DEF InPool, InActs, Kept, CachedActs
<1>10. Apart(h)
  BY <1>3, <1>7, <1>9 DEF Apart, CachedActs
<1>11. \A b : InPool(g, b) \/ InActs(g, b) \/ Kept(g, b) => b \in Buffers(g)
  <2>1. ASSUME NEW b, InActs(g, b) PROVE b \in Buffers(g)
    <3>1. PICK i \in CachedActs(g) : g.acts[i].buf = b
      BY <2>1 DEF InActs
    <3>2. g.acts[i].buf \in Buffers(g)
      BY <3>1 DEF Sound
    <3>3. QED
      BY <3>1, <3>2
  <2>2. ASSUME NEW b, Kept(g, b) PROVE b \in Buffers(g)
    <3>1. \A i \in DOMAIN g.byId : g.byId[i] \in Buffers(g)
      BY DEF Sound
    <3>2. \A k \in DOMAIN g.views : g.views[k] \in Buffers(g)
      BY DEF Sound, Remembers
    <3>3. \A k \in DOMAIN g.halves : g.halves[k] \in Buffers(g)
      BY DEF Sound, Remembers
    <3>4. QED
      BY <2>2, <3>1, <3>2, <3>3 DEF Kept
  <2>3. \A b : InPool(g, b) => b \in Buffers(g)
    BY DEF Apart
  <2>4. QED
    BY <2>1, <2>2, <2>3
<1>12. Len(g.held) + 1 \notin Buffers(g) /\ Len(g.held) + 1 \in Buffers(h)
  BY <1>3, <1>4, <1>5 DEF Buffers
<1>13. Free(h, Len(g.held) + 1)
  BY <1>9, <1>11, <1>12 DEF Free
<1>14. QED
  BY <1>3, <1>5, <1>8, <1>10, <1>13 DEF h

\* A free buffer goes to the pool.
LEMMA ReleasedOf ==
  ASSUME NEW g, NEW H, NEW T, NEW n, Sound(g, H, T, n), Apart(g), NEW b \in Nat, Free(g, b)
  PROVE  /\ Sound(ReleaseOutput(g, b), H, T, n) /\ Apart(ReleaseOutput(g, b))
         /\ ReleaseOutput(g, b).held = g.held /\ ReleaseOutput(g, b).acts = g.acts
         /\ ReleaseOutput(g, b).byId = g.byId /\ ReleaseOutput(g, b).views = g.views
         /\ ReleaseOutput(g, b).halves = g.halves
         /\ \A c : InPool(ReleaseOutput(g, b), c) <=> InPool(g, c) \/ c = b
<1> DEFINE h == ReleaseOutput(g, b)
<1>1. Backend(g)
  BY DEF Sound
<1>2. h = [held |-> g.held, pool |-> Append(g.pool, b), acts |-> g.acts, byId |-> g.byId,
           views |-> g.views, halves |-> g.halves]
  <2>1. g = [held |-> g.held, pool |-> g.pool, acts |-> g.acts, byId |-> g.byId, views |-> g.views,
             halves |-> g.halves]
    BY <1>1 DEF Backend
  <2>2. h = [g EXCEPT !.pool = Append(g.pool, b)]
    BY DEF ReleaseOutput
  <2>3. QED
    BY <2>1, <2>2
<1>3. /\ h.held = g.held /\ h.pool = Append(g.pool, b) /\ h.acts = g.acts /\ h.byId = g.byId
      /\ h.views = g.views /\ h.halves = g.halves
  BY <1>2
<1>4. g.pool \in Seq(Nat) /\ Len(g.pool) \in Nat
  BY <1>1 DEF Backend
<1>5. /\ Append(g.pool, b) \in Seq(Nat) /\ Len(Append(g.pool, b)) = Len(g.pool) + 1
      /\ Append(g.pool, b)[Len(g.pool) + 1] = b
      /\ \A i \in 1 .. Len(g.pool) : Append(g.pool, b)[i] = g.pool[i]
  BY <1>4, AppendProperties
<1>6. Backend(h)
  BY <1>1, <1>2, <1>5 DEF Backend
<1> HIDE DEF h
<1>7. Sound(h, H, T, n)
  <2>1. \A c \in Buffers(g) : c \in Buffers(h) /\ h.held[c] = g.held[c]
    BY <1>3 DEF Buffers
  <2>2. QED
    BY <1>3, <1>6, <2>1, SoundSame
<1>8. \A c : InPool(h, c) <=> InPool(g, c) \/ c = b
  <2>1. h.pool \in Seq(Nat) /\ Len(h.pool) = Len(g.pool) + 1
    BY <1>3, <1>5
  <2>2. h.pool[Len(g.pool) + 1] = b /\ \A i \in 1 .. Len(g.pool) : h.pool[i] = g.pool[i]
    BY <1>3, <1>5
  <2>3. ASSUME NEW c PROVE InPool(h, c) => InPool(g, c) \/ c = b
    <3>1. \A i \in 1 .. Len(g.pool) + 1 : i \in 1 .. Len(g.pool) \/ i = Len(g.pool) + 1
      BY <1>4
    <3>2. QED
      BY <2>1, <2>2, <3>1 DEF InPool
  <2>4. ASSUME NEW c PROVE InPool(g, c) \/ c = b => InPool(h, c)
    <3>1. \A i \in 1 .. Len(g.pool) : i \in 1 .. Len(h.pool)
      BY <1>4, <2>1
    <3>2. Len(g.pool) + 1 \in 1 .. Len(h.pool)
      BY <1>4, <2>1
    <3>3. QED
      BY <2>2, <3>1, <3>2 DEF InPool
  <2>5. QED
    BY <2>3, <2>4
<1>9. \A c : InActs(h, c) = InActs(g, c) /\ Kept(h, c) = Kept(g, c)
  BY <1>3 DEF InActs, Kept, CachedActs
<1>10. \A i, j \in 1 .. Len(h.pool) : h.pool[i] = h.pool[j] => i = j
  <2>1. \A i, j \in 1 .. Len(g.pool) : g.pool[i] = g.pool[j] => i = j
    BY DEF Apart
  <2>2. \A i \in 1 .. Len(g.pool) : g.pool[i] # b
    BY DEF Free, InPool
  <2>3. \A i \in 1 .. Len(h.pool) : i \in 1 .. Len(g.pool) \/ i = Len(g.pool) + 1
    BY <1>3, <1>4, <1>5
  <2>4. QED
    BY <1>3, <1>5, <2>1, <2>2, <2>3
<1>11. Apart(h)
  <2>1. \A i, j \in CachedActs(h) : h.acts[i].buf = h.acts[j].buf => i = j
    BY <1>3 DEF Apart, CachedActs
  <2>2. Buffers(h) = Buffers(g)
    BY <1>3 DEF Buffers
  <2>3. \A c : InPool(h, c) => c \in Buffers(h) /\ ~ InActs(h, c) /\ ~ Kept(h, c)
    BY <1>8, <1>9, <2>2 DEF Apart, Free
  <2>4. \A c : InActs(h, c) => ~ Kept(h, c)
    BY <1>9 DEF Apart
  <2>5. QED
    BY <1>10, <2>1, <2>3, <2>4 DEF Apart
<1>12. QED
  BY <1>3, <1>7, <1>8, <1>11 DEF h

\* A cached buffer that leaves the activation cache is free.
LEMMA TakenOf ==
  ASSUME NEW g, NEW H, NEW T, NEW n, Sound(g, H, T, n), Apart(g), NEW p \in CachedActs(g)
  PROVE  LET h == [g EXCEPT !.acts = Without(@, p)]
         IN  /\ Sound(h, H, T, n) /\ Apart(h) /\ Free(h, g.acts[p].buf)
             /\ h.held = g.held /\ h.byId = g.byId /\ h.views = g.views /\ h.halves = g.halves
             /\ Len(h.acts) = Len(g.acts) - 1
<1> DEFINE h == [g EXCEPT !.acts = Without(@, p)]
           at(j) == IF j < p THEN j ELSE j + 1
<1>1. Backend(g)
  BY DEF Sound
<1>2. h = [held |-> g.held, pool |-> g.pool, acts |-> Without(g.acts, p), byId |-> g.byId,
           views |-> g.views, halves |-> g.halves]
  <2>1. g = [held |-> g.held, pool |-> g.pool, acts |-> g.acts, byId |-> g.byId, views |-> g.views,
             halves |-> g.halves]
    BY <1>1 DEF Backend
  <2>2. QED
    BY <2>1
<1>3. /\ h.held = g.held /\ h.pool = g.pool /\ h.acts = Without(g.acts, p) /\ h.byId = g.byId
      /\ h.views = g.views /\ h.halves = g.halves
  BY <1>2
<1>4. g.acts \in Seq([id : Nat, buf : Nat]) /\ Len(g.acts) \in Nat /\ p \in 1 .. Len(g.acts)
  BY <1>1 DEF Backend, CachedActs
<1>5. /\ h.acts \in Seq([id : Nat, buf : Nat]) /\ Len(h.acts) = Len(g.acts) - 1
      /\ \A j \in 1 .. Len(g.acts) - 1 : h.acts[j] = IF j < p THEN g.acts[j] ELSE g.acts[j + 1]
  <2> DEFINE E == [id : Nat, buf : Nat]
             s == g.acts
  <2>1. s \in Seq(E) /\ p \in 1 .. Len(s)
    BY <1>4
  <2>2. h.acts = Without(s, p)
    BY <1>3
  <2> HIDE DEF E, s, h
  <2>3. /\ Without(s, p) \in Seq(E) /\ Len(Without(s, p)) = Len(s) - 1
        /\ \A j \in 1 .. Len(s) - 1 : Without(s, p)[j] = IF j < p THEN s[j] ELSE s[j + 1]
    BY <2>1, WithoutOf
  <2>4. /\ h.acts \in Seq(E) /\ Len(h.acts) = Len(s) - 1
        /\ \A j \in 1 .. Len(s) - 1 : h.acts[j] = IF j < p THEN s[j] ELSE s[j + 1]
    BY <2>2, <2>3
  <2>5. QED
    BY <2>4 DEF E, s
<1>6. Backend(h)
  BY <1>1, <1>2, <1>3, <1>5 DEF Backend
<1> HIDE DEF h
<1> DEFINE m == Len(g.acts)
<1>0. m \in Nat /\ p \in Nat /\ 1 <= p /\ p <= m /\ CachedActs(g) = 1 .. m /\ CachedActs(h) = 1 .. m - 1
  BY <1>4, <1>5 DEF CachedActs
<1> HIDE DEF m
<1>7. ASSUME NEW j \in CachedActs(h) PROVE at(j) \in CachedActs(g) /\ at(j) # p /\ h.acts[j] = g.acts[at(j)]
  <2>1. at(j) \in 1 .. m /\ at(j) # p
    BY <1>0
  <2>2. h.acts[j] = g.acts[at(j)]
    BY <1>5, <1>0 DEF m
  <2>3. QED
    BY <1>0, <2>1, <2>2
<1>8. \A j, k \in CachedActs(h) : at(j) = at(k) => j = k
  BY <1>0
<1> HIDE DEF at
<1>9. Sound(h, H, T, n)
  <2>1. \A j \in CachedActs(h) : /\ h.acts[j].id \in 1 .. n /\ h.acts[j].buf \in Buffers(h)
                             /\ h.held[h.acts[j].buf] = <<h.acts[j].id, FALSE>>
    <3>1. \A j \in CachedActs(g) : /\ g.acts[j].id \in 1 .. n /\ g.acts[j].buf \in Buffers(g)
                               /\ g.held[g.acts[j].buf] = <<g.acts[j].id, FALSE>>
      BY DEF Sound
    <3>2. Buffers(h) = Buffers(g) /\ h.held = g.held
      BY <1>3 DEF Buffers
    <3>3. QED
      BY <1>7, <3>1, <3>2
  <2>2. ASSUME NEW t \in T, t.view PROVE t.id \notin DOMAIN h.byId /\ \A i \in CachedActs(h) : h.acts[i].id # t.id
    BY <1>3, <1>7, <2>2 DEF Sound
  <2>3. \A i \in DOMAIN h.byId : i \in 1 .. n /\ h.byId[i] \in Buffers(h) /\ h.held[h.byId[i]] = <<i, FALSE>>
    BY <1>3 DEF Sound, Buffers
  <2>4. Remembers(h, h.views, H) /\ Remembers(h, h.halves, H)
    BY <1>3 DEF Sound, Remembers, Buffers
  <2>5. QED
    BY <1>6, <2>1, <2>2, <2>3, <2>4 DEF Sound
<1>10. \A b : /\ InPool(h, b) = InPool(g, b) /\ Kept(h, b) = Kept(g, b)
              /\ InActs(h, b) => InActs(g, b)
  BY <1>3, <1>7 DEF InPool, Kept, InActs
<1>11. \A i, j \in CachedActs(g) : g.acts[i].buf = g.acts[j].buf => i = j
  BY DEF Apart
<1>12. Apart(h)
  <2>1. \A i, j \in CachedActs(h) : h.acts[i].buf = h.acts[j].buf => i = j
    BY <1>7, <1>8, <1>11
  <2>2. Buffers(h) = Buffers(g)
    BY <1>3 DEF Buffers
  <2>3. \A i, j \in 1 .. Len(h.pool) : h.pool[i] = h.pool[j] => i = j
    BY <1>3 DEF Apart
  <2>4. \A b : InPool(h, b) => b \in Buffers(h) /\ ~ InActs(h, b) /\ ~ Kept(h, b)
    BY <1>10, <2>2 DEF Apart
  <2>5. \A b : InActs(h, b) => ~ Kept(h, b)
    BY <1>10 DEF Apart
  <2>6. QED
    BY <2>1, <2>3, <2>4, <2>5 DEF Apart
<1>13. Free(h, g.acts[p].buf)
  <2>1. InActs(g, g.acts[p].buf)
    BY DEF InActs
  <2>2. ~ InPool(g, g.acts[p].buf) /\ ~ Kept(g, g.acts[p].buf)
    BY <2>1 DEF Apart
  <2>3. ~ InActs(h, g.acts[p].buf)
    BY <1>7, <1>11 DEF InActs
  <2>4. g.acts[p].buf \in Buffers(h)
    BY <1>3 DEF Sound, Buffers
  <2>5. QED
    BY <1>10, <2>2, <2>3, <2>4 DEF Free
<1>14. QED
  BY <1>3, <1>5, <1>9, <1>12, <1>13 DEF h

\* An output buffer is free, and no other buffer changes.
LEMMA AllocOf ==
  ASSUME NEW g, NEW H, NEW T, NEW n, Sound(g, H, T, n), Apart(g)
  PROVE  /\ Sound(AllocOutput(g), H, T, n) /\ Apart(AllocOutput(g))
         /\ OutputBuffer(g) \in Nat /\ Free(AllocOutput(g), OutputBuffer(g))
         /\ \A b \in Buffers(g) : b \in Buffers(AllocOutput(g)) /\ AllocOutput(g).held[b] = g.held[b]
         /\ AllocOutput(g).halves = g.halves
<1>1. Backend(g)
  BY DEF Sound
<1>2. g.pool \in Seq(Nat) /\ Len(g.pool) \in Nat /\ Len(g.held) \in Nat
  BY <1>1 DEF Backend
<1>3. CASE g.pool = <<>>
  <2>1. AllocOutput(g) = Uploaded(g, <<0, FALSE>>) /\ OutputBuffer(g) = Len(g.held) + 1
    BY <1>3 DEF AllocOutput, OutputBuffer
  <2>2. <<0, FALSE>> \in Nat \X BOOLEAN
    OBVIOUS
  <2>3. \A b \in Buffers(g) : b \in Buffers(Uploaded(g, <<0, FALSE>>))
    BY <1>2, <2>2, UploadedOf DEF Buffers
  <2>4. QED
    BY <1>2, <2>1, <2>2, <2>3, UploadedOf
<1>4. CASE g.pool # <<>>
  <2> DEFINE h == AllocOutput(g)
             m == Len(g.pool)
             front == SubSeq(g.pool, 1, m - 1)
  <2>1. m \in Nat /\ m >= 1
    BY <1>2, <1>4
  <2>2. OutputBuffer(g) = g.pool[m] /\ g.pool[m] \in Nat
    BY <1>2, <1>4, <2>1 DEF OutputBuffer
  <2>3. front \in Seq(Nat) /\ Len(front) = m - 1 /\ \A i \in 1 .. m - 1 : front[i] = g.pool[i]
    <3>1. 1 \in Int /\ m - 1 \in Int /\ \A i \in 1 .. m - 1 : g.pool[i] \in Nat
      BY <1>2, <2>1
    <3>2. /\ front \in Seq(Nat) /\ Len(front) = IF 1 <= m - 1 THEN (m - 1) - 1 + 1 ELSE 0
          /\ \A i \in 1 .. (m - 1) - 1 + 1 : front[i] = g.pool[1 + i - 1]
      BY <3>1, SubSeqProperties
    <3>3. QED
      BY <2>1, <3>2
  <2> HIDE DEF m
  <2>4. h = [held |-> g.held, pool |-> front, acts |-> g.acts, byId |-> g.byId, views |-> g.views,
             halves |-> g.halves]
    <3>1. g = [held |-> g.held, pool |-> g.pool, acts |-> g.acts, byId |-> g.byId, views |-> g.views,
               halves |-> g.halves]
      BY <1>1 DEF Backend
    <3>2. h = [g EXCEPT !.pool = front]
      BY <1>4 DEF AllocOutput, m
    <3>3. QED
      BY <3>1, <3>2
  <2> HIDE DEF front
  <2>5. /\ h.held = g.held /\ h.pool = front /\ h.acts = g.acts /\ h.byId = g.byId
        /\ h.views = g.views /\ h.halves = g.halves
    BY <2>4
  <2>6. Backend(h)
    BY <1>1, <2>3, <2>4, <2>5 DEF Backend
  <2> HIDE DEF h
  <2>7. Buffers(h) = Buffers(g)
    BY <2>5 DEF Buffers
  <2>8. Sound(h, H, T, n)
    BY <2>5, <2>6, <2>7, SoundSame
  <2>9. \A b : /\ InActs(h, b) = InActs(g, b) /\ Kept(h, b) = Kept(g, b)
               /\ InPool(h, b) => InPool(g, b)
    <3>1. \A b : InActs(h, b) = InActs(g, b)
      BY <2>5 DEF InActs, CachedActs
    <3>2. \A b : Kept(h, b) = Kept(g, b)
      BY <2>5 DEF Kept
    <3>3. ASSUME NEW b, InPool(h, b) PROVE InPool(g, b)
      <4>1. PICK i \in 1 .. Len(h.pool) : h.pool[i] = b
        BY <3>3 DEF InPool
      <4>2. i \in 1 .. m - 1 /\ g.pool[i] = b
        BY <2>3, <2>5, <4>1
      <4>3. i \in 1 .. Len(g.pool)
        BY <2>1, <4>2 DEF m
      <4>4. QED
        BY <4>2, <4>3 DEF InPool
    <3>4. QED
      BY <3>1, <3>2, <3>3
  <2>10. \A i, j \in 1 .. m : g.pool[i] = g.pool[j] => i = j
    BY DEF Apart, m
  <2>11. Apart(h)
    <3>1. \A i, j \in 1 .. Len(h.pool) : h.pool[i] = h.pool[j] => i = j
      BY <2>1, <2>3, <2>5, <2>10
    <3>2. \A i, j \in CachedActs(h) : h.acts[i].buf = h.acts[j].buf => i = j
      BY <2>5 DEF Apart, CachedActs
    <3>3. \A b : InPool(h, b) => b \in Buffers(h) /\ ~ InActs(h, b) /\ ~ Kept(h, b)
      BY <2>7, <2>9 DEF Apart
    <3>4. \A b : InActs(h, b) => ~ Kept(h, b)
      BY <2>9 DEF Apart
    <3>5. QED
      BY <3>1, <3>2, <3>3, <3>4 DEF Apart
  <2>12. Free(h, g.pool[m])
    <3>1. InPool(g, g.pool[m])
      BY <2>1 DEF InPool, m
    <3>2. g.pool[m] \in Buffers(h) /\ ~ InActs(h, g.pool[m]) /\ ~ Kept(h, g.pool[m])
      BY <2>7, <2>9, <3>1 DEF Apart
    <3>3. ~ InPool(h, g.pool[m])
      BY <2>1, <2>3, <2>5, <2>10 DEF InPool
    <3>4. QED
      BY <3>2, <3>3 DEF Free
  <2>13. QED
    BY <2>2, <2>5, <2>7, <2>8, <2>11, <2>12 DEF h
<1>5. QED
  BY <1>3, <1>4

\* A free buffer may be written.
Written(g, b, v) == [g EXCEPT !.held[b] = v]

LEMMA WrittenOf ==
  ASSUME NEW g, NEW H, NEW T, NEW n, Sound(g, H, T, n), Apart(g), NEW b, Free(g, b), NEW v \in Nat \X BOOLEAN
  PROVE  /\ Sound(Written(g, b, v), H, T, n) /\ Apart(Written(g, b, v)) /\ Free(Written(g, b, v), b)
         /\ Written(g, b, v).held[b] = v /\ Written(g, b, v).halves = g.halves
<1> DEFINE h == Written(g, b, v)
<1>1. Backend(g)
  BY DEF Sound
<1>2. h = [held |-> [g.held EXCEPT ![b] = v], pool |-> g.pool, acts |-> g.acts, byId |-> g.byId,
           views |-> g.views, halves |-> g.halves]
  <2>1. g = [held |-> g.held, pool |-> g.pool, acts |-> g.acts, byId |-> g.byId, views |-> g.views,
             halves |-> g.halves]
    BY <1>1 DEF Backend
  <2>2. QED
    BY <2>1 DEF Written
<1>3. /\ h.held = [g.held EXCEPT ![b] = v] /\ h.pool = g.pool /\ h.acts = g.acts
      /\ h.byId = g.byId /\ h.views = g.views /\ h.halves = g.halves
  BY <1>2
<1>4. g.held \in Seq(Nat \X BOOLEAN) /\ Len(g.held) \in Nat /\ b \in 1 .. Len(g.held)
  BY <1>1 DEF Backend, Free, Buffers
<1>5. h.held \in Seq(Nat \X BOOLEAN) /\ Len(h.held) = Len(g.held)
  BY <1>3, <1>4
<1>6. h.held[b] = v /\ \A c \in Buffers(g) \ {b} : h.held[c] = g.held[c]
  BY <1>3, <1>4 DEF Buffers
<1>7. Backend(h)
  BY <1>1, <1>2, <1>3, <1>5 DEF Backend
<1> HIDE DEF h
<1>8. Buffers(h) = Buffers(g)
  BY <1>5 DEF Buffers
<1>9. \A c : InPool(h, c) = InPool(g, c) /\ InActs(h, c) = InActs(g, c) /\ Kept(h, c) = Kept(g, c)
  BY <1>3 DEF InPool, InActs, Kept, CachedActs
<1>10. Sound(h, H, T, n)
  <2>1. \A c \in Buffers(g) : InActs(g, c) \/ Kept(g, c) => c \in Buffers(h) /\ h.held[c] = g.held[c]
    BY <1>6, <1>8 DEF Free
  <2>2. QED
    BY <1>3, <1>7, <2>1, SoundSame
<1>11. Apart(h)
  BY <1>3, <1>8, <1>9 DEF Apart, CachedActs
<1>12. Free(h, b)
  BY <1>8, <1>9 DEF Free
<1>13. QED
  BY <1>3, <1>6, <1>10, <1>11, <1>12 DEF h

\* A backend with another activation cache.
LEMMA WithActs ==
  ASSUME NEW g, Backend(g), NEW s
  PROVE  [g EXCEPT !.acts = s] = [held |-> g.held, pool |-> g.pool, acts |-> s, byId |-> g.byId,
                                  views |-> g.views, halves |-> g.halves]
<1>1. g = [held |-> g.held, pool |-> g.pool, acts |-> g.acts, byId |-> g.byId, views |-> g.views,
           halves |-> g.halves]
  BY DEF Backend
<1>2. QED
  BY <1>1

\* The output of an operation enters the activation cache under a new id.
LEMMA AddedOf ==
  ASSUME NEW g, NEW H, NEW T, NEW n \in Nat, Sound(g, H, T, n), Apart(g), NEW b \in Nat, Free(g, b),
         g.held[b] = <<n + 1, FALSE>>, \A t \in T : t.view => t.id # n + 1
  PROVE  LET h == [g EXCEPT !.acts = Append(@, [id |-> n + 1, buf |-> b])]
         IN  Sound(h, H, T, n + 1) /\ Apart(h)
<1> DEFINE e == [id |-> n + 1, buf |-> b]
           h == [g EXCEPT !.acts = Append(@, e)]
           m == Len(g.acts)
<1>1. Backend(g)
  BY DEF Sound
<1>8. e.id = n + 1 /\ e.buf = b /\ e \in [id : Nat, buf : Nat]
  OBVIOUS
<1> HIDE DEF e
<1>2. h = [held |-> g.held, pool |-> g.pool, acts |-> Append(g.acts, e), byId |-> g.byId,
           views |-> g.views, halves |-> g.halves]
  BY <1>1, WithActs
<1>3. /\ h.held = g.held /\ h.pool = g.pool /\ h.acts = Append(g.acts, e) /\ h.byId = g.byId
      /\ h.views = g.views /\ h.halves = g.halves
  BY <1>2
<1>4. g.acts \in Seq([id : Nat, buf : Nat]) /\ m \in Nat /\ e \in [id : Nat, buf : Nat]
  BY <1>1, <1>8 DEF Backend
<1>5. /\ h.acts \in Seq([id : Nat, buf : Nat]) /\ Len(h.acts) = m + 1 /\ h.acts[m + 1] = e
      /\ \A i \in 1 .. m : h.acts[i] = g.acts[i]
  BY <1>3, <1>4, AppendProperties
<1>6. Backend(h)
  BY <1>1, <1>2, <1>3, <1>5 DEF Backend
<1> HIDE DEF h
<1>7. CachedActs(g) = 1 .. m /\ \A i \in CachedActs(h) : i \in 1 .. m \/ i = m + 1
  BY <1>4, <1>5 DEF CachedActs
<1> HIDE DEF m
<1>9. Buffers(h) = Buffers(g) /\ b \in Buffers(g)
  BY <1>3 DEF Buffers, Free
<1>10. Sound(h, H, T, n + 1)
  <2>1. \A i \in 1 .. n : i \in 1 .. n + 1
    OBVIOUS
  <2>2. \A i \in DOMAIN h.byId :
          i \in 1 .. n + 1 /\ h.byId[i] \in Buffers(h) /\ h.held[h.byId[i]] = <<i, FALSE>>
    BY <1>3, <1>9, <2>1 DEF Sound
  <2>3. Remembers(h, h.views, H) /\ Remembers(h, h.halves, H)
    BY <1>3, <1>9 DEF Sound, Remembers
  <2>4. ASSUME NEW i \in CachedActs(h)
        PROVE  /\ h.acts[i].id \in 1 .. n + 1 /\ h.acts[i].buf \in Buffers(h)
               /\ h.held[h.acts[i].buf] = <<h.acts[i].id, FALSE>>
    <3>1. CASE i \in 1 .. m
      BY <1>3, <1>5, <1>7, <1>9, <2>1, <3>1 DEF Sound
    <3>2. CASE i = m + 1
      <4>1. h.acts[i].id = n + 1 /\ h.acts[i].buf = b
        BY <1>5, <1>8, <3>2
      <4>2. h.acts[i].id \in 1 .. n + 1 /\ h.acts[i].buf \in Buffers(h)
        BY <1>9, <4>1
      <4>3. h.held[h.acts[i].buf] = <<h.acts[i].id, FALSE>>
        BY <1>3, <4>1
      <4>4. QED
        BY <4>2, <4>3
    <3>3. QED
      BY <1>7, <3>1, <3>2
  <2>5. ASSUME NEW t \in T, t.view PROVE t.id \notin DOMAIN h.byId
    BY <1>3, <2>5 DEF Sound
  <2>6. ASSUME NEW t \in T, t.view, NEW i \in CachedActs(h) PROVE h.acts[i].id # t.id
    <3>1. CASE i \in 1 .. m
      BY <1>5, <1>7, <2>6, <3>1 DEF Sound
    <3>2. CASE i = m + 1
      BY <1>5, <1>8, <2>6, <3>2
    <3>3. QED
      BY <1>7, <3>1, <3>2
  <2>7. QED
    BY <1>6, <2>2, <2>3, <2>4, <2>5, <2>6 DEF Sound
<1>11. \A c : /\ InPool(h, c) = InPool(g, c) /\ Kept(h, c) = Kept(g, c)
              /\ InActs(h, c) => InActs(g, c) \/ c = b
  BY <1>3, <1>5, <1>7, <1>8 DEF InPool, Kept, InActs
<1>12. Apart(h)
  <2>1. ASSUME NEW i \in CachedActs(h), NEW j \in CachedActs(h), h.acts[i].buf = h.acts[j].buf PROVE i = j
    <3>1. \A k \in 1 .. m : g.acts[k].buf # b
      BY <1>7 DEF Free, InActs
    <3>2. CASE i \in 1 .. m /\ j \in 1 .. m
      BY <1>5, <1>7, <2>1, <3>2 DEF Apart
    <3>3. CASE i = m + 1 \/ j = m + 1
      BY <1>5, <1>7, <1>8, <2>1, <3>1, <3>3
    <3>4. QED
      BY <1>7, <3>2, <3>3
  <2>2. \A i, j \in 1 .. Len(h.pool) : h.pool[i] = h.pool[j] => i = j
    BY <1>3 DEF Apart
  <2>3. \A c : InPool(h, c) => c \in Buffers(h) /\ ~ InActs(h, c) /\ ~ Kept(h, c)
    BY <1>9, <1>11 DEF Apart, Free
  <2>4. \A c : InActs(h, c) => ~ Kept(h, c)
    BY <1>11 DEF Apart, Free
  <2>5. QED
    BY <2>1, <2>2, <2>3, <2>4 DEF Apart
<1>13. QED
  BY <1>3, <1>10, <1>12 DEF h, e

SameHalves(g, h) == h.halves = g.halves

\* With the oldest entry evicted when the cache is full.
LEMMA CachedOf ==
  ASSUME GpuAssumption,
         NEW g, NEW H, NEW T, NEW n \in Nat, Sound(g, H, T, n), Apart(g), NEW b \in Nat, Free(g, b),
         g.held[b] = <<n + 1, FALSE>>, \A t \in T : t.view => t.id # n + 1
  PROVE  /\ Sound(CacheActivation(g, n + 1, b), H, T, n + 1) /\ Apart(CacheActivation(g, n + 1, b))
         /\ SameHalves(g, CacheActivation(g, n + 1, b))
<1>1. CASE ~ (Len(g.acts) >= Fifo)
  <2>1. CacheActivation(g, n + 1, b) = [g EXCEPT !.acts = Append(@, [id |-> n + 1, buf |-> b])]
    BY <1>1 DEF CacheActivation
  <2> DEFINE a == [g EXCEPT !.acts = Append(@, [id |-> n + 1, buf |-> b])]
  <2>2. Sound(a, H, T, n + 1) /\ Apart(a)
    BY AddedOf
  <2>4. a.halves = g.halves
    BY WithActs DEF Sound
  <2>3. QED
    BY <2>1, <2>2, <2>4 DEF SameHalves
<1>2. CASE Len(g.acts) >= Fifo
  <2>1. g.acts \in Seq([id : Nat, buf : Nat]) /\ g.acts # <<>> /\ Len(g.acts) \in Nat /\ 1 \in CachedActs(g)
      <3>1. g.acts \in Seq([id : Nat, buf : Nat])
      BY DEF Sound, Backend
    <3>2. Len(g.acts) \in Nat /\ Len(g.acts) >= 1
      BY <1>2, <3>1 DEF GpuAssumption
    <3>3. g.acts # <<>>
      BY <3>2
    <3>4. QED
      BY <3>1, <3>2, <3>3 DEF CachedActs
  <2>0. g.acts[1] \in [id : Nat, buf : Nat]
    <3>1. 1 \in 1 .. Len(g.acts)
      BY <2>1 DEF CachedActs
    <3>2. g.acts \in Seq([id : Nat, buf : Nat])
      BY <2>1
    <3>3. QED
      BY <3>1, <3>2, ElementOfSeq
  <2>2. Tail(g.acts) = Without(g.acts, 1)
    <3>1. Tail(g.acts) = SubSeq(g.acts, 2, Len(g.acts)) /\ Tail(g.acts) \in Seq([id : Nat, buf : Nat])
      BY <2>1, TailIsSubSeq, HeadTailProperties
    <3>2. SubSeq(g.acts, 1, 0) = <<>>
      BY SubSeqEmpty
    <3>3. <<>> \o Tail(g.acts) = Tail(g.acts)
      BY <3>1, ConcatEmptySeq
    <3>4. 1 - 1 = 0 /\ 1 + 1 = 2
      OBVIOUS
    <3>5. QED
      BY <3>1, <3>2, <3>3, <3>4 DEF Without
  <2> DEFINE k == [g EXCEPT !.acts = Without(@, 1)]
             old == g.acts[1].buf
             h == ReleaseOutput(k, old)
  <2>3. /\ Sound(k, H, T, n) /\ Apart(k) /\ Free(k, old) /\ k.held = g.held /\ k.byId = g.byId
        /\ k.views = g.views /\ k.halves = g.halves
    BY <2>1, TakenOf
  <2>4. \A c : (InPool(k, c) => InPool(g, c)) /\ (InActs(k, c) => InActs(g, c)) /\ (Kept(k, c) => Kept(g, c))
    <3>1. k.pool = g.pool /\ k.acts = Without(g.acts, 1)
      <4>1. g = [held |-> g.held, pool |-> g.pool, acts |-> g.acts, byId |-> g.byId,
                 views |-> g.views, halves |-> g.halves]
        BY DEF Sound, Backend
      <4>2. QED
        BY <4>1
    <3>2. Len(k.acts) = Len(g.acts) - 1 /\ \A j \in CachedActs(k) : k.acts[j] = g.acts[j + 1]
      <4>1. /\ Len(k.acts) = Len(g.acts) - 1
            /\ \A j \in 1 .. Len(g.acts) - 1 : k.acts[j] = IF j < 1 THEN g.acts[j] ELSE g.acts[j + 1]
        <5>1. 1 \in 1 .. Len(g.acts)
          BY <2>1 DEF CachedActs
        <5> DEFINE E == [id : Nat, buf : Nat]
                   s == g.acts
        <5>2. s \in Seq(E) /\ 1 \in 1 .. Len(s) /\ k.acts = Without(s, 1)
          BY <2>1, <3>1, <5>1
        <5> HIDE DEF E, s, k
        <5>3. /\ Len(Without(s, 1)) = Len(s) - 1
              /\ \A j \in 1 .. Len(s) - 1 : Without(s, 1)[j] = IF j < 1 THEN s[j] ELSE s[j + 1]
          BY <5>2, WithoutOf
        <5>4. /\ Len(k.acts) = Len(s) - 1
              /\ \A j \in 1 .. Len(s) - 1 : k.acts[j] = IF j < 1 THEN s[j] ELSE s[j + 1]
          BY <5>2, <5>3
        <5>5. QED
          BY <5>4 DEF s
      <4>2. CachedActs(k) = 1 .. Len(g.acts) - 1 /\ Len(g.acts) \in Nat
        BY <2>1, <4>1 DEF CachedActs
      <4>3. \A j \in 1 .. Len(g.acts) - 1 : ~ (j < 1)
        OBVIOUS
      <4>4. QED
        BY <4>1, <4>2, <4>3
    <3>3. \A j \in CachedActs(k) : j + 1 \in CachedActs(g)
      BY <2>1, <3>2 DEF CachedActs
    <3>4. QED
      BY <2>3, <3>1, <3>2, <3>3 DEF InPool, InActs, Kept
  <2>5. old \in Nat /\ old # b
    <3>1. g.acts[1] \in [id : Nat, buf : Nat]
      BY <2>1, <2>0
    <3>2. QED
      BY <2>1, <3>1 DEF Free, InActs
  <2> HIDE DEF k, old
  <2>6. /\ Sound(h, H, T, n) /\ Apart(h) /\ h.held = k.held /\ h.acts = k.acts /\ h.byId = k.byId
        /\ h.views = k.views /\ h.halves = k.halves
        /\ \A c : InPool(h, c) <=> InPool(k, c) \/ c = old
    BY <2>3, <2>5, ReleasedOf
  <2> HIDE DEF h
  <2>7. ~ InPool(h, b) /\ ~ InActs(h, b) /\ ~ Kept(h, b) /\ b \in Buffers(h)
    <3>1. InActs(h, b) = InActs(k, b) /\ Kept(h, b) = Kept(k, b) /\ Buffers(h) = Buffers(g)
      BY <2>3, <2>6 DEF InActs, Kept, CachedActs, Buffers
    <3>2. QED
      BY <2>4, <2>5, <2>6, <3>1 DEF Free
  <2>8. Free(h, b) /\ h.held[b] = <<n + 1, FALSE>>
    BY <2>3, <2>6, <2>7 DEF Free
  <2>9. CacheActivation(g, n + 1, b) = [h EXCEPT !.acts = Append(@, [id |-> n + 1, buf |-> b])]
    BY <1>2, <2>2 DEF CacheActivation, h, k, old
  <2> DEFINE a == [h EXCEPT !.acts = Append(@, [id |-> n + 1, buf |-> b])]
  <2>10. Sound(a, H, T, n + 1) /\ Apart(a)
    BY <2>6, <2>8, AddedOf
  <2>11. a.halves = h.halves
    BY <2>6, WithActs DEF Sound
  <2>12. QED
    BY <2>3, <2>6, <2>9, <2>10, <2>11 DEF SameHalves
<1>3. QED
  BY <1>1, <1>2

\* A free buffer is kept for a tensor, or for a view under its address.
KeptById(g, id, b) == [g EXCEPT !.byId = Assign(@, id, b)]
KeptView(g, a, b)  == [g EXCEPT !.views = Assign(@, <<a, TRUE>>, b)]
KeptHalf(g, a, b)  == [g EXCEPT !.halves = Assign(@, <<a, TRUE>>, b)]

LEMMA ByIdOf ==
  ASSUME NEW g, NEW H, NEW T, NEW n, Sound(g, H, T, n), Apart(g), NEW b, Free(g, b), NEW id, id \in 1 .. n,
         g.held[b] = <<id, FALSE>>, \A x \in T : x.view => x.id # id
  PROVE  /\ Sound(KeptById(g, id, b), H, T, n) /\ Apart(KeptById(g, id, b))
         /\ KeptById(g, id, b).held = g.held /\ KeptById(g, id, b).halves = g.halves
<1> DEFINE h == KeptById(g, id, b)
           f == Assign(g.byId, id, b)
<1>1. Backend(g)
  BY DEF Sound
<1>2. h = [held |-> g.held, pool |-> g.pool, acts |-> g.acts, byId |-> f, views |-> g.views,
           halves |-> g.halves]
  <2>1. g = [held |-> g.held, pool |-> g.pool, acts |-> g.acts, byId |-> g.byId, views |-> g.views,
             halves |-> g.halves]
    BY <1>1 DEF Backend
  <2> HIDE DEF f
  <2>2. h = [g EXCEPT !.byId = f]
    BY DEF f, h, KeptById
  <2> HIDE DEF h
  <2>3. QED
    BY <2>1, <2>2
<1>3. /\ DOMAIN f = DOMAIN g.byId \cup {id} /\ f[id] = b
      /\ \A i \in DOMAIN g.byId : i # id => f[i] = g.byId[i]
  BY DEF Assign
<1> HIDE DEF f
<1>4. /\ h.held = g.held /\ h.pool = g.pool /\ h.acts = g.acts /\ h.byId = f
      /\ h.views = g.views /\ h.halves = g.halves
  BY <1>2
<1>5. Backend(h)
  BY <1>1, <1>2, <1>4 DEF Backend
<1> HIDE DEF h
<1>6. Buffers(h) = Buffers(g) /\ CachedActs(h) = CachedActs(g)
  BY <1>4 DEF Buffers, CachedActs
<1>7. Sound(h, H, T, n)
  <2>1. ASSUME NEW i \in DOMAIN h.byId
        PROVE  i \in 1 .. n /\ h.byId[i] \in Buffers(h) /\ h.held[h.byId[i]] = <<i, FALSE>>
    <3>1. CASE i = id
      BY <1>3, <1>4, <1>6, <3>1 DEF Free
    <3>2. CASE i # id
      <4>1. i \in DOMAIN g.byId /\ h.byId[i] = g.byId[i]
        BY <1>3, <1>4, <3>2
      <4>2. i \in 1 .. n /\ g.byId[i] \in Buffers(g) /\ g.held[g.byId[i]] = <<i, FALSE>>
        BY <4>1 DEF Sound
      <4>3. QED
        BY <1>4, <1>6, <4>1, <4>2
    <3>3. QED
      BY <3>1, <3>2
  <2>2. Remembers(h, h.views, H) /\ Remembers(h, h.halves, H)
    BY <1>4, <1>6 DEF Sound, Remembers
  <2>3. \A i \in CachedActs(h) :
          /\ h.acts[i].id \in 1 .. n /\ h.acts[i].buf \in Buffers(h)
          /\ h.held[h.acts[i].buf] = <<h.acts[i].id, FALSE>>
    BY <1>4, <1>6 DEF Sound
  <2>4. ASSUME NEW t \in T, t.view
        PROVE  t.id \notin DOMAIN h.byId /\ \A i \in CachedActs(h) : h.acts[i].id # t.id
    BY <1>3, <1>4, <1>6, <2>4 DEF Sound
  <2>5. QED
    BY <1>5, <2>1, <2>2, <2>3, <2>4 DEF Sound
<1>8. \A c : /\ InPool(h, c) = InPool(g, c) /\ InActs(h, c) = InActs(g, c)
             /\ Kept(h, c) => Kept(g, c) \/ c = b
  BY <1>3, <1>4, <1>6 DEF InPool, InActs, Kept
<1>9. Apart(h)
  BY <1>4, <1>6, <1>8 DEF Apart, Free
<1>10. QED
  BY <1>4, <1>7, <1>9 DEF h

LEMMA ViewsOf ==
  ASSUME NEW g, NEW H, NEW T, NEW n, Sound(g, H, T, n), Apart(g), NEW b, Free(g, b),
         NEW a \in Addresses, NEW o \in H[a], g.held[b] = <<o, TRUE>>
  PROVE  /\ Sound(KeptView(g, a, b), H, T, n) /\ Apart(KeptView(g, a, b))
         /\ KeptView(g, a, b).held = g.held
         /\ KeptView(g, a, b).halves = g.halves
<1> DEFINE key == <<a, TRUE>>
           h == KeptView(g, a, b)
           f == Assign(g.views, key, b)
<1>1. Backend(g)
  BY DEF Sound
<1>2. h = [held |-> g.held, pool |-> g.pool, acts |-> g.acts, byId |-> g.byId, views |-> f,
           halves |-> g.halves]
  <2>1. g = [held |-> g.held, pool |-> g.pool, acts |-> g.acts, byId |-> g.byId, views |-> g.views,
             halves |-> g.halves]
    BY <1>1 DEF Backend
  <2> HIDE DEF f
  <2>2. h = [g EXCEPT !.views = f]
    BY DEF f, h, KeptView
  <2> HIDE DEF h
  <2>3. QED
    BY <2>1, <2>2
<1>3. /\ DOMAIN f = DOMAIN g.views \cup {key} /\ f[key] = b
      /\ \A k \in DOMAIN g.views : k # key => f[k] = g.views[k]
  BY DEF Assign
<1> HIDE DEF f
<1>4. /\ h.held = g.held /\ h.pool = g.pool /\ h.acts = g.acts /\ h.byId = g.byId
      /\ h.views = f /\ h.halves = g.halves
  BY <1>2
<1>5. Backend(h)
  BY <1>1, <1>2, <1>4 DEF Backend
<1> HIDE DEF h
<1>6. Buffers(h) = Buffers(g) /\ CachedActs(h) = CachedActs(g)
  BY <1>4 DEF Buffers, CachedActs
<1>7. Sound(h, H, T, n)
  <2>1. \A i \in DOMAIN h.byId :
          i \in 1 .. n /\ h.byId[i] \in Buffers(h) /\ h.held[h.byId[i]] = <<i, FALSE>>
    BY <1>4, <1>6 DEF Sound
  <2>2. ASSUME NEW k \in DOMAIN h.views
        PROVE  h.views[k] \in Buffers(h) /\ Seen(H, k, h.held[h.views[k]])
    <3>1. CASE k = key
      <4>1. h.views[k] = b /\ h.held[b] = <<o, TRUE>> /\ b \in Buffers(h)
        BY <1>3, <1>4, <1>6, <3>1 DEF Free
      <4>2. Seen(H, k, <<o, TRUE>>)
        BY <3>1 DEF Seen
      <4>3. QED
        BY <4>1, <4>2
    <3>2. CASE k # key
      <4>1. k \in DOMAIN g.views /\ h.views[k] = g.views[k]
        BY <1>3, <1>4, <3>2
      <4>2. QED
        BY <1>4, <1>6, <4>1 DEF Sound, Remembers
    <3>3. QED
      BY <3>1, <3>2
  <2>3. \A i \in CachedActs(h) :
          /\ h.acts[i].id \in 1 .. n /\ h.acts[i].buf \in Buffers(h)
          /\ h.held[h.acts[i].buf] = <<h.acts[i].id, FALSE>>
    BY <1>4, <1>6 DEF Sound
  <2>4. \A t \in T : t.view => t.id \notin DOMAIN h.byId /\ \A i \in CachedActs(h) : h.acts[i].id # t.id
    BY <1>4, <1>6 DEF Sound
  <2>5. Remembers(h, h.halves, H)
    BY <1>4, <1>6 DEF Sound, Remembers
  <2>6. Remembers(h, h.views, H)
    BY <2>2 DEF Remembers
  <2>7. QED
    BY <1>5, <2>1, <2>3, <2>4, <2>5, <2>6 DEF Sound
<1>8. \A c : /\ InPool(h, c) = InPool(g, c) /\ InActs(h, c) = InActs(g, c)
             /\ Kept(h, c) => Kept(g, c) \/ c = b
  BY <1>3, <1>4, <1>6 DEF InPool, InActs, Kept
<1>9. Apart(h)
  BY <1>4, <1>6, <1>8 DEF Apart, Free
<1>10. QED
  BY <1>3, <1>4, <1>7, <1>9 DEF h

LEMMA HalvesOf ==
  ASSUME NEW g, NEW H, NEW T, NEW n, Sound(g, H, T, n), Apart(g), NEW b, Free(g, b),
         NEW a \in Addresses, NEW o \in H[a], g.held[b] = <<o, TRUE>>
  PROVE  /\ Sound(KeptHalf(g, a, b), H, T, n) /\ Apart(KeptHalf(g, a, b))
         /\ KeptHalf(g, a, b).held = g.held
         /\ <<a, TRUE>> \in DOMAIN KeptHalf(g, a, b).halves
<1> DEFINE key == <<a, TRUE>>
           h == KeptHalf(g, a, b)
           f == Assign(g.halves, key, b)
<1>1. Backend(g)
  BY DEF Sound
<1>2. h = [held |-> g.held, pool |-> g.pool, acts |-> g.acts, byId |-> g.byId, views |-> g.views,
           halves |-> f]
  <2>1. g = [held |-> g.held, pool |-> g.pool, acts |-> g.acts, byId |-> g.byId, views |-> g.views,
             halves |-> g.halves]
    BY <1>1 DEF Backend
  <2> HIDE DEF f
  <2>2. h = [g EXCEPT !.halves = f]
    BY DEF f, h, KeptHalf
  <2> HIDE DEF h
  <2>3. QED
    BY <2>1, <2>2
<1>3. /\ DOMAIN f = DOMAIN g.halves \cup {key} /\ f[key] = b
      /\ \A k \in DOMAIN g.halves : k # key => f[k] = g.halves[k]
  BY DEF Assign
<1> HIDE DEF f
<1>4. /\ h.held = g.held /\ h.pool = g.pool /\ h.acts = g.acts /\ h.byId = g.byId
      /\ h.halves = f /\ h.views = g.views
  BY <1>2
<1>5. Backend(h)
  BY <1>1, <1>2, <1>4 DEF Backend
<1> HIDE DEF h
<1>6. Buffers(h) = Buffers(g) /\ CachedActs(h) = CachedActs(g)
  BY <1>4 DEF Buffers, CachedActs
<1>7. Sound(h, H, T, n)
  <2>1. \A i \in DOMAIN h.byId :
          i \in 1 .. n /\ h.byId[i] \in Buffers(h) /\ h.held[h.byId[i]] = <<i, FALSE>>
    BY <1>4, <1>6 DEF Sound
  <2>2. ASSUME NEW k \in DOMAIN h.halves
        PROVE  h.halves[k] \in Buffers(h) /\ Seen(H, k, h.held[h.halves[k]])
    <3>1. CASE k = key
      <4>1. h.halves[k] = b /\ h.held[b] = <<o, TRUE>> /\ b \in Buffers(h)
        BY <1>3, <1>4, <1>6, <3>1 DEF Free
      <4>2. Seen(H, k, <<o, TRUE>>)
        BY <3>1 DEF Seen
      <4>3. QED
        BY <4>1, <4>2
    <3>2. CASE k # key
      <4>1. k \in DOMAIN g.halves /\ h.halves[k] = g.halves[k]
        BY <1>3, <1>4, <3>2
      <4>2. QED
        BY <1>4, <1>6, <4>1 DEF Sound, Remembers
    <3>3. QED
      BY <3>1, <3>2
  <2>3. \A i \in CachedActs(h) :
          /\ h.acts[i].id \in 1 .. n /\ h.acts[i].buf \in Buffers(h)
          /\ h.held[h.acts[i].buf] = <<h.acts[i].id, FALSE>>
    BY <1>4, <1>6 DEF Sound
  <2>4. \A t \in T : t.view => t.id \notin DOMAIN h.byId /\ \A i \in CachedActs(h) : h.acts[i].id # t.id
    BY <1>4, <1>6 DEF Sound
  <2>5. Remembers(h, h.views, H)
    BY <1>4, <1>6 DEF Sound, Remembers
  <2>6. Remembers(h, h.halves, H)
    BY <2>2 DEF Remembers
  <2>7. QED
    BY <1>5, <2>1, <2>3, <2>4, <2>5, <2>6 DEF Sound
<1>8. \A c : /\ InPool(h, c) = InPool(g, c) /\ InActs(h, c) = InActs(g, c)
             /\ Kept(h, c) => Kept(g, c) \/ c = b
  BY <1>3, <1>4, <1>6 DEF InPool, InActs, Kept
<1>9. Apart(h)
  BY <1>4, <1>6, <1>8 DEF Apart, Free
<1>10. QED
  BY <1>3, <1>4, <1>7, <1>9 DEF h

\* v is what t holds or, of a view, what one at its address holds or once held.
Holds(v, t, H) == (~ t.view => v = Value(t)) /\ \E o \in H[t.at] : v = <<o, t.view>>

LEMMA HoldsItself ==
  ASSUME NEW H, NEW T, NEW n, Program(T, n, H), NEW t \in T PROVE Holds(Value(t), t, H)
BY DEF Program, Holds, Value

\* get_or_upload returns such a buffer.
LEMMA GetOrUploadOf ==
  ASSUME NEW g, NEW H, NEW T, NEW n, Program(T, n, H), Sound(g, H, T, n), Apart(g), NEW t \in T
  PROVE  LET r == GetOrUpload(g, t)
         IN  /\ Sound(r.gpu, H, T, n) /\ Apart(r.gpu)
             /\ r.buf \in Buffers(r.gpu) /\ Holds(r.gpu.held[r.buf], t, H)
             /\ r.gpu.halves = g.halves
             /\ \A b \in Buffers(g) : b \in Buffers(r.gpu) /\ r.gpu.held[b] = g.held[b]
<1> DEFINE r == GetOrUpload(g, t)
           i == Position(g, t.id)
           new == Len(g.held) + 1
           up == Uploaded(g, Value(t))
<1> DEFINE Goal(q) == /\ Sound(q.gpu, H, T, n) /\ Apart(q.gpu)
                      /\ q.buf \in Buffers(q.gpu) /\ Holds(q.gpu.held[q.buf], t, H)
                      /\ q.gpu.halves = g.halves
                      /\ \A b \in Buffers(g) : b \in Buffers(q.gpu) /\ q.gpu.held[b] = g.held[b]
<1>1. /\ n \in Nat /\ t \in [id : 1 .. n, at : Addresses, of : 1 .. n, view : BOOLEAN]
      /\ (t.view \/ t.of = t.id) /\ t.of \in H[t.at] /\ t.at \in Addresses
  BY DEF Program
<1>0. Holds(Value(t), t, H)
  BY HoldsItself
<1>2. Value(t) \in Nat \X BOOLEAN /\ Value(t) = <<t.of, t.view>> /\ t.id \in 1 .. n /\ t.view \in BOOLEAN
  BY <1>1 DEF Value
<1>3. i = 0 \/ (i \in CachedActs(g) /\ g.acts[i].id = t.id)
  <2>1. CASE \E j \in CachedActs(g) : g.acts[j].id = t.id
    <3>1. i = CHOOSE j \in CachedActs(g) : g.acts[j].id = t.id
      BY <2>1 DEF Position, CachedActs
    <3>2. QED
      BY <2>1, <3>1
  <2>2. CASE ~ \E j \in CachedActs(g) : g.acts[j].id = t.id
    BY <2>2 DEF Position, CachedActs
  <2>3. QED
    BY <2>1, <2>2
<1>4. CASE i # 0 /\ i \in CachedActs(g) /\ g.acts[i].id = t.id
  <2> DEFINE h == [g EXCEPT !.acts = Without(@, i)]
  <2>1. i > 0
    BY <1>4 DEF CachedActs, Sound, Backend
  <2>2. r = [buf |-> g.acts[i].buf, gpu |-> h]
    BY <2>1 DEF GetOrUpload
  <2>3. Sound(h, H, T, n) /\ Apart(h) /\ h.held = g.held /\ h.halves = g.halves
    BY <1>4, TakenOf
  <2> HIDE DEF h
  <2>4. ~ t.view
    BY <1>4 DEF Sound
  <2>5. g.acts[i].buf \in Buffers(g) /\ g.held[g.acts[i].buf] = <<t.id, FALSE>>
    BY <1>4 DEF Sound
  <2>6. Value(t) = <<t.id, FALSE>>
    BY <1>1, <1>2, <2>4
  <2>7. Buffers(h) = Buffers(g)
    BY <2>3 DEF Buffers
  <2>8. r.buf = g.acts[i].buf /\ r.gpu = h
    BY <2>2
  <2> HIDE DEF r, i
  <2>9. Goal(r)
    BY <1>0, <2>3, <2>5, <2>6, <2>7, <2>8
  <2>10. QED
    BY <2>9 DEF r
<1>5. CASE i = 0 /\ t.id \in DOMAIN g.byId
  <2>1. r = [buf |-> g.byId[t.id], gpu |-> g]
    BY <1>5 DEF GetOrUpload
  <2>2. ~ t.view /\ g.byId[t.id] \in Buffers(g) /\ g.held[g.byId[t.id]] = <<t.id, FALSE>>
    BY <1>5 DEF Sound
  <2>3. Value(t) = <<t.id, FALSE>>
    BY <1>1, <1>2, <2>2
  <2>4. r.buf = g.byId[t.id] /\ r.gpu = g
    BY <2>1
  <2> HIDE DEF r, i
  <2>5. Goal(r)
    BY <1>0, <2>2, <2>3, <2>4
  <2>6. QED
    BY <2>5 DEF r
<1>6. CASE i = 0 /\ t.id \notin DOMAIN g.byId /\ t.view /\ Key(t) \in DOMAIN g.views
  <2>1. r = [buf |-> g.views[Key(t)], gpu |-> g]
    BY <1>6 DEF GetOrUpload, IsView
  <2>2. g.views[Key(t)] \in Buffers(g) /\ Seen(H, Key(t), g.held[g.views[Key(t)]])
    BY <1>6 DEF Sound, Remembers
  <2>0. PICK a \in Addresses : \E o \in H[a] : Key(t) = <<a, TRUE>> /\ g.held[g.views[Key(t)]] = <<o, TRUE>>
    BY <2>2 DEF Seen
  <2>3. PICK o \in H[a] : Key(t) = <<a, TRUE>> /\ g.held[g.views[Key(t)]] = <<o, TRUE>>
    BY <2>0
  <2>4. a = t.at
    BY <2>3 DEF Key
  <2>5. Holds(g.held[g.views[Key(t)]], t, H)
    BY <1>2, <1>6, <2>3, <2>4 DEF Holds
  <2>6. r.buf = g.views[Key(t)] /\ r.gpu = g
    BY <2>1
  <2> HIDE DEF r, i
  <2>7. Goal(r)
    BY <2>2, <2>5, <2>6
  <2>8. QED
    BY <2>7 DEF r
<1>7. CASE i = 0 /\ t.id \notin DOMAIN g.byId /\ t.view /\ Key(t) \notin DOMAIN g.views
  <2> DEFINE h == [up EXCEPT !.views = Assign(@, Key(t), new)]
  <2>1. r = [buf |-> new, gpu |-> h]
    BY <1>7 DEF GetOrUpload, IsView
  <2>2. /\ Sound(up, H, T, n) /\ Apart(up) /\ Free(up, new) /\ up.held[new] = Value(t)
        /\ (\A b \in Buffers(g) : up.held[b] = g.held[b]) /\ up.halves = g.halves
    <3>1. Value(t) \in Nat \X BOOLEAN
      BY <1>2
    <3> HIDE DEF h
    <3>2. QED
      BY <3>1, UploadedOf
  <2>5. Key(t) = <<t.at, TRUE>> /\ Value(t) = <<t.of, TRUE>>
    BY <1>2, <1>7 DEF Key
  <2>6. \A b \in Buffers(g) : b \in Buffers(up)
    <3>1. Len(up.held) = Len(g.held) + 1
      BY <1>2, UploadedOf
    <3>2. Len(g.held) \in Nat
      BY DEF Sound, Backend
    <3>3. QED
      BY <3>1, <3>2 DEF Buffers
  <2> HIDE DEF up, new
  <2>7. Sound(h, H, T, n) /\ Apart(h) /\ h.held = up.held /\ h.halves = up.halves
    <3>1. up.held[new] = <<t.of, TRUE>>
      BY <2>2, <2>5
    <3>2. h = KeptView(up, t.at, new)
      BY <2>5 DEF KeptView
    <3> HIDE DEF h
    <3>3. t.of \in H[t.at] /\ t.at \in Addresses
      BY <1>1
    <3>4. Sound(KeptView(up, t.at, new), H, T, n) /\ Apart(KeptView(up, t.at, new))
      BY <2>2, <3>1, <3>3, ViewsOf
    <3>5. KeptView(up, t.at, new).held = up.held /\ KeptView(up, t.at, new).halves = up.halves
      <4>1. up = [held |-> up.held, pool |-> up.pool, acts |-> up.acts, byId |-> up.byId,
                  views |-> up.views, halves |-> up.halves]
        BY <2>2 DEF Sound, Backend
      <4>2. QED
        BY <4>1 DEF KeptView
    <3>6. QED
      BY <3>2, <3>4, <3>5
  <2>8. r.buf = new /\ r.gpu = h
    BY <2>1
  <2> HIDE DEF r, i
  <2>9. Goal(r)
    BY <1>0, <2>2, <2>6, <2>7, <2>8 DEF Free, Buffers
  <2>10. QED
    BY <2>9 DEF r
<1>8. CASE i = 0 /\ t.id \notin DOMAIN g.byId /\ ~ t.view
  <2> DEFINE h == [up EXCEPT !.byId = Assign(@, t.id, new)]
  <2>1. r = [buf |-> new, gpu |-> h]
    BY <1>8 DEF GetOrUpload, IsView
  <2>2. /\ Sound(up, H, T, n) /\ Apart(up) /\ Free(up, new) /\ up.held[new] = Value(t)
        /\ (\A b \in Buffers(g) : up.held[b] = g.held[b]) /\ up.halves = g.halves
    <3>1. Value(t) \in Nat \X BOOLEAN
      BY <1>2
    <3> HIDE DEF h
    <3>2. QED
      BY <3>1, UploadedOf
  <2>3. Value(t) = <<t.id, FALSE>>
    BY <1>1, <1>2, <1>8
  <2>4. \A s \in T : s.view => s.id # t.id
    BY <1>8 DEF Program
  <2>5. \A b \in Buffers(g) : b \in Buffers(up)
    <3>1. Len(up.held) = Len(g.held) + 1
      BY <1>2, UploadedOf
    <3>2. Len(g.held) \in Nat
      BY DEF Sound, Backend
    <3>3. QED
      BY <3>1, <3>2 DEF Buffers
  <2> HIDE DEF up, new
  <2>6. Sound(h, H, T, n) /\ Apart(h) /\ h.held = up.held /\ h.halves = up.halves
    <3>1. up.held[new] = <<t.id, FALSE>>
      BY <2>2, <2>3
    <3>2. h = KeptById(up, t.id, new)
      BY DEF KeptById
    <3> HIDE DEF h
    <3>3. t.id \in 1 .. n
      BY <1>2
    <3>4. Sound(up, H, T, n) /\ Apart(up) /\ Free(up, new)
      BY <2>2
    <3>5. Sound(KeptById(up, t.id, new), H, T, n) /\ Apart(KeptById(up, t.id, new))
      BY <2>4, <3>1, <3>3, <3>4, ByIdOf
    <3>6. KeptById(up, t.id, new).held = up.held /\ KeptById(up, t.id, new).halves = up.halves
      <4>1. up = [held |-> up.held, pool |-> up.pool, acts |-> up.acts, byId |-> up.byId,
                  views |-> up.views, halves |-> up.halves]
        BY <3>4 DEF Sound, Backend
      <4>2. QED
        BY <4>1 DEF KeptById
    <3>7. QED
      BY <3>2, <3>5, <3>6
  <2>7. r.buf = new /\ r.gpu = h
    BY <2>1
  <2> HIDE DEF r, i, h
  <2>8. Goal(r)
    BY <1>0, <2>2, <2>5, <2>6, <2>7 DEF Free, Buffers
  <2>9. QED
    BY <2>8 DEF r
<1>9. QED
  BY <1>2, <1>3, <1>4, <1>5, <1>6, <1>7, <1>8

LEMMA OneOperand ==
  ASSUME NEW g, NEW H, NEW T, NEW n, Program(T, n, H), Sound(g, H, T, n), Apart(g), NEW x \in T
  PROVE  /\ Sound(Operands(g, <<x>>).gpu, H, T, n) /\ Apart(Operands(g, <<x>>).gpu)
         /\ \A i \in DOMAIN <<x>> :
              /\ Operands(g, <<x>>).bufs[i] \in Buffers(Operands(g, <<x>>).gpu)
              /\ Holds(Operands(g, <<x>>).gpu.held[Operands(g, <<x>>).bufs[i]], <<x>>[i], H)
         /\ Operands(g, <<x>>).gpu.halves = g.halves
<1> DEFINE r == GetOrUpload(g, x)
<1>1. /\ Sound(r.gpu, H, T, n) /\ Apart(r.gpu)
      /\ r.buf \in Buffers(r.gpu) /\ Holds(r.gpu.held[r.buf], x, H) /\ r.gpu.halves = g.halves
  BY GetOrUploadOf
<1> HIDE DEF r
<1>2. Operands(g, <<x>>) = [bufs |-> <<r.buf>>, gpu |-> r.gpu]
  BY DEF Operands, r
<1>3. DOMAIN <<x>> = {1} /\ <<x>>[1] = x /\ <<r.buf>>[1] = r.buf
  OBVIOUS
<1>4. Operands(g, <<x>>).bufs = <<r.buf>> /\ Operands(g, <<x>>).gpu = r.gpu
  BY <1>2
<1>5. QED
  BY <1>1, <1>3, <1>4

LEMMA TwoOperands ==
  ASSUME NEW g, NEW H, NEW T, NEW n, Program(T, n, H), Sound(g, H, T, n), Apart(g), NEW x \in T, NEW y \in T
  PROVE  /\ Sound(Operands(g, <<x, y>>).gpu, H, T, n) /\ Apart(Operands(g, <<x, y>>).gpu)
         /\ \A i \in DOMAIN <<x, y>> :
              /\ Operands(g, <<x, y>>).bufs[i] \in Buffers(Operands(g, <<x, y>>).gpu)
              /\ Holds(Operands(g, <<x, y>>).gpu.held[Operands(g, <<x, y>>).bufs[i]], <<x, y>>[i], H)
         /\ Operands(g, <<x, y>>).gpu.halves = g.halves
<1> DEFINE r == GetOrUpload(g, x)
           s == GetOrUpload(r.gpu, y)
<1>1. /\ Sound(r.gpu, H, T, n) /\ Apart(r.gpu)
      /\ r.buf \in Buffers(r.gpu) /\ Holds(r.gpu.held[r.buf], x, H) /\ r.gpu.halves = g.halves
  BY GetOrUploadOf
<1> HIDE DEF r
<1>2. /\ Sound(s.gpu, H, T, n) /\ Apart(s.gpu)
      /\ s.buf \in Buffers(s.gpu) /\ Holds(s.gpu.held[s.buf], y, H) /\ s.gpu.halves = r.gpu.halves
      /\ \A b \in Buffers(r.gpu) : b \in Buffers(s.gpu) /\ s.gpu.held[b] = r.gpu.held[b]
  BY <1>1, GetOrUploadOf
<1> HIDE DEF s
<1>3. Operands(g, <<x, y>>) = [bufs |-> <<r.buf, s.buf>>, gpu |-> s.gpu]
  BY DEF Operands, r, s
<1>4. /\ DOMAIN <<x, y>> = {1, 2} /\ <<x, y>>[1] = x /\ <<x, y>>[2] = y
      /\ <<r.buf, s.buf>>[1] = r.buf /\ <<r.buf, s.buf>>[2] = s.buf
  OBVIOUS
<1>5. Operands(g, <<x, y>>).bufs = <<r.buf, s.buf>> /\ Operands(g, <<x, y>>).gpu = s.gpu
  BY <1>3
<1>6. r.buf \in Buffers(s.gpu) /\ Holds(s.gpu.held[r.buf], x, H)
  BY <1>1, <1>2
<1>7. QED
  BY <1>1, <1>2, <1>4, <1>5, <1>6

\* The new tensor is no view.
LEMMA NewId ==
  ASSUME NEW H, NEW T, NEW n, Program(T, n, H)
  PROVE  n \in Nat /\ \A t \in T : t.id # n + 1 /\ t.id \in 1 .. n
BY DEF Program

\* A read that finds what the operand holds or held is right.
LEMMA RightRead ==
  ASSUME NEW H, NEW T, NEW n, Program(T, n, H), NEW F, Steady(F, T, n, H), NEW t \in T, NEW v,
         Holds(v, t, H)
  PROVE  /\ ~ t.view => v = Value(t)
         /\ t.of <= NumWeights /\ F = {} => v = Value(t)
         /\ v[2] = t.view /\ t.of \in H[t.at] /\ v[1] \in H[t.at]
<1>1. PICK o \in H[t.at] : v = <<o, t.view>>
  BY DEF Holds
<1>2. t.of \in H[t.at]
  BY DEF Program
<1>3. t.of <= NumWeights /\ F = {} => o = t.of
  BY <1>1 DEF Steady
<1>4. v[1] = o /\ v[2] = t.view /\ Value(t) = <<t.of, t.view>>
  BY <1>1 DEF Value
<1>5. ~ t.view => v = Value(t)
  BY DEF Holds
<1>6. QED
  BY <1>1, <1>2, <1>3, <1>4, <1>5

LEMMA ReadsOf ==
  ASSUME Program(tensors, made, sat), NEW F, Steady(F, tensors, made, sat), F = DOMAIN gpu'.halves,
         \A a \in Addresses : sat[a] \subseteq sat'[a],
         \A r \in read' : \E t \in tensors : \E v : r = Got(t, v) /\ Holds(v, t, sat)
  PROVE  ReadsRight'
<1>1. ASSUME NEW r \in read'
      PROVE  /\ ~r.due[2] => r.got = r.due
             /\ r.due[1] <= NumWeights /\ F = {} => r.got = r.due
             /\ r.got[2] = r.due[2] /\ {r.due[1], r.got[1]} \subseteq sat'[r.at]
  <2>0. PICK t \in tensors : \E v : r = Got(t, v) /\ Holds(v, t, sat)
    OBVIOUS
  <2>1. PICK v : r = Got(t, v) /\ Holds(v, t, sat)
    BY <2>0
  <2>2. /\ ~ t.view => v = Value(t)
        /\ t.of <= NumWeights /\ F = {} => v = Value(t)
        /\ v[2] = t.view /\ t.of \in sat[t.at] /\ v[1] \in sat[t.at]
    BY <2>1, RightRead
  <2>3. r.due = Value(t) /\ r.at = t.at /\ r.got = v
    BY <2>1 DEF Got
  <2>4. r.due[1] = t.of /\ r.due[2] = t.view
    BY <2>3 DEF Value
  <2>5. t.at \in Addresses
    BY DEF Program
  <2>6. t.of \in sat'[t.at] /\ v[1] \in sat'[t.at]
    BY <2>2, <2>5
  <2>7. QED
    BY <2>2, <2>3, <2>4, <2>6
<1>2. QED
  BY <1>1 DEF ReadsRight

\* A dispatch reads what its operands hold, and caches its output.
LEMMA DispatchedOf ==
  ASSUME GpuAssumption, Program(tensors, made, sat), NEW g, Sound(g, sat, tensors, made), Apart(g),
         Steady(DOMAIN g.halves, tensors, made, sat), \A a \in Addresses : sat[a] \subseteq sat'[a],
         NEW bufs, NEW ts, Dispatched(g, bufs, ts, made + 1), \A i \in DOMAIN ts : ts[i] \in tensors,
         \A i \in DOMAIN ts : bufs[i] \in Buffers(g) /\ Holds(g.held[bufs[i]], ts[i], sat)
  PROVE  Sound(gpu', sat, tensors, made + 1) /\ Apart(gpu') /\ ReadsRight' /\ gpu'.halves = g.halves
<1> DEFINE b == OutputBuffer(g)
           h == AllocOutput(g)
           k == Written(h, b, <<made + 1, FALSE>>)
<1>1. /\ read' = {Got(ts[i], h.held[bufs[i]]) : i \in DOMAIN ts}
      /\ gpu' = CacheActivation(k, made + 1, b)
  BY DEF Dispatched, Written
<1>2. /\ Sound(h, sat, tensors, made) /\ Apart(h) /\ b \in Nat /\ Free(h, b)
      /\ (\A c \in Buffers(g) : h.held[c] = g.held[c]) /\ h.halves = g.halves
  BY AllocOf
<1> HIDE DEF h, b
<1>3. made \in Nat /\ \A t \in tensors : t.id # made + 1
  BY NewId
<1>4. <<made + 1, FALSE>> \in Nat \X BOOLEAN
  <2>1. made + 1 \in Nat
    BY <1>3
  <2>2. QED
    BY <2>1
<1>5. /\ Sound(k, sat, tensors, made) /\ Apart(k) /\ Free(k, b) /\ k.held[b] = <<made + 1, FALSE>>
      /\ k.halves = h.halves
  <2> DEFINE v == <<made + 1, FALSE>>
  <2>1. v \in Nat \X BOOLEAN
    BY <1>4
  <2> HIDE DEF v
  <2>2. Sound(h, sat, tensors, made) /\ Apart(h) /\ Free(h, b)
    BY <1>2
  <2>3. Sound(Written(h, b, v), sat, tensors, made)
    BY <2>1, <2>2, WrittenOf
  <2>4. Apart(Written(h, b, v)) /\ Free(Written(h, b, v), b)
    BY <2>1, <2>2, WrittenOf
  <2>5. Written(h, b, v).held[b] = v /\ Written(h, b, v).halves = h.halves
    BY <2>1, <2>2, WrittenOf
  <2>6. QED
    BY <2>3, <2>4, <2>5 DEF v
<1> HIDE DEF k
<1>6. Sound(gpu', sat, tensors, made + 1) /\ Apart(gpu') /\ gpu'.halves = k.halves
  <2>1. /\ Sound(CacheActivation(k, made + 1, b), sat, tensors, made + 1)
        /\ Apart(CacheActivation(k, made + 1, b))
    BY <1>2, <1>3, <1>5, CachedOf
  <2>2. SameHalves(k, CacheActivation(k, made + 1, b))
    BY <1>2, <1>3, <1>5, CachedOf
  <2>3. QED
    BY <1>1, <2>1, <2>2 DEF SameHalves
<1>7. ReadsRight'
  <2> DEFINE F == DOMAIN g.halves
  <2>1. \A r \in read' : \E t \in tensors : \E v : r = Got(t, v) /\ Holds(v, t, sat)
    BY <1>1, <1>2
  <2>2. Steady(F, tensors, made, sat) /\ F = DOMAIN gpu'.halves
    BY <1>2, <1>5, <1>6
  <2> HIDE DEF F
  <2>3. QED
    BY <2>1, <2>2, ReadsOf
<1>8. QED
  BY <1>2, <1>5, <1>6, <1>7

\* The caches stay sound as tensors come and go.
LEMMA WiderOf ==
  ASSUME NEW g, NEW H, NEW T, NEW n \in Nat, Sound(g, H, T, n), NEW K, NEW U, NEW m \in Nat, n <= m,
         \A a \in Addresses : H[a] \subseteq K[a],
         \A t \in U : t.view => t \in T \/ t.id \notin 1 .. n
  PROVE  Sound(g, K, U, m)
<1>1. \A i \in 1 .. n : i \in 1 .. m
  OBVIOUS
<1>2. \A i \in DOMAIN g.byId :
        i \in 1 .. m /\ g.byId[i] \in Buffers(g) /\ g.held[g.byId[i]] = <<i, FALSE>>
  BY <1>1 DEF Sound
<1>3. Remembers(g, g.views, K) /\ Remembers(g, g.halves, K)
  <2>1. \A k, v : Seen(H, k, v) => Seen(K, k, v)
    BY DEF Seen
  <2>2. QED
    BY <2>1 DEF Sound, Remembers
<1>4. \A i \in CachedActs(g) :
        /\ g.acts[i].id \in 1 .. m /\ g.acts[i].buf \in Buffers(g)
        /\ g.held[g.acts[i].buf] = <<g.acts[i].id, FALSE>>
  BY <1>1 DEF Sound
<1>5. ASSUME NEW t \in U, t.view
      PROVE  t.id \notin DOMAIN g.byId /\ \A i \in CachedActs(g) : g.acts[i].id # t.id
  <2>1. CASE t \in T
    BY <1>5, <2>1 DEF Sound
  <2>2. CASE t.id \notin 1 .. n
    BY <2>2 DEF Sound
  <2>3. QED
    BY <1>5, <2>1, <2>2
<1>6. Backend(g)
  BY DEF Sound
<1>7. QED
  BY <1>2, <1>3, <1>4, <1>5, <1>6 DEF Sound

\* The history of the addresses only grows.
LEMMA SeatedOf ==
  ASSUME NEW A, Seated(A)
  PROVE  /\ \A x \in Addresses : sat[x] \subseteq sat'[x]
         /\ \A x \in Addresses : x \in A => made + 1 \in sat'[x]
         /\ \A x \in Addresses : x \notin A => sat'[x] = sat[x]
         /\ \A x \in Addresses : x \in A => sat'[x] = sat[x] \cup {made + 1}
<1>1. sat' = [x \in Addresses |-> IF x \in A THEN sat[x] \cup {made + 1} ELSE sat[x]]
  BY DEF Seated
<1>2. \A x \in Addresses : sat'[x] = IF x \in A THEN sat[x] \cup {made + 1} ELSE sat[x]
  BY <1>1
<1>3. QED
  BY <1>2

\* A tensor of its own storage, at an address no tensor uses.
LEMMA FreshOf ==
  ASSUME Program(tensors, made, sat), NEW a \in Addresses, a \notin Used, NEW A, Seated(A), a \in A
  PROVE  /\ Program(tensors \cup {NewTensor(a)}, made + 1, sat')
         /\ ~ NewTensor(a).view /\ NewTensor(a).id = made + 1
         /\ NewTensor(a) \in [id : 1 .. made + 1, at : Addresses, of : 1 .. made + 1, view : BOOLEAN]
<1> DEFINE f == NewTensor(a)
<1>1. made \in Nat /\ tensors \subseteq [id : 1 .. made, at : Addresses, of : 1 .. made, view : BOOLEAN]
  BY DEF Program
<1>2. f = [id |-> made + 1, at |-> a, of |-> made + 1, view |-> FALSE]
  BY DEF NewTensor
<1>3. f.id = made + 1 /\ f.at = a /\ f.of = made + 1 /\ f.view = FALSE
  BY <1>2
<1>4. made + 1 \in Nat /\ made + 1 \in 1 .. made + 1 /\ \A i \in 1 .. made : i \in 1 .. made + 1 /\ i # made + 1
  BY <1>1
<1>5. f \in [id : 1 .. made + 1, at : Addresses, of : 1 .. made + 1, view : BOOLEAN]
  BY <1>2, <1>4
<1> HIDE DEF f
<1>6. \A t \in tensors : /\ t \in [id : 1 .. made + 1, at : Addresses, of : 1 .. made + 1, view : BOOLEAN]
                         /\ t.id # made + 1 /\ t.of # made + 1 /\ t.at # a
  <2>1. ASSUME NEW t \in tensors
        PROVE  /\ t \in [id : 1 .. made + 1, at : Addresses, of : 1 .. made + 1, view : BOOLEAN]
               /\ t.id # made + 1 /\ t.of # made + 1 /\ t.at # a
    <3>1. t \in [id : 1 .. made, at : Addresses, of : 1 .. made, view : BOOLEAN]
      BY <1>1
    <3>2. t.id \in 1 .. made /\ t.of \in 1 .. made
      BY <3>1
    <3>3. t.id # made + 1 /\ t.of # made + 1
      BY <1>4, <3>2
    <3>4. t.at # a
      BY DEF Used
    <3>5. t \in [id : 1 .. made + 1, at : Addresses, of : 1 .. made + 1, view : BOOLEAN]
      BY <1>4, <3>1
    <3>6. QED
      BY <3>3, <3>4, <3>5
  <2>2. QED
    BY <2>1
<1>7. \A s, t \in tensors \cup {f} : (s.id = t.id => s = t) /\ (s.at = t.at <=> s.of = t.of)
  <2>1. \A s, t \in tensors : (s.id = t.id => s = t) /\ (s.at = t.at <=> s.of = t.of)
    BY DEF Program
  <2>2. QED
    BY <1>3, <1>6, <2>1
<1>8. ASSUME NEW t \in tensors \cup {f} PROVE (t.view \/ t.of = t.id) /\ t.of \in sat'[t.at]
  <2>1. \A x \in Addresses : sat[x] \subseteq sat'[x] /\ (x \in A => made + 1 \in sat'[x])
    BY SeatedOf
  <2>2. CASE t \in tensors
    <3>1. (t.view \/ t.of = t.id) /\ t.of \in sat[t.at] /\ t.at \in Addresses
      BY <2>2 DEF Program
    <3>2. QED
      BY <2>1, <3>1
  <2>3. CASE t = f
    BY <1>3, <2>1, <2>3
  <2>4. QED
    BY <2>2, <2>3
<1>9. Program(tensors \cup {f}, made + 1, sat')
  BY <1>4, <1>5, <1>6, <1>7, <1>8 DEF Program
<1>10. QED
  BY <1>3, <1>5, <1>9 DEF f

\* While no weight is F16 a new storage sits where no weight is.
LEMMA SteadyOf ==
  ASSUME GpuAssumption, Program(tensors, made, sat), NEW F, Steady(F, tensors, made, sat),
         NEW a \in Addresses, a \notin Used, Seated({a})
  PROVE  Steady(F, tensors \cup {NewTensor(a)}, made + 1, sat')
<1> DEFINE f == NewTensor(a)
<1>1. f.id = made + 1 /\ f.at = a /\ f.of = made + 1 /\ f.view = FALSE
  BY DEF NewTensor
<1> HIDE DEF f
<1>2. made \in Nat /\ NumWeights \in Nat /\ (made + 1 <= NumWeights => made <= NumWeights)
  BY DEF Program, GpuAssumption
<1>3. \A t \in tensors : t.at \in Addresses /\ t.at # a
  BY DEF Program, Used
<1>4. /\ \A x \in Addresses : x # a => sat'[x] = sat[x]
      /\ sat'[a] = sat[a] \cup {made + 1}
  <2>1. \A x \in Addresses : (x \notin {a} => sat'[x] = sat[x])
                             /\ (x \in {a} => sat'[x] = sat[x] \cup {made + 1})
    BY SeatedOf
  <2>2. QED
    BY <2>1
<1>5. made + 1 <= NumWeights => \A t \in tensors \cup {f} : ~ t.view
  BY <1>1, <1>2 DEF Steady
<1>6. ASSUME F = {}, NEW t \in tensors \cup {f}, t.of <= NumWeights PROVE sat'[t.at] = {t.of}
  <2>1. CASE t \in tensors
    BY <1>3, <1>4, <1>6, <2>1 DEF Steady
  <2>2. CASE t = f
    <3>1. made + 1 <= NumWeights
      BY <1>1, <1>6, <2>2
    <3>2. sat[a] = {}
      BY <1>2, <1>3, <1>6, <3>1 DEF Steady
    <3>3. QED
      BY <1>1, <1>4, <2>2, <3>2
  <2>3. QED
    BY <2>1, <2>2
<1>7. ASSUME F = {}, made + 1 <= NumWeights, NEW x \in Addresses, sat'[x] # {}
      PROVE  \E t \in tensors \cup {f} : t.at = x
  <2>1. CASE x = a
    BY <1>1, <2>1
  <2>2. CASE x # a
    BY <1>2, <1>4, <1>7, <2>2 DEF Steady
  <2>3. QED
    BY <2>1, <2>2
<1>8. Steady(F, tensors \cup {f}, made + 1, sat')
  BY <1>5, <1>6, <1>7 DEF Steady
<1>9. QED
  BY <1>8 DEF f
----------------------------------------------------------------------------
(* The steps.                                                               *)

\* No dispatch, no reads.
LEMMA NoReads == ASSUME read' = {} PROVE ReadsRight'
BY DEF ReadsRight

LEMMA PreprocessKeeps ==
  ASSUME GpuAssumption, GpuInv, NEW a \in Addresses, PreprocessWeight(a) PROVE GpuInv'
<1> DEFINE f == NewTensor(a)
           U == tensors \cup {f}
<1>1. a \notin Used /\ tensors' = U /\ made' = made + 1 /\ read' = {}
  BY DEF PreprocessWeight
<1>2. Program(tensors, made, sat) /\ Steady(DOMAIN gpu.halves, tensors, made, sat) /\ made \in Nat
  BY DEF GpuInv, Program
<1>3. made + 1 \in Nat /\ made <= made + 1 /\ made + 1 \in 1 .. made + 1
  BY <1>2
<1>4. Sound(gpu, sat, tensors, made) /\ Apart(gpu)
  BY DEF GpuInv
<1>5. /\ ~ f.view /\ f.id = made + 1 /\ f.of = made + 1 /\ f.at = a
  BY DEF NewTensor
<1>6. ASSUME NEW A, Seated(A), a \in A
      PROVE  Program(U, made + 1, sat') /\ Sound(gpu, sat', U, made + 1)
  <2>1. Program(tensors \cup {NewTensor(a)}, made + 1, sat')
    BY <1>1, <1>2, <1>6, FreshOf
  <2>2. \A x \in Addresses : sat[x] \subseteq sat'[x]
    BY <1>6, SeatedOf
  <2>3. \A t \in U : t.view => t \in tensors \/ t.id \notin 1 .. made
    BY <1>5
  <2>4. U = tensors \cup {NewTensor(a)}
    OBVIOUS
  <2> HIDE DEF U
  <2>5. Sound(gpu, sat', U, made + 1)
    BY <1>2, <1>3, <1>4, <2>2, <2>3, WiderOf
  <2>6. QED
    BY <2>1, <2>4, <2>5
<1>7. ReadsRight'
  BY <1>1, NoReads
<1>8. ASSUME Seated({a}), gpu' = GetOrUpload(gpu, f).gpu PROVE GpuInv'
  <2> DEFINE r == GetOrUpload(gpu, f)
  <2>1. Program(U, made + 1, sat') /\ Sound(gpu, sat', U, made + 1)
    BY <1>6, <1>8
  <2>2. Steady(DOMAIN gpu.halves, U, made + 1, sat')
    BY <1>1, <1>2, <1>8, SteadyOf
  <2>3. f \in U
    OBVIOUS
  <2> HIDE DEF U, f
  <2>4. Sound(r.gpu, sat', U, made + 1) /\ Apart(r.gpu) /\ r.gpu.halves = gpu.halves
    BY <1>4, <2>1, <2>3, GetOrUploadOf
  <2> HIDE DEF r
  <2>5. gpu' = r.gpu
    BY <1>8 DEF r
  <2>6. QED
    BY <1>1, <1>7, <2>1, <2>2, <2>4, <2>5 DEF GpuInv
<1>9. ASSUME NEW copy \in Addresses, Seated({a, copy}),
             LET w == Uploaded(gpu, <<made + 1, FALSE>>)
                 n == Len(w.held) + 1
             IN  gpu' = [Uploaded(w, <<made + 1, TRUE>>) EXCEPT !.halves = Assign(@, <<copy, TRUE>>, n)]
      PROVE  GpuInv'
  <2> DEFINE u == <<made + 1, FALSE>>
             v == <<made + 1, TRUE>>
             w == Uploaded(gpu, u)
             x == Uploaded(w, v)
             n == Len(w.held) + 1
  <2>1. Program(U, made + 1, sat') /\ Sound(gpu, sat', U, made + 1)
    BY <1>6, <1>9
  <2>2. made + 1 \in sat'[copy]
    BY <1>9, SeatedOf
  <2>3. gpu' = KeptHalf(x, copy, n)
    BY <1>9 DEF KeptHalf
  <2>4. <<copy, TRUE>> \in DOMAIN gpu'.halves => Steady(DOMAIN gpu'.halves, U, made + 1, sat')
    <3>1. ASSUME <<copy, TRUE>> \in DOMAIN gpu'.halves PROVE DOMAIN gpu'.halves # {}
      BY <3>1
    <3>2. made + 1 <= NumWeights => \A t \in U : ~ t.view
      <4>1. NumWeights \in Nat /\ (made + 1 <= NumWeights => made <= NumWeights)
        BY <1>2 DEF GpuAssumption
      <4>2. QED
        BY <1>2, <1>5, <4>1 DEF Steady
    <3> HIDE DEF U
    <3>3. QED
      BY <3>1, <3>2 DEF Steady
  <2>5. u \in Nat \X BOOLEAN /\ v \in Nat \X BOOLEAN
    BY <1>3
  <2>6. v = <<made + 1, TRUE>>
    OBVIOUS
  <2> HIDE DEF u, v, U
  <2>7. Sound(w, sat', U, made + 1) /\ Apart(w)
    BY <1>4, <2>1, <2>5, UploadedOf
  <2> HIDE DEF w
  <2>8. Sound(x, sat', U, made + 1) /\ Apart(x) /\ Free(x, n) /\ x.held[n] = v
    BY <2>5, <2>7, UploadedOf
  <2> HIDE DEF x, n
  <2>9. /\ Sound(KeptHalf(x, copy, n), sat', U, made + 1) /\ Apart(KeptHalf(x, copy, n))
        /\ <<copy, TRUE>> \in DOMAIN KeptHalf(x, copy, n).halves
    BY <2>2, <2>6, <2>8, HalvesOf
  <2>10. QED
    BY <1>1, <1>7, <2>1, <2>3, <2>4, <2>9 DEF GpuInv
<1>10. QED
  BY <1>8, <1>9 DEF PreprocessWeight

LEMMA ComputeKeeps ==
  ASSUME GpuAssumption, GpuInv, NEW a \in Addresses, Compute(a) PROVE GpuInv'
<1> DEFINE f == NewTensor(a)
           U == tensors \cup {f}
<1>1. a \notin Used /\ tensors' = U /\ made' = made + 1 /\ gpu' = gpu /\ read' = {} /\ Seated({a})
  BY DEF Compute
<1>2. Program(tensors, made, sat) /\ Steady(DOMAIN gpu.halves, tensors, made, sat)
  BY DEF GpuInv
<1>3. Program(U, made + 1, sat') /\ ~ f.view
  <2>1. a \in {a}
    OBVIOUS
  <2>2. QED
    BY <1>1, <1>2, <2>1, FreshOf
<1>4. Steady(DOMAIN gpu.halves, U, made + 1, sat')
  BY <1>1, <1>2, SteadyOf
<1> HIDE DEF f
<1>5. made \in Nat /\ made + 1 \in Nat /\ made <= made + 1
  BY NewId DEF GpuInv
<1>6. Sound(gpu, sat, tensors, made) /\ Apart(gpu)
  BY DEF GpuInv
<1>7. Sound(gpu, sat', U, made + 1)
  <2>1. \A x \in Addresses : sat[x] \subseteq sat'[x]
    BY <1>1, SeatedOf
  <2>2. \A t \in U : t.view => t \in tensors \/ t.id \notin 1 .. made
    BY <1>3
  <2> HIDE DEF U
  <2>3. QED
    BY <1>5, <1>6, <2>1, <2>2, WiderOf
<1> HIDE DEF U
<1>8. ReadsRight'
  BY <1>1, NoReads
<1>9. QED
  BY <1>1, <1>3, <1>4, <1>6, <1>7, <1>8 DEF GpuInv

LEMMA TransposeKeeps ==
  ASSUME GpuAssumption, GpuInv, NEW t \in tensors, Transpose(t) PROVE GpuInv'
<1> DEFINE f == [t EXCEPT !.id = made + 1, !.view = TRUE]
           U == tensors \cup {f}
<1>1. /\ ~ t.view /\ made >= NumWeights /\ tensors' = U /\ made' = made + 1 /\ gpu' = gpu
      /\ read' = {} /\ sat' = sat
  BY DEF Transpose
<1>2. made \in Nat /\ made + 1 \in Nat /\ made <= made + 1 /\ made + 1 \in 1 .. made + 1 /\ made + 1 \notin 1 .. made
  BY NewId DEF GpuInv
<1>3. \A i \in 1 .. made : i \in 1 .. made + 1
  BY <1>2
<1>4. Program(tensors, made, sat) /\ tensors \subseteq [id : 1 .. made, at : Addresses, of : 1 .. made, view : BOOLEAN]
  BY DEF GpuInv, Program
<1>5. f.id = made + 1 /\ f.at = t.at /\ f.of = t.of /\ f.view = TRUE
  BY <1>4
<1>6. f \in [id : 1 .. made + 1, at : Addresses, of : 1 .. made + 1, view : BOOLEAN]
  BY <1>2, <1>3, <1>4
<1> HIDE DEF f
<1>7. \A s \in tensors : /\ s \in [id : 1 .. made + 1, at : Addresses, of : 1 .. made + 1, view : BOOLEAN]
                         /\ s.id # made + 1
  <2>1. ASSUME NEW s \in tensors
        PROVE  /\ s \in [id : 1 .. made + 1, at : Addresses, of : 1 .. made + 1, view : BOOLEAN]
               /\ s.id # made + 1
    <3>1. s \in [id : 1 .. made, at : Addresses, of : 1 .. made, view : BOOLEAN]
      BY <1>4
    <3>2. s.id \in 1 .. made
      BY <3>1
    <3>3. s.id # made + 1
      BY <1>2, <3>2
    <3>4. s \in [id : 1 .. made + 1, at : Addresses, of : 1 .. made + 1, view : BOOLEAN]
      BY <1>3, <3>1
    <3>5. QED
      BY <3>3, <3>4
  <2>2. QED
    BY <2>1
<1>8. \A s, x \in U : (s.id = x.id => s = x) /\ (s.at = x.at <=> s.of = x.of)
  <2>1. \A s, x \in tensors : (s.id = x.id => s = x) /\ (s.at = x.at <=> s.of = x.of)
    BY <1>4 DEF Program
  <2>2. QED
    BY <1>5, <1>7, <2>1
<1>9. ASSUME NEW x \in U PROVE (x.view \/ x.of = x.id) /\ x.of \in sat[x.at]
  <2>1. CASE x \in tensors
    BY <1>4, <2>1 DEF Program
  <2>2. CASE x = f
    BY <1>4, <1>5, <2>2 DEF Program
  <2>3. QED
    BY <2>1, <2>2
<1>10. Program(U, made + 1, sat)
  BY <1>2, <1>6, <1>7, <1>8, <1>9 DEF Program
<1>11. Sound(gpu, sat, tensors, made) /\ Apart(gpu) /\ Steady(DOMAIN gpu.halves, tensors, made, sat)
  BY DEF GpuInv
<1>12. Sound(gpu, sat, U, made + 1)
  <2>1. \A x \in Addresses : sat[x] \subseteq sat[x]
    OBVIOUS
  <2>2. \A x \in U : x.view => x \in tensors \/ x.id \notin 1 .. made
    BY <1>2, <1>5
  <2> HIDE DEF U
  <2>3. QED
    BY <1>2, <1>11, <2>1, <2>2, WiderOf
<1>13. Steady(DOMAIN gpu.halves, U, made + 1, sat)
  <2>1. ~ (made + 1 <= NumWeights)
    BY <1>1, <1>2 DEF GpuAssumption
  <2>2. DOMAIN gpu.halves = {} => \A x \in U : x.of <= NumWeights => sat[x.at] = {x.of}
    BY <1>5, <1>11 DEF Steady
  <2> HIDE DEF U
  <2>3. QED
    BY <2>1, <2>2 DEF Steady
<1> HIDE DEF U
<1>14. ReadsRight'
  BY <1>1, NoReads
<1>15. QED
  BY <1>1, <1>10, <1>11, <1>12, <1>13, <1>14 DEF GpuInv

LEMMA DropKeeps ==
  ASSUME GpuAssumption, GpuInv, NEW t \in tensors, Drop(t) PROVE GpuInv'
<1> DEFINE U == tensors \ {t}
<1>1. /\ ~ (t.of <= NumWeights /\ ~ t.view) /\ tensors' = U /\ made' = made /\ gpu' = gpu
      /\ read' = {} /\ sat' = sat
  BY DEF Drop, Weight
<1>2. /\ Program(tensors, made, sat) /\ Sound(gpu, sat, tensors, made) /\ Apart(gpu) /\ made \in Nat
      /\ Steady(DOMAIN gpu.halves, tensors, made, sat)
  BY DEF GpuInv, Program
<1>3. Program(U, made, sat)
  BY <1>2 DEF Program
<1>4. Sound(gpu, sat, U, made)
  <2>1. \A x \in Addresses : sat[x] \subseteq sat[x]
    OBVIOUS
  <2>2. \A x \in U : x.view => x \in tensors \/ x.id \notin 1 .. made
    OBVIOUS
  <2>3. made <= made
    BY <1>2
  <2> HIDE DEF U
  <2>4. QED
    BY <1>2, <2>1, <2>2, <2>3, WiderOf
<1>5. Steady(DOMAIN gpu.halves, U, made, sat)
  <2>1. ~ (made <= NumWeights)
    <3>1. ASSUME made <= NumWeights PROVE FALSE
      <4>1. ~ t.view
        BY <1>2, <3>1 DEF Steady
      <4>2. t.of = t.id /\ t.id \in 1 .. made
        BY <1>2, <4>1 DEF Program
      <4>3. t.of <= NumWeights
        BY <1>2, <3>1, <4>2 DEF GpuAssumption
      <4>4. QED
        BY <1>1, <4>1, <4>3
    <3>2. QED
      BY <3>1
  <2>2. QED
    BY <1>2, <2>1 DEF Steady
<1> HIDE DEF U
<1>6. ReadsRight'
  BY <1>1, NoReads
<1>7. QED
  BY <1>1, <1>2, <1>3, <1>4, <1>5, <1>6 DEF GpuInv

\* A batch leaves no trace but its output buffer, which it gives back.
LEMMA BatchedKeeps ==
  ASSUME GpuInv, NEW x \in tensors, NEW y \in tensors, Batched(<<x, y>>),
         \A a \in Addresses : sat[a] \subseteq sat'[a]
  PROVE  Sound(gpu', sat, tensors, made) /\ Apart(gpu') /\ ReadsRight' /\ gpu'.halves = gpu.halves
<1> DEFINE p == Uploaded(gpu, Value(x))
           u == Uploaded(p, Value(y))
           b == OutputBuffer(u)
           h == AllocOutput(u)
           v == <<made + 1, FALSE>>
           k == Written(h, b, v)
<1>1. /\ read' = {Got(x, u.held[Len(u.held) - 1]), Got(y, u.held[Len(u.held)])}
      /\ gpu' = ReleaseOutput(k, b)
  BY DEF Batched, Written
<1>2. Program(tensors, made, sat) /\ Sound(gpu, sat, tensors, made) /\ Apart(gpu) /\ made \in Nat
  BY DEF GpuInv, Program
<1>3. Value(x) \in Nat \X BOOLEAN /\ Value(y) \in Nat \X BOOLEAN /\ v \in Nat \X BOOLEAN
  <2>1. /\ x \in [id : 1 .. made, at : Addresses, of : 1 .. made, view : BOOLEAN]
        /\ y \in [id : 1 .. made, at : Addresses, of : 1 .. made, view : BOOLEAN]
    BY <1>2 DEF Program
  <2>2. x.of \in Nat /\ x.view \in BOOLEAN /\ y.of \in Nat /\ y.view \in BOOLEAN
    BY <2>1
  <2>3. Value(x) \in Nat \X BOOLEAN
    BY <2>2 DEF Value
  <2>4. Value(y) \in Nat \X BOOLEAN
    BY <2>2 DEF Value
  <2>5. made + 1 \in Nat
    BY <1>2
  <2>6. v \in Nat \X BOOLEAN
    BY <2>5
  <2>7. QED
    BY <2>3, <2>4, <2>6
<1> HIDE DEF v
<1>4. /\ Sound(p, sat, tensors, made) /\ Apart(p) /\ Len(p.held) = Len(gpu.held) + 1
      /\ p.held[Len(gpu.held) + 1] = Value(x) /\ p.halves = gpu.halves
  BY <1>2, <1>3, UploadedOf
<1>5. Len(gpu.held) \in Nat
  BY <1>2 DEF Sound, Backend
<1> HIDE DEF p
<1>6. /\ Sound(u, sat, tensors, made) /\ Apart(u) /\ Len(u.held) = Len(p.held) + 1
      /\ u.held[Len(p.held) + 1] = Value(y) /\ \A c \in Buffers(p) : u.held[c] = p.held[c]
      /\ u.halves = p.halves
  <2> DEFINE y0 == Value(y)
  <2>1. y0 \in Nat \X BOOLEAN /\ Sound(p, sat, tensors, made) /\ Apart(p)
    BY <1>3, <1>4
  <2> HIDE DEF y0
  <2>2. Sound(Uploaded(p, y0), sat, tensors, made) /\ Apart(Uploaded(p, y0))
    BY <2>1, UploadedOf
  <2>3. Len(Uploaded(p, y0).held) = Len(p.held) + 1
    BY <2>1, UploadedOf
  <2>4. Uploaded(p, y0).held[Len(p.held) + 1] = y0
    BY <2>1, UploadedOf
  <2>5. \A c \in Buffers(p) : Uploaded(p, y0).held[c] = p.held[c]
    BY <2>1, UploadedOf
  <2>6. Uploaded(p, y0).halves = p.halves
    BY <2>1, UploadedOf
  <2>7. QED
    BY <2>2, <2>3, <2>4, <2>5, <2>6 DEF y0
<1> HIDE DEF u
<1>7. u.held[Len(u.held) - 1] = Value(x) /\ u.held[Len(u.held)] = Value(y)
  <2>1. Len(u.held) - 1 = Len(gpu.held) + 1 /\ Len(gpu.held) + 1 \in Buffers(p)
    BY <1>4, <1>5, <1>6 DEF Buffers
  <2>2. QED
    BY <1>4, <1>6, <2>1
<1>8. Sound(h, sat, tensors, made) /\ Apart(h) /\ b \in Nat /\ Free(h, b) /\ h.halves = u.halves
  BY <1>6, AllocOf
<1> HIDE DEF h, b
<1>9. Sound(k, sat, tensors, made) /\ Apart(k) /\ Free(k, b) /\ k.halves = h.halves
  BY <1>3, <1>8, WrittenOf
<1> HIDE DEF k
<1>10. /\ Sound(ReleaseOutput(k, b), sat, tensors, made) /\ Apart(ReleaseOutput(k, b))
       /\ ReleaseOutput(k, b).halves = k.halves
  BY <1>8, <1>9, ReleasedOf
<1>11. gpu'.halves = gpu.halves
  BY <1>1, <1>4, <1>6, <1>8, <1>9, <1>10
<1>12. ReadsRight'
  <2> DEFINE F == DOMAIN gpu.halves
  <2>1. Holds(Value(x), x, sat) /\ Holds(Value(y), y, sat)
    BY <1>2, HoldsItself
  <2>2. \A r \in read' : \E t \in tensors : \E c : r = Got(t, c) /\ Holds(c, t, sat)
    BY <1>1, <1>7, <2>1
  <2>3. Steady(F, tensors, made, sat) /\ F = DOMAIN gpu'.halves
    BY <1>11 DEF GpuInv
  <2> HIDE DEF F
  <2>4. QED
    BY <1>2, <2>2, <2>3, ReadsOf
<1>13. QED
  BY <1>1, <1>10, <1>11, <1>12

LEMMA OperationKeeps ==
  ASSUME GpuAssumption, GpuInv, NEW a \in Addresses, Operation(a) PROVE GpuInv'
<1> DEFINE f == NewTensor(a)
           U == tensors \cup {f}
<1>1. a \notin Used /\ tensors' = U /\ made' = made + 1 /\ Seated({a})
  BY DEF Operation
<1>2. /\ Program(tensors, made, sat) /\ Sound(gpu, sat, tensors, made) /\ Apart(gpu) /\ made \in Nat
      /\ Steady(DOMAIN gpu.halves, tensors, made, sat)
  BY DEF GpuInv, Program
<1>3. Program(U, made + 1, sat') /\ ~ f.view
  <2>1. a \in {a}
    OBVIOUS
  <2>2. QED
    BY <1>1, <1>2, <2>1, FreshOf
<1>4. Steady(DOMAIN gpu.halves, U, made + 1, sat')
  BY <1>1, <1>2, SteadyOf
<1> HIDE DEF f
<1>5. \A x \in Addresses : sat[x] \subseteq sat'[x]
  BY <1>1, SeatedOf
<1>6. Sound(gpu', sat, tensors, made + 1) /\ Apart(gpu') /\ ReadsRight' /\ gpu'.halves = gpu.halves
  <2>1. PICK x \in tensors, y \in tensors :
          \/ Elementwise(<<x>>, a)
          \/ Elementwise(<<x, y>>, a)
          \/ \E one \in BOOLEAN : Matmul(<<x, y>>, one)
          \/ Batched(<<x, y>>)
    BY DEF Operation
  <2>2. CASE Elementwise(<<x>>, a)
    <3> DEFINE o == Operands(gpu, <<x>>)
               ts == <<x>>
    <3>1. /\ Sound(o.gpu, sat, tensors, made) /\ Apart(o.gpu) /\ o.gpu.halves = gpu.halves
          /\ \A i \in DOMAIN ts : o.bufs[i] \in Buffers(o.gpu) /\ Holds(o.gpu.held[o.bufs[i]], ts[i], sat)
      BY <1>2, OneOperand
    <3>2. Dispatched(o.gpu, o.bufs, ts, made + 1)
      BY <2>2 DEF Elementwise
    <3>3. \A i \in DOMAIN ts : ts[i] \in tensors
      OBVIOUS
    <3>4. Steady(DOMAIN o.gpu.halves, tensors, made, sat)
      BY <1>2, <3>1
    <3> HIDE DEF o, ts
    <3>5. QED
      BY <1>2, <1>5, <3>1, <3>2, <3>3, <3>4, DispatchedOf
  <2> DEFINE o == Operands(gpu, <<x, y>>)
             ts == <<x, y>>
  <2>3. /\ Sound(o.gpu, sat, tensors, made) /\ Apart(o.gpu) /\ o.gpu.halves = gpu.halves
        /\ \A i \in DOMAIN ts : o.bufs[i] \in Buffers(o.gpu) /\ Holds(o.gpu.held[o.bufs[i]], ts[i], sat)
    BY <1>2, TwoOperands
  <2>4. Steady(DOMAIN o.gpu.halves, tensors, made, sat)
    BY <1>2, <2>3
  <2>5. \A i \in DOMAIN ts : ts[i] \in tensors
    OBVIOUS
  <2>6. ASSUME NEW bufs, Dispatched(o.gpu, bufs, ts, made + 1),
               \A i \in DOMAIN ts : bufs[i] \in Buffers(o.gpu) /\ Holds(o.gpu.held[bufs[i]], ts[i], sat)
        PROVE  Sound(gpu', sat, tensors, made + 1) /\ Apart(gpu') /\ ReadsRight' /\ gpu'.halves = gpu.halves
    <3> HIDE DEF o, ts
    <3>1. gpu'.halves = o.gpu.halves /\ Sound(gpu', sat, tensors, made + 1) /\ Apart(gpu') /\ ReadsRight'
      BY <1>2, <1>5, <2>3, <2>4, <2>5, <2>6, DispatchedOf
    <3>2. QED
      BY <2>3, <3>1
  <2>7. CASE Elementwise(<<x, y>>, a)
    <3>1. Dispatched(o.gpu, o.bufs, ts, made + 1)
      BY <2>7 DEF Elementwise
    <3> HIDE DEF o, ts
    <3>2. QED
      BY <2>3, <2>6, <3>1
  <2>8. ASSUME NEW one \in BOOLEAN, Matmul(<<x, y>>, one)
        PROVE  Sound(gpu', sat, tensors, made + 1) /\ Apart(gpu') /\ ReadsRight' /\ gpu'.halves = gpu.halves
    <3> DEFINE key == Key(ts[2])
               bufs == <<o.bufs[1], o.gpu.halves[key]>>
    <3>1. CASE one /\ key \in DOMAIN o.gpu.halves
      <4>1. Dispatched(o.gpu, bufs, ts, made + 1)
        BY <2>8, <3>1 DEF Matmul
      <4>2. o.gpu.halves[key] \in Buffers(o.gpu) /\ Seen(sat, key, o.gpu.held[o.gpu.halves[key]])
        BY <2>3, <3>1 DEF Sound, Remembers
      <4>0. PICK b \in Addresses : \E c \in sat[b] : key = <<b, TRUE>> /\ o.gpu.held[o.gpu.halves[key]] = <<c, TRUE>>
        BY <4>2 DEF Seen
      <4>3. PICK c \in sat[b] : key = <<b, TRUE>> /\ o.gpu.held[o.gpu.halves[key]] = <<c, TRUE>>
        BY <4>0
      <4>4. ts[2] = y /\ DOMAIN ts = {1, 2}
        OBVIOUS
      <4>5. key = <<y.at, y.view>>
        BY <4>4 DEF Key
      <4>6. b = y.at /\ y.view = TRUE
        <5> HIDE DEF key
        <5>1. <<b, TRUE>> = <<y.at, y.view>>
          BY <4>3, <4>5
        <5>2. <<b, TRUE>>[1] = b /\ <<b, TRUE>>[2] = TRUE /\ <<y.at, y.view>>[1] = y.at
              /\ <<y.at, y.view>>[2] = y.view
          OBVIOUS
        <5>3. QED
          BY <5>1, <5>2
      <4>7. Holds(o.gpu.held[o.gpu.halves[key]], ts[2], sat)
        BY <4>3, <4>4, <4>6 DEF Holds
      <4>8. bufs[1] = o.bufs[1] /\ bufs[2] = o.gpu.halves[key]
        OBVIOUS
      <4> HIDE DEF bufs, key, o, ts
      <4>9. \A i \in DOMAIN ts : bufs[i] \in Buffers(o.gpu) /\ Holds(o.gpu.held[bufs[i]], ts[i], sat)
        BY <2>3, <4>2, <4>4, <4>7, <4>8
      <4>10. QED
        BY <2>6, <4>1, <4>9
    <3>2. CASE ~ (one /\ key \in DOMAIN o.gpu.halves)
      <4>1. Dispatched(o.gpu, o.bufs, ts, made + 1)
        BY <2>8, <3>2 DEF Matmul
      <4> HIDE DEF o, ts
      <4>2. QED
        BY <2>3, <2>6, <4>1
    <3>3. QED
      BY <3>1, <3>2
  <2>9. CASE Batched(<<x, y>>)
    <3>1. Sound(gpu', sat, tensors, made) /\ Apart(gpu') /\ ReadsRight' /\ gpu'.halves = gpu.halves
      BY <1>5, <2>9, BatchedKeeps
    <3>2. made + 1 \in Nat /\ made <= made + 1
      BY <1>2
    <3>3. (\A z \in Addresses : sat[z] \subseteq sat[z]) /\ \A t \in tensors : t.view => t \in tensors \/ t.id \notin 1 .. made
      OBVIOUS
    <3>4. Sound(gpu', sat, tensors, made + 1)
      BY <1>2, <3>1, <3>2, <3>3, WiderOf
    <3>5. QED
      BY <3>1, <3>4
  <2> HIDE DEF o, ts
  <2>10. QED
    BY <2>1, <2>2, <2>7, <2>8, <2>9
<1>7. Sound(gpu', sat', U, made + 1)
  <2>1. \A t \in U : t.view => t \in tensors \/ t.id \notin 1 .. made + 1
    BY <1>3
  <2>2. made + 1 \in Nat /\ made + 1 <= made + 1
    BY <1>2
  <2> HIDE DEF U
  <2>3. QED
    BY <1>5, <1>6, <2>1, <2>2, WiderOf
<1> HIDE DEF U
<1>8. QED
  BY <1>1, <1>3, <1>4, <1>6, <1>7 DEF GpuInv

LEMMA GpuStarts == GpuInit => GpuInv
<1> SUFFICES ASSUME GpuInit PROVE GpuInv
  OBVIOUS
<1>1. tensors = {} /\ made = 0 /\ gpu = NoBuffers /\ read = {} /\ sat = [a \in Addresses |-> {}]
  BY DEF GpuInit
<1>2. /\ gpu.held = <<>> /\ gpu.pool = <<>> /\ gpu.acts = <<>> /\ gpu.byId = None
      /\ gpu.views = None /\ gpu.halves = None
  BY <1>1 DEF NoBuffers
<1>3. DOMAIN None = {} /\ CachedActs(gpu) = {} /\ 1 .. Len(gpu.pool) = {}
  BY <1>2 DEF None, CachedActs
<1>4. Backend(gpu)
  BY <1>1, <1>2 DEF Backend, NoBuffers
<1>5. Program(tensors, made, sat) /\ Steady(DOMAIN gpu.halves, tensors, made, sat)
  BY <1>1 DEF Program, Steady
<1>6. Sound(gpu, sat, tensors, made)
  BY <1>1, <1>2, <1>3, <1>4 DEF Sound, Remembers
<1>7. Apart(gpu)
  BY <1>2, <1>3 DEF Apart, InPool, InActs
<1>8. QED
  BY <1>1, <1>5, <1>6, <1>7 DEF GpuInv, ReadsRight

LEMMA GpuKeeps ==
  ASSUME GpuAssumption PROVE GpuInv /\ [GpuNext]_gpuvars => GpuInv'
<1> SUFFICES ASSUME GpuInv, [GpuNext]_gpuvars PROVE GpuInv'
  OBVIOUS
<1>1. CASE UNCHANGED gpuvars
  BY <1>1 DEF gpuvars, GpuInv, ReadsRight
<1>2. ASSUME NEW a \in Addresses, PreprocessWeight(a) PROVE GpuInv'
  BY <1>2, PreprocessKeeps
<1>3. ASSUME NEW a \in Addresses, Compute(a) PROVE GpuInv'
  BY <1>3, ComputeKeeps
<1>4. ASSUME NEW a \in Addresses, Operation(a) PROVE GpuInv'
  BY <1>4, OperationKeeps
<1>5. ASSUME NEW t \in tensors, Transpose(t) PROVE GpuInv'
  BY <1>5, TransposeKeeps
<1>6. ASSUME NEW t \in tensors, Drop(t) PROVE GpuInv'
  BY <1>6, DropKeeps
<1>7. QED
  BY <1>1, <1>2, <1>3, <1>4, <1>5, <1>6 DEF GpuNext

\* The buffers of the pool are as many as its places.
LEMMA GpuCurrent == GpuInv => Current
<1> SUFFICES ASSUME GpuInv PROVE Owned
  BY DEF GpuInv, Current
<1> DEFINE cached == {gpu.acts[i].buf : i \in DOMAIN gpu.acts}
           kept == {gpu.byId[i] : i \in DOMAIN gpu.byId} \cup {gpu.views[k] : k \in DOMAIN gpu.views}
                   \cup {gpu.halves[k] : k \in DOMAIN gpu.halves}
           free == {gpu.pool[i] : i \in DOMAIN gpu.pool}
           n == Len(gpu.pool)
<1>1. Apart(gpu) /\ Backend(gpu)
  BY DEF GpuInv, Sound
<1>2. n \in Nat /\ DOMAIN gpu.pool = 1 .. n /\ DOMAIN gpu.acts = CachedActs(gpu)
  BY <1>1 DEF Backend, CachedActs
<1>3. \A b : b \in free <=> InPool(gpu, b)
  BY <1>2 DEF InPool
<1>4. \A b : b \in cached <=> InActs(gpu, b)
  BY <1>2 DEF InActs
<1>5. \A b : b \in kept <=> Kept(gpu, b)
  BY <1>2 DEF Kept
<1>6. Cardinality(free) = n
  <2> DEFINE q == [i \in 1 .. n |-> gpu.pool[i]]
  <2>1. q \in Bijection(1 .. n, free)
    <3>1. q \in [1 .. n -> free]
      BY <1>2
    <3>2. \A i, j \in 1 .. n : q[i] = q[j] => i = j
      BY <1>1 DEF Apart
    <3>3. \A b \in free : \E i \in 1 .. n : q[i] = b
      BY <1>2
    <3> HIDE DEF q, free, n
    <3>4. QED
      BY <3>1, <3>2, <3>3 DEF Bijection, Injection, Surjection, IsInjective
  <2> HIDE DEF q, free
  <2>2. ExistsBijection(1 .. n, free)
    BY <2>1 DEF ExistsBijection
  <2>3. IsFiniteSet(1 .. n) /\ Cardinality(1 .. n) = n
    BY <1>2, FS_Interval
  <2>4. QED
    BY <2>2, <2>3, FS_Bijection
<1> HIDE DEF free, cached, kept
<1>7. free \cap (cached \cup kept) = {}
  BY <1>1, <1>3, <1>4, <1>5 DEF Apart
<1>8. cached \cap kept = {}
  BY <1>1, <1>4, <1>5 DEF Apart
<1>9. QED
  BY <1>6, <1>7, <1>8 DEF Owned, free, cached, kept

\* A dispatch reads what its contiguous operands and, without F16 weights, the views of
\* weights hold; of any other view what one at its address holds or once held; and the
\* pool gives out only buffers that no cache still names (get_or_upload, f16_views,
\* cache_activation, alloc_output, release_output).
THEOREM BuffersCurrent == ASSUME GpuAssumption PROVE GpuSpec => []Current
<1>1. QED
  BY GpuStarts, GpuKeeps, GpuCurrent, PTL DEF GpuSpec

-----------------------------------------------------------------------------
(* Attention: what the caches of each layer hold.                          *)

AttnLayers == 1 .. NumLayers
Taps       == Kernel
Span       == Smaller(SlidingWindow, MaxLen)
Tokens     == Nat \X Int

\* The tokens a layer has taken in: those of the pass at hand once it has run.
Taken(l) == IF feed > 0 /\ l < block THEN pos + feed ELSE pos

\* s is the end of the first n tokens of request t.
EndsAt(s, t, n) == Len(s) <= n /\ \A i \in 1 .. Len(s) : s[i] = <<t, n - Len(s) + i - 1>>

\* Token q of the request, or the padding before its first.
TokenAt(q) == IF q < 0 THEN Zero ELSE <<turn, q>>
Inputs(n)  == [j \in 1 .. Taps - 1 |-> TokenAt(n - Taps + j)]

AttnCounts ==
  /\ arch \in Archs /\ turn \in Nat /\ pos \in Nat /\ feed \in Nat /\ block \in AttnLayers
  /\ ok \in BOOLEAN
  /\ DOMAIN kv = AttnLayers /\ DOMAIN conv = AttnLayers /\ DOMAIN rec = AttnLayers
  /\ feed = 0 => block = 1
  /\ feed > 1 /\ pos > 0 => arch \in Chunked
  /\ feed > 0 /\ block > 1 /\ Layer(1).rope => pos + feed <= MaxLen

\* A layer of attention holds the last tokens: all of them, or the window at least.
KvHolds(l) ==
  /\ kv[l] \in Seq(Tokens) /\ EndsAt(kv[l], turn, Taken(l))
  /\ IF Layer(l).window THEN Len(kv[l]) >= Smaller(Taken(l), Span)
                             ELSE Len(kv[l]) = Taken(l)

\* A recurrent layer has absorbed all of them, its convolution the last ones.
RecHolds(l) ==
  /\ conv[l] = IF Taken(l) = 0 THEN <<>> ELSE Inputs(Taken(l))
  /\ rec[l] \in Seq(Tokens) /\ EndsAt(rec[l], turn, Taken(l)) /\ Len(rec[l]) = Taken(l)

LayerHolds(l) == IF Layer(l).mix = "delta" THEN RecHolds(l) ELSE KvHolds(l)

AttnHolds ==
  /\ AttnCounts /\ Causal /\ FailsAtLimit
  /\ ok => \A l \in AttnLayers : LayerHolds(l)

LEMMA AttnSizes ==
  ASSUME AttnAssumption
  PROVE  /\ NumLayers \in Nat \ {0} /\ 1 \in AttnLayers
         /\ MaxLen \in Nat \ {0} /\ SlidingWindow \in Nat \ {0}
         /\ Span \in Nat \ {0} /\ Span <= MaxLen
         /\ Taps \in Nat /\ Taps >= 2
  BY DEF AttnAssumption, SizeAssumption, AttnLayers, Span, Taps, Smaller

LEMMA LayerKinds ==
  /\ Full.mix = "softmax" /\ Full.window = FALSE /\ Full.rope = TRUE
  /\ Windowed.mix = "softmax" /\ Windowed.window = TRUE /\ Windowed.rope = TRUE
  /\ Gated.mix = "gated" /\ Gated.window = FALSE /\ Gated.rope = TRUE
  /\ Delta.mix = "delta" /\ Delta.window = FALSE /\ Delta.rope = FALSE
<1>1. Full = [mix |-> "softmax", window |-> FALSE, rope |-> TRUE]
  BY DEF Full
<1>2. /\ Windowed.mix = "softmax" /\ Windowed.window = TRUE /\ Windowed.rope = TRUE
      /\ Gated.mix = "gated" /\ Gated.window = FALSE /\ Gated.rope = TRUE
  BY <1>1 DEF Windowed, Gated
<1>3. Delta.mix = "delta" /\ Delta.window = FALSE /\ Delta.rope = FALSE
  BY <1>1 DEF Delta
<1>4. QED
  BY <1>1, <1>2, <1>3

\* Only plain layers are fed in chunks, a layer that keeps everything and rotates
\* nothing follows one that rotates, and a recurrent one has no window.
LEMMA LayersOf ==
  ASSUME AttnAssumption, arch \in Archs, NEW l \in AttnLayers
  PROVE  /\ Layer(l).mix # "softmax" \/ Layer(l).window => arch \notin Chunked
         /\ Layer(l).mix # "delta" /\ ~ Layer(l).window /\ ~ Layer(l).rope =>
              l > 1 /\ Layer(1).rope /\ arch \notin Chunked
         /\ Layer(l).mix = "delta" => ~ Layer(l).window /\ ~ Layer(l).rope
         /\ Layer(l).window \in BOOLEAN /\ Layer(l).rope \in BOOLEAN
<1>1. arch \in {"llama", "qwen2", "qwen3", "phi4", "falcon3", "olmo2", "mistral", "gemma3", "exaone4", "qwen3_5"}
  BY DEF AttnAssumption, LayerAssumption, Layouts
<1>2. arch \in Chunked => Layer(l) = Full
  BY DEF AttnAssumption, LayerAssumption, Layer, AttnLayers
<1>3. l \in 1 .. NumLayers /\ 1 \in 1 .. NumLayers
  BY AttnSizes DEF AttnLayers
<1>4. CASE arch \in {"llama", "qwen2", "qwen3", "phi4", "falcon3", "olmo2"}
  <2>1. Layouts[arch] = Llama
    BY <1>4 DEF Layouts, Qwen2, Qwen3, Phi4, Falcon3, Olmo2
  <2>3. Layer(l) = Full
    BY <1>3, <2>1 DEF Layer, Llama
  <2>2. QED
    BY <2>3 DEF Full
<1>5. CASE arch = "mistral"
  <2>1. Layer(l) = Windowed
    BY <1>3, <1>5 DEF Layer, Layouts, Mistral
  <2>2. QED
    BY <1>2, <2>1, LayerKinds
<1>6. CASE arch = "gemma3"
  <2>1. Layer(l) \in {Full, [Windowed EXCEPT !.rope = FALSE]}
    BY <1>3, <1>6 DEF Layer, Layouts, Gemma3
  <2> DEFINE e == [Windowed EXCEPT !.rope = FALSE]
  <2>3. e.mix = "softmax" /\ e.window = TRUE
    BY DEF Windowed, Full
  <2>4. e.rope = FALSE
    BY DEF Windowed, Full
  <2> HIDE DEF e
  <2>5. Layer(l) \in {Full, e}
    BY <2>1 DEF e
  <2>2. QED
    BY <1>2, <2>3, <2>4, <2>5, LayerKinds
<1>7. CASE arch = "exaone4"
  <2>1. Layer(l) = IF ExaoneGlobal(l) THEN [Full EXCEPT !.rope = FALSE] ELSE Windowed
    BY <1>3, <1>7 DEF Layer, Layouts, Exaone4
  <2>2. Layer(1) = IF ExaoneGlobal(1) THEN [Full EXCEPT !.rope = FALSE] ELSE Windowed
    BY <1>3, <1>7 DEF Layer, Layouts, Exaone4
  <2>3. Period > 1 /\ Period \in Nat
    BY <1>7 DEF AttnAssumption, LayerAssumption, SizeAssumption
  <2>4. ~ ExaoneGlobal(1)
    <3>1. 1 % Period = 1
      BY <2>3
    <3>2. QED
      BY <3>1 DEF ExaoneGlobal
  <2>5. ExaoneGlobal(l) => l > 1
    BY <1>3, <2>4
  <2>6. QED
    BY <1>2, <2>1, <2>2, <2>4, <2>5, LayerKinds DEF Full
<1>8. CASE arch = "qwen3_5"
  <2>1. Layer(l) \in {Gated, Delta}
    BY <1>3, <1>8 DEF Layer, Layouts, Qwen35
  <2>2. QED
    BY <1>2, <2>1, LayerKinds
<1>9. QED
  BY <1>1, <1>4, <1>5, <1>6, <1>7, <1>8

\* The last n elements of a sequence.
LEMMA LatestOf ==
  ASSUME NEW S, NEW s \in Seq(S), NEW n \in Nat \ {0}
  PROVE  /\ Latest(s, n) \in Seq(S)
         /\ Len(Latest(s, n)) = IF Len(s) > n THEN n ELSE Len(s)
         /\ \A i \in 1 .. Len(Latest(s, n)) :
              Latest(s, n)[i] = s[Len(s) - Len(Latest(s, n)) + i]
<1>1. CASE Len(s) > n
  <2> DEFINE a == Len(s) - n + 1
             t == SubSeq(s, a, Len(s))
  <2>1. Len(s) \in Nat /\ a \in 1 .. Len(s) + 1
    BY <1>1
  <2>2. \A i \in a .. Len(s) : s[i] \in S
    BY <2>1
  <2>3. /\ t \in Seq(S) /\ Len(t) = IF a <= Len(s) THEN Len(s) - a + 1 ELSE 0
        /\ \A i \in 1 .. Len(s) - a + 1 : t[i] = s[a + i - 1]
    BY <2>1, <2>2, SubSeqProperties
  <2>4. Len(t) = n /\ Len(s) - a + 1 = n
    BY <1>1, <2>1, <2>3
  <2>5. Latest(s, n) = t
    BY <1>1 DEF Latest
  <2>6. \A i \in 1 .. n : t[i] = s[Len(s) - n + i]
    <3>1. ASSUME NEW i \in 1 .. n PROVE a + i - 1 = Len(s) - n + i
      BY <2>1
    <3>2. QED
      BY <2>3, <2>4, <3>1
  <2> HIDE DEF t, a
  <2>7. QED
    BY <1>1, <2>3, <2>4, <2>5, <2>6
<1>2. CASE ~ (Len(s) > n)
  <2>1. Latest(s, n) = s
    BY <1>2 DEF Latest
  <2>2. \A i \in 1 .. Len(s) : s[i] = s[Len(s) - Len(s) + i]
    OBVIOUS
  <2>3. QED
    BY <1>2, <2>1, <2>2
<1>3. QED
  BY <1>1, <1>2

\* The tokens of the pass.
LEMMA TokensOf ==
  ASSUME AttnAssumption, AttnCounts
  PROVE  /\ Fresh \in Seq(Tokens) /\ Len(Fresh) = feed /\ DOMAIN Fresh = 1 .. feed
         /\ \A i \in 1 .. feed : Fresh[i] = <<turn, pos + i - 1>>
<1>1. turn \in Nat /\ pos \in Nat /\ feed \in Nat
  BY DEF AttnCounts
<1>2. \A i \in 1 .. feed : <<turn, pos + i - 1>> \in Tokens
  BY <1>1 DEF Tokens
<1>3. Fresh = [i \in 1 .. feed |-> <<turn, pos + i - 1>>]
  BY DEF Fresh
<1>4. Fresh \in Seq(Tokens)
  <2>1. Fresh \in [1 .. feed -> Tokens]
    BY <1>2, <1>3
  <2>2. QED
    BY <1>1, <2>1, SeqDef
<1>5. DOMAIN Fresh = 1 .. feed /\ \A i \in 1 .. feed : Fresh[i] = <<turn, pos + i - 1>>
  BY <1>3
<1>6. Len(Fresh) = feed
  BY <1>1, <1>4, <1>5
<1>7. QED
  BY <1>4, <1>5, <1>6

\* They follow the end of those before them.
LEMMA EndsWithFresh ==
  ASSUME AttnAssumption, AttnCounts, NEW s \in Seq(Tokens), EndsAt(s, turn, pos)
  PROVE  /\ s \o Fresh \in Seq(Tokens) /\ Len(s \o Fresh) = Len(s) + feed
         /\ EndsAt(s \o Fresh, turn, pos + feed)
<1> DEFINE f == Fresh
           c == s \o f
<1>1. f \in Seq(Tokens) /\ Len(f) = feed /\ \A i \in 1 .. feed : f[i] = <<turn, pos + i - 1>>
  BY TokensOf
<1>2. pos \in Nat /\ feed \in Nat /\ Len(s) \in Nat /\ Len(s) <= pos
  BY DEF AttnCounts, EndsAt
<1> HIDE DEF f
<1>3. /\ c \in Seq(Tokens) /\ Len(c) = Len(s) + Len(f)
      /\ \A i \in 1 .. Len(s) + Len(f) : c[i] = IF i <= Len(s) THEN s[i] ELSE f[i - Len(s)]
  BY <1>1, ConcatProperties
<1> HIDE DEF c
<1>4. ASSUME NEW i \in 1 .. Len(c) PROVE c[i] = <<turn, pos + feed - Len(c) + i - 1>>
  <2>1. pos + feed - Len(c) + i - 1 = pos - Len(s) + i - 1
    BY <1>1, <1>2, <1>3
  <2>2. CASE i <= Len(s)
    <3>1. c[i] = s[i] /\ i \in 1 .. Len(s)
      BY <1>2, <1>3, <2>2
    <3>2. s[i] = <<turn, pos - Len(s) + i - 1>>
      BY <3>1 DEF EndsAt
    <3>3. QED
      BY <2>1, <3>1, <3>2
  <2>3. CASE ~ (i <= Len(s))
    <3>1. c[i] = f[i - Len(s)] /\ i - Len(s) \in 1 .. feed
      BY <1>1, <1>2, <1>3, <2>3
    <3>2. f[i - Len(s)] = <<turn, pos + (i - Len(s)) - 1>>
      BY <1>1, <3>1
    <3>3. pos + (i - Len(s)) - 1 = pos - Len(s) + i - 1
      BY <1>2
    <3>4. QED
      BY <2>1, <3>1, <3>2, <3>3
  <2>4. QED
    BY <2>2, <2>3
<1>5. Len(c) <= pos + feed
  BY <1>1, <1>2, <1>3
<1>6. EndsAt(c, turn, pos + feed)
  BY <1>1, <1>2, <1>3, <1>4, <1>5 DEF EndsAt
<1>7. QED
  BY <1>1, <1>3, <1>6 DEF c, f

\* Cutting off old tokens leaves an end.
LEMMA EndsLatest ==
  ASSUME NEW s \in Seq(Tokens), NEW t, NEW n \in Nat, NEW m \in Nat \ {0}, EndsAt(s, t, n)
  PROVE  EndsAt(Latest(s, m), t, n)
<1> DEFINE a == Latest(s, m)
<1>1. /\ a \in Seq(Tokens) /\ Len(a) = IF Len(s) > m THEN m ELSE Len(s)
      /\ \A i \in 1 .. Len(a) : a[i] = s[Len(s) - Len(a) + i]
  BY LatestOf
<1> HIDE DEF a
<1>2. Len(a) \in Nat /\ Len(s) \in Nat /\ Len(a) <= Len(s) /\ Len(s) <= n
  BY <1>1 DEF EndsAt
<1>3. ASSUME NEW i \in 1 .. Len(a) PROVE a[i] = <<t, n - Len(a) + i - 1>>
  <2>1. Len(s) - Len(a) + i \in 1 .. Len(s)
    BY <1>2
  <2>2. s[Len(s) - Len(a) + i] = <<t, n - Len(s) + (Len(s) - Len(a) + i) - 1>>
    BY <2>1 DEF EndsAt
  <2>3. n - Len(s) + (Len(s) - Len(a) + i) - 1 = n - Len(a) + i - 1
    BY <1>2
  <2>4. QED
    BY <1>1, <2>2, <2>3
<1>4. QED
  BY <1>2, <1>3 DEF EndsAt, a

\* process_kv: the cache of an attention layer after its step.
LEMMA ProcessKvOf ==
  ASSUME AttnAssumption, AttnCounts, NEW l \in AttnLayers, KvHolds(l), Taken(l) = pos, feed > 0
  PROVE  LET c == ProcessKv(l)
         IN  /\ c \in Seq(Tokens) /\ EndsAt(c, turn, pos + feed)
             /\ pos = 0 => Len(c) = feed
             /\ Layer(l).window =>
                  /\ Len(c) >= Smaller(pos + feed, Span)
                  /\ feed = 1 => Len(c) = Smaller(pos + 1, Span)
             /\ ~ Layer(l).window /\ pos + feed <= MaxLen => Len(c) = pos + feed
<1> DEFINE c == ProcessKv(l)
           f == Fresh
           s == kv[l] \o f
           m == Limit(l)
<1>1. pos \in Nat /\ feed \in Nat /\ Len(kv[l]) \in Nat /\ Len(kv[l]) <= pos /\ kv[l] \in Seq(Tokens)
  BY DEF AttnCounts, KvHolds, EndsAt
<1>2. /\ Layer(l).window => Len(kv[l]) >= Smaller(pos, Span)
      /\ ~ Layer(l).window => Len(kv[l]) = pos
  BY DEF KvHolds
<1>3. kv[l] = <<>> <=> pos = 0
  <2>1. kv[l] = <<>> <=> Len(kv[l]) = 0
    BY <1>1, EmptySeq
  <2>2. Len(kv[l]) = 0 <=> pos = 0
    BY <1>1, <1>2, AttnSizes DEF Smaller
  <2>3. QED
    BY <2>1, <2>2
<1>4. /\ m \in Nat \ {0}
      /\ m = IF Layer(l).window THEN Span ELSE MaxLen
  BY AttnSizes DEF Limit, Span
<1>5. f \in Seq(Tokens) /\ Len(f) = feed /\ EndsAt(f, turn, pos + feed)
  <2>1. f \in Seq(Tokens) /\ Len(f) = feed /\ \A i \in 1 .. feed : f[i] = <<turn, pos + i - 1>>
    BY TokensOf
  <2> HIDE DEF f
  <2>2. \A i \in 1 .. feed : pos + feed - feed + i - 1 = pos + i - 1
    BY <1>1
  <2>3. QED
    BY <1>1, <2>1, <2>2 DEF EndsAt
<1>6. s \in Seq(Tokens) /\ Len(s) = Len(kv[l]) + feed /\ EndsAt(s, turn, pos + feed)
  <2>1. EndsAt(kv[l], turn, pos)
    BY DEF KvHolds
  <2>2. QED
    BY <1>1, <2>1, EndsWithFresh
<1>7. c = IF pos = 0 THEN f ELSE Latest(s, m)
  BY <1>3 DEF ProcessKv
<1> HIDE DEF c, f, m, s
<1>8. CASE pos = 0
  <2>1. c = f
    BY <1>7, <1>8
  <2>2. Len(c) = feed
    BY <1>5, <2>1
  <2>3. Len(c) >= Smaller(pos + feed, Span) /\ (feed = 1 => Len(c) = Smaller(pos + 1, Span))
    BY <1>1, <1>8, <2>2, AttnSizes DEF Smaller
  <2>4. Len(c) = pos + feed
    BY <1>1, <1>8, <2>2
  <2>5. QED
    BY <1>5, <2>1, <2>2, <2>3, <2>4 DEF c
<1>9. CASE pos # 0
  <2>1. c = Latest(s, m)
    BY <1>7, <1>9
  <2>2. Latest(s, m) \in Seq(Tokens) /\ Len(Latest(s, m)) = IF Len(s) > m THEN m ELSE Len(s)
    BY <1>4, <1>6, LatestOf
  <2>3. c \in Seq(Tokens) /\ Len(c) = IF Len(s) > m THEN m ELSE Len(s)
    BY <2>1, <2>2
  <2>4. EndsAt(c, turn, pos + feed)
    BY <1>1, <1>4, <1>6, <2>1, EndsLatest
  <2>5. Layer(l).window =>
          /\ Len(c) >= Smaller(pos + feed, Span)
          /\ feed = 1 => Len(c) = Smaller(pos + 1, Span)
    <3>1. SUFFICES ASSUME Layer(l).window
                   PROVE  /\ Len(c) >= Smaller(pos + feed, Span)
                          /\ feed = 1 => Len(c) = Smaller(pos + 1, Span)
      OBVIOUS
    <3>2. m = Span /\ Len(kv[l]) >= Smaller(pos, Span)
      BY <1>2, <1>4, <3>1
    <3>3. /\ pos \in Nat /\ feed \in Nat /\ feed > 0 /\ Span \in Nat /\ Span > 0
          /\ Len(kv[l]) \in Nat /\ Len(kv[l]) <= pos /\ Len(s) = Len(kv[l]) + feed
          /\ Len(kv[l]) >= IF pos < Span THEN pos ELSE Span
          /\ Len(c) = IF Len(s) > Span THEN Span ELSE Len(s)
      BY <1>1, <1>6, <2>3, <3>2, AttnSizes DEF Smaller
    <3>4. CASE pos < Span
      BY <3>3, <3>4 DEF Smaller
    <3>5. CASE ~ (pos < Span)
      BY <3>3, <3>5 DEF Smaller
    <3>6. QED
      BY <3>4, <3>5
  <2>6. ~ Layer(l).window /\ pos + feed <= MaxLen => Len(c) = pos + feed
    <3>1. SUFFICES ASSUME ~ Layer(l).window, pos + feed <= MaxLen
                   PROVE  Len(c) = pos + feed
      OBVIOUS
    <3>2. m = MaxLen /\ Len(s) = pos + feed
      BY <1>2, <1>4, <1>6, <3>1
    <3>3. QED
      BY <1>1, <1>4, <2>3, <3>1, <3>2
  <2>7. QED
    BY <1>9, <2>3, <2>4, <2>5, <2>6 DEF c
<1>10. QED
  BY <1>8, <1>9

\* A row of attention over the end of the request: where the mask begins and ends.
Between(a, b) == {<<turn, q>> : q \in a .. b}

LEMMA RowOf ==
  ASSUME AttnAssumption, AttnCounts, NEW c \in Seq(Tokens), EndsAt(c, turn, pos + feed), NEW i \in 1 .. feed,
         Len(c) >= feed
  PROVE  Row(c, i) = Between(pos + feed - Len(c), pos + i - 1)
<1>1. pos \in Nat /\ feed \in Nat /\ Len(c) \in Nat /\ Len(c) <= pos + feed /\ i \in Nat /\ i >= 1 /\ i <= feed
  BY DEF AttnCounts, EndsAt
<1>2. Row(c, i) = {c[j] : j \in {k \in 1 .. Len(c) : k <= Len(c) - feed + i}}
  <2>1. \A k \in 1 .. Len(c) : (feed = 1 \/ k <= Len(c) - feed + i) <=> k <= Len(c) - feed + i
    BY <1>1
  <2>2. {k \in 1 .. Len(c) : feed = 1 \/ k <= Len(c) - feed + i} = {k \in 1 .. Len(c) : k <= Len(c) - feed + i}
    BY <2>1
  <2>3. QED
    BY <2>2 DEF Row
<1>3. \A j \in 1 .. Len(c) : c[j] = <<turn, pos + feed - Len(c) + j - 1>>
  BY <1>1 DEF EndsAt
<1>4. ASSUME NEW x \in Row(c, i) PROVE x \in Between(pos + feed - Len(c), pos + i - 1)
  <2>1. PICK j \in 1 .. Len(c) : j <= Len(c) - feed + i /\ x = c[j]
    BY <1>2
  <2>2. pos + feed - Len(c) + j - 1 \in pos + feed - Len(c) .. pos + i - 1
    BY <1>1, <2>1
  <2>3. QED
    BY <1>3, <2>1, <2>2 DEF Between
<1>5. ASSUME NEW x \in Between(pos + feed - Len(c), pos + i - 1) PROVE x \in Row(c, i)
  <2>1. PICK q \in pos + feed - Len(c) .. pos + i - 1 : x = <<turn, q>>
    BY DEF Between
  <2> DEFINE j == q - (pos + feed - Len(c)) + 1
  <2>2. /\ j \in 1 .. Len(c) /\ j <= Len(c) - feed + i
        /\ pos + feed - Len(c) + j - 1 = q
    BY <1>1
  <2> HIDE DEF j
  <2>3. c[j] = x
    BY <1>3, <2>1, <2>2
  <2>4. QED
    BY <1>2, <2>2, <2>3
<1>6. QED
  BY <1>4, <1>5

\* A tuple of inputs, element by element.
LEMMA InputsOf ==
  ASSUME AttnAssumption, NEW n \in Int, turn \in Nat
  PROVE  /\ Inputs(n) \in Seq(Tokens) /\ Len(Inputs(n)) = Taps - 1
         /\ \A j \in 1 .. Taps - 1 : Inputs(n)[j] = TokenAt(n - Taps + j)
<1>1. Taps - 1 \in Nat /\ Taps \in Nat
  BY AttnSizes
<1>2. \A j \in 1 .. Taps - 1 : TokenAt(n - Taps + j) \in Tokens
  BY <1>1 DEF TokenAt, Tokens, Zero
<1> DEFINE s == Inputs(n)
<1>3. s = [j \in 1 .. Taps - 1 |-> TokenAt(n - Taps + j)]
  BY DEF Inputs
<1> HIDE DEF s
<1>4. s \in [1 .. Taps - 1 -> Tokens] /\ \A j \in 1 .. Taps - 1 : s[j] = TokenAt(n - Taps + j)
  BY <1>2, <1>3
<1>5. s \in Seq(Tokens)
  BY <1>1, <1>4, SeqDef
<1>6. Len(s) = Taps - 1
  BY <1>1, <1>4, <1>5
<1>7. QED
  BY <1>4, <1>5, <1>6 DEF s

\* The convolution runs over the last tokens before the pass, then those of the pass.
LEMMA LineOf ==
  ASSUME AttnAssumption, AttnCounts, NEW l \in AttnLayers, feed > 0, feed > 1 => pos = 0,
         conv[l] = IF pos = 0 THEN <<>> ELSE Inputs(pos)
  PROVE  /\ Line(l) \in Seq(Tokens) /\ Len(Line(l)) = Taps - 1 + feed
         /\ \A m \in 1 .. Taps - 1 + feed : Line(l)[m] = TokenAt(pos - Taps + m)
<1>1. turn \in Nat /\ pos \in Nat /\ feed \in Nat /\ Taps \in Nat /\ Taps >= 2
  BY AttnSizes DEF AttnCounts
<1> DEFINE h == Inputs(pos)
           f == Fresh
           c == h \o f
<1>2. h \in Seq(Tokens) /\ Len(h) = Taps - 1 /\ \A j \in 1 .. Taps - 1 : h[j] = TokenAt(pos - Taps + j)
  <2>1. pos \in Int /\ turn \in Nat
    BY <1>1
  <2>2. QED
    BY <2>1, InputsOf
<1>3. f \in Seq(Tokens) /\ Len(f) = feed /\ \A i \in 1 .. feed : f[i] = <<turn, pos + i - 1>>
  BY TokensOf
<1>4. pos = 0 => Zeros = h
  <2>1. ASSUME pos = 0, NEW j \in 1 .. Taps - 1 PROVE TokenAt(pos - Taps + j) = Zero
    BY <1>1, <2>1 DEF TokenAt
  <2>2. pos = 0 => h = [j \in 1 .. Taps - 1 |-> Zero]
    BY <2>1 DEF Inputs
  <2>3. QED
    BY <2>2 DEF Zeros, Taps
<1> HIDE DEF h, f
<1>5. pos # 0 => conv[l] = h /\ conv[l] # <<>>
  <2>1. h # <<>>
    BY <1>1, <1>2, EmptySeq
  <2>2. QED
    BY <2>1 DEF h
<1>6. Line(l) = c
  <2>1. CASE feed = 1
    <3>1. (IF conv[l] = <<>> THEN Zeros ELSE conv[l]) = h
      BY <1>4, <1>5
    <3>2. QED
      BY <2>1, <3>1 DEF Line, ConvStep, f
  <2>2. CASE feed # 1
    <3>1. Zeros = h
      BY <1>1, <1>4, <2>2
    <3>2. QED
      BY <2>2, <3>1 DEF Line, ConvSeq, f
  <2>3. QED
    BY <2>1, <2>2
<1>7. /\ c \in Seq(Tokens) /\ Len(c) = Len(h) + Len(f)
      /\ \A i \in 1 .. Len(h) + Len(f) : c[i] = IF i <= Len(h) THEN h[i] ELSE f[i - Len(h)]
  BY <1>2, <1>3, ConcatProperties
<1> HIDE DEF c
<1>8. ASSUME NEW m \in 1 .. Taps - 1 + feed PROVE c[m] = TokenAt(pos - Taps + m)
  <2>1. CASE m <= Taps - 1
    <3>1. m \in 1 .. Len(h) + Len(f) /\ m <= Len(h) /\ m \in 1 .. Taps - 1
      BY <1>1, <1>2, <1>3, <2>1
    <3>2. c[m] = h[m]
      BY <1>7, <3>1
    <3>3. QED
      BY <1>2, <3>1, <3>2
  <2>2. CASE ~ (m <= Taps - 1)
    <3>1. c[m] = f[m - (Taps - 1)] /\ m - (Taps - 1) \in 1 .. feed
      BY <1>1, <1>2, <1>3, <1>7, <2>2
    <3>2. f[m - (Taps - 1)] = <<turn, pos + (m - (Taps - 1)) - 1>>
      BY <1>3, <3>1
    <3>3. pos + (m - (Taps - 1)) - 1 = pos - Taps + m /\ ~ (pos - Taps + m < 0)
      BY <1>1, <2>2
    <3>4. QED
      BY <3>1, <3>2, <3>3 DEF TokenAt
  <2>3. QED
    BY <2>1, <2>2
<1>9. QED
  BY <1>2, <1>3, <1>6, <1>7, <1>8

\* Its windows, and what it leaves for the next pass.
LEMMA WindowsOf ==
  ASSUME AttnAssumption, AttnCounts, NEW l \in AttnLayers, feed > 0, feed > 1 => pos = 0,
         conv[l] = IF pos = 0 THEN <<>> ELSE Inputs(pos)
  PROVE  /\ \A i \in 1 .. feed : SubSeq(Line(l), i, i + Taps - 1) = Behind(pos + i - 1)
         /\ Latest(Line(l), Taps - 1) = Inputs(pos + feed)
<1>1. turn \in Nat /\ pos \in Nat /\ feed \in Nat /\ Taps \in Nat /\ Taps >= 2
  BY AttnSizes DEF AttnCounts
<1> DEFINE c == Line(l)
<1>2. /\ c \in Seq(Tokens) /\ Len(c) = Taps - 1 + feed
      /\ \A m \in 1 .. Taps - 1 + feed : c[m] = TokenAt(pos - Taps + m)
  BY LineOf
<1> HIDE DEF c
<1>3. ASSUME NEW i \in 1 .. feed PROVE SubSeq(c, i, i + Taps - 1) = Behind(pos + i - 1)
  <2> DEFINE n == i + Taps - 1
             s == SubSeq(c, i, n)
             p == pos + i - 1
  <2>1. i \in Int /\ n \in Int /\ i .. n \subseteq 1 .. Len(c) /\ i <= n /\ n - i + 1 = Taps
    BY <1>1, <1>2
  <2>2. ASSUME NEW k \in 1 .. Taps
        PROVE  i + k - 1 \in 1 .. Taps - 1 + feed /\ pos - Taps + (i + k - 1) = p - Taps + k
    <3>1. k \in Nat /\ k >= 1 /\ k <= Taps /\ i \in Nat /\ i >= 1 /\ i <= feed
      BY <1>1
    <3>2. i + k - 1 \in 1 .. Taps - 1 + feed
      BY <1>1, <3>1
    <3>3. pos - Taps + (i + k - 1) = p - Taps + k
      BY <1>1, <3>1
    <3>4. QED
      BY <3>2, <3>3
  <2> HIDE DEF n, s, p
  <2>3. \A m \in i .. n : c[m] \in Tokens
    BY <1>2, <2>1, ElementOfSeq
  <2>4. /\ s \in Seq(Tokens) /\ Len(s) = IF i <= n THEN n - i + 1 ELSE 0
        /\ \A k \in 1 .. n - i + 1 : s[k] = c[i + k - 1]
    BY <2>1, <2>3, SubSeqProperties DEF s
  <2>5. s \in [1 .. Taps -> Tokens] /\ \A k \in 1 .. Taps : s[k] = c[i + k - 1]
    BY <2>1, <2>4, LenProperties
  <2>6. ASSUME NEW k \in 1 .. Taps PROVE s[k] = IF p - Taps + k < 0 THEN Zero ELSE <<turn, p - Taps + k>>
    <3>1. s[k] = TokenAt(pos - Taps + (i + k - 1))
      BY <1>2, <2>2, <2>5
    <3>2. s[k] = TokenAt(p - Taps + k)
      BY <2>2, <3>1
    <3>3. QED
      BY <3>2 DEF TokenAt
  <2>7. s = [k \in 1 .. Taps |-> IF p - Taps + k < 0 THEN Zero ELSE <<turn, p - Taps + k>>]
    BY <2>5, <2>6
  <2>8. s = Behind(p)
    BY <2>7 DEF Behind, Taps
  <2>9. QED
    BY <2>8 DEF s, n, p
<1>4. Latest(c, Taps - 1) = Inputs(pos + feed)
  <2> DEFINE t == Taps - 1
             a == Latest(c, t)
             b == Inputs(pos + feed)
             n == pos + feed
  <2>1. t \in Nat \ {0} /\ Len(c) > t /\ Len(c) - t = feed /\ Len(c) = t + feed /\ n \in Int
    BY <1>1, <1>2
  <2>2. ASSUME NEW j \in 1 .. t PROVE feed + j \in 1 .. t + feed /\ pos - Taps + (feed + j) = n - Taps + j
    BY <1>1
  <2>3. b \in Seq(Tokens) /\ Len(b) = t /\ \A j \in 1 .. t : b[j] = TokenAt(n - Taps + j)
    BY <1>1, <2>1, InputsOf
  <2>4. \A m \in 1 .. t + feed : c[m] = TokenAt(pos - Taps + m)
    BY <1>2
  <2> HIDE DEF t, b, n
  <2>5. /\ Latest(c, t) \in Seq(Tokens) /\ Len(Latest(c, t)) = IF Len(c) > t THEN t ELSE Len(c)
        /\ \A i \in 1 .. Len(Latest(c, t)) : Latest(c, t)[i] = c[Len(c) - Len(Latest(c, t)) + i]
    BY <1>2, <2>1, LatestOf
  <2> HIDE DEF a
  <2>6. a \in Seq(Tokens) /\ Len(a) = t /\ \A i \in 1 .. t : a[i] = c[Len(c) - t + i]
    BY <2>1, <2>5 DEF a
  <2>7. ASSUME NEW j \in 1 .. t PROVE a[j] = b[j]
    <3>1. a[j] = c[feed + j]
      BY <2>1, <2>6
    <3>2. c[feed + j] = TokenAt(pos - Taps + (feed + j))
      BY <2>2, <2>4
    <3>3. QED
      BY <2>2, <2>3, <3>1, <3>2
  <2>8. a = b
    BY <2>3, <2>6, <2>7, SeqEqual
  <2>9. QED
    BY <2>8 DEF a, b, t
<1>5. QED
  BY <1>3, <1>4 DEF c

\* A recurrent row has absorbed the tokens before the pass and those up to its own.
LEMMA AbsorbedOf ==
  ASSUME AttnAssumption, AttnCounts, NEW s \in Seq(Tokens), EndsAt(s, turn, pos), Len(s) = pos, NEW i \in 1 .. feed
  PROVE  ToSet(s) \cup ToSet(Oldest(Fresh, i)) = Upto(pos + i - 1)
<1>1. pos \in Nat /\ feed \in Nat /\ i \in Nat /\ i >= 1 /\ i <= feed
  BY DEF AttnCounts
<1> DEFINE f == Fresh
           o == Oldest(f, i)
<1>2. f \in Seq(Tokens) /\ Len(f) = feed /\ \A k \in 1 .. feed : f[k] = <<turn, pos + k - 1>>
  BY TokensOf
<1> HIDE DEF f
<1>3. o = SubSeq(f, 1, i)
  BY <1>1, <1>2 DEF Oldest, Smaller
<1>4. /\ o \in Seq(Tokens) /\ Len(o) = i /\ \A k \in 1 .. i : o[k] = f[k]
  <2>1. \A k \in 1 .. i : f[k] \in Tokens
    BY <1>1, <1>2, ElementOfSeq
  <2> DEFINE t == SubSeq(f, 1, i)
  <2>2. /\ t \in Seq(Tokens) /\ Len(t) = IF 1 <= i THEN i - 1 + 1 ELSE 0
        /\ \A k \in 1 .. i - 1 + 1 : t[k] = f[1 + k - 1]
    BY <1>1, <2>1, SubSeqProperties
  <2>3. i - 1 + 1 = i /\ \A k \in 1 .. i : 1 + k - 1 = k
    BY <1>1
  <2> HIDE DEF t
  <2>4. t \in Seq(Tokens) /\ Len(t) = i /\ \A k \in 1 .. i : t[k] = f[k]
    BY <1>1, <2>2, <2>3
  <2>5. QED
    BY <1>3, <2>4 DEF t
<1> HIDE DEF o
<1>5. ToSet(s) = {s[k] : k \in 1 .. pos}
  BY LenProperties DEF ToSet
<1>6. ToSet(o) = {o[k] : k \in 1 .. i}
  BY <1>4, LenProperties DEF ToSet
<1>7. \A k \in 1 .. pos : s[k] = <<turn, k - 1>>
  <2>1. \A k \in 1 .. pos : s[k] = <<turn, pos - Len(s) + k - 1>>
    BY <1>1 DEF EndsAt
  <2>2. \A k \in 1 .. pos : pos - Len(s) + k - 1 = k - 1
    BY <1>1
  <2>3. QED
    BY <2>1, <2>2
<1>8. \A k \in 1 .. i : o[k] = <<turn, pos + k - 1>>
  BY <1>1, <1>2, <1>4
<1>9. ASSUME NEW x \in ToSet(s) \cup ToSet(o) PROVE x \in Upto(pos + i - 1)
  <2>1. CASE x \in ToSet(s)
    <3>1. PICK k \in 1 .. pos : x = s[k]
      BY <1>5, <2>1
    <3>2. x = <<turn, k - 1>> /\ k - 1 \in 0 .. pos + i - 1
      BY <1>1, <1>7, <3>1
    <3>3. QED
      BY <3>2 DEF Upto
  <2>2. CASE x \in ToSet(o)
    <3>1. PICK k \in 1 .. i : x = o[k]
      BY <1>6, <2>2
    <3>2. x = <<turn, pos + k - 1>> /\ pos + k - 1 \in 0 .. pos + i - 1
      BY <1>1, <1>8, <3>1
    <3>3. QED
      BY <3>2 DEF Upto
  <2>3. QED
    BY <1>9, <2>1, <2>2
<1>10. ASSUME NEW x \in Upto(pos + i - 1) PROVE x \in ToSet(s) \cup ToSet(o)
  <2>1. PICK q \in 0 .. pos + i - 1 : x = <<turn, q>>
    BY DEF Upto
  <2>2. CASE q < pos
    <3>1. q + 1 \in 1 .. pos /\ q + 1 - 1 = q
      BY <1>1, <2>2
    <3>2. s[q + 1] = x
      BY <1>7, <2>1, <3>1
    <3>3. QED
      BY <1>5, <3>1, <3>2
  <2>3. CASE ~ (q < pos)
    <3>1. q - pos + 1 \in 1 .. i /\ pos + (q - pos + 1) - 1 = q
      BY <1>1, <2>3
    <3>2. o[q - pos + 1] = x
      BY <1>8, <2>1, <3>1
    <3>3. QED
      BY <1>6, <3>1, <3>2
  <2>4. QED
    BY <2>2, <2>3
<1>11. ToSet(s) \cup ToSet(o) = Upto(pos + i - 1)
  BY <1>9, <1>10
<1>12. QED
  BY <1>11 DEF o, f

\* What the rows s and the windows t of layer l over this pass must show.
Right(l, s, t) ==
  \A i \in 1 .. feed :
    /\ s[i] = IF Layer(l).window /\ pos > 0 THEN Recent(pos + i - 1) ELSE Upto(pos + i - 1)
    /\ i \in DOMAIN t => t[i] = Behind(pos + i - 1)

LEMMA CausalNext ==
  ASSUME AttnAssumption, AttnCounts, NEW l \in AttnLayers, block = l, feed > 0, Advance(l), arch' = arch, turn' = turn,
         NEW s, NEW t, DOMAIN s = 1 .. feed, Len(s) = feed, sees' = s, taps' = t, Right(l, s, t)
  PROVE  Causal'
<1>1. l \in Nat /\ l >= 1 /\ pos \in Nat /\ feed \in Nat /\ NumLayers \in Nat
  BY AttnSizes DEF AttnCounts, AttnLayers
<1>2. RanLast' = l /\ RanAt' = pos
  <2>1. CASE l = NumLayers
    <3>1. feed' = 0 /\ pos' = pos + feed
      BY <1>1, <2>1 DEF Advance
    <3>2. pos' - Len(sees') = pos
      BY <1>1, <3>1
    <3>3. QED
      BY <2>1, <3>1, <3>2 DEF RanLast, RanAt
  <2>2. CASE l # NumLayers
    <3>1. feed' # 0 /\ pos' = pos /\ block' - 1 = l
      BY <1>1, <2>2 DEF Advance
    <3>2. QED
      BY <3>1 DEF RanLast, RanAt
  <2>3. QED
    BY <2>1, <2>2
<1>3. Layer(l)' = Layer(l)
  BY DEF Layer
<1>4. \A p : Recent(p)' = Recent(p) /\ Upto(p)' = Upto(p) /\ Behind(p)' = Behind(p)
  BY DEF Recent, Upto, Behind
<1>5. QED
  BY <1>2, <1>3, <1>4 DEF Causal, Right

\* The tokens each layer has taken in after a layer has run.
LEMMA TakenNext ==
  ASSUME AttnAssumption, AttnCounts, NEW l \in AttnLayers, block = l, feed > 0, Advance(l), NEW m \in AttnLayers
  PROVE  Taken(m)' = IF m = l THEN pos + feed ELSE Taken(m)
<1>1. /\ l \in Nat /\ l >= 1 /\ pos \in Nat /\ feed \in Nat /\ NumLayers \in Nat
      /\ m \in Nat /\ m <= NumLayers
  BY AttnSizes DEF AttnCounts, AttnLayers
<1>2. CASE l = NumLayers
  <2>1. feed' = 0 /\ pos' = pos + feed
    BY <1>1, <1>2 DEF Advance
  <2>2. m # l => m < block
    BY <1>1, <1>2
  <2>3. QED
    BY <2>1, <2>2 DEF Taken
<1>3. CASE l # NumLayers
  <2>1. feed' = feed /\ pos' = pos /\ block' = l + 1
    BY <1>3 DEF Advance
  <2>2. (m < l + 1) <=> (m = l \/ m < l)
    BY <1>1
  <2>3. QED
    BY <2>1, <2>2 DEF Taken
<1>4. QED
  BY <1>2, <1>3

\* The counters after a layer has run that fits the tables of rotations.
LEMMA CountsNext ==
  ASSUME AttnAssumption, AttnCounts, NEW l \in AttnLayers, block = l, feed > 0, Advance(l), arch' = arch, turn' = turn,
         ~ RopeFails(l),
         ok' = ok, DOMAIN kv' = DOMAIN kv, DOMAIN conv' = DOMAIN conv, DOMAIN rec' = DOMAIN rec
  PROVE  AttnCounts'
<1>1. /\ l \in Nat /\ l >= 1 /\ pos \in Nat /\ feed \in Nat /\ NumLayers \in Nat
      /\ NumLayers >= 1 /\ MaxLen \in Nat
  BY AttnSizes DEF AttnCounts, AttnLayers
<1>2. Layer(1)' = Layer(1)
  BY DEF Layer
<1>3. Layer(1).rope => pos + feed <= MaxLen
  <2>1. CASE l = 1
    BY <1>1, <2>1 DEF RopeFails
  <2>2. CASE l # 1
    BY <1>1, <2>2 DEF AttnCounts
  <2>3. QED
    BY <2>1, <2>2
<1>4. CASE l = NumLayers
  <2>1. feed' = 0 /\ pos' = pos + feed /\ block' = 1
    BY <1>1, <1>4 DEF Advance
  <2>2. pos' \in Nat /\ block' \in AttnLayers
    BY <1>1, <2>1, AttnSizes
  <2>3. QED
    BY <2>1, <2>2 DEF AttnCounts
<1>5. CASE l # NumLayers
  <2>1. feed' = feed /\ pos' = pos /\ block' = l + 1
    BY <1>5 DEF Advance
  <2>2. block' \in AttnLayers
    BY <1>1, <1>5, <2>1 DEF AttnLayers
  <2>3. QED
    BY <1>1, <1>2, <1>3, <2>1, <2>2 DEF AttnCounts
<1>6. QED
  BY <1>4, <1>5

\* What a layer that has not run holds still holds.
LEMMA OtherHolds ==
  ASSUME NEW m, LayerHolds(m), arch' = arch, turn' = turn, Taken(m)' = Taken(m),
         kv'[m] = kv[m], conv'[m] = conv[m], rec'[m] = rec[m]
  PROVE  LayerHolds(m)'
<1>1. Layer(m)' = Layer(m)
  BY DEF Layer
<1>2. KvHolds(m) => KvHolds(m)'
  BY <1>1 DEF KvHolds, EndsAt
<1>3. RecHolds(m) => RecHolds(m)'
  BY DEF RecHolds, EndsAt, Inputs, TokenAt
<1>4. QED
  BY <1>1, <1>2, <1>3 DEF LayerHolds

\* A delta-rule layer: the new state, and what it shows.
LEMMA RecurHolds ==
  ASSUME AttnAssumption, AttnHolds, NEW l \in AttnLayers, Recur(l)
  PROVE  AttnHolds'
<1>1. /\ feed > 0 /\ ok = TRUE /\ block = l /\ Layer(l).mix = "delta" /\ Advance(l)
      /\ arch' = arch /\ kv' = kv /\ turn' = turn /\ ok' = ok
      /\ conv' = [conv EXCEPT ![l] = Latest(Line(l), Taps - 1)]
      /\ rec' = [rec EXCEPT ![l] = rec[l] \o Fresh]
      /\ taps' = [i \in 1 .. feed |-> SubSeq(Line(l), i, i + Taps - 1)]
      /\ sees' = [i \in 1 .. feed |-> ToSet(rec[l]) \cup ToSet(Oldest(Fresh, i))]
  BY DEF Recur, AttnHolds, AttnCounts, Taps
<1>2. AttnCounts /\ pos \in Nat /\ feed \in Nat /\ arch \in Archs /\ DOMAIN conv = AttnLayers /\ DOMAIN rec = AttnLayers
  BY DEF AttnHolds, AttnCounts
<1>3. ~ Layer(l).window /\ ~ Layer(l).rope /\ arch \notin Chunked
  BY <1>1, <1>2, LayersOf
<1>4. feed > 1 => pos = 0
  BY <1>2, <1>3 DEF AttnCounts
<1>5. Taken(l) = pos
  BY <1>1, <1>2 DEF Taken, AttnLayers
<1>6. /\ conv[l] = IF pos = 0 THEN <<>> ELSE Inputs(pos)
      /\ rec[l] \in Seq(Tokens) /\ EndsAt(rec[l], turn, pos) /\ Len(rec[l]) = pos
  BY <1>1, <1>5 DEF AttnHolds, LayerHolds, RecHolds
<1>7. /\ \A i \in 1 .. feed : SubSeq(Line(l), i, i + Taps - 1) = Behind(pos + i - 1)
      /\ Latest(Line(l), Taps - 1) = Inputs(pos + feed)
  BY <1>1, <1>2, <1>4, <1>6, WindowsOf
<1>8. \A i \in 1 .. feed : ToSet(rec[l]) \cup ToSet(Oldest(Fresh, i)) = Upto(pos + i - 1)
  BY <1>2, <1>6, AbsorbedOf
<1>9. Right(l, sees', taps')
  BY <1>1, <1>3, <1>7, <1>8 DEF Right
<1>10. DOMAIN sees' = 1 .. feed /\ Len(sees') = feed
  BY <1>1, <1>2
<1>11. Causal'
  BY <1>1, <1>2, <1>9, <1>10, CausalNext
<1>12. AttnCounts'
  BY <1>1, <1>2, <1>3, CountsNext DEF RopeFails
<1>13. FailsAtLimit'
  BY <1>1 DEF FailsAtLimit
<1>14. /\ rec[l] \o Fresh \in Seq(Tokens) /\ Len(rec[l] \o Fresh) = pos + feed
       /\ EndsAt(rec[l] \o Fresh, turn, pos + feed)
  BY <1>2, <1>6, EndsWithFresh
<1>15. ASSUME NEW m \in AttnLayers PROVE LayerHolds(m)'
  <2>1. Taken(m)' = IF m = l THEN pos + feed ELSE Taken(m)
    BY <1>1, <1>2, TakenNext
  <2>2. CASE m = l
    <3>1. conv'[m] = Inputs(pos + feed) /\ rec'[m] = rec[l] \o Fresh
      BY <1>1, <1>2, <1>7, <2>2
    <3>2. Taken(m)' = pos + feed /\ pos + feed # 0
      BY <1>1, <1>2, <2>1, <2>2
    <3>3. Inputs(Taken(m))' = Inputs(pos + feed)
      BY <1>1, <3>2 DEF Inputs, TokenAt
    <3>4. conv'[m] = Inputs(Taken(m))' /\ Taken(m)' # 0
      BY <3>1, <3>2, <3>3
    <3>5. rec'[m] \in Seq(Tokens) /\ Len(rec'[m]) = Taken(m)'
      BY <1>14, <3>1, <3>2
    <3>6. EndsAt(rec[m], turn, Taken(m))'
      <4>1. EndsAt(rec[l] \o Fresh, turn', Taken(m)')
        BY <1>1, <1>14, <3>2
      <4>2. QED
        BY <3>1, <4>1 DEF EndsAt
    <3>7. RecHolds(m)'
      BY <3>4, <3>5, <3>6 DEF RecHolds
    <3>8. Layer(m).mix' = "delta"
      BY <1>1, <2>2 DEF Layer
    <3>9. QED
      BY <3>7, <3>8 DEF LayerHolds
  <2>3. CASE m # l
    <3>1. LayerHolds(m)
      BY <1>1 DEF AttnHolds
    <3>2. kv'[m] = kv[m] /\ conv'[m] = conv[m] /\ rec'[m] = rec[m]
      BY <1>1, <1>2, <2>3
    <3>3. QED
      BY <1>1, <2>1, <2>3, <3>1, <3>2, OtherHolds
  <2>4. QED
    BY <2>2, <2>3
<1>16. QED
  BY <1>11, <1>12, <1>13, <1>15 DEF AttnHolds

\* A layer of attention: what it caches fits the mask, and what it shows.
LEMMA AttendHolds ==
  ASSUME AttnAssumption, AttnHolds, NEW l \in AttnLayers, Attend(l)
  PROVE  AttnHolds'
<1> DEFINE c == ProcessKv(l)
<1>1. /\ feed > 0 /\ ok = TRUE /\ block = l /\ Layer(l).mix # "delta" /\ ~ RopeFails(l)
      /\ arch' = arch /\ conv' = conv /\ rec' = rec /\ turn' = turn /\ kv' = [kv EXCEPT ![l] = c] /\ taps' = <<>>
  BY DEF Attend, AttnHolds, AttnCounts
<1>2. /\ AttnCounts /\ turn \in Nat /\ pos \in Nat /\ feed \in Nat /\ arch \in Archs
      /\ DOMAIN kv = AttnLayers /\ MaxLen \in Nat
  BY AttnSizes DEF AttnHolds, AttnCounts
<1>3. Layer(l).mix # "softmax" \/ Layer(l).window => (feed > 1 => pos = 0)
  <2>1. Layer(l).mix # "softmax" \/ Layer(l).window => arch \notin Chunked
    BY <1>2, LayersOf
  <2>2. feed > 1 /\ pos > 0 => arch \in Chunked
    BY DEF AttnHolds, AttnCounts
  <2>3. QED
    BY <1>2, <2>1, <2>2
<1>4. ~ Layer(l).window => pos + feed <= MaxLen
  <2>1. CASE Layer(l).rope
    BY <1>1, <1>2, <2>1 DEF RopeFails
  <2>2. CASE ~ Layer(l).window /\ ~ Layer(l).rope
    <3>1. l > 1 /\ Layer(1).rope
      BY <1>1, <1>2, <2>2, LayersOf
    <3>2. QED
      BY <1>1, <1>2, <3>1 DEF AttnCounts
  <2>3. QED
    BY <2>1, <2>2
<1>5. Taken(l) = pos /\ KvHolds(l)
  <2>1. Taken(l) = pos
    BY <1>1, <1>2 DEF Taken, AttnLayers
  <2>2. QED
    BY <1>1, <2>1 DEF AttnHolds, LayerHolds
<1>6. /\ c \in Seq(Tokens) /\ EndsAt(c, turn, pos + feed)
      /\ pos = 0 => Len(c) = feed
      /\ Layer(l).window =>
           /\ Len(c) >= Smaller(pos + feed, Span)
           /\ feed = 1 => Len(c) = Smaller(pos + 1, Span)
      /\ ~ Layer(l).window /\ pos + feed <= MaxLen => Len(c) = pos + feed
  BY <1>1, <1>2, <1>5, ProcessKvOf
<1> HIDE DEF c
<1>7. Span \in Nat \ {0} /\ Len(c) \in Nat /\ Layer(l).window \in BOOLEAN
  BY <1>2, <1>6, AttnSizes, LayersOf
<1>8. Len(c) >= feed
  <2>1. CASE feed = 1
    BY <1>2, <1>4, <1>6, <1>7, <2>1 DEF Smaller
  <2>2. CASE feed # 1
    <3>1. CASE Layer(l).window
      BY <1>1, <1>2, <1>3, <1>6, <1>7, <2>2, <3>1
    <3>2. CASE ~ Layer(l).window
      BY <1>2, <1>4, <1>6, <1>7, <3>2
    <3>3. QED
      BY <3>1, <3>2
  <2>3. QED
    BY <2>1, <2>2
<1>9. IF Layer(l).mix = "gated" THEN GatedMaskFits(Len(c)) ELSE MaskFits(Len(c))
  <2>1. MaskFits(Len(c))
    BY <1>8 DEF MaskFits
  <2>2. ASSUME Layer(l).mix = "gated" PROVE GatedMaskFits(Len(c))
    <3>1. feed > 1 => pos = 0
      BY <1>3, <2>2
    <3>2. QED
      BY <1>1, <1>2, <1>6, <3>1 DEF GatedMaskFits
  <2>3. QED
    BY <2>1, <2>2
<1>10. sees' = [i \in 1 .. feed |-> Row(c, i)] /\ Advance(l) /\ ok' = ok
  BY <1>9 DEF Attend, c
<1>11. ASSUME NEW i \in 1 .. feed
       PROVE  Row(c, i) = Between(pos + feed - Len(c), pos + i - 1)
  BY <1>2, <1>6, <1>8, RowOf
<1>12. Right(l, sees', <<>>)
  <2> DEFINE p(i) == pos + i - 1
  <2>1. SUFFICES ASSUME NEW i \in 1 .. feed
                 PROVE  sees'[i] = IF Layer(l).window /\ pos > 0 THEN Recent(p(i)) ELSE Upto(p(i))
    BY DEF Right
  <2>2. sees'[i] = Between(pos + feed - Len(c), p(i)) /\ p(i) \in Nat
    BY <1>2, <1>10, <1>11
  <2>3. pos + feed = Len(c) => sees'[i] = Upto(p(i))
    <3>1. pos + feed = Len(c) => pos + feed - Len(c) = 0
      BY <1>2, <1>7
    <3>2. Between(0, p(i)) = Upto(p(i))
      BY DEF Between, Upto
    <3>3. QED
      BY <2>2, <3>1, <3>2
  <2>4. Recent(0) = Upto(0)
    <3>1. \A q \in 0 .. 0 : q > 0 - Span
      BY <1>7
    <3>2. QED
      BY <3>1 DEF Recent, Upto, Span
  <2>5. CASE ~ Layer(l).window
    BY <1>4, <1>6, <2>3, <2>5
  <2>6. CASE Layer(l).window /\ feed > 1
    <3>1. pos + feed = Len(c) /\ ~ (pos > 0)
      BY <1>2, <1>3, <1>6, <1>7, <2>6
    <3>2. QED
      BY <2>3, <3>1
  <2>7. CASE Layer(l).window /\ feed = 1
    <3>1. i = 1 /\ p(i) = pos /\ Len(c) = Smaller(pos + 1, Span)
      BY <1>2, <1>6, <2>7
    <3>2. Between(pos + feed - Len(c), p(i)) = Recent(p(i))
      <4> DEFINE lo == pos + feed - Len(c)
      <4>1. \A r \in Int : r \in lo .. pos <=> r \in 0 .. pos /\ r > pos - Span
        BY <1>2, <1>7, <2>7, <3>1 DEF Smaller
      <4> HIDE DEF lo
      <4>2. lo .. pos = {r \in 0 .. pos : r > pos - Span}
        BY <1>2, <4>1
      <4>3. Between(lo, pos) = Recent(pos)
        BY <4>2 DEF Between, Recent, Span
      <4>4. QED
        BY <3>1, <4>3 DEF lo
    <3>3. sees'[i] = Recent(p(i)) /\ (pos > 0 \/ p(i) = 0)
      BY <1>2, <2>2, <3>1, <3>2
    <3>4. QED
      BY <2>4, <2>7, <3>3
  <2>8. QED
    BY <1>1, <1>2, <1>7, <2>5, <2>6, <2>7
<1>13. Right(l, sees', taps')
  BY <1>1, <1>12
<1>14. DOMAIN sees' = 1 .. feed /\ Len(sees') = feed
  BY <1>2, <1>10
<1>15. Causal'
  BY <1>1, <1>2, <1>10, <1>13, <1>14, CausalNext
<1>16. AttnCounts'
  BY <1>1, <1>2, <1>10, CountsNext
<1>17. FailsAtLimit'
  BY <1>1, <1>10 DEF FailsAtLimit
<1>18. ASSUME NEW m \in AttnLayers PROVE LayerHolds(m)'
  <2>1. Taken(m)' = IF m = l THEN pos + feed ELSE Taken(m)
    BY <1>1, <1>2, <1>10, TakenNext
  <2>2. CASE m = l
    <3>1. kv'[m] = c /\ Taken(m)' = pos + feed /\ Layer(m)' = Layer(l)
      BY <1>1, <1>2, <2>1, <2>2 DEF Layer
    <3>2. EndsAt(kv[m], turn, Taken(m))'
      <4>1. EndsAt(c, turn', Taken(m)')
        BY <1>1, <1>6, <3>1
      <4>2. QED
        BY <3>1, <4>1 DEF EndsAt
    <3>3. /\ c \in Seq(Tokens)
          /\ IF Layer(l).window THEN Len(c) >= Smaller(pos + feed, Span) ELSE Len(c) = pos + feed
      BY <1>4, <1>6
    <3>4. KvHolds(m)'
      BY <3>1, <3>2, <3>3 DEF KvHolds, Span, Smaller
    <3>5. QED
      BY <1>1, <3>1, <3>4 DEF LayerHolds
  <2>3. CASE m # l
    <3>1. LayerHolds(m)
      BY <1>1 DEF AttnHolds
    <3>2. kv'[m] = kv[m] /\ conv'[m] = conv[m] /\ rec'[m] = rec[m]
      BY <1>1, <1>2, <2>3
    <3>3. QED
      BY <1>1, <2>1, <2>3, <3>1, <3>2, OtherHolds
  <2>4. QED
    BY <2>2, <2>3
<1>19. QED
  BY <1>15, <1>16, <1>17, <1>18 DEF AttnHolds

LEMMA AttnStarts == ASSUME AttnAssumption, AttnInit PROVE AttnHolds
<1>1. /\ arch \in Archs /\ turn = 1 /\ pos = 0 /\ feed = 0 /\ block = 1 /\ ok = TRUE
      /\ sees = <<>> /\ kv = Empty /\ conv = Empty /\ rec = Empty
  BY DEF AttnInit
<1>2. Empty = [l \in AttnLayers |-> <<>>]
  BY DEF Empty, AttnLayers
<1>3. AttnCounts
  BY <1>1, <1>2, AttnSizes DEF AttnCounts
<1>4. Causal /\ FailsAtLimit
  BY <1>1 DEF Causal, FailsAtLimit
<1>5. ASSUME NEW l \in AttnLayers PROVE LayerHolds(l)
  <2>1. kv[l] = <<>> /\ conv[l] = <<>> /\ rec[l] = <<>> /\ Taken(l) = 0
    BY <1>1, <1>2 DEF Taken
  <2>2. <<>> \in Seq(Tokens) /\ Len(<<>>) = 0
    BY EmptySeq
  <2>3. EndsAt(<<>>, turn, 0)
    BY <2>2 DEF EndsAt
  <2>4. KvHolds(l) /\ RecHolds(l)
    BY <2>1, <2>2, <2>3, AttnSizes DEF KvHolds, RecHolds, Smaller
  <2>5. QED
    BY <2>4 DEF LayerHolds
<1>6. QED
  BY <1>3, <1>4, <1>5 DEF AttnHolds

LEMMA AttnKeeps == ASSUME AttnAssumption PROVE AttnHolds /\ [AttnNext]_avars => AttnHolds'
<1> SUFFICES ASSUME AttnHolds, [AttnNext]_avars PROVE AttnHolds'
  OBVIOUS
<1>1. CASE AnyFeed
  <2>1. PICK n \in 1 .. MaxPrompt : Feed(n)
    BY <1>1 DEF AnyFeed
  <2>2. /\ feed = 0 /\ feed' = n /\ block' = 1 /\ sees' = <<>> /\ (arch \in Chunked \/ pos = 0 \/ n = 1)
        /\ arch' = arch /\ kv' = kv /\ conv' = conv /\ rec' = rec /\ turn' = turn /\ pos' = pos /\ ok' = ok /\ ok
    BY <2>1 DEF Feed, caches
  <2>3. n \in Nat /\ n > 0
    BY DEF AttnAssumption, FeedAssumption
  <2>4. AttnCounts'
    BY <2>2, <2>3, AttnSizes DEF AttnHolds, AttnCounts
  <2>5. Causal' /\ FailsAtLimit'
    BY <2>2 DEF Causal, FailsAtLimit
  <2>6. ASSUME NEW m \in AttnLayers PROVE LayerHolds(m)'
    <3>1. Taken(m)' = pos /\ Taken(m) = pos
      BY <2>2 DEF Taken, AttnLayers
    <3>2. LayerHolds(m)
      BY <2>2 DEF AttnHolds
    <3>3. QED
      BY <2>2, <3>1, <3>2, OtherHolds
  <2>7. QED
    BY <2>4, <2>5, <2>6 DEF AttnHolds
<1>2. ASSUME NEW l \in AttnLayers, Overrun(l) PROVE AttnHolds'
  <2>1. /\ ok' = FALSE /\ sees' = <<>> /\ pos + feed > MaxLen
        /\ arch' = arch /\ kv' = kv /\ conv' = conv /\ rec' = rec /\ turn' = turn /\ pos' = pos /\ feed' = feed /\ block' = block
    BY <1>2 DEF Overrun, caches, RopeFails
  <2>2. AttnCounts'
    BY <2>1 DEF AttnHolds, AttnCounts, Layer
  <2>3. Causal' /\ FailsAtLimit'
    BY <2>1 DEF Causal, FailsAtLimit
  <2>4. QED
    BY <2>1, <2>2, <2>3 DEF AttnHolds
<1>3. CASE AnyBlock
  <2>1. PICK l \in AttnLayers : Attend(l) \/ Overrun(l) \/ Recur(l)
    BY <1>3 DEF AnyBlock, AttnLayers
  <2>2. QED
    BY <1>2, <2>1, AttendHolds, RecurHolds
<1>4. CASE Reset
  <2>1. /\ arch' = arch /\ turn' = turn + 1 /\ pos' = 0 /\ feed' = 0 /\ block' = 1 /\ ok' = TRUE
        /\ sees' = <<>> /\ kv' = Empty /\ conv' = Empty /\ rec' = Empty
    BY <1>4 DEF Reset, Clear
  <2>2. Empty = [l \in AttnLayers |-> <<>>]
    BY DEF Empty, AttnLayers
  <2>3. AttnCounts'
    BY <2>1, <2>2, AttnSizes DEF AttnHolds, AttnCounts
  <2>4. Causal' /\ FailsAtLimit'
    BY <2>1 DEF Causal, FailsAtLimit
  <2>5. ASSUME NEW m \in AttnLayers PROVE LayerHolds(m)'
    <3>1. kv'[m] = <<>> /\ conv'[m] = <<>> /\ rec'[m] = <<>> /\ Taken(m)' = 0
      BY <2>1, <2>2 DEF Taken
    <3>2. <<>> \in Seq(Tokens) /\ Len(<<>>) = 0
      BY EmptySeq
    <3>3. EndsAt(kv[m], turn, Taken(m))' /\ EndsAt(rec[m], turn, Taken(m))'
      BY <3>1, <3>2 DEF EndsAt
    <3>4. KvHolds(m)' /\ RecHolds(m)'
      BY <3>1, <3>2, <3>3, AttnSizes DEF KvHolds, RecHolds, Smaller
    <3>5. QED
      BY <3>4 DEF LayerHolds
  <2>6. QED
    BY <2>3, <2>4, <2>5 DEF AttnHolds
<1>5. CASE UNCHANGED avars
  <2>1. /\ arch' = arch /\ kv' = kv /\ conv' = conv /\ rec' = rec /\ turn' = turn /\ pos' = pos /\ feed' = feed /\ block' = block
        /\ ok' = ok /\ sees' = sees /\ taps' = taps
    BY <1>5 DEF avars, caches, pass, shown
  <2>2. AttnCounts'
    BY <2>1 DEF AttnHolds, AttnCounts, Layer
  <2>3. Causal' /\ FailsAtLimit'
    <3>1. RanLast' = RanLast /\ RanAt' = RanAt
      BY <2>1 DEF RanLast, RanAt
    <3>2. Layer(RanLast)' = Layer(RanLast)
      BY <2>1, <3>1 DEF Layer
    <3>3. \A p : Recent(p)' = Recent(p) /\ Upto(p)' = Upto(p) /\ Behind(p)' = Behind(p)
      BY <2>1 DEF Recent, Upto, Behind
    <3>5. Causal'
      BY <2>1, <3>1, <3>2, <3>3 DEF AttnHolds, Causal
    <3>6. FailsAtLimit'
      BY <2>1 DEF AttnHolds, FailsAtLimit
    <3>7. QED
      BY <3>5, <3>6
  <2>4. ASSUME NEW m \in AttnLayers, LayerHolds(m) PROVE LayerHolds(m)'
    <3>1. Taken(m)' = Taken(m)
      BY <2>1 DEF Taken
    <3>2. QED
      BY <2>1, <2>4, <3>1, OtherHolds
  <2>5. QED
    BY <2>1, <2>2, <2>3, <2>4 DEF AttnHolds
<1>6. QED
  BY <1>1, <1>3, <1>4, <1>5 DEF AttnNext

\* Every row is computed from tokens of its own request up to its own, with nothing of an
\* earlier request, in any of the layouts and for any sizes, and a forward call fails
\* only when the context is full (attention.rs, cache.rs, linear_attention.rs).
THEOREM RowsCausal == ASSUME AttnAssumption PROVE AttnSpec => [](Causal /\ FailsAtLimit)
<1>1. AttnHolds => Causal /\ FailsAtLimit
  BY DEF AttnHolds
<1>2. QED
  BY <1>1, AttnStarts, AttnKeeps, PTL DEF AttnSpec

-----------------------------------------------------------------------------
(* ModelCache: the inductive invariant. *)

\* Outside of a pull, before it knows the repository's layout, and while
\* models are removed there is no directory and nothing to fetch.
Blank ==
  /\ pc # "idle" => result = 0
  /\ pc # "shards" => dir = 0 /\ todo = {}

\* A pull in which nothing failed has, where it stands, what it has passed.
Underway ==
  /\ pc \in {"tokenizer", "index", "single", "list", "shards"} /\ "config" \in Offered(repo) =>
       "config" \in snaps[rev]
  /\ pc \in {"single", "list"} => "index" \notin Offered(repo)
  /\ pc = "list" => "model" \notin Offered(repo)
  /\ pc = "shards" => /\ dir \in {0, rev}
                      /\ Offered(repo) \ ({"tokenizer"} \cup todo) \subseteq snaps[rev]

CInv == CacheTypeOK /\ Blank /\ Healed /\ (smooth => Underway)

-----------------------------------------------------------------------------
(* The repository and the cache. *)

LEMMA OfferedFacts ==
  ASSUME CacheAssumption
  PROVE  /\ "index" \in Offered(repo) =>
              Offered(repo) = {"config", "tokenizer", "index"} \cup Shards
         /\ "model" \in Offered(repo) => Offered(repo) = {"config", "tokenizer", "model"}
         /\ "index" \notin Offered(repo) /\ "model" \notin Offered(repo) =>
              Offered(repo) = Shards
         /\ Shards \cap {"config", "tokenizer", "index", "model"} = {}
         /\ Offered(repo) \subseteq {"config", "tokenizer", "index", "model"} \cup Shards
<1>1. CASE repo = "sharded"
  BY <1>1 DEF Offered, CacheAssumption
<1>2. CASE repo = "single"
  BY <1>2 DEF Offered, CacheAssumption
<1>3. CASE repo # "sharded" /\ repo # "single"
  <2>1. Offered(repo) = Shards
    BY <1>3 DEF Offered
  <2>2. QED
    BY <2>1 DEF CacheAssumption
<1>4. QED
  BY <1>1, <1>2, <1>3

\* What find_cached_model takes for complete is complete.
LEMMA CachedWhole ==
  ASSUME CacheAssumption, CacheTypeOK, NEW r \in Revs, Cached(snaps[r])
  PROVE  Whole(r)
<1>1. /\ "config" \in snaps[r]
      /\ "model" \in snaps[r] \/ ("index" \in snaps[r] /\ Shards \subseteq snaps[r])
  BY DEF Cached
<1>2. snaps[r] \subseteq Offered(repo)
  BY DEF CacheTypeOK
<1>3. QED
  BY <1>1, <1>2, OfferedFacts DEF Whole

\* Among some revisions there is one whose directory changed last.
LEMMA NewestIn ==
  ASSUME CacheTypeOK, NEW S, S \subseteq Revs, S # {}
  PROVE  NewestOf(S) \in S
<1>1. PICK T : T = {age[r] : r \in S}
  OBVIOUS
<1>2. T \subseteq Nat /\ T # {}
  BY <1>1 DEF CacheTypeOK
<1>3. PICK x \in T : \A y \in T : ~ (<<y, x>> \in OpToRel(<, Nat))
  BY <1>2, WFMin, NatLessThanWellFounded
<1>4. \A y \in T : x <= y
  <2>1. \A a, b \in Nat : a < b => <<a, b>> \in OpToRel(<, Nat)
    BY DEF OpToRel
  <2>2. \A y \in T : ~ (y < x)
    BY <1>2, <1>3, <2>1, Zenon
  <2>3. QED
    BY <1>2, <2>2
<1>5. \E r \in S : \A o \in S : age[r] <= age[o]
  BY <1>1, <1>4
<1>6. QED
  BY <1>5 DEF NewestOf

LEMMA HitWhole ==
  ASSUME CacheAssumption, CacheTypeOK, Hits # {}
  PROVE  NewestOf(Hits) \in Revs /\ Whole(NewestOf(Hits))
<1>1. NewestOf(Hits) \in Hits
  BY NewestIn DEF Hits
<1>2. QED
  BY <1>1, CachedWhole DEF Hits

\* A directory changes.
LEMMA ChangedType ==
  ASSUME CacheTypeOK, NEW r \in Revs, Changed(r)
  PROVE  age' \in [Revs -> Nat]
  BY DEF CacheTypeOK, Changed

\* A download adds to the directory of the current revision, if anything.
LEMMA StoredFacts ==
  ASSUME CacheTypeOK, NEW f, Stored(f)
  PROVE  /\ snaps' \in [Revs -> SUBSET Offered(repo)] /\ age' \in [Revs -> Nat]
         /\ f \in Offered(repo) /\ snaps'[rev] = snaps[rev] \cup {f}
         /\ UNCHANGED <<faults, smooth>>
<1>1. rev \in Revs /\ snaps \in [Revs -> SUBSET Offered(repo)] /\ age \in [Revs -> Nat]
  BY DEF CacheTypeOK
<1>2. /\ f \in Offered(repo) /\ snaps' = [snaps EXCEPT ![rev] = @ \cup {f}]
      /\ UNCHANGED <<faults, smooth>>
      /\ age' = age \/ Changed(rev)
  BY DEF Stored
<1>3. age' \in [Revs -> Nat]
  BY <1>1, <1>2, ChangedType
<1>4. QED
  BY <1>1, <1>2, <1>3

LEMMA RefusedFacts ==
  ASSUME CacheAssumption, CacheTypeOK, NEW f, Refused(f)
  PROVE  /\ UNCHANGED <<snaps, age>>
         /\ faults' \in 0 .. MaxFaults /\ smooth' \in BOOLEAN
         /\ smooth' => f \notin Offered(repo) /\ smooth
<1>1. faults \in 0 .. MaxFaults /\ MaxFaults \in Nat /\ smooth \in BOOLEAN
  BY DEF CacheTypeOK, CacheAssumption
<1>2. UNCHANGED <<snaps, age>>
  BY DEF Refused
<1>3. CASE f \notin Offered(repo) /\ UNCHANGED <<faults, smooth>>
  BY <1>1, <1>2, <1>3
<1>4. CASE faults < MaxFaults /\ faults' = faults + 1 /\ smooth' = FALSE
  <2>1. faults' \in 0 .. MaxFaults
    BY <1>1, <1>4
  <2>2. smooth' \in BOOLEAN /\ ~ smooth'
    BY <1>4
  <2>3. QED
    BY <1>2, <2>1, <2>2
<1>5. QED
  BY <1>3, <1>4 DEF Refused

-----------------------------------------------------------------------------
(* Every step keeps the invariant. *)

LEMMA InitC == ASSUME CacheAssumption, CacheInit PROVE CInv
<1>1. CacheTypeOK
  BY DEF CacheInit, CacheTypeOK, Revs, CacheAssumption
<1>2. Blank /\ Healed /\ Underway
  BY DEF CacheInit, Blank, Healed, Underway
<1>3. QED
  BY <1>1, <1>2 DEF CInv

LEMMA PullStep == ASSUME CacheAssumption, CInv, Pull PROVE CInv'
<1>1. /\ pc = "idle" /\ dir = 0 /\ todo = {}
      /\ UNCHANGED <<repo, rev, snaps, age, faults>> /\ smooth'
  BY DEF Pull, CInv, Blank
<1>2. /\ repo \in RepoLayouts /\ rev \in Revs
      /\ snaps \in [Revs -> SUBSET Offered(repo)] /\ age \in [Revs -> Nat]
      /\ faults \in 0 .. MaxFaults /\ MaxRevs \in Nat
  BY DEF CInv, CacheTypeOK, CacheAssumption
<1>3. CASE Hits # {}
  <2>1. pc' = "idle" /\ dir' = 0 /\ todo' = {} /\ result' = NewestOf(Hits)
    BY <1>3 DEF Pull, Answer
  <2>2. NewestOf(Hits) \in Revs /\ Whole(NewestOf(Hits))
    BY <1>3, HitWhole DEF CInv
  <2>3. CacheTypeOK'
    BY <1>1, <1>2, <2>1, <2>2 DEF CacheTypeOK, Offered, Revs
  <2>4. Blank' /\ Underway'
    BY <2>1 DEF Blank, Underway
  <2>5. Healed'
    BY <1>1, <2>1, <2>2 DEF Healed, Whole, Offered
  <2>6. QED
    BY <2>3, <2>4, <2>5 DEF CInv
<1>4. CASE Hits = {}
  <2>1. pc' = "config" /\ dir' = 0 /\ todo' = {} /\ result' = 0
    BY <1>1, <1>4 DEF Pull, Goto
  <2>2. CacheTypeOK'
    BY <1>1, <1>2, <2>1 DEF CacheTypeOK, Offered, Revs
  <2>3. Blank' /\ Underway' /\ Healed'
    BY <2>1 DEF Blank, Underway, Healed
  <2>4. QED
    BY <2>2, <2>3 DEF CInv
<1>5. QED
  BY <1>3, <1>4

LEMMA OptionalStep ==
  ASSUME CacheAssumption, CInv,
         Optional("config", "config", "tokenizer") \/ Optional("tokenizer", "tokenizer", "index")
  PROVE  CInv'
<1>1. PICK f : /\ Stored(f) \/ Refused(f)
               /\ \/ f = "config" /\ pc = "config" /\ pc' = "tokenizer"
                  \/ f = "tokenizer" /\ pc = "tokenizer" /\ pc' = "index"
  BY DEF Optional, Goto
<1>2. UNCHANGED <<repo, rev, dir, todo, result>>
  BY DEF Optional
<1>3. result = 0 /\ dir = 0 /\ todo = {}
  BY <1>1 DEF CInv, Blank
<1>4. /\ repo \in RepoLayouts /\ rev \in Revs /\ MaxRevs \in Nat
      /\ snaps \in [Revs -> SUBSET Offered(repo)] /\ age \in [Revs -> Nat]
      /\ faults \in 0 .. MaxFaults /\ smooth \in BOOLEAN
  BY DEF CInv, CacheTypeOK, CacheAssumption
<1>5. /\ snaps' \in [Revs -> SUBSET Offered(repo)] /\ age' \in [Revs -> Nat]
      /\ faults' \in 0 .. MaxFaults /\ smooth' \in BOOLEAN
      /\ smooth' => smooth /\ (f \in Offered(repo) => f \in snaps'[rev])
      /\ snaps[rev] \subseteq snaps'[rev]
  <2>1. CASE Stored(f)
    BY <1>4, <2>1, StoredFacts DEF CInv
  <2>2. CASE Refused(f)
    BY <1>4, <2>2, RefusedFacts DEF CInv
  <2>3. QED
    BY <1>1, <2>1, <2>2
<1>6. CacheTypeOK'
  BY <1>1, <1>2, <1>3, <1>4, <1>5 DEF CacheTypeOK, Offered, Revs
<1>7. Blank' /\ Healed'
  BY <1>1, <1>2, <1>3 DEF Blank, Healed
<1>8. smooth' => Underway'
  <2> SUFFICES ASSUME smooth' PROVE Underway'
    OBVIOUS
  <2>1. "config" \in Offered(repo) => "config" \in snaps'[rev]
    BY <1>1, <1>5 DEF CInv, Underway
  <2>2. QED
    BY <1>1, <1>2, <2>1 DEF Underway, Offered
<1>9. QED
  BY <1>6, <1>7, <1>8 DEF CInv

LEMMA IndexStep == ASSUME CacheAssumption, CInv, Index PROVE CInv'
<1>1. pc = "index" /\ UNCHANGED <<repo, rev, result>> /\ result = 0 /\ dir = 0 /\ todo = {}
  BY DEF Index, CInv, Blank
<1>2. repo \in RepoLayouts /\ rev \in Revs /\ MaxRevs \in Nat /\ CacheTypeOK
  BY DEF CInv, CacheTypeOK, CacheAssumption
<1>3. CASE Stored("index") /\ dir' = rev /\ todo' = Shards /\ pc' = "shards"
  <2>1. /\ snaps' \in [Revs -> SUBSET Offered(repo)] /\ age' \in [Revs -> Nat]
        /\ "index" \in Offered(repo) /\ snaps'[rev] = snaps[rev] \cup {"index"}
        /\ faults' = faults /\ smooth' = smooth
    BY <1>2, <1>3, StoredFacts
  <2>2. CacheTypeOK'
    BY <1>1, <1>2, <1>3, <2>1 DEF CacheTypeOK, Offered, Revs
  <2>3. Blank' /\ Healed'
    BY <1>1, <1>3 DEF Blank, Healed
  <2>4. smooth' => Underway'
    <3> SUFFICES ASSUME smooth' PROVE Underway'
      OBVIOUS
    <3>1. Offered(repo) = {"config", "tokenizer", "index"} \cup Shards
      BY <2>1, OfferedFacts
    <3>2. "config" \in snaps[rev]
      BY <1>1, <2>1, <3>1 DEF CInv, Underway
    <3>3. Offered(repo) \ ({"tokenizer"} \cup Shards) \subseteq snaps'[rev]
      BY <2>1, <3>1, <3>2
    <3>4. QED
      BY <1>1, <1>3, <2>1, <3>2, <3>3 DEF Underway, Offered
  <2>5. QED
    BY <2>2, <2>3, <2>4 DEF CInv
<1>4. CASE Refused("index") /\ pc' = "single" /\ UNCHANGED <<dir, todo>>
  <2>1. /\ UNCHANGED <<snaps, age>> /\ faults' \in 0 .. MaxFaults /\ smooth' \in BOOLEAN
        /\ smooth' => "index" \notin Offered(repo) /\ smooth
    BY <1>2, <1>4, RefusedFacts
  <2>2. CacheTypeOK'
    BY <1>1, <1>2, <1>4, <2>1 DEF CacheTypeOK, Offered, Revs
  <2>3. Blank' /\ Healed'
    BY <1>1, <1>4 DEF Blank, Healed
  <2>4. smooth' => Underway'
    BY <1>1, <1>4, <2>1 DEF CInv, Underway, Offered
  <2>5. QED
    BY <2>2, <2>3, <2>4 DEF CInv
<1>5. QED
  BY <1>3, <1>4 DEF Index, Goto

LEMMA SingleStep == ASSUME CacheAssumption, CInv, Single PROVE CInv'
<1>1. pc = "single" /\ UNCHANGED <<repo, rev>> /\ result = 0 /\ dir = 0 /\ todo = {}
  BY DEF Single, CInv, Blank
<1>2. repo \in RepoLayouts /\ rev \in Revs /\ rev \in 1 .. MaxRevs /\ MaxRevs \in Nat /\ CacheTypeOK
  BY DEF CInv, CacheTypeOK, CacheAssumption, Revs
<1>3. CASE Stored("model") /\ Answer(rev)
  <2>1. /\ snaps' \in [Revs -> SUBSET Offered(repo)] /\ age' \in [Revs -> Nat]
        /\ "model" \in Offered(repo) /\ snaps'[rev] = snaps[rev] \cup {"model"}
        /\ faults' = faults /\ smooth' = smooth
    BY <1>2, <1>3, StoredFacts
  <2>2. result' = rev /\ pc' = "idle" /\ dir' = 0 /\ todo' = {}
    BY <1>3 DEF Answer
  <2>3. CacheTypeOK'
    BY <1>1, <1>2, <2>1, <2>2 DEF CacheTypeOK, Offered, Revs
  <2>4. Blank' /\ Underway'
    BY <2>2 DEF Blank, Underway
  <2>5. Healed'
    <3> SUFFICES ASSUME smooth PROVE (Offered(repo) \ {"tokenizer"}) \subseteq snaps'[rev]
      BY <1>1, <2>1, <2>2 DEF Healed, Whole, Offered
    <3>1. Offered(repo) = {"config", "tokenizer", "model"}
      BY <2>1, OfferedFacts
    <3>2. "config" \in snaps[rev]
      BY <1>1, <3>1 DEF CInv, Underway
    <3>3. QED
      BY <2>1, <3>1, <3>2
  <2>6. QED
    BY <2>3, <2>4, <2>5 DEF CInv
<1>4. CASE Refused("model") /\ pc' = "list" /\ UNCHANGED <<dir, todo, result>>
  <2>1. /\ UNCHANGED <<snaps, age>> /\ faults' \in 0 .. MaxFaults /\ smooth' \in BOOLEAN
        /\ smooth' => "model" \notin Offered(repo) /\ smooth
    BY <1>2, <1>4, RefusedFacts
  <2>2. CacheTypeOK'
    BY <1>1, <1>2, <1>4, <2>1 DEF CacheTypeOK, Offered, Revs
  <2>3. Blank' /\ Healed'
    BY <1>1, <1>4 DEF Blank, Healed
  <2>4. smooth' => Underway'
    BY <1>1, <1>4, <2>1 DEF CInv, Underway, Offered
  <2>5. QED
    BY <2>2, <2>3, <2>4 DEF CInv
<1>5. QED
  BY <1>3, <1>4 DEF Single, Goto

LEMMA ListStep == ASSUME CacheAssumption, CInv, ListFiles PROVE CInv'
<1>1. /\ pc = "list" /\ UNCHANGED <<repo, rev, snaps, age>>
      /\ result = 0 /\ dir = 0 /\ todo = {}
  BY DEF ListFiles, CInv, Blank
<1>2. /\ repo \in RepoLayouts /\ rev \in Revs /\ MaxRevs \in Nat /\ CacheTypeOK
      /\ faults \in 0 .. MaxFaults /\ MaxFaults \in Nat
  BY DEF CInv, CacheTypeOK, CacheAssumption
<1>3. CASE /\ todo' = Offered(repo) \cap (Shards \cup {"model"})
           /\ pc' = "shards" /\ UNCHANGED <<smooth, faults, dir, result>>
  <2>1. CacheTypeOK'
    BY <1>1, <1>2, <1>3 DEF CacheTypeOK, Offered, Revs
  <2>2. Blank' /\ Healed'
    BY <1>1, <1>3 DEF Blank, Healed
  <2>3. smooth' => Underway'
    <3> SUFFICES ASSUME smooth PROVE Underway'
      BY <1>3
    <3>1. Offered(repo) = Shards /\ "config" \notin Shards
      BY <1>1, OfferedFacts DEF CInv, Underway
    <3>2. QED
      BY <1>1, <1>3, <3>1 DEF Underway, Offered
  <2>4. QED
    BY <2>1, <2>2, <2>3 DEF CInv
<1>4. CASE faults < MaxFaults /\ faults' = faults + 1 /\ smooth' = FALSE /\ Answer(0)
  <2>1. result' = 0 /\ pc' = "idle" /\ dir' = 0 /\ todo' = {} /\ ~ smooth'
    BY <1>4 DEF Answer
  <2>2. faults' \in 0 .. MaxFaults
    BY <1>2, <1>4
  <2>3. CacheTypeOK'
    BY <1>1, <1>2, <1>4, <2>1, <2>2 DEF CacheTypeOK, Offered, Revs
  <2>4. Blank' /\ Healed'
    BY <2>1 DEF Blank, Healed
  <2>5. QED
    BY <2>1, <2>3, <2>4 DEF CInv
<1>5. QED
  BY <1>3, <1>4 DEF ListFiles, Goto

LEMMA ShardStep == ASSUME CacheAssumption, CInv, Shard PROVE CInv'
<1>1. pc = "shards" /\ UNCHANGED <<repo, rev>> /\ result = 0
  BY DEF Shard, CInv, Blank
<1>2. /\ repo \in RepoLayouts /\ rev \in Revs /\ rev \in 0 .. MaxRevs /\ 0 \in 0 .. MaxRevs
      /\ dir \in 0 .. MaxRevs /\ CacheTypeOK /\ todo \subseteq Shards \cup {"model"}
  BY DEF CInv, CacheTypeOK, CacheAssumption, Revs
<1>3. CASE todo = {}
  <2>1. /\ result' = dir /\ pc' = "idle" /\ dir' = 0 /\ todo' = {}
        /\ UNCHANGED <<snaps, age, smooth, faults>>
    BY <1>3 DEF Shard, Answer
  <2>2. CacheTypeOK'
    BY <1>1, <1>2, <2>1 DEF CacheTypeOK, Offered, Revs
  <2>3. Blank' /\ Underway'
    BY <2>1 DEF Blank, Underway
  <2>4. Healed'
    BY <1>1, <1>3, <2>1 DEF CInv, Underway, Healed, Whole, Offered
  <2>5. QED
    BY <2>2, <2>3, <2>4 DEF CInv
<1>4. ASSUME NEW f \in todo, Stored(f), todo' = todo \ {f}, dir' = Directory,
             UNCHANGED <<pc, result>>
      PROVE  CInv'
  <2>1. /\ snaps' \in [Revs -> SUBSET Offered(repo)] /\ age' \in [Revs -> Nat]
        /\ f \in Offered(repo) /\ snaps'[rev] = snaps[rev] \cup {f}
        /\ faults' = faults /\ smooth' = smooth
    BY <1>2, <1>4, StoredFacts
  <2>2. dir' \in 0 .. MaxRevs /\ (dir \in {0, rev} => dir' = rev)
    BY <1>2, <1>4 DEF Directory
  <2>3. CacheTypeOK'
    BY <1>1, <1>2, <1>4, <2>1, <2>2 DEF CacheTypeOK, Offered, Revs
  <2>4. Blank' /\ Healed'
    BY <1>1, <1>4 DEF Blank, Healed
  <2>5. smooth' => Underway'
    <3> SUFFICES ASSUME smooth PROVE Underway'
      BY <2>1
    <3>1. /\ "config" \in Offered(repo) => "config" \in snaps'[rev]
          /\ dir' \in {0, rev}
          /\ Offered(repo) \ ({"tokenizer"} \cup todo') \subseteq snaps'[rev]
      BY <1>1, <1>4, <2>1, <2>2 DEF CInv, Underway
    <3>2. QED
      BY <1>1, <1>4, <3>1 DEF Underway, Offered
  <2>6. QED
    BY <2>3, <2>4, <2>5 DEF CInv
<1>5. ASSUME NEW f \in todo, Refused(f), Answer(0)
      PROVE  CInv'
  <2>1. /\ UNCHANGED <<snaps, age>> /\ faults' \in 0 .. MaxFaults /\ smooth' \in BOOLEAN
    BY <1>2, <1>5, RefusedFacts
  <2>2. result' = 0 /\ pc' = "idle" /\ dir' = 0 /\ todo' = {}
    BY <1>5 DEF Answer
  <2>3. CacheTypeOK'
    BY <1>1, <1>2, <2>1, <2>2 DEF CacheTypeOK, Offered, Revs
  <2>4. Blank' /\ Healed' /\ Underway'
    BY <2>2 DEF Blank, Healed, Underway
  <2>5. QED
    BY <2>3, <2>4 DEF CInv
<1>6. QED
  BY <1>3, <1>4, <1>5 DEF Shard

\* cake rm, publications and crashes.
LEMMA OtherStep ==
  ASSUME CacheAssumption, CInv, FindModel \/ RemoveFile \/ Publish \/ Crash
  PROVE  CInv'
<1>1. /\ repo \in RepoLayouts /\ rev \in Revs /\ MaxRevs \in Nat /\ MaxFaults \in Nat
      /\ snaps \in [Revs -> SUBSET Offered(repo)] /\ age \in [Revs -> Nat]
      /\ faults \in 0 .. MaxFaults /\ smooth \in BOOLEAN /\ CacheTypeOK
      /\ 0 \in 0 .. MaxRevs
  BY DEF CInv, CacheTypeOK, CacheAssumption
<1>2. CASE FindModel
  <2>1. /\ pc' = "remove" /\ result' = 0 /\ dir = 0 /\ todo = {}
        /\ UNCHANGED <<repo, rev, snaps, age, dir, todo, smooth, faults>>
    BY <1>2 DEF FindModel, Goto, CInv, Blank
  <2>2. CacheTypeOK'
    BY <1>1, <2>1 DEF CacheTypeOK, Offered, Revs
  <2>3. Blank' /\ Healed' /\ Underway'
    BY <2>1 DEF Blank, Healed, Underway
  <2>4. QED
    BY <2>2, <2>3 DEF CInv
<1>3. CASE RemoveFile
  <2>1. /\ result = 0 /\ dir = 0 /\ todo = {} /\ pc' \in {"idle", "remove"}
        /\ UNCHANGED <<repo, rev, dir, todo, smooth, result, faults>>
    BY <1>3 DEF RemoveFile, Goto, CInv, Blank
  <2>2. snaps' \in [Revs -> SUBSET Offered(repo)] /\ age' \in [Revs -> Nat]
    <3>1. CASE \A r \in Revs : snaps[r] = {}
      BY <1>1, <1>3, <3>1 DEF RemoveFile
    <3>2. CASE ~ \A r \in Revs : snaps[r] = {}
      <4>1. PICK r \in Revs : \E f \in snaps[r] :
               snaps' = [snaps EXCEPT ![r] = @ \ {f}] /\ Changed(r)
        BY <1>3, <3>2 DEF RemoveFile
      <4>2. QED
        BY <1>1, <4>1, ChangedType
    <3>3. QED
      BY <3>1, <3>2
  <2>3. CacheTypeOK'
    BY <1>1, <2>1, <2>2 DEF CacheTypeOK, Offered, Revs
  <2>4. Blank' /\ Healed' /\ Underway'
    BY <2>1 DEF Blank, Healed, Underway
  <2>5. QED
    BY <2>3, <2>4 DEF CInv
<1>4. CASE Publish
  <2>1. /\ ~ smooth' /\ smooth' \in BOOLEAN
        /\ UNCHANGED <<repo, snaps, age, pc, dir, todo, result, faults>>
    BY <1>4 DEF Publish
  <2>2. rev' \in Revs
    BY <1>1, <1>4 DEF Publish, Revs
  <2>3. CacheTypeOK'
    BY <1>1, <2>1, <2>2 DEF CacheTypeOK, Offered, Revs
  <2>4. Blank' /\ Healed'
    BY <2>1 DEF CInv, Blank, Healed
  <2>5. QED
    BY <2>1, <2>3, <2>4 DEF CInv
<1>5. CASE Crash
  <2>1. /\ result' = 0 /\ pc' = "idle" /\ dir' = 0 /\ todo' = {}
        /\ UNCHANGED <<repo, rev, snaps, age, smooth>>
    BY <1>5 DEF Crash
  <2>2. faults' \in 0 .. MaxFaults
    BY <1>1, <1>5 DEF Crash
  <2>3. CacheTypeOK'
    BY <1>1, <2>1, <2>2 DEF CacheTypeOK, Offered, Revs
  <2>4. Blank' /\ Healed' /\ Underway'
    BY <2>1 DEF Blank, Healed, Underway
  <2>5. QED
    BY <2>3, <2>4 DEF CInv
<1>6. QED
  BY <1>2, <1>3, <1>4, <1>5

LEMMA NextC == ASSUME CacheAssumption, CInv, [CacheNext]_cachevars PROVE CInv'
<1>1. CASE UNCHANGED cachevars
  <2>1. UNCHANGED <<repo, rev, snaps, age, pc, dir, todo, smooth, result, faults>>
    BY <1>1 DEF cachevars
  <2>2. CacheTypeOK'
    BY <2>1 DEF CInv, CacheTypeOK, Offered, Revs
  <2>3. Blank' /\ Healed' /\ (smooth' => Underway')
    BY <2>1 DEF CInv, Blank, Healed, Whole, Underway, Offered
  <2>4. QED
    BY <2>2, <2>3 DEF CInv
<1>2. CASE CacheNext
  BY <1>2, PullStep, OptionalStep, IndexStep, SingleStep, ListStep, ShardStep, OtherStep
     DEF CacheNext
<1>3. QED
  BY <1>1, <1>2

-----------------------------------------------------------------------------
(* What a pull returns. *)

\* ensure_model_downloaded without a failure and without a new revision
\* returns a snapshot with all the weights, whatever failed pulls, crashes,
\* interrupted removals and older revisions left in the cache.
THEOREM PullHeals == ASSUME CacheAssumption PROVE CacheSpec => []Healed
<1>1. CacheInit => CInv
  BY InitC
<1>2. CInv /\ [CacheNext]_cachevars => CInv'
  BY NextC
<1>3. CInv => Healed
  BY DEF CInv
<1>4. QED
  BY <1>1, <1>2, <1>3, PTL DEF CacheSpec
=============================================================================
