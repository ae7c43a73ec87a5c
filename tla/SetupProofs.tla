---------------------------- MODULE SetupProofs ----------------------------
(***************************************************************************)
(* Proofs about how a cluster is set up.                                   *)
(*                                                                         *)
(* LayerAssignment, for every number of workers, every capacity and every  *)
(* number of layers: the inductive invariant LInv, hence that each layer   *)
(* has one owner, that no worker is given more than it can hold and that   *)
(* the master keeps too much only when the workers taking part are full;   *)
(* and, with the invariant Rounds, that shares are proportional.           *)
(*                                                                         *)
(* ClusterSetup, for every number of masters and workers, all plans, and   *)
(* any number of starts and crashes: worker_setup talks to one connection  *)
(* only, a serving master's workers hold what it sends them to, and the    *)
(* protocol implements Formation.                                          *)
(***************************************************************************)
EXTENDS LayerAssignment, ClusterSetup, FiniteSetTheorems, WellFoundedInduction, TLAPS

LEMMA MinType == \A m, n \in Nat : /\ MinOf(m, n) \in Nat
                                   /\ MinOf(m, n) <= m /\ MinOf(m, n) <= n
  BY DEF MinOf

LEMMA MaxType == \A m, n \in Nat : MaxOf(m, n) \in Nat
  BY DEF MaxOf

LEMMA DivType ==
  ASSUME NEW n \in Nat, NEW d \in Nat \ {0}
  PROVE  n \div d \in Nat /\ d * (n \div d) <= n
  OBVIOUS

\* Quotients rounded to a part of n (Rounded) are numbers between 0 and n.
LEMMA RoundedType ==
  ASSUME NEW a, NEW b, NEW n \in Nat, NEW m \in Rounded(a, b, n)
  PROVE  m \in Nat /\ m <= n
  BY DEF Rounded

\* The union of a family one member of which grows by n.
LEMMA UnionGrows ==
  ASSUME NEW S, NEW f, NEW g, NEW n, NEW w \in S,
         g[w] = f[w] \cup n, \A v \in S \ {w} : g[v] = f[v]
  PROVE  UNION {g[v] : v \in S} = (UNION {f[v] : v \in S}) \cup n
<1>1. ASSUME NEW e, NEW v \in S, e \in g[v]
      PROVE  e \in n \/ \E u \in S : e \in f[u]
  <2>1. CASE v = w BY <1>1, <2>1
  <2>2. CASE v # w BY <1>1, <2>2
  <2> QED BY <2>1, <2>2
<1>2. ASSUME NEW e, NEW v \in S, e \in f[v]
      PROVE  \E u \in S : e \in g[u]
  <2>1. e \in g[v]
    <3>1. CASE v = w BY <1>2, <3>1
    <3>2. CASE v # w BY <1>2, <3>2
    <3> QED BY <3>1, <3>2
  <2> QED BY <2>1
<1>3. ASSUME NEW e, e \in n PROVE \E u \in S : e \in g[u]
  BY <1>3
<1>4. ASSUME NEW e
      PROVE  e \in UNION {g[v] : v \in S} <=>
               e \in UNION {f[v] : v \in S} \/ e \in n
  <2>1. e \in UNION {g[v] : v \in S} <=> \E v \in S : e \in g[v] OBVIOUS
  <2>2. e \in UNION {f[v] : v \in S} <=> \E v \in S : e \in f[v] OBVIOUS
  <2> QED BY <1>1, <1>2, <1>3, <2>1, <2>2
<1> DEFINE G == UNION {g[v] : v \in S}
           F == UNION {f[v] : v \in S}
<1>5. \A e : e \in G <=> e \in F \/ e \in n BY <1>4
<1> HIDE DEF F, G
<1>6. G = F \cup n BY <1>5
<1> QED BY <1>6 DEF F, G

\* A share is a set of layers before offset: finite, with at most offset members.
LEMMA ShareFinite ==
  ASSUME AssignTypeOK, Partition, NEW w \in Indices
  PROVE  /\ IsFiniteSet(share[w])
         /\ Cardinality(share[w]) \in Nat
         /\ Cardinality(share[w]) <= offset
         /\ share[w] \subseteq 0 .. offset - 1
<1>1. offset \in Nat BY DEF AssignTypeOK
<1>2. share[w] \subseteq 0 .. offset - 1 BY DEF Partition
<1>3. /\ IsFiniteSet(0 .. offset - 1)
      /\ Cardinality(0 .. offset - 1) = offset
  <2>1. 0 \in Int /\ offset - 1 \in Int BY <1>1
  <2>2. /\ IsFiniteSet(0 .. offset - 1)
        /\ Cardinality(0 .. offset - 1) =
             IF 0 > offset - 1 THEN 0 ELSE offset - 1 - 0 + 1
    BY <2>1, FS_Interval
  <2> QED BY <1>1, <2>2
<1>4. share[w] \in SUBSET (0 .. offset - 1) BY <1>2
<1>5. IsFiniteSet(share[w]) /\ Cardinality(share[w]) <= Cardinality(0 .. offset - 1)
  BY <1>3, <1>4, FS_Subset
<1>6. Cardinality(share[w]) \in Nat BY <1>5, FS_CardinalityType
<1> QED BY <1>2, <1>3, <1>5, <1>6

\* Spare(w) is what is missing to limit[w], when Fits holds.
LEMMA SpareValue ==
  ASSUME AssignTypeOK, Partition, Fits, NEW w \in Indices
  PROVE  /\ limit[w] \in Nat
         /\ Spare(w) = limit[w] - Cardinality(share[w])
         /\ Spare(w) \in Nat
<1>1. limit[w] \in Nat BY LimitsAssumption, UnlimitedAssumption DEF AssignTypeOK
<1>2. Cardinality(share[w]) \in Nat BY ShareFinite
<1>3. Cardinality(share[w]) <= limit[w] BY DEF Fits
<1> QED BY <1>1, <1>2, <1>3 DEF Spare

\* Give keeps the partition and changes one share, by count layers.
LEMMA Giving ==
  ASSUME AssignTypeOK, Partition, NEW w \in Indices, NEW count \in Nat,
         offset + count <= layers, Give(w, count), UNCHANGED layers
  PROVE  /\ share' \in [Indices -> SUBSET Nat]
         /\ offset' = offset + count /\ offset' \in Nat
         /\ Partition'
         /\ Cardinality(share'[w]) = Cardinality(share[w]) + count
         /\ \A v \in Indices \ {w} : share'[v] = share[v]
<1> DEFINE new == offset .. offset + count - 1
<1>1. offset \in Nat /\ share \in [Indices -> SUBSET Nat] BY DEF AssignTypeOK
<1>2. /\ share' = [share EXCEPT ![w] = @ \cup new]
      /\ offset' = offset + count
  BY DEF Give
<1>3. new \in SUBSET Nat BY <1>1
<1>4. /\ \A v \in Indices \ {w} : share'[v] = share[v]
      /\ share'[w] = share[w] \cup new
      /\ share' \in [Indices -> SUBSET Nat]
  BY <1>1, <1>2, <1>3
<1>5. \A v \in Indices : share[v] \subseteq 0 .. offset - 1 BY DEF Partition
<1>6. \A v \in Indices : share[v] \cap new = {} BY <1>1, <1>5
<1>7. Partition'
  <2>1. offset' <= layers' BY <1>2
  <2>2. ASSUME NEW u \in Indices, NEW v \in Indices, u # v
        PROVE  share'[u] \cap share'[v] = {}
    <3>1. share[u] \cap share[v] = {} BY <2>2 DEF Partition
    <3> QED BY <1>4, <1>6, <2>2, <3>1
  <2>3. UNION {share'[v] : v \in Indices} = (UNION {share[v] : v \in Indices}) \cup new
    <3> HIDE DEF new
    <3>1. /\ share'[w] = share[w] \cup new
          /\ \A v \in Indices \ {w} : share'[v] = share[v]
      BY <1>4
    <3> QED BY ONLY <3>1, w \in Indices, UnionGrows
  <2>4. (0 .. offset - 1) \cup new = 0 .. offset + count - 1 BY <1>1
  <2>5. UNION {share[v] : v \in Indices} = 0 .. offset - 1 BY DEF Partition
  <2>6. offset' - 1 = offset + count - 1 BY <1>1, <1>2
  <2>7. UNION {share'[v] : v \in Indices} = 0 .. offset' - 1
    BY <2>3, <2>4, <2>5, <2>6, Zenon
  <2> QED BY <2>1, <2>2, <2>7 DEF Partition
<1>8. Cardinality(share'[w]) = Cardinality(share[w]) + count
  <2>1. IsFiniteSet(new) /\ Cardinality(new) = count
    <3>1. offset \in Int /\ offset + count - 1 \in Int BY <1>1
    <3>2. /\ IsFiniteSet(new)
          /\ Cardinality(new) = IF offset > offset + count - 1 THEN 0
                                ELSE offset + count - 1 - offset + 1
      BY <3>1, FS_Interval
    <3> HIDE DEF new
    <3> QED BY <1>1, <3>2
  <2>2. IsFiniteSet(share[w]) /\ Cardinality(share[w]) \in Nat BY ShareFinite
  <2>3. share[w] \cap new = {} BY <1>6
  <2> HIDE DEF new
  <2>4. Cardinality(share[w] \cup new) =
          Cardinality(share[w]) + Cardinality(new) - Cardinality(share[w] \cap new)
    BY <2>1, <2>2, FS_Union
  <2>5. Cardinality(share[w] \cap new) = 0 BY <2>3, FS_EmptySet
  <2> QED BY <1>4, <2>1, <2>2, <2>4, <2>5
<1> QED BY <1>1, <1>2, <1>4, <1>7, <1>8

\* Who is to come when w has been served.
LEMMA TodoAfter ==
  ASSUME AssignTypeOK, NEW w \in Indices, given' = Append(given, w)
  PROVE  given' \in Seq(Indices) /\ Todo' = Todo \ {w}
<1>1. given \in Seq(Indices) BY DEF AssignTypeOK
<1>2. given' \in Seq(Indices) BY <1>1
<1>3. Range(given') = Range(given) \cup {w}
  <2>1. /\ DOMAIN given' = 1 .. Len(given) + 1
        /\ DOMAIN given = 1 .. Len(given)
        /\ \A i \in 1 .. Len(given) : given'[i] = given[i]
        /\ given'[Len(given) + 1] = w
        /\ Len(given) \in Nat
    BY <1>1
  <2>2. ASSUME NEW i \in 1 .. Len(given) + 1
        PROVE  given'[i] \in Range(given) \cup {w}
    <3>1. CASE i = Len(given) + 1 BY <2>1, <3>1
    <3>2. CASE i \in 1 .. Len(given) BY <2>1, <3>2 DEF Range
    <3> QED BY <2>1, <2>2, <3>1, <3>2
  <2>3. ASSUME NEW i \in 1 .. Len(given) PROVE given[i] \in Range(given')
    <3>1. i \in DOMAIN given' /\ given'[i] = given[i] BY <2>1, <2>3
    <3> QED BY <3>1 DEF Range
  <2>4. w \in Range(given')
    <3>1. Len(given) + 1 \in DOMAIN given' BY <2>1
    <3> QED BY <2>1, <3>1 DEF Range
  <2>5. Range(given') \subseteq Range(given) \cup {w} BY <2>1, <2>2 DEF Range
  <2>6. Range(given) \subseteq Range(given') BY <2>1, <2>3 DEF Range
  <2> QED BY <2>4, <2>5, <2>6
<1> QED BY <1>2, <1>3 DEF Todo

-----------------------------------------------------------------------------
(* Initially. *)
LEMMA InitLInv == AssignInit => LInv
<1> SUFFICES ASSUME AssignInit PROVE LInv OBVIOUS
<1> USE DEF AssignInit
<1>1. AssignTypeOK BY DEF AssignTypeOK
<1>2. Partition
  <2>1. layers \in Nat BY LayersAssumption
  <2>2. \A w \in Indices : share[w] = {} OBVIOUS
  <2>3. 0 .. offset - 1 = {} OBVIOUS
  <2> QED BY <2>1, <2>2, <2>3 DEF Partition
<1>3. Fits
  <2>1. \A w \in Indices : share[w] = {} /\ limit[w] \in Nat
    BY LimitsAssumption, UnlimitedAssumption
  <2> QED BY <2>1, FS_EmptySet DEF Fits
<1>4. MasterRelieved /\ HalfInv /\ AssignInv /\ PushInv
  BY DEF MasterRelieved, HalfInv, AssignInv, PushInv
<1>5. Fresh /\ Idle /\ NoGpu BY DEF Fresh, Idle, NoGpu, Todo
<1> QED BY <1>1, <1>2, <1>3, <1>4, <1>5 DEF LInv

-----------------------------------------------------------------------------
(* Steps that give nothing. *)

\* What holds as long as the arguments, the shares and assignments stay.
LEMMA Standstill ==
  ASSUME LInv, UNCHANGED <<args, given, share, offset>>,
         stage' \in {"start", "half", "assign", "push", "done"},
         left' \in Nat, at' \in Nat \ {0}, missing' \in Nat
  PROVE  AssignTypeOK' /\ Partition' /\ Fits' /\ Idle' /\ NoGpu'
<1>1. AssignTypeOK' BY DEF LInv, AssignTypeOK, args
<1>2. Partition' BY DEF LInv, Partition, args
<1>3. Fits' BY DEF LInv, Fits, args
<1>4. Idle' /\ NoGpu' BY DEF LInv, Idle, NoGpu, Todo, args
<1> QED BY <1>1, <1>2, <1>3, <1>4

LEMMA NothingStep == ASSUME LInv, Nothing PROVE LInv'
<1>1. AssignTypeOK' /\ Partition' /\ Fits' /\ Idle' /\ NoGpu'
  BY Standstill DEF Nothing, LInv, AssignTypeOK
<1>2. given' = <<>> BY DEF Nothing, LInv, Fresh
<1>3. MasterRelieved'
  <2>1. DOMAIN given' = {} BY <1>2
  <2> QED BY <2>1 DEF MasterRelieved
<1>4. Fresh' /\ HalfInv' /\ AssignInv' /\ PushInv'
  BY DEF Nothing, Fresh, HalfInv, AssignInv, PushInv
<1> QED BY <1>1, <1>3, <1>4 DEF LInv

LEMMA PlanHalfStep == ASSUME LInv, PlanHalf PROVE LInv'
<1>1. layers \in Nat BY LayersAssumption DEF LInv, AssignTypeOK
<1>2. left' \in Nat /\ left' <= layers BY <1>1 DEF PlanHalf
<1>3. AssignTypeOK' /\ Partition' /\ Fits' /\ Idle' /\ NoGpu'
  BY <1>2, Standstill DEF PlanHalf, LInv, AssignTypeOK
<1>4. HalfInv'
  <2>1. given' = <<>> /\ offset' = 0 /\ ~Measured'
    BY DEF PlanHalf, LInv, Fresh, Measured, args
  <2>2. left' <= layers' BY <1>2 DEF PlanHalf, args
  <2>3. Len(given') = 0 /\ W \in Nat /\ W # 0
    BY <2>1, WAssumption DEF PlanHalf
  <2>4. 0 * (left' \div W) = 0
    <3> DEFINE q == left' \div W
    <3>1. W \in Nat \ {0} BY <2>3
    <3>2. q \in Nat BY <1>2, <3>1, DivType
    <3> HIDE DEF q
    <3>3. 0 * q = 0 BY <3>2
    <3> QED BY <3>3 DEF q
  <2> QED BY <2>1, <2>2, <2>3, <2>4 DEF HalfInv
<1>5. Fresh' /\ AssignInv' /\ PushInv' /\ MasterRelieved'
  BY DEF PlanHalf, Fresh, AssignInv, PushInv, MasterRelieved
<1> QED BY <1>3, <1>4, <1>5 DEF LInv

LEMMA HalfEndStep == ASSUME LInv, HalfEnd PROVE LInv'
<1>1. AssignTypeOK' /\ Partition' /\ Fits' /\ Idle' /\ NoGpu'
  BY Standstill DEF HalfEnd, LInv, AssignTypeOK
<1>2. ~Measured' BY DEF HalfEnd, LInv, HalfInv, Measured, args
<1>3. MasterRelieved' BY <1>2 DEF MasterRelieved
<1>4. Fresh' /\ HalfInv' /\ AssignInv' /\ PushInv'
  BY DEF HalfEnd, Fresh, HalfInv, AssignInv, PushInv
<1> QED BY <1>1, <1>3, <1>4 DEF LInv

LEMMA PlanStep == ASSUME LInv, Plan PROVE LInv'
<1>1. layers \in Nat BY LayersAssumption DEF LInv, AssignTypeOK
<1>2. left' \in Nat /\ left' <= layers BY <1>1, RoundedType DEF Plan
<1>3. AssignTypeOK' /\ Partition' /\ Fits' /\ Idle' /\ NoGpu'
  BY <1>2, Standstill DEF Plan, LInv, AssignTypeOK
<1>4. AssignInv'
  <2>1. offset' = 0 /\ at' = 1 /\ layers' = layers
    BY DEF Plan, LInv, Fresh, args
  <2> QED BY <1>2, <2>1 DEF AssignInv
<1>5. Fresh' /\ HalfInv' /\ PushInv' /\ MasterRelieved'
  BY DEF Plan, Fresh, HalfInv, PushInv, MasterRelieved
<1> QED BY <1>3, <1>4, <1>5 DEF LInv

LEMMA AssignEndStep == ASSUME LInv, AssignEnd PROVE LInv'
<1>1. /\ layers \in Nat /\ offset \in Nat /\ masterLimit \in Nat
      /\ layers < Unlimited /\ Unlimited \in Nat /\ missing \in Nat
  BY LayersAssumption, LimitsAssumption, UnlimitedAssumption DEF LInv, AssignTypeOK
<1>2. /\ stage' \in {"push", "done"} /\ missing' \in Nat
      /\ stage' = "push" => missing' = layers - offset - masterLimit
      /\ stage' = "done" => layers - offset <= masterLimit
  <2>1. CASE masterLimit < Unlimited /\ layers - offset > masterLimit
    BY <1>1, <2>1 DEF AssignEnd
  <2>2. CASE ~(masterLimit < Unlimited /\ layers - offset > masterLimit)
    BY <1>1, <2>2 DEF AssignEnd
  <2> QED BY <2>1, <2>2
<1>3. AssignTypeOK' /\ Partition' /\ Fits' /\ Idle' /\ NoGpu'
  BY <1>2, Standstill DEF AssignEnd, LInv, AssignTypeOK
<1>4. /\ layers' = layers /\ offset' = offset /\ masterLimit' = masterLimit
      /\ given' = given /\ at' = 1
  BY DEF AssignEnd, LInv, AssignInv, args
<1>5. PushInv'
  <2>1. \A i \in DOMAIN given' : ~(i < at')
    BY <1>4 DEF LInv, AssignTypeOK
  <2> QED BY <1>2, <1>4, <2>1 DEF PushInv
<1>6. MasterRelieved' BY <1>1, <1>2, <1>4 DEF MasterRelieved
<1>7. Fresh' /\ HalfInv' /\ AssignInv'
  BY <1>2 DEF Fresh, HalfInv, AssignInv
<1> QED BY <1>3, <1>5, <1>6, <1>7 DEF LInv

LEMMA PushEndStep == ASSUME LInv, PushEnd PROVE LInv'
<1>1. AssignTypeOK' /\ Partition' /\ Fits' /\ Idle' /\ NoGpu'
  BY Standstill DEF PushEnd, LInv, AssignTypeOK
<1>2. /\ layers \in Nat /\ offset \in Nat /\ masterLimit \in Nat
      /\ missing \in Nat /\ at \in Nat /\ given \in Seq(Indices)
  BY LayersAssumption, LimitsAssumption, UnlimitedAssumption DEF LInv, AssignTypeOK
<1>3. missing = layers - offset - masterLimit
  BY DEF PushEnd, LInv, PushInv
<1>4. ASSUME layers - offset > masterLimit, NEW i \in DOMAIN given
      PROVE  Spare(given[i]) = 0
  <2>1. missing > 0 BY <1>2, <1>3, <1>4
  <2>2. at > Len(given) BY <1>2, <2>1 DEF PushEnd
  <2>3. i < at BY <1>2, <1>4, <2>2
  <2> QED BY <1>4, <2>1, <2>3 DEF PushEnd, LInv, PushInv
<1>5. \A v : Spare(v)' = Spare(v) BY DEF PushEnd, Spare, args
<1>6. MasterRelieved'
  BY <1>4, <1>5 DEF MasterRelieved, PushEnd, args
<1>7. Fresh' /\ HalfInv' /\ AssignInv' /\ PushInv'
  BY DEF PushEnd, Fresh, HalfInv, AssignInv, PushInv
<1> QED BY <1>1, <1>6, <1>7 DEF LInv

-----------------------------------------------------------------------------
(* Steps that give layers to a worker. *)

\* What holds after w has been given count layers that it has room for.
LEMMA Given ==
  ASSUME LInv, NEW w \in Indices, NEW count \in Nat,
         offset + count <= layers, Give(w, count),
         Cardinality(share[w]) + count <= limit[w],
         UNCHANGED args, given' \in Seq(Indices), Todo' \subseteq Todo \ {w},
         stage' \in {"start", "half", "assign", "push", "done"},
         left' \in Nat, at' \in Nat \ {0}, missing' \in Nat
  PROVE  AssignTypeOK' /\ Partition' /\ Fits' /\ Idle' /\ NoGpu'
<1>0. AssignTypeOK /\ Partition /\ UNCHANGED layers BY DEF LInv, args
<1>1. /\ share' \in [Indices -> SUBSET Nat]
      /\ offset' \in Nat
      /\ Partition'
      /\ Cardinality(share'[w]) = Cardinality(share[w]) + count
      /\ \A v \in Indices \ {w} : share'[v] = share[v]
  BY <1>0, Giving
<1>2. AssignTypeOK' BY <1>1 DEF LInv, AssignTypeOK, args
<1>3. Fits'
  <2>1. ASSUME NEW v \in Indices PROVE Cardinality(share'[v]) <= limit[v]
    <3>1. CASE v = w BY <1>1, <3>1
    <3>2. CASE v # w BY <1>1, <3>2 DEF LInv, Fits
    <3> QED BY <3>1, <3>2
  <2> QED BY <2>1 DEF Fits, args
<1>4. Idle'
  <2>1. ASSUME NEW v \in Todo' PROVE share'[v] = {}
    <3>1. v \in Todo /\ v \in Indices \ {w} BY <2>1 DEF Todo
    <3> QED BY <1>1, <3>1 DEF LInv, Idle
  <2> QED BY <2>1 DEF Idle
<1>5. NoGpu' BY DEF LInv, NoGpu, args
<1> QED BY <1>1, <1>2, <1>3, <1>4, <1>5

LEMMA HalfStepStep == ASSUME LInv, HalfStep PROVE LInv'
<1> DEFINE w == Len(given)
           q == left \div W
           count == IF w = W - 1 THEN left - offset ELSE q
<1>1. /\ AssignTypeOK /\ layers \in Nat /\ offset \in Nat /\ left \in Nat
      /\ given \in Seq(Indices) /\ W \in Nat /\ layers < Unlimited
  BY LayersAssumption, UnlimitedAssumption, WAssumption DEF LInv, AssignTypeOK
<1>2. w \in Nat /\ w < W BY <1>1 DEF HalfStep
<1>3. w \in Indices BY <1>1, <1>2 DEF Indices
<1>4. q \in Nat /\ W * q <= left
  <2>1. W \in Nat \ {0} BY <1>1, <1>2
  <2> QED BY <1>1, <2>1, DivType
<1>5. left <= layers /\ offset = w * q /\ ~Measured
  <2>1. Len(given) # W BY <1>1, <1>2
  <2> QED BY <2>1 DEF HalfStep, LInv, HalfInv
<1>6. Give(w, count) /\ given' = Append(given, w) BY DEF HalfStep
<1>7. /\ UNCHANGED <<args, stage, left, at, missing>> /\ stage = "half"
  BY DEF HalfStep
<1> HIDE DEF w, q
<1>8. (w + 1) * q = w * q + q /\ w * q \in Nat BY <1>2, <1>4
<1>9. (w + 1) * q <= W * q
  <2>1. w + 1 <= W BY <1>1, <1>2
  <2> QED BY <1>1, <1>2, <1>4, <2>1
<1>10. /\ count \in Nat /\ offset + count <= left
       /\ w # W - 1 => offset + count = (w + 1) * q
  <2>1. W * q \in Nat BY <1>1, <1>4
  <2> DEFINE a == w * q
             b == W * q
             c == (w + 1) * q
  <2>2. /\ offset = a /\ c = a + q /\ c <= b /\ b <= left
        /\ a \in Nat /\ b \in Nat
    BY <1>4, <1>5, <1>8, <1>9, <2>1
  <2> HIDE DEF a, b, c
  <2>3. /\ count \in Nat /\ offset + count <= left
        /\ w # W - 1 => offset + count = c
    BY <1>1, <1>2, <1>4, <2>2
  <2> QED BY <2>3 DEF c
<1> HIDE DEF count
<1>11. offset + count <= layers BY <1>1, <1>5, <1>10
<1>12. Cardinality(share[w]) + count <= limit[w]
  <2>1. tflops[w] = 0
    <3>1. tflops[w] \in Nat BY <1>1, <1>3, TflopsAssumption DEF AssignTypeOK
    <3>2. ~(tflops[w] > 0) BY <1>3, <1>5 DEF Measured
    <3> QED BY <3>1, <3>2
  <2>2. limit[w] = Unlimited BY <1>3, <2>1 DEF LInv, NoGpu
  <2>3. Cardinality(share[w]) \in Nat /\ Cardinality(share[w]) <= offset
    BY <1>1, <1>3, ShareFinite DEF LInv
  <2>4. Unlimited \in Nat BY UnlimitedAssumption
  <2> QED BY <1>1, <1>10, <1>11, <2>2, <2>3, <2>4
<1>13. given' \in Seq(Indices) /\ Todo' = Todo \ {w}
  BY <1>1, <1>3, <1>6, TodoAfter
<1>14. /\ stage' \in {"start", "half", "assign", "push", "done"}
       /\ left' \in Nat /\ at' \in Nat \ {0} /\ missing' \in Nat
  BY <1>1, <1>7 DEF AssignTypeOK
<1>15. AssignTypeOK' /\ Partition' /\ Fits' /\ Idle' /\ NoGpu'
  BY <1>3, <1>6, <1>7, <1>10, <1>11, <1>12, <1>13, <1>14, Given
<1>16. HalfInv'
  <2>1. offset' = offset + count BY <1>6 DEF Give
  <2>2. Len(given') = w + 1 BY <1>1, <1>6 DEF w
  <2>3. ~Measured' /\ left' <= layers'
    BY <1>5, <1>7 DEF Measured, args
  <2>4. w + 1 <= W BY <1>1, <1>2
  <2>5. CASE w = W - 1
    <3>1. Len(given') = W BY <1>1, <1>2, <2>2, <2>5
    <3>2. offset' <= left' BY <1>7, <1>10, <2>1
    <3> QED BY <1>1, <2>3, <3>1, <3>2 DEF HalfInv
  <2>6. CASE w # W - 1
    <3>1. Len(given') # W BY <1>1, <1>2, <2>2, <2>6
    <3>2. offset' = (w + 1) * q BY <1>10, <2>1, <2>6
    <3>3. left' \div W = q BY <1>7 DEF q
    <3>4. offset' = Len(given') * (left' \div W) BY <2>2, <3>2, <3>3
    <3> QED BY <2>2, <2>3, <2>4, <3>1, <3>4 DEF HalfInv
  <2> QED BY <2>5, <2>6
<1>17. Fresh' /\ AssignInv' /\ PushInv' /\ MasterRelieved'
  BY <1>7 DEF Fresh, AssignInv, PushInv, MasterRelieved
<1> QED BY <1>15, <1>16, <1>17 DEF LInv

LEMMA AssignStep == ASSUME LInv, Assign PROVE LInv'
<1>1. /\ AssignTypeOK /\ Partition /\ layers \in Nat /\ offset \in Nat /\ left \in Nat
      /\ left + offset <= layers /\ stage = "assign" /\ at = 1
  BY LayersAssumption DEF LInv, AssignTypeOK, Assign, AssignInv
<1>a. PICK w \in Todo :
        /\ \E want \in Wanted(w) : /\ Give(w, Capped(w, want))
                                  /\ left' = left - Capped(w, want)
        /\ given' = Append(given, w)
  BY DEF Assign
<1>2. PICK want \in Wanted(w) : /\ Give(w, Capped(w, want))
                               /\ left' = left - Capped(w, want)
  BY <1>a
<1>3. w \in Indices BY DEF Todo
<1>4. want \in Nat /\ want <= left
  <2>1. CASE Todo = {w} BY <1>1, <2>1 DEF Wanted
  <2>2. CASE Todo # {w}
    <3>1. PICK m \in Rounded(tflops[w], Power(Todo), left) :
            want = MinOf(MaxOf(m, 1), left)
      BY <2>2 DEF Wanted
    <3>2. m \in Nat BY <1>1, RoundedType
    <3>3. MaxOf(m, 1) \in Nat BY <3>2, MaxType
    <3> QED BY <1>1, <3>1, <3>3, MinType
  <2> QED BY <2>1, <2>2
<1>5. limit[w] \in Nat
  BY <1>1, <1>3, LimitsAssumption, UnlimitedAssumption DEF AssignTypeOK
<1> DEFINE count == Capped(w, want)
<1>6. count \in Nat /\ count <= want /\ count <= limit[w]
  BY <1>4, <1>5, MinType DEF Capped
<1>7. Give(w, count) /\ left' = left - count BY <1>2
<1> HIDE DEF count
<1>8. offset + count <= layers /\ left' \in Nat BY <1>1, <1>4, <1>6, <1>7
<1>9. Cardinality(share[w]) + count <= limit[w]
  <2>1. share[w] = {} BY DEF LInv, Idle
  <2>2. Cardinality(share[w]) = 0 BY <2>1, FS_EmptySet
  <2> QED BY <1>5, <1>6, <2>2
<1>10. UNCHANGED <<args, stage, at, missing>> BY DEF Assign
<1>11. given' \in Seq(Indices) /\ Todo' = Todo \ {w}
  BY <1>1, <1>a, <1>3, TodoAfter
<1>12. /\ stage' \in {"start", "half", "assign", "push", "done"}
       /\ at' \in Nat \ {0} /\ missing' \in Nat
  BY <1>1, <1>10 DEF AssignTypeOK
<1>13. AssignTypeOK' /\ Partition' /\ Fits' /\ Idle' /\ NoGpu'
  BY <1>3, <1>6, <1>7, <1>8, <1>9, <1>10, <1>11, <1>12, Given
<1>14. AssignInv'
  <2>1. offset' = offset + count /\ layers' = layers BY <1>7, <1>10 DEF Give, args
  <2> QED BY <1>1, <1>6, <1>7, <1>10, <2>1 DEF AssignInv
<1>15. Fresh' /\ HalfInv' /\ PushInv' /\ MasterRelieved'
  BY <1>1, <1>10 DEF Fresh, HalfInv, PushInv, MasterRelieved
<1> QED BY <1>13, <1>14, <1>15 DEF LInv

LEMMA PushStep == ASSUME LInv, Push PROVE LInv'
<1>1. /\ AssignTypeOK /\ Partition /\ Fits /\ layers \in Nat /\ offset \in Nat
      /\ missing \in Nat /\ at \in Nat \ {0} /\ masterLimit \in Nat
      /\ given \in Seq(Indices) /\ stage = "push"
  BY LayersAssumption, LimitsAssumption, UnlimitedAssumption
  DEF LInv, AssignTypeOK, Push
<1>2. /\ missing = layers - offset - masterLimit
      /\ \A i \in DOMAIN given : i < at /\ missing > 0 => Spare(given[i]) = 0
  BY <1>1 DEF LInv, PushInv
<1>3. missing > 0 /\ at <= Len(given) BY DEF Push
<1>4. at \in DOMAIN given BY <1>1, <1>3
<1>5. PICK w \in Indices : w = given[at] BY <1>1, <1>4
<1> DEFINE take == MinOf(Spare(w), missing)
<1>6. Give(w, take) /\ missing' = missing - take /\ at' = at + 1 BY <1>5 DEF Push
<1>7. UNCHANGED <<args, stage, given, left>> BY DEF Push
<1>8. w \in Range(given) BY <1>4, <1>5 DEF Range
<1>9. /\ limit[w] \in Nat /\ Spare(w) \in Nat
      /\ Spare(w) = limit[w] - Cardinality(share[w])
  BY <1>1, <1>5, SpareValue
<1>10. Cardinality(share[w]) \in Nat BY <1>1, <1>5, ShareFinite
<1>11. take \in Nat /\ take <= Spare(w) /\ take <= missing
  BY <1>1, <1>9, MinType
<1>12. take = Spare(w) \/ take = missing BY DEF MinOf
<1> HIDE DEF take
<1>13. offset + take <= layers /\ missing' \in Nat /\ at' \in Nat \ {0}
  BY <1>1, <1>2, <1>6, <1>11
<1>14. Cardinality(share[w]) + take <= limit[w] BY <1>9, <1>10, <1>11
<1>15. given' \in Seq(Indices) /\ Todo' \subseteq Todo \ {w}
  BY <1>1, <1>7, <1>8 DEF Todo
<1>16. stage' \in {"start", "half", "assign", "push", "done"} /\ left' \in Nat
  BY <1>1, <1>7 DEF AssignTypeOK
<1>17. AssignTypeOK' /\ Partition' /\ Fits' /\ Idle' /\ NoGpu'
  BY <1>5, <1>6, <1>7, <1>11, <1>13, <1>14, <1>15, <1>16, Given
<1>18. /\ offset' = offset + take
       /\ Cardinality(share'[w]) = Cardinality(share[w]) + take
       /\ \A v \in Indices \ {w} : share'[v] = share[v]
  BY <1>1, <1>5, <1>6, <1>7, <1>11, <1>13, Giving DEF args
<1>19. PushInv'
  <2>1. missing' = layers' - offset' - masterLimit'
    BY <1>1, <1>2, <1>6, <1>7, <1>11, <1>18 DEF args
  <2>2. ASSUME NEW i \in DOMAIN given, i < at', missing' > 0
        PROVE  Spare(given[i])' = 0
    <3>1. take = Spare(w) BY <1>1, <1>6, <1>11, <1>12, <2>2
    <3>2. Spare(w)' = 0
      <4>1. Cardinality(share'[w]) = limit'[w]
        BY <1>7, <1>9, <1>10, <1>18, <3>1 DEF args
      <4>2. limit'[w] \in Nat BY <1>7, <1>9 DEF args
      <4> QED BY <4>1, <4>2 DEF Spare
    <3>3. CASE given[i] = w BY <1>7, <3>2, <3>3
    <3>4. CASE given[i] # w
      <4>1. i \in Nat /\ given[i] \in Indices BY <1>1, <2>2
      <4>2. i # at BY <1>5, <3>4
      <4>3. i < at BY <1>1, <1>6, <2>2, <4>1, <4>2
      <4>4. Spare(given[i]) = 0 BY <1>2, <1>3, <2>2, <4>3
      <4>5. share'[given[i]] = share[given[i]] BY <1>18, <3>4, <4>1
      <4> QED BY <1>7, <4>4, <4>5 DEF Spare, args
    <3> QED BY <3>3, <3>4
  <2>3. given' = given BY <1>7
  <2> QED BY <2>1, <2>2, <2>3 DEF PushInv
<1>20. Fresh' /\ HalfInv' /\ AssignInv' /\ MasterRelieved'
  BY <1>1, <1>7 DEF Fresh, HalfInv, AssignInv, MasterRelieved
<1> QED BY <1>17, <1>19, <1>20 DEF LInv

LEMMA StutterStep == ASSUME LInv, UNCHANGED avars PROVE LInv'
<1>1. /\ UNCHANGED args
      /\ UNCHANGED <<stage, given, share, offset, left, at, missing>>
  BY DEF avars
<1>2. AssignTypeOK' /\ Partition' /\ Fits' /\ Idle' /\ NoGpu'
  BY <1>1, Standstill DEF LInv, AssignTypeOK
<1>3. \A v : Spare(v)' = Spare(v) BY <1>1 DEF Spare, args
<1>4. MasterRelieved' /\ PushInv'
  BY <1>1, <1>3 DEF LInv, MasterRelieved, PushInv, Measured, args
<1>5. Fresh' /\ HalfInv' /\ AssignInv'
  BY <1>1 DEF LInv, Fresh, HalfInv, AssignInv, Measured, args
<1> QED BY <1>2, <1>4, <1>5 DEF LInv

-----------------------------------------------------------------------------
(* Theorems. *)

\* The inductive invariant of assign_layers, for any workers, capacities and
\* number of layers.
THEOREM AssignmentInvariant == AssignSpec => []LInv
<1>1. AssignInit => LInv BY InitLInv
<1>2. LInv /\ [AssignNext]_avars => LInv'
  <2> SUFFICES ASSUME LInv, [AssignNext]_avars PROVE LInv' OBVIOUS
  <2>1. CASE Nothing BY <2>1, NothingStep
  <2>2. CASE PlanHalf BY <2>2, PlanHalfStep
  <2>3. CASE HalfStep BY <2>3, HalfStepStep
  <2>4. CASE HalfEnd BY <2>4, HalfEndStep
  <2>5. CASE Plan BY <2>5, PlanStep
  <2>6. CASE Assign BY <2>6, AssignStep
  <2>7. CASE AssignEnd BY <2>7, AssignEndStep
  <2>8. CASE Push BY <2>8, PushStep
  <2>9. CASE PushEnd BY <2>9, PushEndStep
  <2>10. CASE UNCHANGED avars BY <2>10, StutterStep
  <2> QED BY <2>1, <2>2, <2>3, <2>4, <2>5, <2>6, <2>7, <2>8, <2>9, <2>10
          DEF AssignNext, Returned
<1> QED BY <1>1, <1>2, PTL DEF AssignSpec

\* Each layer has exactly one owner: a worker, or the master from offset on.
THEOREM OneOwner == AssignSpec => []Partition
<1>1. LInv => Partition BY DEF LInv
<1> QED BY <1>1, AssignmentInvariant, PTL

\* No worker is assigned more layers than its memory holds.
THEOREM NeverOverfull == AssignSpec => []Fits
<1>1. LInv => Fits BY DEF LInv
<1> QED BY <1>1, AssignmentInvariant, PTL

\* The master keeps too many layers only when those taking part are full.
THEOREM MasterRelievedAlways == AssignSpec => []MasterRelieved
<1>1. LInv => MasterRelieved BY DEF LInv
<1> QED BY <1>1, AssignmentInvariant, PTL

-----------------------------------------------------------------------------
(* Sums of compute power. *)

\* Induction, up to a number.
LEMMA AllUpTo ==
  ASSUME NEW N \in Nat, NEW S, 0 \in S, \A n \in 0 .. N : n # 0 /\ n - 1 \in S => n \in S
  PROVE  0 .. N \subseteq S
<1> DEFINE Bad == (0 .. N) \ S
<1>1. SUFFICES ASSUME Bad # {} PROVE FALSE
  OBVIOUS
<1>2. Bad \subseteq Nat
  OBVIOUS
<1>3. PICK x \in Bad : \A y \in Bad : ~ (<<y, x>> \in OpToRel(<, Nat))
  BY <1>1, <1>2, WFMin, NatLessThanWellFounded
<1>4. \A a, b \in Nat : a < b => <<a, b>> \in OpToRel(<, Nat)
  BY DEF OpToRel
<1>5. x \in 0 .. N /\ x # 0
  OBVIOUS
<1>6. x - 1 \in Nat /\ x \in Nat /\ x - 1 < x /\ x - 1 \in 0 .. N
  BY <1>5
<1>7. x - 1 \notin Bad
  BY <1>3, <1>4, <1>6, Zenon
<1>8. x \in S
  BY <1>5, <1>6, <1>7
<1>9. QED
  BY <1>8

\* What w adds to a sum over S, and the sums over the first workers in S.
Part(S, w) == IF w \in S THEN tflops[w] ELSE 0
Sums(f, S, n) == f = [k \in 0 .. n |-> IF k = 0 THEN 0 ELSE f[k - 1] + Part(S, k - 1)]

LEMMA SumsExist ==
  ASSUME NEW S PROVE \E f : Sums(f, S, W)
<1> DEFINE Good == {n \in Nat : \E f : Sums(f, S, n)}
<1>0. W \in Nat
  BY WAssumption
<1>1. 0 \in Good
  <2> DEFINE f == [k \in 0 .. 0 |-> 0]
  <2>1. f = [k \in 0 .. 0 |-> IF k = 0 THEN 0 ELSE f[k - 1] + Part(S, k - 1)]
    OBVIOUS
  <2>2. Sums(f, S, 0)
    BY <2>1 DEF Sums
  <2>3. QED
    BY <2>2
<1>2. ASSUME NEW n \in 0 .. W, n # 0, n - 1 \in Good PROVE n \in Good
  <2>1. PICK f : Sums(f, S, n - 1)
    BY <1>2
  <2>2. f = [k \in 0 .. n - 1 |-> IF k = 0 THEN 0 ELSE f[k - 1] + Part(S, k - 1)]
    BY <2>1 DEF Sums
  <2> DEFINE g == [k \in 0 .. n |-> IF k = n THEN f[n - 1] + Part(S, n - 1) ELSE f[k]]
  <2>3. ASSUME NEW k \in 0 .. n PROVE g[k] = IF k = 0 THEN 0 ELSE g[k - 1] + Part(S, k - 1)
    <3>1. n \in Nat \ {0} /\ n - 1 \in 0 .. n /\ n - 1 # n
      BY <1>2
    <3>2. CASE k = n
      <4>1. g[k] = f[n - 1] + Part(S, n - 1)
        BY <3>2
      <4>2. g[n - 1] = f[n - 1]
        BY <3>1
      <4>3. QED
        BY <3>1, <3>2, <4>1, <4>2, Zenon
    <3>3. CASE k # n
      <4>1. k \in 0 .. n - 1 /\ g[k] = f[k]
        BY <3>1, <3>3
      <4>2. f[k] = IF k = 0 THEN 0 ELSE f[k - 1] + Part(S, k - 1)
        BY <2>2, <4>1, Zenon
      <4>3. k # 0 => k - 1 \in 0 .. n /\ k - 1 # n
        BY <4>1
      <4>4. k # 0 => g[k - 1] = f[k - 1]
        BY <4>3
      <4>5. QED
        BY <4>1, <4>2, <4>4, Zenon
    <3>4. QED
      BY <3>2, <3>3
  <2>4. g = [k \in 0 .. n |-> g[k]]
    OBVIOUS
  <2> HIDE DEF g
  <2>5. [k \in 0 .. n |-> g[k]] = [k \in 0 .. n |-> IF k = 0 THEN 0 ELSE g[k - 1] + Part(S, k - 1)]
    BY <2>3, Zenon
  <2>6. Sums(g, S, n)
    BY <2>4, <2>5, Zenon DEF Sums
  <2>7. n \in Nat
    BY <1>2
  <2>8. QED
    BY <2>6, <2>7, Zenon
<1>3. 0 .. W \subseteq Good
  <2> HIDE DEF Good
  <2>1. QED
    BY <1>0, <1>1, <1>2, AllUpTo
<1>4. QED
  BY <1>0, <1>3

\* Power(S) is the last of these sums.
LEMMA PowerIs ==
  ASSUME NEW S
  PROVE  \E f : f[0] = 0 /\ (\A k \in 1 .. W : f[k] = f[k - 1] + Part(S, k - 1)) /\ Power(S) = f[W]
<1> DEFINE f == CHOOSE f : f = [k \in 0 .. W |-> IF k = 0 THEN 0 ELSE f[k - 1] + (IF k - 1 \in S THEN tflops[k - 1] ELSE 0)]
<1>1. Power(S) = f[W]
  BY DEF Power
<1>2. \E g : g = [k \in 0 .. W |-> IF k = 0 THEN 0 ELSE g[k - 1] + (IF k - 1 \in S THEN tflops[k - 1] ELSE 0)]
  BY SumsExist DEF Sums, Part
<1>3. f = [k \in 0 .. W |-> IF k = 0 THEN 0 ELSE f[k - 1] + (IF k - 1 \in S THEN tflops[k - 1] ELSE 0)]
  BY <1>2
<1> HIDE DEF f
<1>4. W \in Nat
  BY WAssumption
<1>5. f[0] = 0
  BY <1>3, <1>4
<1>6. ASSUME NEW k \in 1 .. W PROVE f[k] = f[k - 1] + Part(S, k - 1)
  <2>1. k \in 0 .. W /\ k # 0
    BY <1>4
  <2>2. f[k] = f[k - 1] + (IF k - 1 \in S THEN tflops[k - 1] ELSE 0)
    BY <1>3, <2>1
  <2>3. QED
    BY <2>2 DEF Part
<1>7. QED
  BY <1>1, <1>5, <1>6

\* A sum of powers up to t each.
LEMMA PowerAtMost ==
  ASSUME AssignTypeOK, NEW S, NEW t \in Nat, \A w \in Indices : w \in S => tflops[w] <= t
  PROVE  Power(S) \in Nat /\ Power(S) <= W * t
<1>0. W \in Nat /\ \A w \in Indices : tflops[w] \in Nat
  BY WAssumption, TflopsAssumption DEF AssignTypeOK
<1>1. PICK f : f[0] = 0 /\ (\A k \in 1 .. W : f[k] = f[k - 1] + Part(S, k - 1)) /\ Power(S) = f[W]
  BY PowerIs
<1> DEFINE Good == {k \in 0 .. W : f[k] \in Nat /\ f[k] <= k * t}
<1>2. 0 \in Good
  BY <1>0, <1>1
<1>3. ASSUME NEW k \in 0 .. W, k # 0, k - 1 \in Good PROVE k \in Good
  <2>1. k \in 1 .. W /\ k - 1 \in Indices
    BY <1>0, <1>3 DEF Indices
  <2>2. f[k - 1] \in Nat /\ f[k - 1] <= (k - 1) * t
    BY <1>3
  <2>3. f[k] = f[k - 1] + Part(S, k - 1)
    BY <1>1, <2>1
  <2>4. Part(S, k - 1) \in Nat /\ Part(S, k - 1) <= t
    BY <1>0, <2>1 DEF Part
  <2>5. k * t = (k - 1) * t + t
    BY <2>1
  <2>6. (k - 1) * t \in Nat
    BY <2>1
  <2>7. QED
    BY <2>2, <2>3, <2>4, <2>5, <2>6
<1>4. 0 .. W \subseteq Good
  <2> HIDE DEF Good
  <2>1. QED
    BY <1>0, <1>2, <1>3, AllUpTo
<1>5. QED
  BY <1>0, <1>1, <1>4

\* One worker of the set, and the others.
LEMMA PowerWithout ==
  ASSUME AssignTypeOK, NEW S, NEW w \in Indices, w \in S
  PROVE  Power(S) \in Nat /\ Power(S \ {w}) \in Nat /\ Power(S) = tflops[w] + Power(S \ {w})
<1>0. W \in Nat /\ w \in 0 .. W - 1 /\ \A v \in Indices : tflops[v] \in Nat
  BY WAssumption, TflopsAssumption DEF AssignTypeOK, Indices
<1>1. PICK f : f[0] = 0 /\ (\A k \in 1 .. W : f[k] = f[k - 1] + Part(S, k - 1)) /\ Power(S) = f[W]
  BY PowerIs
<1>2. PICK g : g[0] = 0 /\ (\A k \in 1 .. W : g[k] = g[k - 1] + Part(S \ {w}, k - 1)) /\ Power(S \ {w}) = g[W]
  BY PowerIs
<1> DEFINE Good == {k \in 0 .. W : f[k] \in Nat /\ g[k] \in Nat /\ f[k] = g[k] + IF w < k THEN tflops[w] ELSE 0}
<1>3. 0 \in Good
  BY <1>0, <1>1, <1>2
<1>4. ASSUME NEW k \in 0 .. W, k # 0, k - 1 \in Good PROVE k \in Good
  <2>1. k \in 1 .. W /\ k - 1 \in Indices
    BY <1>0, <1>4 DEF Indices
  <2>2. f[k - 1] \in Nat /\ g[k - 1] \in Nat /\ f[k - 1] = g[k - 1] + IF w < k - 1 THEN tflops[w] ELSE 0
    BY <1>4
  <2>3. f[k] = f[k - 1] + Part(S, k - 1) /\ g[k] = g[k - 1] + Part(S \ {w}, k - 1)
    BY <1>1, <1>2, <2>1
  <2>4. tflops[w] \in Nat /\ tflops[k - 1] \in Nat
    BY <1>0, <2>1
  <2>5. Part(S, k - 1) \in Nat /\ Part(S \ {w}, k - 1) \in Nat
    BY <2>4 DEF Part
  <2>6. CASE k - 1 = w
    <3>1. Part(S, k - 1) = tflops[w] /\ Part(S \ {w}, k - 1) = 0
      BY <2>6 DEF Part
    <3>2. w < k /\ ~ (w < k - 1)
      BY <1>0, <2>1, <2>6
    <3>3. QED
      BY <2>2, <2>3, <2>4, <3>1, <3>2
  <2>7. CASE k - 1 # w
    <3>1. Part(S, k - 1) = Part(S \ {w}, k - 1)
      BY <2>7 DEF Part
    <3>2. w < k <=> w < k - 1
      BY <1>0, <2>1, <2>7
    <3>3. QED
      BY <2>2, <2>3, <2>4, <2>5, <3>1, <3>2
  <2>8. QED
    BY <2>6, <2>7
<1>5. 0 .. W \subseteq Good
  <2> HIDE DEF Good
  <2>1. QED
    BY <1>0, <1>3, <1>4, AllUpTo
<1>6. W \in 0 .. W /\ w < W /\ tflops[w] \in Nat
  BY <1>0
<1>7. f[W] \in Nat /\ g[W] \in Nat /\ f[W] = g[W] + IF w < W THEN tflops[w] ELSE 0
  BY <1>5, <1>6
<1>8. f[W] = g[W] + tflops[w]
  BY <1>6, <1>7
<1>9. Power(S) = f[W] /\ Power(S \ {w}) = g[W]
  BY <1>1, <1>2
<1>10. QED
  BY <1>6, <1>7, <1>8, <1>9

LEMMA PowerNone ==
  ASSUME AssignTypeOK PROVE Power({}) = 0
<1>1. Power({}) \in Nat /\ Power({}) <= W * 0
  BY PowerAtMost
<1>2. W * 0 = 0
  BY WAssumption
<1>3. QED
  BY <1>1, <1>2

-----------------------------------------------------------------------------
(* Proportional. *)

LEMMA Monotone ==
  ASSUME NEW c \in Nat, NEW a \in Int, NEW b \in Int, a <= b
  PROVE  c * a <= c * b
<1>1. c * (b - a) \in Nat
  OBVIOUS
<1>2. c * b = c * a + c * (b - a)
  OBVIOUS
<1>3. c * a \in Int
  OBVIOUS
<1>4. QED
  BY <1>1, <1>2, <1>3

LEMMA Divide ==
  ASSUME NEW c \in Nat \ {0}, NEW a \in Int, NEW b \in Int, c * a <= c * b
  PROVE  a <= b
<1>1. SUFFICES ASSUME b + 1 <= a PROVE FALSE
  OBVIOUS
<1>2. c * (b + 1) <= c * a
  BY <1>1, Monotone
<1>3. c * (b + 1) = c * b + c
  OBVIOUS
<1>4. c * a \in Int /\ c * b \in Int
  OBVIOUS
<1>5. QED
  BY <1>2, <1>3, <1>4

\* x is an average of d and e, so no further from 0 than they are together.
LEMMA Average ==
  ASSUME NEW r \in Nat \ {0}, NEW s \in Nat, s <= r, NEW p \in Nat, NEW j \in Nat, NEW k \in Nat,
         NEW d \in Int, NEW e \in Int, NEW x \in Int, r * x = p * d + s * e,
         2 * d <= j * r, 2 * e <= k * p
  PROVE  2 * x <= (j + k) * p
<1>1. p * (2 * d) <= p * (j * r)
  <2>1. j * r \in Int /\ 2 * d \in Int
    OBVIOUS
  <2>2. QED
    BY <2>1, Monotone
<1>2. s * (2 * e) <= s * (k * p)
  <2>1. k * p \in Int /\ 2 * e \in Int
    OBVIOUS
  <2>2. QED
    BY <2>1, Monotone
<1>3. (k * p) * s <= (k * p) * r
  <2>1. k * p \in Nat
    OBVIOUS
  <2>2. QED
    BY <2>1, Monotone
<1>4. r * (2 * x) = p * (2 * d) + s * (2 * e)
  <2>1. r * (2 * x) = 2 * (r * x)
    OBVIOUS
  <2>2. p * (2 * d) = 2 * (p * d) /\ s * (2 * e) = 2 * (s * e)
    OBVIOUS
  <2>3. r * x \in Int /\ p * d \in Int /\ s * e \in Int
    OBVIOUS
  <2>4. QED
    BY <2>1, <2>2, <2>3
<1>5. r * ((j + k) * p) = p * (j * r) + (k * p) * r
  OBVIOUS
<1>6. s * (k * p) = (k * p) * s
  OBVIOUS
<1>7. r * (2 * x) <= r * ((j + k) * p)
  <2>1. /\ p * (2 * d) \in Int /\ p * (j * r) \in Int /\ s * (2 * e) \in Int /\ s * (k * p) \in Int
        /\ (k * p) * s \in Int /\ (k * p) * r \in Int
    OBVIOUS
  <2>2. QED
    BY <1>1, <1>2, <1>3, <1>4, <1>5, <1>6, <2>1
<1>8. 2 * x \in Int /\ (j + k) * p \in Int
  OBVIOUS
<1>9. QED
  BY <1>7, <1>8, Divide

LEMMA Nearer ==
  ASSUME NEW a \in Int, NEW b \in Int, NEW h \in Nat, NEW k \in Nat, h <= k, NEW p \in Nat,
         Near(a, b, h, p)
  PROVE  Near(a, b, k, p)
<1>1. p * h <= p * k
  BY Monotone
<1>2. p * h = h * p /\ p * k = k * p /\ h * p \in Int /\ k * p \in Int
  OBVIOUS
<1>3. QED
  BY <1>1, <1>2 DEF Near

\* One round: n of the l layers that are left go to a worker that has t of the
\* power r to come; j is the error of rounding, and k that of the rounds before.
LEMMA OneRound ==
  ASSUME NEW l \in Nat, NEW total \in Nat, NEW p \in Nat, NEW t \in Nat, NEW n \in Nat,
         NEW r \in Nat \ {0}, t <= r, NEW j \in Nat, NEW k \in Nat,
         Near(n * r, t * l, j, r), Near(l * p, total * r, k, p)
  PROVE  /\ Near(n * p, t * total, j + k, p)
         /\ Near((l - n) * p, total * (r - t), j + k, p)
<1> DEFINE d == n * r - t * l
           e == l * p - total * r
           x == n * p - t * total
           y == (l - n) * p - total * (r - t)
<1>1. /\ d \in Int /\ e \in Int /\ x \in Int /\ y \in Int
      /\ -d \in Int /\ -e \in Int /\ -x \in Int /\ -y \in Int /\ r - t \in Nat /\ r - t <= r
  OBVIOUS
<1>2. /\ 2 * d <= j * r /\ 2 * (-d) <= j * r /\ 2 * e <= k * p /\ 2 * (-e) <= k * p
  BY DEF Near
<1>3. r * x = p * d + t * e
  <2>1. r * x = r * (n * p) - r * (t * total)
    OBVIOUS
  <2>2. p * d = p * (n * r) - p * (t * l) /\ t * e = t * (l * p) - t * (total * r)
    OBVIOUS
  <2>3. r * (n * p) = p * (n * r) /\ r * (t * total) = t * (total * r) /\ p * (t * l) = t * (l * p)
    OBVIOUS
  <2>4. p * (n * r) \in Int /\ t * (total * r) \in Int /\ t * (l * p) \in Int
    OBVIOUS
  <2> HIDE DEF d, e, x
  <2>5. QED
    BY <2>1, <2>2, <2>3, <2>4
<1>4. y = e - x
  <2>1. (l - n) * p = l * p - n * p /\ total * (r - t) = total * r - total * t /\ total * t = t * total
    OBVIOUS
  <2>2. l * p \in Int /\ n * p \in Int /\ total * r \in Int /\ t * total \in Int
    OBVIOUS
  <2>3. QED
    BY <2>1, <2>2
<1>5. x = n * p - t * total /\ y = (l - n) * p - total * (r - t)
  OBVIOUS
<1> HIDE DEF d, e, x, y
<1>6. r * (-x) = p * (-d) + t * (-e)
  <2>1. r * (-x) = -(r * x) /\ p * (-d) = -(p * d) /\ t * (-e) = -(t * e)
    BY <1>1
  <2>2. r * x \in Int /\ p * d \in Int /\ t * e \in Int
    BY <1>1
  <2>3. QED
    BY <1>3, <2>1, <2>2
<1>7. r * y = p * (-d) + (r - t) * e
  <2>1. r * y = r * e - r * x /\ p * (-d) = -(p * d) /\ (r - t) * e = r * e - t * e
    BY <1>1, <1>4
  <2>2. r * x \in Int /\ p * d \in Int /\ t * e \in Int /\ r * e \in Int
    BY <1>1
  <2>3. QED
    BY <1>3, <2>1, <2>2
<1>8. r * (-y) = p * d + (r - t) * (-e)
  <2>1. r * (-y) = -(r * y) /\ p * (-d) = -(p * d) /\ (r - t) * (-e) = -((r - t) * e)
    BY <1>1
  <2>2. r * y \in Int /\ p * d \in Int /\ (r - t) * e \in Int
    BY <1>1
  <2>3. QED
    BY <1>7, <2>1, <2>2
<1>9. 2 * x <= (j + k) * p /\ 2 * (-x) <= (j + k) * p
  <2>1. 2 * x <= (j + k) * p
    BY <1>1, <1>2, <1>3, Average
  <2>2. 2 * (-x) <= (j + k) * p
    BY <1>1, <1>2, <1>6, Average
  <2>3. QED
    BY <2>1, <2>2
<1>10. 2 * y <= (j + k) * p /\ 2 * (-y) <= (j + k) * p
  <2>1. 2 * y <= (j + k) * p
    BY <1>1, <1>2, <1>7, Average
  <2>2. 2 * (-y) <= (j + k) * p
    BY <1>1, <1>2, <1>8, Average
  <2>3. QED
    BY <2>1, <2>2
<1>11. ASSUME NEW u \in Int, NEW v \in Int, NEW z \in Int, z = u - v,
              2 * z <= (j + k) * p, 2 * (-z) <= (j + k) * p
       PROVE  Near(u, v, j + k, p)
  BY <1>11 DEF Near
<1>12. /\ n * p \in Int /\ t * total \in Int /\ (l - n) * p \in Int /\ total * (r - t) \in Int
  OBVIOUS
<1>13. QED
  BY <1>1, <1>5, <1>9, <1>10, <1>11, <1>12

\* Rounding to a whole layer is half a layer off; that each worker gets at
\* least one may make it a whole layer.
LEMMA RoundError ==
  ASSUME NEW t \in Nat, NEW r \in Nat \ {0}, NEW l \in Nat \ {0}, NEW m \in Rounded(t, r, l),
         NEW n, n = MinOf(MaxOf(m, 1), l), t <= r
  PROVE  /\ n \in Nat /\ n <= l
         /\ m # 0 => Near(n * r, t * l, 1, r)
         /\ m = 0 => Near(n * r, t * l, 2, r) /\ n = 1 /\ 2 * (t * l) <= r
<1>1. m \in 0 .. l /\ 2*t*l - r <= 2*r*m /\ 2*r*m <= 2*t*l + r
  BY DEF Rounded
<1>2. 2*t*l = 2 * (t * l) /\ 2*r*m = 2 * (m * r) /\ t * l \in Nat /\ m * r \in Nat
  BY <1>1
<1>3. 2 * (t * l) - r <= 2 * (m * r) /\ 2 * (m * r) <= 2 * (t * l) + r
  BY <1>1, <1>2
<1>4. n \in Nat /\ n <= l /\ (m # 0 => n = m) /\ (m = 0 => n = 1)
  BY <1>1 DEF MinOf, MaxOf
<1>5. CASE m # 0
  <2>1. n * r = m * r /\ 1 * r = r
    BY <1>4, <1>5
  <2>2. Near(n * r, t * l, 1, r)
    BY <1>2, <1>3, <2>1 DEF Near
  <2>3. QED
    BY <1>4, <1>5, <2>2
<1>6. CASE m = 0
  <2>1. m * r = 0 /\ n * r = r
    BY <1>4, <1>6
  <2>2. 2 * (t * l) <= r
    BY <1>2, <1>3, <2>1
  <2>3. Near(n * r, t * l, 2, r)
    BY <1>2, <2>1, <2>2 DEF Near
  <2>4. QED
    BY <1>4, <1>6, <2>2, <2>3
<1>7. QED
  BY <1>5, <1>6

\* The numbers of a round that is not the last, k rounds into it: its own
\* error j goes into what Drift and Slack allow.
LEMMA RoundFits ==
  ASSUME WAssumption, NEW k \in Nat, k + 2 <= W,
         NEW t \in Nat, NEW r \in Nat \ {0}, NEW l \in Nat \ {0}, NEW m \in Rounded(t, r, l),
         NEW n, n = MinOf(MaxOf(m, 1), l), t <= r, r <= W * t, k + 2 = W => r <= 2 * t
  PROVE  \E j \in Nat : /\ Near(n * r, t * l, j, r)
                        /\ j + Drift(k) <= Slack
                        /\ l - n = 0 \/ j + Drift(k) <= Drift(k + 1)
<1>0. W \in Nat
  BY WAssumption
<1>1. /\ n \in Nat /\ n <= l
      /\ m # 0 => Near(n * r, t * l, 1, r)
      /\ m = 0 => Near(n * r, t * l, 2, r) /\ n = 1 /\ 2 * (t * l) <= r
  BY RoundError
<1>2. n * r \in Int /\ t * l \in Nat
  BY <1>1
<1>3. CASE W > 3
  <2>1. Near(n * r, t * l, 2, r)
    <3>1. CASE m = 0
      BY <1>1, <3>1
    <3>2. CASE m # 0
      BY <1>1, <1>2, <3>2, Nearer
    <3>3. QED
      BY <3>1, <3>2
  <2>2. 2 + Drift(k) <= Slack /\ 2 + Drift(k) <= Drift(k + 1)
    BY <1>0, <1>3 DEF Drift, Slack
  <2>3. QED
    BY <2>1, <2>2
<1>4. CASE ~ (W > 3) /\ m # 0
  <2>1. Near(n * r, t * l, 1, r)
    BY <1>1, <1>4
  <2>2. 1 + Drift(k) <= Slack /\ 1 + Drift(k) <= Drift(k + 1)
    BY <1>0, <1>4 DEF Drift, Slack
  <2>3. QED
    BY <2>1, <2>2
<1>5. CASE ~ (W > 3) /\ m = 0
  <2>1. Near(n * r, t * l, 2, r) /\ n = 1 /\ 2 * (t * l) <= r
    BY <1>1, <1>5
  <2>2. r <= 3 * t
    <3>1. t * W <= t * 3
      BY <1>0, <1>5, Monotone
    <3>2. t * W = W * t /\ t * W \in Nat /\ t * 3 = 3 * t
      BY <1>0
    <3>3. QED
      BY <3>1, <3>2
  <2>3. t # 0
    BY <2>2
  <2>4. l = 1
    <3>1. SUFFICES ASSUME 2 <= l PROVE FALSE
      OBVIOUS
    <3>2. t * 2 <= t * l
      BY <3>1, Monotone
    <3>3. QED
      BY <1>2, <2>1, <2>2, <2>3, <3>2
  <2>5. l - n = 0
    BY <2>1, <2>4
  <2>6. CASE k = 0
    <3>1. 2 + Drift(k) <= Slack
      BY <1>5, <2>6 DEF Drift, Slack
    <3>2. QED
      BY <2>1, <2>5, <3>1
  <2>7. CASE k # 0
    <3>1. k = 1 /\ W = 3
      BY <1>0, <1>5, <2>7
    <3>2. r <= 2 * t /\ 2 * t <= r
      <4>1. t * l = t
        BY <2>4
      <4>2. QED
        BY <2>1, <3>1, <4>1
    <3>3. Near(n * r, t * l, 1, r)
      <4>1. n * r = r /\ t * l = t /\ 1 * r = r
        BY <2>1, <2>4
      <4>2. QED
        BY <3>2, <4>1 DEF Near
    <3>4. 1 + Drift(k) <= Slack
      BY <1>5, <3>1 DEF Drift, Slack
    <3>5. QED
      BY <2>5, <3>3, <3>4
  <2>8. QED
    BY <2>6, <2>7
<1>6. QED
  BY <1>3, <1>4, <1>5

\* What a round does to what is left and to the share it assigns, in numbers:
\* k rounds are behind it, t is the power of its worker, r that of all to come,
\* and p and total are the power and the layers of all workers.
LEMMA RoundKeeps ==
  ASSUME WAssumption, NEW k \in Nat, k + 1 <= W,
         NEW t \in Nat, NEW r \in Nat, NEW l \in Nat \ {0}, NEW n \in Nat, n <= l,
         NEW p \in Nat, NEW total \in Nat, t <= r,
         Near(l * p, total * r, Drift(k), p),
         \/ n = l /\ r = t
         \/ /\ k + 2 <= W
            /\ r <= W * t /\ (k + 2 = W => r <= 2 * t)
            /\ \E m \in Rounded(t, r, l) : n = MinOf(MaxOf(m, 1), l)
  PROVE  /\ Near(n * p, t * total, Slack, p)
         /\ Near((l - n) * p, total * (r - t), IF l - n = 0 THEN Slack ELSE Drift(k + 1), p)
<1>0. /\ W \in Nat /\ Drift(k) \in Nat /\ Slack \in Nat /\ Drift(k + 1) \in Nat
      /\ Drift(k) <= Slack /\ Drift(k) <= Drift(k + 1)
  <2>1. W \in Nat
    BY WAssumption
  <2>2. CASE W > 3
    BY <2>1, <2>2 DEF Drift, Slack
  <2>3. CASE ~ (W > 3)
    BY <2>1, <2>3 DEF Drift, Slack
  <2>4. QED
    BY <2>1, <2>2, <2>3
<1>1. /\ n * p \in Int /\ t * total \in Int /\ (l - n) * p \in Int /\ total * (r - t) \in Int
      /\ l * p \in Nat /\ total * r \in Int
  OBVIOUS
<1>2. CASE n = l /\ r = t
  <2>1. n * p = l * p /\ t * total = total * r /\ (l - n) * p = 0 /\ total * (r - t) = 0 /\ l - n = 0
    BY <1>2
  <2>2. Near(n * p, t * total, Slack, p)
    BY <1>0, <1>1, <2>1, Nearer
  <2>3. Slack * p \in Nat
    BY <1>0
  <2>4. Near(0, 0, Slack, p)
    BY <2>3 DEF Near
  <2>5. QED
    BY <2>1, <2>2, <2>4
<1>3. CASE /\ k + 2 <= W
           /\ r <= W * t /\ (k + 2 = W => r <= 2 * t)
           /\ \E m \in Rounded(t, r, l) : n = MinOf(MaxOf(m, 1), l)
  <2>1. PICK m \in Rounded(t, r, l) : n = MinOf(MaxOf(m, 1), l)
    BY <1>3
  <2>2. CASE r = 0
    <3>1. t = 0 /\ m = 0
      BY <2>2 DEF Rounded
    <3>2. n = 1
      BY <2>1, <3>1 DEF MinOf, MaxOf
    <3>3. total * r = 0 /\ t * total = 0 /\ total * (r - t) = 0 /\ n * p = p
      BY <2>2, <3>1, <3>2
    <3>4. 2 * (l * p) <= Drift(k) * p
      BY <1>1, <3>3 DEF Near
    <3>5. p * 1 <= p * l /\ p * (l - n) <= p * l
      <4>1. p * 1 <= p * l
        BY Monotone
      <4>2. p * (l - n) <= p * l
        BY <3>2, Monotone
      <4>3. QED
        BY <4>1, <4>2
    <3>6. p <= l * p /\ (l - n) * p <= l * p /\ (l - n) * p \in Nat
      <4>1. p * 1 = p /\ p * l = l * p /\ p * (l - n) = (l - n) * p
        OBVIOUS
      <4>2. l - n \in Nat
        BY <3>2
      <4>3. (l - n) * p \in Nat
        BY <4>2
      <4>4. QED
        BY <3>5, <4>1, <4>3
    <3>7. Drift(k) * p \in Nat
      BY <1>0
    <3>8. Near(n * p, t * total, Drift(k), p)
      BY <1>1, <3>3, <3>4, <3>6, <3>7 DEF Near
    <3>9. Near((l - n) * p, total * (r - t), Drift(k), p)
      BY <1>1, <3>3, <3>4, <3>6, <3>7 DEF Near
    <3>10. Near(n * p, t * total, Slack, p)
      BY <1>0, <1>1, <3>8, Nearer
    <3>11. Near((l - n) * p, total * (r - t), IF l - n = 0 THEN Slack ELSE Drift(k + 1), p)
      <4>1. CASE l - n = 0
        BY <1>0, <1>1, <3>9, <4>1, Nearer
      <4>2. CASE l - n # 0
        BY <1>0, <1>1, <3>9, <4>2, Nearer
      <4>3. QED
        BY <4>1, <4>2
    <3>12. QED
      BY <3>10, <3>11
  <2>3. CASE r # 0
    <3>1. r \in Nat \ {0}
      BY <2>3
    <3>2. PICK j \in Nat : /\ Near(n * r, t * l, j, r)
                           /\ j + Drift(k) <= Slack
                           /\ l - n = 0 \/ j + Drift(k) <= Drift(k + 1)
      BY <1>3, <2>1, <3>1, RoundFits
    <3>3. /\ Near(n * p, t * total, j + Drift(k), p)
          /\ Near((l - n) * p, total * (r - t), j + Drift(k), p)
      BY <1>0, <3>1, <3>2, OneRound
    <3>4. j + Drift(k) \in Nat
      BY <1>0
    <3>5. Near(n * p, t * total, Slack, p)
      BY <1>0, <1>1, <3>2, <3>3, <3>4, Nearer
    <3>6. Near((l - n) * p, total * (r - t), IF l - n = 0 THEN Slack ELSE Drift(k + 1), p)
      <4>1. CASE l - n = 0
        BY <1>0, <1>1, <3>2, <3>3, <3>4, <4>1, Nearer
      <4>2. CASE l - n # 0
        BY <1>0, <1>1, <3>2, <3>3, <3>4, <4>2, Nearer
      <4>3. QED
        BY <4>1, <4>2
    <3>7. QED
      BY <3>5, <3>6
  <2>4. QED
    BY <2>2, <2>3
<1>4. QED
  BY <1>2, <1>3

-----------------------------------------------------------------------------
(* The rounds of assign_layers. *)

LEMMA Slacks == Slack \in Nat /\ \A k \in Nat : Drift(k) \in Nat
  BY WAssumption DEF Slack, Drift

\* Types of the sums.
LEMMA Powers ==
  ASSUME AssignTypeOK
  PROVE  /\ \A w \in Indices : tflops[w] \in Nat
         /\ \A S : Power(S) \in Nat
         /\ All \in Nat /\ Total \in Nat
<1>1. \A w \in Indices : tflops[w] \in Nat
  BY TflopsAssumption DEF AssignTypeOK
<1>2. ASSUME NEW S PROVE Power(S) \in Nat
  <2>1. CASE \E w \in Indices : w \in S
    <3>1. PICK w \in Indices : w \in S
      BY <2>1
    <3>2. QED
      BY <3>1, PowerWithout
  <2>2. CASE ~ \E w \in Indices : w \in S
    BY <2>2, PowerAtMost
  <2>3. QED
    BY <2>1, <2>2
<1>3. Total \in Nat
  BY DEF Total, AssignTypeOK
<1>4. QED
  BY <1>1, <1>2, <1>3 DEF All

\* The strongest of those to come: its power, and what it is to theirs.
LEMMA StrongestPower ==
  ASSUME AssignTypeOK, IsFiniteSet(Todo), NEW w \in Todo, Strongest(w)
  PROVE  /\ Power(Todo) = tflops[w] + Power(Todo \ {w})
         /\ Power(Todo) <= W * tflops[w]
         /\ Cardinality(Todo) = 1 => Power(Todo) = tflops[w] /\ Todo = {w}
         /\ Cardinality(Todo) = 2 => Power(Todo) <= 2 * tflops[w]
<1>1. w \in Indices /\ tflops[w] \in Nat /\ \A v \in Todo : v \in Indices /\ tflops[v] \in Nat
  BY Powers DEF Todo
<1>2. \A v \in Todo : tflops[v] <= tflops[w]
  BY <1>1 DEF Strongest
<1>3. Power(Todo) = tflops[w] + Power(Todo \ {w}) /\ Power(Todo \ {w}) \in Nat
  BY <1>1, PowerWithout
<1>4. Power(Todo) <= W * tflops[w]
  BY <1>1, <1>2, PowerAtMost
<1>5. /\ IsFiniteSet(Todo \ {w}) /\ Cardinality(Todo \ {w}) = Cardinality(Todo) - 1
      /\ Cardinality(Todo) \in Nat
  BY FS_RemoveElement, FS_CardinalityType
<1>6. ASSUME Cardinality(Todo) = 1 PROVE Power(Todo) = tflops[w] /\ Todo = {w}
  <2>1. Cardinality(Todo \ {w}) = 0
    BY <1>5, <1>6
  <2>2. Todo \ {w} = {}
    BY <1>5, <2>1, FS_EmptySet
  <2>3. Power(Todo \ {w}) = 0
    BY <2>2, PowerNone
  <2>4. QED
    BY <1>1, <1>3, <2>2, <2>3
<1>7. ASSUME Cardinality(Todo) = 2 PROVE Power(Todo) <= 2 * tflops[w]
  <2>1. Cardinality(Todo \ {w}) = 1
    BY <1>5, <1>7
  <2>2. PICK v : Todo \ {w} = {v}
    BY <1>5, <2>1, FS_Singleton
  <2>3. v \in Todo /\ v \in Indices /\ tflops[v] \in Nat /\ tflops[v] <= tflops[w]
    BY <1>1, <1>2, <2>2
  <2>4. Power({v}) = tflops[v] + Power({v} \ {v})
    BY <2>3, PowerWithout
  <2>5. {v} \ {v} = {}
    OBVIOUS
  <2>6. Power({v}) = tflops[v]
    BY <2>3, <2>4, <2>5, PowerNone
  <2>7. Power(Todo \ {w}) = tflops[v]
    BY <2>2, <2>6, Zenon
  <2>8. QED
    BY <1>1, <1>3, <2>3, <2>7
<1>8. QED
  BY <1>3, <1>4, <1>6, <1>7

LEMMA NoneRounded == ASSUME NEW t \in Nat, NEW n \in Nat, NEW l \in Rounded(0, t, n)
                     PROVE  l = 0
<1>1. CASE t = 0
  BY <1>1 DEF Rounded
<1>2. CASE t # 0
  <2>1. l \in 0 .. n /\ 2 * t * l <= 2 * 0 * n + t
    BY <1>2 DEF Rounded
  <2>2. 2 * 0 * n = 0 /\ 2 * t * l = t * (2 * l) /\ t * 1 = t
    BY <2>1
  <2>3. t * (2 * l) <= t * 1
    BY <2>1, <2>2
  <2>4. 2 * l <= 1
    BY <1>2, <2>1, <2>3, Divide
  <2>5. QED
    BY <2>1, <2>4
<1>3. QED
  BY <1>1, <1>2

LEMMA NoDistance == ASSUME NEW l \in Nat, NEW p \in Nat, NEW h \in Nat
                    PROVE  Near(l * p, l * p, h, p)
<1>1. h * p \in Nat /\ l * p \in Nat
  OBVIOUS
<1>2. QED
  BY <1>1 DEF Near

\* Before the first round.
LEMMA PlanRounds == ASSUME LInv, Plan PROVE Rounds'
<1>1. /\ AssignTypeOK /\ given = <<>> /\ stage' = "assign" /\ UNCHANGED <<args, given, share, offset>>
      /\ left' \in Rounded(Power(Indices), Power(Indices) + masterTflops, layers)
      /\ offset = 0 /\ offset' = 0 /\ W \in Nat /\ layers \in Nat /\ masterTflops \in Nat
  BY WAssumption, LayersAssumption, TflopsAssumption DEF LInv, Plan, Fresh, AssignTypeOK
<1>2. Todo = Indices /\ Todo' = Indices /\ Done = {} /\ Done' = {}
  BY <1>1 DEF Todo, Done, Range
<1>3. IsFiniteSet(Indices) /\ Cardinality(Indices) = W
  <2>1. 0 \in Int /\ W - 1 \in Int
    BY <1>1
  <2>2. /\ IsFiniteSet(0 .. W - 1)
        /\ Cardinality(0 .. W - 1) = IF 0 > W - 1 THEN 0 ELSE W - 1 - 0 + 1
    BY <2>1, FS_Interval
  <2>3. QED
    BY <1>1, <2>2 DEF Indices
<1>4. left' \in Nat /\ Len(given') = 0
  BY <1>1, RoundedType
<1>5. Power(Indices)' = Power(Indices) /\ All' = All /\ Power(Todo)' = All /\ All \in Nat
  BY <1>1, <1>2, Powers DEF Power, All, args
<1>6. All > 0 \/ left' = 0
  <2>1. SUFFICES ASSUME Power(Indices) = 0 PROVE left' = 0
    BY <1>5 DEF All
  <2>2. left' \in Rounded(0, masterTflops, layers)
    BY <1>1, <2>1
  <2>3. QED
    BY <1>1, <2>2, NoneRounded, Zenon
<1>7. Total' = left'
  <2>1. Total' = offset' + left' /\ offset' = 0 /\ left' \in Nat
    BY <1>1, <1>4 DEF Total
  <2>2. \A n \in Nat : 0 + n = n
    OBVIOUS
  <2>3. QED
    BY <2>1, <2>2, Zenon
<1>8. ASSUME NEW h \in Nat PROVE Near(left' * All, Total' * All, h, All)
  <2>1. All \in Nat /\ left' \in Nat
    BY <1>4, <1>5
  <2>2. Near(left' * All, left' * All, h, All)
    BY <2>1, NoDistance, Zenon
  <2>3. QED
    BY <1>7, <2>2, Zenon
<1>9. Near(left' * All', Total' * Power(Todo)', IF left' = 0 THEN Slack ELSE Drift(Len(given')), All')
  <2>1. Slack \in Nat /\ Drift(Len(given')) \in Nat
    BY <1>4, Slacks
  <2>2. CASE left' = 0
    BY <1>5, <1>8, <2>1, <2>2
  <2>3. CASE left' # 0
    BY <1>5, <1>8, <2>1, <2>3
  <2>4. QED
    BY <2>2, <2>3
<1>10. Cardinality(Todo') + Len(given') = W
  BY <1>1, <1>2, <1>3, <1>4
<1>11. QED
  BY <1>2, <1>3, <1>5, <1>6, <1>9, <1>10 DEF Rounds

\* A round.
LEMMA AssignRounds == ASSUME LInv, Rounds, Assign PROVE Rounds'
<1>1. /\ AssignTypeOK /\ Partition /\ Fits /\ offset \in Nat /\ left \in Nat \ {0} /\ given \in Seq(Indices)
      /\ left + offset <= layers /\ stage = "assign" /\ stage' = "assign" /\ UNCHANGED args
      /\ W \in Nat /\ layers \in Nat
  BY LayersAssumption, WAssumption DEF LInv, AssignTypeOK, Assign, AssignInv
<1>2. PICK w \in Todo :
        /\ Strongest(w)
        /\ \E want \in Wanted(w) : /\ Give(w, Capped(w, want))
                                  /\ left' = left - Capped(w, want)
        /\ given' = Append(given, w)
  BY DEF Assign
<1>3. PICK want \in Wanted(w) : /\ Give(w, Capped(w, want))
                               /\ left' = left - Capped(w, want)
  BY <1>2
<1>4. w \in Indices /\ Done \subseteq Indices /\ w \notin Done
  BY DEF Todo, Done
<1>5. /\ given' \in Seq(Indices) /\ Todo' = Todo \ {w}
      /\ Len(given') = Len(given) + 1 /\ Len(given) \in Nat
  BY <1>1, <1>2, <1>4, TodoAfter
<1>6. Done' = Done \cup {w}
  BY <1>4, <1>5 DEF Done
<1>7. /\ IsFiniteSet(Todo) /\ Cardinality(Todo) + Len(given) = W /\ All > 0
      /\ Roomy => /\ Near(left * All, Total * Power(Todo), Drift(Len(given)), All)
                  /\ \A v \in Done : Near(Cardinality(share[v]) * All, tflops[v] * Total, Slack, All)
  <2>1. /\ Cardinality(Todo) + Len(given) = W
        /\ All > 0 \/ left = 0
        /\ IsFiniteSet(Todo)
    BY <1>1 DEF Rounds
  <2>2. left # 0
    BY <1>1
  <2>3. ASSUME Roomy
        PROVE  /\ Near(left * All, Total * Power(Todo), Drift(Len(given)), All)
               /\ \A v \in Done : Near(Cardinality(share[v]) * All, tflops[v] * Total, Slack, All)
    BY <1>1, <2>2, <2>3, Zenon DEF Rounds
  <2>4. QED
    BY <2>1, <2>2, <2>3
<1>8. /\ IsFiniteSet(Todo') /\ Cardinality(Todo') + Len(given') = W
      /\ Cardinality(Todo) \in Nat \ {0}
  <2>1. /\ IsFiniteSet(Todo \ {w}) /\ Cardinality(Todo \ {w}) = Cardinality(Todo) - 1
        /\ Cardinality(Todo) \in Nat
    BY <1>7, FS_RemoveElement, FS_CardinalityType
  <2>2. Cardinality(Todo) # 0
    BY <1>7, FS_EmptySet
  <2>3. QED
    BY <1>5, <1>7, <2>1, <2>2
<1>9. /\ tflops' = tflops /\ limit' = limit
      /\ \A S : Power(S)' = Power(S)
  BY <1>1 DEF args, Power
<1>10. All' = All
  BY <1>9 DEF All
<1>11. /\ want \in Nat /\ want <= left
       /\ \/ Todo = {w} /\ want = left
          \/ /\ Todo # {w}
             /\ \E m \in Rounded(tflops[w], Power(Todo), left) : want = MinOf(MaxOf(m, 1), left)
  <2>1. CASE Todo = {w}
    BY <1>1, <2>1 DEF Wanted
  <2>2. CASE Todo # {w}
    <3>1. PICK m \in Rounded(tflops[w], Power(Todo), left) :
            want = MinOf(MaxOf(m, 1), left)
      BY <2>2 DEF Wanted
    <3>2. m \in Nat
      BY <1>1, RoundedType
    <3>3. MaxOf(m, 1) \in Nat
      BY <3>2, MaxType
    <3>4. QED
      BY <1>1, <2>2, <3>1, <3>3, MinType
  <2>3. QED
    BY <2>1, <2>2
<1>12. limit[w] \in Nat /\ share[w] = {} /\ Cardinality(share[w]) = 0
  <2>1. share[w] = {}
    BY DEF LInv, Idle
  <2>2. QED
    BY <1>1, <1>4, <2>1, LimitsAssumption, UnlimitedAssumption, FS_EmptySet DEF AssignTypeOK
<1> DEFINE count == Capped(w, want)
<1>13. count \in Nat /\ count <= want /\ count <= limit[w] /\ (count < limit[w] => count = want)
  BY <1>11, <1>12 DEF Capped, MinOf
<1>14. Give(w, count) /\ left' = left - count
  BY <1>3
<1> HIDE DEF count
<1>15. offset + count <= layers /\ left' \in Nat /\ layers' = layers
  BY <1>1, <1>11, <1>13, <1>14 DEF args
<1>16. /\ offset' = offset + count
       /\ Cardinality(share'[w]) = count
       /\ \A v \in Indices \ {w} : share'[v] = share[v]
  <2>1. Cardinality(share'[w]) = Cardinality(share[w]) + count
    BY <1>1, <1>4, <1>13, <1>14, <1>15, Giving
  <2>2. QED
    BY <1>1, <1>4, <1>12, <1>13, <1>14, <1>15, <2>1, Giving
<1>17. Total' = Total /\ Total \in Nat
  BY <1>1, <1>13, <1>14, <1>15, <1>16 DEF Total
<1>18. ASSUME Roomy' PROVE Roomy /\ count = want
  <2>1. \A v \in Done' : Spare(v)' > 0
    BY <1>18 DEF Roomy
  <2>2. ASSUME NEW v \in Done PROVE Spare(v) > 0
    <3>1. v \in Done' /\ v \in Indices \ {w}
      BY <1>4, <1>6
    <3>2. Spare(v)' = Spare(v)
      BY <1>9, <1>16, <3>1 DEF Spare
    <3>3. QED
      BY <2>1, <3>1, <3>2
  <2>3. Spare(w)' > 0
    BY <1>6, <2>1
  <2>4. Spare(w)' = limit[w] - count
    BY <1>9, <1>13, <1>16 DEF Spare
  <2>5. QED
    BY <1>12, <1>13, <2>2, <2>3, <2>4 DEF Roomy
<1>19. /\ Power(Todo) \in Nat /\ tflops[w] \in Nat /\ All \in Nat
       /\ Power(Todo \ {w}) \in Nat
  BY <1>1, <1>4, Powers
<1>20. /\ Power(Todo) = tflops[w] + Power(Todo \ {w})
       /\ Power(Todo) <= W * tflops[w]
       /\ Cardinality(Todo) = 1 => Power(Todo) = tflops[w] /\ Todo = {w}
       /\ Cardinality(Todo) = 2 => Power(Todo) <= 2 * tflops[w]
  BY <1>1, <1>2, <1>7, StrongestPower
<1>21. /\ tflops[w] <= Power(Todo) /\ Power(Todo) - tflops[w] = Power(Todo \ {w})
       /\ Len(given) + 1 <= W /\ (Len(given) + 2 = W => Cardinality(Todo) = 2)
       /\ (Todo # {w} => Len(given) + 2 <= W)
       /\ (Todo = {w} => Power(Todo) = tflops[w])
  <2>1. Todo = {w} => Cardinality(Todo) = 1
    BY FS_Singleton
  <2>2. QED
    BY <1>1, <1>5, <1>7, <1>8, <1>19, <1>20, <2>1
<1>22. ASSUME Roomy'
       PROVE  /\ Near(left' * All, Total * Power(Todo \ {w}), IF left' = 0 THEN Slack ELSE Drift(Len(given) + 1), All)
              /\ Near(count * All, tflops[w] * Total, Slack, All)
  <2>1. Near(left * All, Total * Power(Todo), Drift(Len(given)), All)
    BY <1>7, <1>18, <1>22
  <2>2. /\ count = want /\ count <= left
    BY <1>11, <1>18, <1>22
  <2>3. \/ count = left /\ Power(Todo) = tflops[w]
        \/ /\ Len(given) + 2 <= W
           /\ Power(Todo) <= W * tflops[w] /\ (Len(given) + 2 = W => Power(Todo) <= 2 * tflops[w])
           /\ \E m \in Rounded(tflops[w], Power(Todo), left) : count = MinOf(MaxOf(m, 1), left)
    BY <1>11, <1>20, <1>21, <2>2
  <2>4. /\ Near(count * All, tflops[w] * Total, Slack, All)
        /\ Near((left - count) * All, Total * (Power(Todo) - tflops[w]),
                IF left - count = 0 THEN Slack ELSE Drift(Len(given) + 1), All)
    <3>1. /\ left \in Nat \ {0} /\ count \in Nat /\ Total \in Nat /\ All \in Nat
          /\ tflops[w] \in Nat /\ Power(Todo) \in Nat /\ Len(given) \in Nat
      BY <1>1, <1>5, <1>13, <1>17, <1>19
    <3>2. Len(given) + 1 <= W /\ count <= left /\ tflops[w] <= Power(Todo)
      BY <1>21, <2>2
    <3>3. QED
      BY <2>1, <2>3, <3>1, <3>2, WAssumption, RoundKeeps, Zenon
  <2>5. QED
    BY <1>14, <1>21, <2>4
<1>23. ASSUME Roomy', NEW v \in Done'
       PROVE  Near(Cardinality(share'[v]) * All, tflops[v] * Total, Slack, All)
  <2>1. CASE v = w
    BY <1>16, <1>22, <1>23, <2>1
  <2>2. CASE v # w
    <3>1. v \in Done /\ v \in Indices \ {w}
      BY <1>4, <1>6, <1>23, <2>2
    <3>2. share'[v] = share[v]
      BY <1>16, <3>1
    <3>3. QED
      BY <1>7, <1>18, <1>23, <3>1, <3>2
  <2>3. QED
    BY <2>1, <2>2
<1>24. Power(Todo)' = Power(Todo \ {w})
  BY <1>5, <1>9, Zenon DEF Power
<1>25. QED
  BY <1>1, <1>5, <1>7, <1>8, <1>9, <1>10, <1>17, <1>22, <1>23, <1>24 DEF Rounds

LEMMA InRounds == LInv /\ Rounds => Proportional
<1>1. SUFFICES ASSUME LInv, Rounds, stage = "assign", left = 0, \A w \in Indices : Spare(w) > 0,
                      NEW w \in Indices
               PROVE  LET exact == tflops[w] * offset
                          got   == Cardinality(share[w]) * Power(Indices)
                          slack == (IF W <= 3 THEN 1 ELSE W - 1) * Power(Indices)
                      IN  got - slack <= exact /\ exact <= got + slack
  BY DEF Proportional
<1>2. AssignTypeOK /\ Partition /\ W \in Nat /\ offset \in Nat
  BY <1>1, WAssumption DEF LInv, AssignTypeOK
<1>3. Done \subseteq Indices
  BY DEF Done
<1>4. Roomy
  BY <1>1, <1>3 DEF Roomy
<1>5. /\ Near(left * All, Total * Power(Todo), Slack, All)
      /\ \A v \in Done : Near(Cardinality(share[v]) * All, tflops[v] * Total, Slack, All)
  BY <1>1, <1>4 DEF Rounds
<1>6. /\ All \in Nat /\ Power(Todo) \in Nat /\ tflops[w] \in Nat /\ Slack \in Nat
      /\ Cardinality(share[w]) \in Nat
  BY <1>2, Powers, Slacks, ShareFinite
<1>7. Total = offset
  BY <1>1, <1>2 DEF Total
<1>8. Near(Cardinality(share[w]) * All, tflops[w] * offset, Slack, All)
  <2>1. CASE w \in Done
    BY <1>5, <1>7, <2>1
  <2>2. CASE w \notin Done
    <3>1. w \in Todo
      BY <2>2 DEF Done
    <3>2. Cardinality(share[w]) = 0
      BY <1>1, <3>1, FS_EmptySet DEF LInv, Idle
    <3>3. Power(Todo) = tflops[w] + Power(Todo \ {w}) /\ Power(Todo \ {w}) \in Nat
      BY <1>2, <3>1, PowerWithout
    <3>4. offset * tflops[w] <= offset * Power(Todo)
      BY <1>2, <1>6, <3>3, Monotone
    <3>5. 2 * (offset * Power(Todo)) <= Slack * All
      <4>1. left * All = 0
        BY <1>1, <1>6
      <4>2. offset * Power(Todo) \in Nat
        BY <1>2, <1>6
      <4>3. QED
        BY <1>5, <1>7, <4>1, <4>2 DEF Near
    <3>6. /\ offset * tflops[w] = tflops[w] * offset /\ Cardinality(share[w]) * All = 0
          /\ tflops[w] * offset \in Nat /\ offset * Power(Todo) \in Nat
      BY <1>2, <1>6, <3>2
    <3>7. tflops[w] * offset <= offset * Power(Todo)
      BY <3>4, <3>6
    <3>8. Slack * All \in Nat
      BY <1>6
    <3>9. 2 * (0 - tflops[w] * offset) <= Slack * All /\ 2 * (tflops[w] * offset - 0) <= Slack * All
      BY <3>5, <3>6, <3>7, <3>8
    <3>10. QED
      BY <3>6, <3>9 DEF Near
  <2>3. QED
    BY <2>1, <2>2
<1>9. Slack * All = 2 * ((IF W <= 3 THEN 1 ELSE W - 1) * All)
  BY <1>2, <1>6 DEF Slack
<1>10. /\ Cardinality(share[w]) * All \in Nat /\ tflops[w] * offset \in Nat
       /\ (IF W <= 3 THEN 1 ELSE W - 1) * All \in Nat
  <2>1. (IF W <= 3 THEN 1 ELSE W - 1) \in Nat
    BY <1>2
  <2>2. QED
    BY <1>2, <1>6, <2>1
<1>11. QED
  BY <1>8, <1>9, <1>10 DEF Near, All

\* While no memory limit bites, the proportional assignment leaves each worker
\* within a layer of its exact part when there are up to three, and within one
\* layer less than there are workers when there are more.
THEOREM ProportionalAlways == AssignSpec => []Proportional
<1>1. AssignInit => Rounds
  BY DEF AssignInit, Rounds
<1>2. LInv /\ Rounds /\ [AssignNext]_avars => Rounds'
  <2>1. SUFFICES ASSUME LInv, Rounds, [AssignNext]_avars PROVE Rounds'
    OBVIOUS
  <2>2. CASE Plan
    BY <2>1, <2>2, PlanRounds
  <2>3. CASE Assign
    BY <2>1, <2>3, AssignRounds
  <2>4. CASE Nothing \/ PlanHalf \/ HalfStep \/ HalfEnd \/ AssignEnd \/ Push \/ PushEnd
    <3>1. stage' # "assign"
      BY <2>4 DEF Nothing, PlanHalf, HalfStep, HalfEnd, AssignEnd, Push, PushEnd
    <3>2. QED
      BY <3>1 DEF Rounds
  <2>5. CASE UNCHANGED avars
    BY <2>1, <2>5 DEF Rounds, avars, args, Todo, Done, Total, All, Power, Roomy, Spare
  <2>6. QED
    BY <2>1, <2>2, <2>3, <2>4, <2>5 DEF AssignNext, Returned
<1>3. LInv /\ Rounds => Proportional
  BY InRounds
<1>4. QED
  BY <1>1, <1>2, <1>3, AssignmentInvariant, PTL DEF AssignSpec

-----------------------------------------------------------------------------
(* The inductive invariant. *)

\* What is under way between a master in phase ph, whose task is in state t,
\* and a worker, whose end is in state e: a is what the worker is assigned, p
\* whether it has declared itself ready.
Cell(ph, a, t, e, tw, tm, p) ==
  /\ t \in {"none", "connect", "failed"} => e = "none"
  /\ t = "done" => e = "none" /\ p
  /\ t = "proof" =>
       \/ e = "queued" /\ tm = <<>>
       \/ e = "proof" /\ tw = <<>> /\ tm = <<"proof">>
       \/ e = "none" /\ tm \in {<<>>, <<"proof">>}
  /\ t = "ack" =>
       \/ e = "proof" /\ tw = <<"assign">> /\ tm = <<>>
       \/ e = "data" /\ tw = <<>> /\ tm = <<"needs">>
       \/ e = "none" /\ tm \in {<<>>, <<"needs">>}
       \/ e = "none" /\ tm = <<"cached", "ready">> /\ p
  /\ t = "push" => \/ e = "data" /\ tw = <<>> /\ tm = <<>>
                   \/ e = "none" /\ tm = <<>>
  /\ t = "ready" => \/ e = "data" /\ tw = <<"data">> /\ tm = <<>>
                    \/ e = "none" /\ tm = <<>>
                    \/ e = "none" /\ tm = <<"ready">> /\ p
  /\ t = "info" => \/ e = "proof" /\ tw = <<"hello">> /\ tm = <<>>
                   \/ e = "infer" /\ tw = <<>> /\ tm = <<"info">>
                   \/ e = "none" /\ tm \in {<<>>, <<"info">>}
  /\ t = "linked" => e \in {"infer", "none"}
  /\ t \in {"ack", "push", "ready", "done"} => ph \in {"setup", "dead"}
  /\ t \in {"info", "linked"} => ph \in {"link", "serve", "dead"}
  /\ ph \in {"off", "find"} => a = {}
  /\ ph \in {"link", "serve"} => a = {} \/ p
  /\ t # "none" \/ p => a # {}

Cells == \A m \in Masters, w \in Workers :
           Cell(mphase[m], asg[m][w], task[m][w], end[m][w], toW[m][w],
                toM[m][w], w \in pledged[m])

\* The connections a worker has, by what its process does.
Ends == \A w \in Workers, m \in Masters :
          /\ proc[w] = "down" => end[m][w] = "none" /\ backlog[w] = <<>>
          /\ proc[w] = "setup" => end[m][w] # "infer"
          /\ proc[w] = "load" => end[m][w] \in {"none", "queued"}
          /\ proc[w] = "serve" => end[m][w] # "data"

\* A connection is queued once.
Queued == \A w \in Workers : \A i, j \in 1 .. Len(backlog[w]) :
            /\ end[backlog[w][i]][w] = "queued"
            /\ backlog[w][i] = backlog[w][j] => i = j

\* Where the layers of a worker come from.
Origin == \A w \in Workers :
            /\ proc[w] \in {"load", "serve"} => by[w] # {}
            /\ \A m \in Masters : by[w] = {m} =>
                 blocks[w] = asg[m][w] /\ w \in pledged[m]

Sessions == OneSession /\ Ends /\ Queued

IInv == TypeOK /\ Cells /\ Sessions /\ Origin

-----------------------------------------------------------------------------
(* Type correctness. *)

\* One cell of a table over masters and workers is changed.
LEMMA Update ==
  ASSUME NEW S, NEW f \in [Masters -> [Workers -> S]],
         NEW m \in Masters, NEW w \in Workers, NEW e \in S
  PROVE  /\ [f EXCEPT ![m][w] = e] \in [Masters -> [Workers -> S]]
         /\ [f EXCEPT ![m][w] = e][m][w] = e
         /\ \A n \in Masters, v \in Workers : n # m \/ v # w =>
              [f EXCEPT ![m][w] = e][n][v] = f[n][v]
  OBVIOUS

\* Reading a message leaves a sequence, sending some makes one.
LEMMA Reading == ASSUME NEW S, NEW s \in Seq(S), s # <<>>
                 PROVE  Head(s) \in S /\ Tail(s) \in Seq(S)
  OBVIOUS

LEMMA Sending == ASSUME NEW S, NEW s \in Seq(S), NEW e \in S
                 PROVE  Append(s, e) \in Seq(S)
  OBVIOUS

LEMMA NoMessage == ASSUME NEW S PROVE <<>> \in Seq(S)
  OBVIOUS

LEMMA OneMessage == ASSUME NEW S, NEW a \in S PROVE <<a>> \in Seq(S)
  OBVIOUS

LEMMA TwoMessages == ASSUME NEW S, NEW a \in S, NEW b \in S
                     PROVE  <<a, b>> \in Seq(S)
  OBVIOUS

LEMMA SaysAll == ASSUME NEW S, NEW s \in Seq(S), NEW t \in Seq(S)
                 PROVE  s \o t \in Seq(S)
  OBVIOUS

ToWorker == {"nonce", "assign", "hello", "data"}
ToMaster == {"proof", "needs", "cached", "ready", "info"}

TaskStates == Awaiting \cup {"none", "connect", "done", "linked", "failed"}
EndStates  == Open \cup {"none", "queued"}

\* TypeOK in the words of the proofs.
LEMMA Types ==
  TypeOK <=>
    /\ mphase \in [Masters -> {"off", "find", "setup", "link", "serve", "dead"}]
    /\ air \subseteq Masters \X Workers
    /\ found \in [Masters -> SUBSET Workers]
    /\ asg \in [Masters -> [Workers -> SUBSET Layers]]
    /\ task \in [Masters -> [Workers -> TaskStates]]
    /\ tries \in [Masters -> [Workers -> Nat]]
    /\ proc \in [Workers -> {"down", "setup", "load", "serve"}]
    /\ adv \in [Workers -> {"on", "last", "off"}]
    /\ backlog \in [Workers -> Seq(Masters)]
    /\ end \in [Masters -> [Workers -> EndStates]]
    /\ toW \in [Masters -> [Workers -> Seq(ToWorker)]]
    /\ toM \in [Masters -> [Workers -> Seq(ToMaster)]]
    /\ blocks \in [Workers -> SUBSET Layers]
    /\ by \in [Workers -> SUBSET Masters]
    /\ pledged \in [Masters -> SUBSET Workers]
    /\ starts \in [Workers -> Nat] /\ crashes \in Nat
  BY DEF TypeOK, ToWorker, ToMaster, TaskStates, EndStates

LEMMA InitType == Init => TypeOK
<1> SUFFICES ASSUME Init PROVE TypeOK
  OBVIOUS
<1>1. /\ <<>> \in Seq(ToWorker) /\ <<>> \in Seq(ToMaster)
      /\ <<>> \in Seq(Masters)
  BY NoMessage
<1>2. /\ backlog \in [Workers -> Seq(Masters)]
      /\ toW \in [Masters -> [Workers -> Seq(ToWorker)]]
      /\ toM \in [Masters -> [Workers -> Seq(ToMaster)]]
  BY <1>1 DEF Init
<1>3. /\ task \in [Masters -> [Workers -> TaskStates]]
      /\ end \in [Masters -> [Workers -> EndStates]]
  BY DEF Init, TaskStates, EndStates
<1>4. QED
  BY <1>2, <1>3, Types DEF Init

\* What reading a message and sending some does.
LEMMA MReadsType ==
  ASSUME TypeOK, NEW m \in Masters, NEW w \in Workers, NEW st, NEW msg,
         MReads(m, w, st, msg)
  PROVE  /\ toM' \in [Masters -> [Workers -> Seq(ToMaster)]]
         /\ UNCHANGED <<mphase, found, asg, tries, air, backlog, end>>
         /\ UNCHANGED <<proc, adv, blocks, by, pledged, starts, crashes>>
<1>1. toM[m][w] \in Seq(ToMaster)
  BY Types
<1>2. Tail(toM[m][w]) \in Seq(ToMaster)
  BY <1>1, Reading DEF MReads
<1>3. QED
  BY <1>2, Types DEF MReads, worker, bounds

LEMMA WReadsType ==
  ASSUME TypeOK, NEW m \in Masters, NEW w \in Workers, NEW st, NEW msg,
         NEW st2 \in EndStates, WReads(m, w, st, msg, st2)
  PROVE  /\ toW' \in [Masters -> [Workers -> Seq(ToWorker)]]
         /\ end' \in [Masters -> [Workers -> EndStates]]
         /\ UNCHANGED <<mphase, found, asg, task, tries, air, backlog>>
         /\ UNCHANGED <<starts, crashes>>
<1>1. toW[m][w] \in Seq(ToWorker)
  BY Types
<1>2. Tail(toW[m][w]) \in Seq(ToWorker)
  BY <1>1, Reading DEF WReads
<1>3. QED
  BY <1>2, Types DEF WReads, master, bounds

LEMMA SaysType ==
  ASSUME TypeOK, NEW m \in Masters, NEW w \in Workers, NEW ms \in Seq(ToMaster),
         Says(m, w, ms)
  PROVE  toM' \in [Masters -> [Workers -> Seq(ToMaster)]]
<1>1. toM[m][w] \o ms \in Seq(ToMaster)
  BY Types, SaysAll
<1>2. QED
  BY <1>1, Types DEF Says

LEMMA SetUpType ==
  ASSUME TypeOK, NEW m \in Masters, NEW w \in Workers, SetUp(m, w)
  PROVE  /\ proc' \in [Workers -> {"down", "setup", "load", "serve"}]
         /\ adv' \in [Workers -> {"on", "last", "off"}]
         /\ blocks' \in [Workers -> SUBSET Layers]
         /\ by' \in [Workers -> SUBSET Masters]
         /\ pledged' \in [Masters -> SUBSET Workers]
<1>1. asg[m][w] \in SUBSET Layers
  BY Types
<1>2. QED
  BY <1>1, Types DEF SetUp

LEMMA Replies == /\ <<"needs">> \in Seq(ToMaster) /\ <<"ready">> \in Seq(ToMaster)
                 /\ <<"info">> \in Seq(ToMaster) /\ <<"proof">> \in Seq(ToMaster)
                 /\ <<"cached", "ready">> \in Seq(ToMaster)
  BY OneMessage, TwoMessages DEF ToMaster

\* A task's step.
LEMMA TaskType ==
  ASSUME TypeOK, NEW m \in Masters, NEW w \in Workers, MTask(m, w)
  PROVE  TypeOK'
<1>1. /\ toW[m][w] \in Seq(ToWorker) /\ toM[m][w] \in Seq(ToMaster)
      /\ backlog[w] \in Seq(Masters)
  BY Types
<1>2. \A e \in ToWorker : Append(toW[m][w], e) \in Seq(ToWorker)
  BY <1>1, Sending
<1>3. ASSUME NEW t \in TaskStates, NEW msg, NEW st, MReads(m, w, st, msg),
             task' = [task EXCEPT ![m][w] = t], UNCHANGED toW
      PROVE  TypeOK'
  <2>1. task' \in [Masters -> [Workers -> TaskStates]]
    BY <1>3, Types
  <2>2. QED
    BY <1>3, <2>1, MReadsType DEF TypeOK, TaskStates, ToMaster
<1>4. CASE MConnect(m, w)
  <2>1. /\ <<"nonce">> \in Seq(ToWorker) /\ <<>> \in Seq(ToMaster)
    BY NoMessage, OneMessage DEF ToWorker
  <2>2. Append(backlog[w], m) \in Seq(Masters)
    BY <1>1, Sending
  <2>3. QED
    BY <1>4, <2>1, <2>2
    DEF MConnect, TypeOK, ToWorker, ToMaster, Awaiting, worker, bounds
<1>5. CASE MRefused(m, w)
  <2>1. task' \in [Masters -> [Workers -> TaskStates]]
    <3>1. [task EXCEPT ![m][w] = "failed"] \in [Masters -> [Workers -> TaskStates]]
      BY Types DEF TaskStates
    <3>2. QED
      BY <1>5, <3>1, Types DEF MRefused
  <2>2. tries' \in [Masters -> [Workers -> Nat]]
    BY <1>5, Types DEF MRefused
  <2>3. QED
    BY <1>5, <2>1, <2>2 DEF MRefused, TypeOK, TaskStates, worker, conns, bounds
<1>6. CASE MAuth(m, w)
  <2>1. toW' \in [Masters -> [Workers -> Seq(ToWorker)]]
    BY <1>2, <1>6, Types DEF MAuth, ToWorker
  <2>2. task' \in [Masters -> [Workers -> TaskStates]]
    BY <1>6, Types DEF MAuth, TaskStates, Awaiting
  <2>3. QED
    BY <1>6, <2>1, <2>2, MReadsType DEF MAuth, TypeOK, TaskStates, ToWorker, ToMaster
<1>7. CASE MAckNeeds(m, w)
  BY <1>3, <1>7 DEF MAckNeeds, TaskStates, Awaiting
<1>8. CASE MAckCached(m, w)
  BY <1>3, <1>8 DEF MAckCached, TaskStates, Awaiting
<1>9. CASE MReady(m, w)
  BY <1>3, <1>9 DEF MReady, TaskStates
<1>10. CASE MInfo(m, w)
  BY <1>3, <1>10 DEF MInfo, TaskStates
<1>11. CASE MPush(m, w)
  <2>1. toW' \in [Masters -> [Workers -> Seq(ToWorker)]]
    BY <1>2, <1>11, Types DEF MPush, ToWorker
  <2>2. QED
    BY <1>11, <2>1 DEF MPush, TypeOK, ToWorker, Awaiting, worker, bounds
<1>12. CASE MTaskErr(m, w)
  BY <1>12 DEF MTaskErr, TypeOK, Awaiting, worker, conns, bounds
<1>13. QED
  BY <1>4, <1>5, <1>6, <1>7, <1>8, <1>9, <1>10, <1>11, <1>12 DEF MTask

\* Any other step of a master.
LEMMA MasterType ==
  ASSUME TypeOK, NEW m \in Masters, MQuery(m) \/ MStep(m) \/ MCrash(m)
  PROVE  TypeOK'
<1>1. CASE MQuery(m)
  BY <1>1 DEF MQuery, TypeOK, worker, conns, bounds
<1>2. CASE MAbort(m)
  BY <1>2 DEF MAbort, TypeOK, worker, conns, bounds
<1>3. CASE MServe(m)
  BY <1>3 DEF MServe, TypeOK, worker, conns, bounds
<1>4. CASE MCrash(m)
  <2>1. mphase' \in [Masters -> {"off", "find", "setup", "link", "serve", "dead"}]
    BY <1>4 DEF MCrash, TypeOK
  <2>2. crashes' \in Nat
    BY <1>4 DEF MCrash, TypeOK
  <2>3. UNCHANGED <<found, asg, task, tries, air, worker, conns, starts>>
    BY <1>4 DEF MCrash
  <2>4. QED
    BY <2>1, <2>2, <2>3 DEF TypeOK, worker, conns
<1>5. CASE MTopology(m)
  BY <1>5 DEF MTopology, TypeOK, worker, conns, bounds
<1>6. ASSUME NEW a \in Assignments(m), MAssign(m, a) PROVE TypeOK'
  <2>1. a \in [Workers -> SUBSET Layers]
    <3>1. PICK b \in Plans[m] : a = [w \in Workers |-> IF w \in found[m] THEN b[w] ELSE {}]
      BY DEF Assignments
    <3>2. b \in [Workers -> SUBSET Layers]
      BY SetupConstants
    <3>3. QED
      BY <3>1, <3>2
  <2>2. QED
    BY <1>6, <2>1 DEF MAssign, TypeOK, worker, conns, bounds
<1>7. QED
  BY <1>1, <1>2, <1>3, <1>4, <1>5, <1>6 DEF MStep

\* A step on a connection by the worker.
LEMMA ConnType ==
  ASSUME TypeOK, NEW m \in Masters, NEW w \in Workers, WConn(m, w)
  PROVE  TypeOK'
<1>1. ASSUME NEW st, NEW msg, NEW st2 \in EndStates, WReads(m, w, st, msg, st2),
             NEW ms \in Seq(ToMaster), Says(m, w, ms),
             \/ UNCHANGED worker \/ SetUp(m, w)
             \/ /\ pledged' = [pledged EXCEPT ![m] = @ \cup {w}]
                /\ UNCHANGED <<proc, adv, blocks, by>>
      PROVE  TypeOK'
  <2>1. /\ proc' \in [Workers -> {"down", "setup", "load", "serve"}]
        /\ adv' \in [Workers -> {"on", "last", "off"}]
        /\ blocks' \in [Workers -> SUBSET Layers]
        /\ by' \in [Workers -> SUBSET Masters]
        /\ pledged' \in [Masters -> SUBSET Workers]
    <3>1. CASE UNCHANGED worker
      BY <3>1, Types DEF worker
    <3>2. CASE SetUp(m, w)
      BY <3>2, SetUpType
    <3>3. CASE /\ pledged' = [pledged EXCEPT ![m] = @ \cup {w}]
               /\ UNCHANGED <<proc, adv, blocks, by>>
      BY <3>3, Types
    <3>4. QED
      BY <1>1, <3>1, <3>2, <3>3
  <2>2. QED
    BY <1>1, <2>1, WReadsType, SaysType DEF TypeOK, ToWorker, ToMaster, EndStates
<1>2. CASE WHandlerEnds(m, w)
  BY <1>2 DEF WHandlerEnds, TypeOK, worker, master, bounds
<1>3. CASE WSetupErr(m, w)
  <2>1. <<>> \in Seq(Masters)
    BY NoMessage
  <2>2. QED
    BY <1>3, <2>1 DEF WSetupErr, Exit, TypeOK, master, bounds
<1>4. CASE WAssignNeeds(m, w)
  BY <1>1, <1>4, Replies DEF WAssignNeeds, EndStates, Open
<1>5. CASE WAssignCached(m, w)
  BY <1>1, <1>5, Replies DEF WAssignCached, EndStates
<1>6. CASE WData(m, w)
  BY <1>1, <1>6, Replies DEF WData, EndStates
<1>7. CASE WReassign(m, w)
  BY <1>1, <1>7, Replies DEF WReassign, EndStates
<1>8. CASE WHello(m, w)
  BY <1>1, <1>8, Replies DEF WHello, EndStates, Open
<1>9. QED
  BY <1>2, <1>3, <1>4, <1>5, <1>6, <1>7, <1>8 DEF WConn

\* Any other step of a worker, and discovery.
LEMMA WorkerType ==
  ASSUME TypeOK, NEW w \in Workers,
         WSilent(w) \/ WStart(w) \/ WAccept(w) \/ WLoad(w) \/ WCrash(w)
  PROVE  TypeOK'
<1>1. CASE WSilent(w)
  BY <1>1 DEF WSilent, TypeOK, master, conns, bounds
<1>2. CASE WStart(w)
  BY <1>2 DEF WStart, TypeOK, master, conns
<1>3. CASE WLoad(w)
  BY <1>3 DEF WLoad, TypeOK, master, conns, bounds
<1>4. CASE WAccept(w)
  <2>1. /\ Head(backlog[w]) \in Masters /\ Tail(backlog[w]) \in Seq(Masters)
    BY <1>4, Types, Reading DEF WAccept
  <2>2. /\ <<>> \in Seq(ToWorker) /\ <<"proof">> \in Seq(ToMaster)
    BY NoMessage, Replies
  <2>3. QED
    BY <1>4, <2>1, <2>2 DEF WAccept, Greet, TypeOK, ToWorker, ToMaster, Open,
                            master, worker, bounds
<1>5. CASE WCrash(w)
  <2>1. <<>> \in Seq(Masters)
    BY NoMessage
  <2>2. QED
    BY <1>5, <2>1 DEF WCrash, Exit, TypeOK, master, bounds
<1>6. QED
  BY <1>1, <1>2, <1>3, <1>4, <1>5

LEMMA DiscoveryType ==
  ASSUME TypeOK, NEW m \in Masters, NEW w \in Workers,
         WAnswer(m, w) \/ MFind(m, w)
  PROVE  TypeOK'
<1>1. CASE WAnswer(m, w)
  <2>1. air' \subseteq Masters \X Workers
    BY <1>1, Types DEF WAnswer
  <2>2. adv' \in [Workers -> {"on", "last", "off"}]
    BY <1>1, Types DEF WAnswer
  <2>3. QED
    BY <1>1, <2>1, <2>2 DEF WAnswer, TypeOK, master, conns, bounds
<1>2. CASE MFind(m, w)
  BY <1>2 DEF MFind, Collect, TypeOK, worker, conns, bounds
<1>3. QED
  BY <1>1, <1>2

LEMMA StutterType == TypeOK /\ UNCHANGED vars => TypeOK'
  BY DEF TypeOK, vars, master, worker, conns, bounds

LEMMA NextType == TypeOK /\ [Next]_vars => TypeOK'
<1> SUFFICES ASSUME TypeOK, Next PROVE TypeOK'
  BY StutterType
<1> QED
  BY TaskType, MasterType, ConnType, WorkerType, DiscoveryType DEF Next

-----------------------------------------------------------------------------
(* The cells. *)

\* One cell changes, the others stay as they are.
LEMMA OneCell ==
  ASSUME Cells, NEW m \in Masters, NEW w \in Workers,
         Cell(mphase[m], asg[m][w], task[m][w], end[m][w], toW[m][w],
              toM[m][w], w \in pledged[m])',
         \A n \in Masters, v \in Workers : n # m \/ v # w =>
           /\ mphase'[n] = mphase[n] /\ asg'[n][v] = asg[n][v]
           /\ task'[n][v] = task[n][v] /\ end'[n][v] = end[n][v]
           /\ toW'[n][v] = toW[n][v] /\ toM'[n][v] = toM[n][v]
           /\ (v \in pledged'[n]) = (v \in pledged[n])
  PROVE  Cells'
<1> SUFFICES ASSUME NEW n \in Masters, NEW v \in Workers
             PROVE  Cell(mphase[n], asg[n][v], task[n][v], end[n][v], toW[n][v],
                         toM[n][v], v \in pledged[n])'
  BY DEF Cells
<1>1. CASE n = m /\ v = w
  BY <1>1
<1>2. CASE n # m \/ v # w
  <2>1. Cell(mphase[n], asg[n][v], task[n][v], end[n][v], toW[n][v], toM[n][v],
             v \in pledged[n])
    BY DEF Cells
  <2>2. QED
    BY <1>2, <2>1 DEF Cell
<1>3. QED
  BY <1>1, <1>2

\* What Head, Tail and Append do to the messages of a cell.
LEMMA Messages ==
  /\ Tail(<<"proof">>) = <<>> /\ Tail(<<"needs">>) = <<>> /\ Tail(<<"info">>) = <<>>
  /\ Tail(<<"ready">>) = <<>> /\ Tail(<<"cached", "ready">>) = <<"ready">>
  /\ Head(<<"proof">>) = "proof" /\ Head(<<"needs">>) = "needs"
  /\ Head(<<"info">>) = "info" /\ Head(<<"ready">>) = "ready"
  /\ Head(<<"cached", "ready">>) = "cached"
  /\ Tail(<<"assign">>) = <<>> /\ Tail(<<"hello">>) = <<>> /\ Tail(<<"data">>) = <<>>
  /\ Head(<<"assign">>) = "assign" /\ Head(<<"hello">>) = "hello"
  /\ Head(<<"data">>) = "data"
  /\ Append(<<>>, "assign") = <<"assign">> /\ Append(<<>>, "hello") = <<"hello">>
  /\ Append(<<>>, "data") = <<"data">>
  /\ <<>> \o <<"needs">> = <<"needs">> /\ <<>> \o <<"ready">> = <<"ready">>
  /\ <<>> \o <<"info">> = <<"info">>
  /\ <<>> \o <<"cached", "ready">> = <<"cached", "ready">>
  /\ <<"proof">> # <<>> /\ <<"needs">> # <<>> /\ <<"info">> # <<>>
  /\ <<"ready">> # <<>> /\ <<"cached", "ready">> # <<>>
  OBVIOUS

\* A task's step: all it changes is its cell.
LEMMA TaskCells ==
  ASSUME TypeOK, Cells, NEW m \in Masters, NEW w \in Workers, MTask(m, w)
  PROVE  Cells'
<1> DEFINE Here == Cell(mphase[m], asg[m][w], task[m][w], end[m][w], toW[m][w],
                        toM[m][w], w \in pledged[m])
<1>1. Here
  BY DEF Cells
<1>2. ASSUME UNCHANGED <<mphase, asg, end, pledged>>, NEW t, NEW q, NEW r,
             task' = [task EXCEPT ![m][w] = t],
             toW' = [toW EXCEPT ![m][w] = r],
             toM' = [toM EXCEPT ![m][w] = q],
             Cell(mphase[m], asg[m][w], t, end[m][w], r, q, w \in pledged[m])
      PROVE  Cells'
  <2>1. task'[m][w] = t /\ toM'[m][w] = q /\ toW'[m][w] = r
    BY <1>2, Types
  <2>2. Here'
    BY <1>2, <2>1
  <2>3. \A n \in Masters, v \in Workers : n # m \/ v # w =>
           task'[n][v] = task[n][v] /\ toM'[n][v] = toM[n][v] /\ toW'[n][v] = toW[n][v]
    BY <1>2, Types
  <2>4. QED
    BY <1>2, <2>2, <2>3, OneCell
<1>3. /\ toM = [toM EXCEPT ![m][w] = toM[m][w]]
      /\ toW = [toW EXCEPT ![m][w] = toW[m][w]]
  BY Types
<1>4. CASE MConnect(m, w)
  <2>1. /\ task'[m][w] = "proof" /\ end'[m][w] = "queued"
        /\ toW'[m][w] = <<"nonce">> /\ toM'[m][w] = <<>>
        /\ UNCHANGED <<mphase, asg, pledged>> /\ task[m][w] = "connect"
    BY <1>4, Types DEF MConnect, worker
  <2>2. Here'
    BY <1>1, <2>1 DEF Cell
  <2>3. \A n \in Masters, v \in Workers : n # m \/ v # w =>
           /\ task'[n][v] = task[n][v] /\ end'[n][v] = end[n][v]
           /\ toW'[n][v] = toW[n][v] /\ toM'[n][v] = toM[n][v]
    BY <1>4, Types DEF MConnect
  <2>4. QED
    BY <2>1, <2>2, <2>3, OneCell
<1>5. CASE MRefused(m, w)
  <2>1. /\ UNCHANGED <<mphase, asg, end, toW, toM, pledged>>
        /\ task' = [task EXCEPT ![m][w] = "failed"] \/ task' = task
        /\ task[m][w] = "connect"
    BY <1>5 DEF MRefused, worker, conns
  <2>2. Cell(mphase[m], asg[m][w], "failed", end[m][w], toW[m][w], toM[m][w],
             w \in pledged[m])
    BY <1>1, <2>1 DEF Cell
  <2>3. CASE task' = task
    BY <2>1, <2>3 DEF Cells
  <2>4. QED
    BY <1>2, <1>3, <2>1, <2>2, <2>3
<1>6. CASE MAuth(m, w)
  <2>1. /\ UNCHANGED <<mphase, asg, end, pledged>> /\ task[m][w] = "proof"
        /\ toM[m][w] # <<>> /\ Head(toM[m][w]) = "proof" /\ Alive(m)
    BY <1>6 DEF MAuth, MReads, worker
  <2>2. /\ toM[m][w] = <<"proof">> /\ Tail(toM[m][w]) = <<>>
        /\ (end[m][w] = "proof" /\ toW[m][w] = <<>>) \/ end[m][w] = "none"
    BY <1>1, <2>1, Messages DEF Cell
  <2>3. asg[m][w] # {} /\ mphase[m] \notin {"off", "find", "dead"}
    BY <1>1, <2>1 DEF Cell, Alive
  <2>4. CASE mphase[m] = "setup"
    <3>1. /\ task' = [task EXCEPT ![m][w] = "ack"]
          /\ toM' = [toM EXCEPT ![m][w] = <<>>]
          /\ toW' = [toW EXCEPT ![m][w] = Append(toW[m][w], "assign")]
      BY <1>6, <2>2, <2>4 DEF MAuth, MReads
    <3>2. Cell(mphase[m], asg[m][w], "ack", end[m][w], Append(toW[m][w], "assign"),
               <<>>, w \in pledged[m])
      BY <2>2, <2>3, <2>4, Messages DEF Cell
    <3>3. QED
      BY <1>2, <2>1, <3>1, <3>2
  <2>5. CASE mphase[m] # "setup"
    <3>1. /\ task' = [task EXCEPT ![m][w] = "info"]
          /\ toM' = [toM EXCEPT ![m][w] = <<>>]
          /\ toW' = [toW EXCEPT ![m][w] = Append(toW[m][w], "hello")]
      BY <1>6, <2>2, <2>5 DEF MAuth, MReads
    <3>2. mphase[m] \in {"link", "serve"}
      BY <2>3, <2>5, Types
    <3>3. Cell(mphase[m], asg[m][w], "info", end[m][w], Append(toW[m][w], "hello"),
               <<>>, w \in pledged[m])
      BY <1>1, <2>2, <2>3, <3>2, Messages DEF Cell
    <3>4. QED
      BY <1>2, <2>1, <3>1, <3>3
  <2>6. QED
    BY <2>4, <2>5
<1>7. ASSUME NEW st, NEW msg, MReads(m, w, st, msg), UNCHANGED toW,
             NEW t, task' = [task EXCEPT ![m][w] = t],
             Cell(mphase[m], asg[m][w], t, end[m][w], toW[m][w], Tail(toM[m][w]),
                  w \in pledged[m])
      PROVE  Cells'
  <2>1. /\ UNCHANGED <<mphase, asg, end, pledged>>
        /\ toM' = [toM EXCEPT ![m][w] = Tail(toM[m][w])]
    BY <1>7 DEF MReads, worker
  <2>2. QED
    BY <1>2, <1>3, <1>7, <2>1
<1>8. CASE MAckNeeds(m, w)
  <2>1. /\ task[m][w] = "ack" /\ toM[m][w] # <<>> /\ Head(toM[m][w]) = "needs"
        /\ task' = [task EXCEPT ![m][w] = "push"]
    BY <1>8 DEF MAckNeeds, MReads
  <2>2. Cell(mphase[m], asg[m][w], "push", end[m][w], toW[m][w], Tail(toM[m][w]),
             w \in pledged[m])
    BY <1>1, <2>1, Messages DEF Cell
  <2>3. QED
    BY <1>7, <1>8, <2>1, <2>2 DEF MAckNeeds
<1>9. CASE MAckCached(m, w)
  <2>1. /\ task[m][w] = "ack" /\ toM[m][w] # <<>> /\ Head(toM[m][w]) = "cached"
        /\ task' = [task EXCEPT ![m][w] = "ready"]
    BY <1>9 DEF MAckCached, MReads
  <2>2. Cell(mphase[m], asg[m][w], "ready", end[m][w], toW[m][w], Tail(toM[m][w]),
             w \in pledged[m])
    BY <1>1, <2>1, Messages DEF Cell
  <2>3. QED
    BY <1>7, <1>9, <2>1, <2>2 DEF MAckCached
<1>10. CASE MReady(m, w)
  <2>1. /\ task[m][w] = "ready" /\ toM[m][w] # <<>> /\ Head(toM[m][w]) = "ready"
        /\ task' = [task EXCEPT ![m][w] = "done"]
    BY <1>10 DEF MReady, MReads
  <2>2. Cell(mphase[m], asg[m][w], "done", end[m][w], toW[m][w], Tail(toM[m][w]),
             w \in pledged[m])
    BY <1>1, <2>1, Messages DEF Cell
  <2>3. QED
    BY <1>7, <1>10, <2>1, <2>2 DEF MReady
<1>11. CASE MInfo(m, w)
  <2>1. /\ task[m][w] = "info" /\ toM[m][w] # <<>> /\ Head(toM[m][w]) = "info"
        /\ task' = [task EXCEPT ![m][w] = "linked"]
    BY <1>11 DEF MInfo, MReads
  <2>2. Cell(mphase[m], asg[m][w], "linked", end[m][w], toW[m][w], Tail(toM[m][w]),
             w \in pledged[m])
    BY <1>1, <2>1, Messages DEF Cell
  <2>3. QED
    BY <1>7, <1>11, <2>1, <2>2 DEF MInfo
<1>12. CASE MPush(m, w)
  <2>1. /\ UNCHANGED <<mphase, asg, end, pledged, toM>>
        /\ task[m][w] = "push" /\ end[m][w] # "none"
        /\ task' = [task EXCEPT ![m][w] = "ready"]
        /\ toW' = [toW EXCEPT ![m][w] = Append(toW[m][w], "data")]
    BY <1>12 DEF MPush, worker
  <2>2. Cell(mphase[m], asg[m][w], "ready", end[m][w], Append(toW[m][w], "data"),
             toM[m][w], w \in pledged[m])
    BY <1>1, <2>1, Messages DEF Cell
  <2>3. QED
    BY <1>2, <1>3, <2>1, <2>2
<1>13. CASE MTaskErr(m, w)
  <2>1. /\ UNCHANGED <<mphase, asg, end, pledged, toW, toM>>
        /\ task[m][w] \in Awaiting /\ end[m][w] = "none"
        /\ task' = [task EXCEPT ![m][w] = "failed"]
    BY <1>13 DEF MTaskErr, HungUpM, worker, conns
  <2>2. Cell(mphase[m], asg[m][w], "failed", end[m][w], toW[m][w], toM[m][w],
             w \in pledged[m])
    BY <1>1, <2>1 DEF Cell, Awaiting
  <2>3. QED
    BY <1>2, <1>3, <2>1, <2>2
<1>14. QED
  BY <1>4, <1>5, <1>6, <1>8, <1>9, <1>10, <1>11, <1>12, <1>13 DEF MTask

\* A step of a master changes its own cells only.
LEMMA OneMaster ==
  ASSUME Cells, NEW m \in Masters,
         UNCHANGED <<end, toW, toM, pledged>>,
         \A n \in Masters : n # m =>
           /\ mphase'[n] = mphase[n] /\ asg'[n] = asg[n] /\ task'[n] = task[n],
         \A v \in Workers :
           Cell(mphase[m], asg[m][v], task[m][v], end[m][v], toW[m][v], toM[m][v],
                v \in pledged[m])'
  PROVE  Cells'
<1> SUFFICES ASSUME NEW n \in Masters, NEW v \in Workers
             PROVE  Cell(mphase[n], asg[n][v], task[n][v], end[n][v], toW[n][v],
                         toM[n][v], v \in pledged[n])'
  BY DEF Cells
<1>1. CASE n = m
  BY <1>1
<1>2. CASE n # m
  <2>1. Cell(mphase[n], asg[n][v], task[n][v], end[n][v], toW[n][v], toM[n][v],
             v \in pledged[n])
    BY DEF Cells
  <2>2. QED
    BY <1>2, <2>1 DEF Cell
<1>3. QED
  BY <1>1, <1>2

LEMMA MasterCells ==
  ASSUME TypeOK, Cells, NEW m \in Masters, MQuery(m) \/ MStep(m) \/ MCrash(m)
  PROVE  Cells'
<1>1. ASSUME NEW v \in Workers
      PROVE  Cell(mphase[m], asg[m][v], task[m][v], end[m][v], toW[m][v], toM[m][v],
                  v \in pledged[m])
  BY DEF Cells
<1>2. ASSUME NEW ph, mphase' = [mphase EXCEPT ![m] = ph],
             UNCHANGED <<asg, task, end, toW, toM, pledged>>,
             \A v \in Workers :
               Cell(ph, asg[m][v], task[m][v], end[m][v], toW[m][v], toM[m][v],
                    v \in pledged[m])
      PROVE  Cells'
  <2>1. /\ mphase'[m] = ph
        /\ \A n \in Masters : n # m => mphase'[n] = mphase[n]
    BY <1>2, Types
  <2>2. QED
    BY <1>2, <2>1, OneMaster
<1>3. CASE MQuery(m)
  <2>1. /\ mphase[m] = "off" /\ mphase' = [mphase EXCEPT ![m] = "find"]
        /\ UNCHANGED <<asg, task, end, toW, toM, pledged>>
    BY <1>3 DEF MQuery, worker, conns
  <2>2. ASSUME NEW v \in Workers
        PROVE  Cell("find", asg[m][v], task[m][v], end[m][v], toW[m][v], toM[m][v],
                    v \in pledged[m])
    BY <1>1, <2>1 DEF Cell
  <2>3. QED
    BY <1>2, <2>1, <2>2
<1>4. CASE MAbort(m) \/ MCrash(m)
  <2>1. /\ mphase[m] \notin {"off", "find"} \/ MCrash(m)
        /\ mphase' = [mphase EXCEPT ![m] = "dead"]
        /\ UNCHANGED <<asg, task, end, toW, toM, pledged>>
    BY <1>4 DEF MAbort, MCrash, worker, conns
  <2>2. ASSUME NEW v \in Workers
        PROVE  Cell("dead", asg[m][v], task[m][v], end[m][v], toW[m][v], toM[m][v],
                    v \in pledged[m])
    BY <1>1 DEF Cell
  <2>3. QED
    BY <1>2, <2>1, <2>2
<1>5. CASE MServe(m)
  <2>1. /\ mphase[m] = "link" /\ mphase' = [mphase EXCEPT ![m] = "serve"]
        /\ UNCHANGED <<asg, task, end, toW, toM, pledged>>
    BY <1>5 DEF MServe, worker, conns
  <2>2. ASSUME NEW v \in Workers
        PROVE  Cell("serve", asg[m][v], task[m][v], end[m][v], toW[m][v], toM[m][v],
                    v \in pledged[m])
    BY <1>1, <2>1 DEF Cell
  <2>3. QED
    BY <1>2, <2>1, <2>2
<1>6. CASE MTopology(m)
  <2>1. /\ mphase[m] = "setup" /\ AllReady(m)
        /\ UNCHANGED <<asg, end, toW, toM, pledged>>
        /\ \A n \in Masters : n # m => mphase'[n] = mphase[n] /\ task'[n] = task[n]
        /\ mphase'[m] = "link"
        /\ \A v \in Workers :
             task'[m][v] = IF asg[m][v] = {} THEN "none" ELSE "connect"
    BY <1>6, Types DEF MTopology, worker, conns
  <2>2. ASSUME NEW v \in Workers
        PROVE  Cell(mphase[m], asg[m][v], task[m][v], end[m][v], toW[m][v],
                    toM[m][v], v \in pledged[m])'
    <3>1. CASE asg[m][v] = {}
      BY <1>1, <2>1, <3>1 DEF Cell
    <3>2. CASE asg[m][v] # {}
      <4>1. task[m][v] = "done"
        BY <2>1, <3>2 DEF AllReady, Members
      <4>2. QED
        BY <1>1, <2>1, <3>2, <4>1 DEF Cell
    <3>3. QED
      BY <3>1, <3>2
  <2>3. QED
    BY <2>1, <2>2, OneMaster
<1>7. ASSUME NEW a \in Assignments(m), MAssign(m, a) PROVE Cells'
  <2>1. PICK b : a = [w \in Workers |-> IF w \in found[m] THEN b[w] ELSE {}]
    BY DEF Assignments
  <2>2. /\ mphase[m] = "find"
        /\ UNCHANGED <<end, toW, toM, pledged>>
        /\ \A n \in Masters : n # m => /\ mphase'[n] = mphase[n]
                                       /\ task'[n] = task[n] /\ asg'[n] = asg[n]
        /\ mphase'[m] = IF found[m] = {} THEN "serve" ELSE "setup"
        /\ asg'[m] = a
        /\ \A v \in Workers : task'[m][v] = IF a[v] = {} THEN "none" ELSE "connect"
    BY <1>7, Types DEF MAssign, worker, conns
  <2>3. ASSUME NEW v \in Workers
        PROVE  Cell(mphase[m], asg[m][v], task[m][v], end[m][v], toW[m][v],
                    toM[m][v], v \in pledged[m])'
    <3>1. task[m][v] = "none" /\ end[m][v] = "none" /\ v \notin pledged[m]
      BY <1>1, <2>2 DEF Cell
    <3>2. found[m] = {} => a[v] = {}
      BY <2>1
    <3>3. QED
      BY <2>2, <3>1, <3>2 DEF Cell
  <2>4. QED
    BY <2>2, <2>3, OneMaster
<1>8. QED
  BY <1>3, <1>4, <1>5, <1>6, <1>7 DEF MStep

\* The worker's end can close at any time.
LEMMA Closed ==
  ASSUME NEW ph, NEW a, NEW t, NEW e, NEW tw, NEW tm, NEW p,
         Cell(ph, a, t, e, tw, tm, p)
  PROVE  Cell(ph, a, t, "none", tw, tm, p)
  BY DEF Cell

\* Where a message of the master is read, by what its task awaits.
LEMMA ReadAt ==
  ASSUME TypeOK, Cells, NEW m \in Masters, NEW w \in Workers,
         toW[m][w] # <<>>
  PROVE  /\ end[m][w] = "proof" /\ Head(toW[m][w]) = "assign" =>
              /\ task[m][w] = "ack" /\ toW[m][w] = <<"assign">> /\ toM[m][w] = <<>>
              /\ mphase[m] \in {"setup", "dead"} /\ asg[m][w] # {}
         /\ end[m][w] = "proof" /\ Head(toW[m][w]) = "hello" =>
              task[m][w] = "info" /\ toW[m][w] = <<"hello">> /\ toM[m][w] = <<>>
         /\ end[m][w] = "data" /\ Head(toW[m][w]) = "data" =>
              /\ task[m][w] = "ready" /\ toW[m][w] = <<"data">> /\ toM[m][w] = <<>>
              /\ mphase[m] \in {"setup", "dead"} /\ asg[m][w] # {}
<1>1. Cell(mphase[m], asg[m][w], task[m][w], end[m][w], toW[m][w], toM[m][w],
           w \in pledged[m])
  BY DEF Cells
<1>2. task[m][w] \in TaskStates
  BY Types
<1>3. ASSUME end[m][w] = "proof" PROVE task[m][w] \in {"proof", "ack", "info"}
  BY <1>1, <1>2, <1>3 DEF Cell, TaskStates, Awaiting
<1>4. ASSUME end[m][w] = "data" PROVE task[m][w] \in {"ack", "push", "ready"}
  BY <1>1, <1>2, <1>4 DEF Cell, TaskStates, Awaiting
<1>5. CASE end[m][w] = "proof"
  BY <1>1, <1>3, <1>5, Messages DEF Cell
<1>6. CASE end[m][w] = "data"
  BY <1>1, <1>4, <1>6, Messages DEF Cell
<1>7. QED
  BY <1>5, <1>6

\* All of them do when the process ends.
LEMMA ExitCells ==
  ASSUME TypeOK, Cells, NEW w \in Workers, Exit(w)
  PROVE  Cells'
<1> SUFFICES ASSUME NEW n \in Masters, NEW v \in Workers
             PROVE  Cell(mphase[n], asg[n][v], task[n][v], end[n][v], toW[n][v],
                         toM[n][v], v \in pledged[n])'
  BY DEF Cells
<1>1. Cell(mphase[n], asg[n][v], task[n][v], end[n][v], toW[n][v], toM[n][v],
           v \in pledged[n])
  BY DEF Cells
<1>2. /\ UNCHANGED <<mphase, asg, task, toW, toM, pledged>>
      /\ end'[n][v] = IF v = w THEN "none" ELSE end[n][v]
  BY Types DEF Exit, master
<1>3. Cell(mphase[n], asg[n][v], task[n][v], end'[n][v], toW[n][v], toM[n][v],
           v \in pledged[n])
  BY <1>1, <1>2, Closed
<1>4. QED
  BY <1>2, <1>3

LEMMA ConnCells ==
  ASSUME TypeOK, Cells, NEW m \in Masters, NEW w \in Workers, WConn(m, w)
  PROVE  Cells'
<1> DEFINE Here == Cell(mphase[m], asg[m][w], task[m][w], end[m][w], toW[m][w],
                        toM[m][w], w \in pledged[m])
<1>1. Here
  BY DEF Cells
<1>2. ASSUME NEW st, NEW msg, NEW e, WReads(m, w, st, msg, e),
             NEW ms, Says(m, w, ms),
             \/ UNCHANGED pledged
             \/ pledged' = [pledged EXCEPT ![m] = @ \cup {w}],
             Cell(mphase[m], asg[m][w], task[m][w], e, Tail(toW[m][w]),
                  toM[m][w] \o ms, w \in pledged'[m])
      PROVE  Cells'
  <2>1. UNCHANGED <<mphase, asg, task>>
    BY <1>2 DEF WReads, master
  <2>2. /\ end'[m][w] = e /\ toW'[m][w] = Tail(toW[m][w])
        /\ toM'[m][w] = toM[m][w] \o ms
    BY <1>2, Types DEF WReads, Says
  <2>3. Here'
    BY <1>2, <2>1, <2>2
  <2>4. \A n \in Masters, v \in Workers : n # m \/ v # w =>
          /\ end'[n][v] = end[n][v] /\ toW'[n][v] = toW[n][v]
          /\ toM'[n][v] = toM[n][v]
    BY <1>2, Types DEF WReads, Says
  <2>5. \A n \in Masters, v \in Workers : n # m \/ v # w =>
          (v \in pledged'[n]) = (v \in pledged[n])
    BY <1>2, Types
  <2>6. QED
    BY <2>1, <2>3, <2>4, <2>5, OneCell
<1>3. ASSUME \/ SetUp(m, w) \/ pledged' = [pledged EXCEPT ![m] = @ \cup {w}]
      PROVE  /\ pledged' = [pledged EXCEPT ![m] = @ \cup {w}]
             /\ w \in pledged'[m]
  BY <1>3, Types DEF SetUp
<1>4. CASE WAssignNeeds(m, w)
  <2>1. /\ end[m][w] = "proof" /\ Head(toW[m][w]) = "assign" /\ toW[m][w] # <<>>
        /\ UNCHANGED pledged
    BY <1>4 DEF WAssignNeeds, WReads, worker
  <2>2. Cell(mphase[m], asg[m][w], task[m][w], "data", Tail(toW[m][w]),
             toM[m][w] \o <<"needs">>, w \in pledged'[m])
    <3>1. /\ task[m][w] = "ack" /\ toW[m][w] = <<"assign">> /\ toM[m][w] = <<>>
          /\ mphase[m] \in {"setup", "dead"} /\ asg[m][w] # {}
      BY <2>1, ReadAt
    <3>2. Tail(toW[m][w]) = <<>> /\ toM[m][w] \o <<"needs">> = <<"needs">>
      BY <3>1, Messages
    <3>3. QED
      BY <3>1, <3>2 DEF Cell
  <2>3. QED
    BY <1>2, <1>4, <2>1, <2>2 DEF WAssignNeeds
<1>5. CASE WAssignCached(m, w) \/ WReassign(m, w)
  <2>1. /\ end[m][w] = "proof" /\ Head(toW[m][w]) = "assign" /\ toW[m][w] # <<>>
        /\ WReads(m, w, "proof", "assign", "none")
        /\ Says(m, w, <<"cached", "ready">>)
    BY <1>5 DEF WAssignCached, WReassign, WReads
  <2>2. pledged' = [pledged EXCEPT ![m] = @ \cup {w}] /\ w \in pledged'[m]
    BY <1>3, <1>5 DEF WAssignCached, WReassign
  <2>3. Cell(mphase[m], asg[m][w], task[m][w], "none", Tail(toW[m][w]),
             toM[m][w] \o <<"cached", "ready">>, w \in pledged'[m])
    <3>1. /\ task[m][w] = "ack" /\ toW[m][w] = <<"assign">> /\ toM[m][w] = <<>>
          /\ mphase[m] \in {"setup", "dead"} /\ asg[m][w] # {}
      BY <2>1, ReadAt
    <3>2. /\ Tail(toW[m][w]) = <<>>
          /\ toM[m][w] \o <<"cached", "ready">> = <<"cached", "ready">>
      BY <3>1, Messages
    <3>3. QED
      BY <2>2, <3>1, <3>2 DEF Cell
  <2>4. QED
    BY <1>2, <2>1, <2>2, <2>3
<1>6. CASE WData(m, w)
  <2>1. /\ end[m][w] = "data" /\ Head(toW[m][w]) = "data" /\ toW[m][w] # <<>>
        /\ WReads(m, w, "data", "data", "none") /\ Says(m, w, <<"ready">>)
    BY <1>6 DEF WData, WReads
  <2>2. pledged' = [pledged EXCEPT ![m] = @ \cup {w}] /\ w \in pledged'[m]
    BY <1>3, <1>6 DEF WData
  <2>3. Cell(mphase[m], asg[m][w], task[m][w], "none", Tail(toW[m][w]),
             toM[m][w] \o <<"ready">>, w \in pledged'[m])
    <3>1. /\ task[m][w] = "ready" /\ toW[m][w] = <<"data">> /\ toM[m][w] = <<>>
          /\ mphase[m] \in {"setup", "dead"} /\ asg[m][w] # {}
      BY <2>1, ReadAt
    <3>2. Tail(toW[m][w]) = <<>> /\ toM[m][w] \o <<"ready">> = <<"ready">>
      BY <3>1, Messages
    <3>3. QED
      BY <2>2, <3>1, <3>2 DEF Cell
  <2>4. QED
    BY <1>2, <2>1, <2>2, <2>3
<1>7. CASE WHello(m, w)
  <2>1. /\ end[m][w] = "proof" /\ Head(toW[m][w]) = "hello" /\ toW[m][w] # <<>>
        /\ UNCHANGED pledged
    BY <1>7 DEF WHello, WReads, worker
  <2>2. Cell(mphase[m], asg[m][w], task[m][w], "infer", Tail(toW[m][w]),
             toM[m][w] \o <<"info">>, w \in pledged'[m])
    <3>1. /\ task[m][w] = "info" /\ toW[m][w] = <<"hello">> /\ toM[m][w] = <<>>
      BY <2>1, ReadAt
    <3>2. Tail(toW[m][w]) = <<>> /\ toM[m][w] \o <<"info">> = <<"info">>
      BY <3>1, Messages
    <3>3. QED
      BY <1>1, <2>1, <3>1, <3>2 DEF Cell
  <2>3. QED
    BY <1>2, <1>7, <2>1, <2>2 DEF WHello
<1>8. CASE WHandlerEnds(m, w)
  <2>1. /\ UNCHANGED <<mphase, asg, task, toW, toM, pledged>>
        /\ end'[m][w] = "none"
        /\ \A n \in Masters, v \in Workers : n # m \/ v # w => end'[n][v] = end[n][v]
    BY <1>8, Types DEF WHandlerEnds, master, worker
  <2>2. Here'
    BY <1>1, <2>1, Closed
  <2>3. QED
    BY <2>1, <2>2, OneCell
<1>9. CASE WSetupErr(m, w)
  BY <1>9, ExitCells DEF WSetupErr
<1>10. QED
  BY <1>4, <1>5, <1>6, <1>7, <1>8, <1>9 DEF WConn

LEMMA WorkerCells ==
  ASSUME TypeOK, Cells, Queued, NEW w \in Workers,
         WSilent(w) \/ WStart(w) \/ WAccept(w) \/ WLoad(w) \/ WCrash(w)
  PROVE  Cells'
<1>1. CASE WSilent(w) \/ WStart(w) \/ WLoad(w)
  <2>1. UNCHANGED <<mphase, asg, task, end, toW, toM, pledged>>
    BY <1>1 DEF WSilent, WStart, WLoad, master, conns
  <2>2. QED
    BY <2>1 DEF Cells
<1>2. CASE WAccept(w)
  <2>1. backlog[w] \in Seq(Masters) /\ backlog[w] # <<>>
    BY <1>2, Types DEF WAccept
  <2> PICK m \in Masters : m = Head(backlog[w])
    BY <2>1, Reading
  <2>2. end[m][w] = "queued"
    <3>1. m = backlog[w][1] /\ 1 \in 1 .. Len(backlog[w])
      BY <2>1
    <3>2. QED
      BY <3>1 DEF Queued
  <2>3. UNCHANGED <<mphase, asg, task, pledged>>
    BY <1>2 DEF WAccept, master, worker
  <2>4. /\ end' = [end EXCEPT ![m][w] = "proof"]
        /\ toW' = [toW EXCEPT ![m][w] = <<>>]
        /\ toM' = [toM EXCEPT ![m][w] = <<"proof">>]
    BY <1>2 DEF WAccept, Greet
  <2>5. end'[m][w] = "proof" /\ toW'[m][w] = <<>> /\ toM'[m][w] = <<"proof">>
    BY <2>2, <2>4, Types
  <2>6. \A n \in Masters, v \in Workers : n # m \/ v # w =>
          /\ end'[n][v] = end[n][v] /\ toW'[n][v] = toW[n][v]
          /\ toM'[n][v] = toM[n][v]
    BY <2>2, <2>4, Types
  <2>7. task[m][w] = "proof"
    <3>1. Cell(mphase[m], asg[m][w], task[m][w], end[m][w], toW[m][w], toM[m][w],
               w \in pledged[m])
      BY <2>2 DEF Cells
    <3>2. task[m][w] \in TaskStates
      BY <2>2, Types
    <3>3. QED
      BY <2>2, <3>1, <3>2 DEF Cell, TaskStates, Awaiting
  <2>8. Cell(mphase[m], asg[m][w], task[m][w], end[m][w], toW[m][w], toM[m][w],
             w \in pledged[m])'
    <3>1. Cell(mphase[m], asg[m][w], task[m][w], end[m][w], toW[m][w], toM[m][w],
               w \in pledged[m])
      BY <2>2 DEF Cells
    <3>2. QED
      BY <2>3, <2>5, <2>7, <3>1 DEF Cell
  <2>9. QED
    BY <2>2, <2>3, <2>6, <2>8, OneCell
<1>3. CASE WCrash(w)
  BY <1>3, ExitCells DEF WCrash
<1>4. QED
  BY <1>1, <1>2, <1>3

LEMMA NextCells == TypeOK /\ Cells /\ Queued /\ [Next]_vars => Cells'
<1> SUFFICES ASSUME TypeOK, Cells, Queued, [Next]_vars PROVE Cells'
  OBVIOUS
<1>1. CASE UNCHANGED vars
  <2>1. UNCHANGED <<mphase, asg, task, end, toW, toM, pledged>>
    BY <1>1 DEF vars, master, worker, conns
  <2>2. QED
    BY <2>1 DEF Cells
<1>2. ASSUME NEW m \in Masters, NEW w \in Workers, WAnswer(m, w) \/ MFind(m, w)
      PROVE  Cells'
  <2>1. UNCHANGED <<mphase, asg, task, end, toW, toM, pledged>>
    BY <1>2 DEF WAnswer, MFind, master, worker, conns
  <2>2. QED
    BY <2>1 DEF Cells
<1>3. QED
  BY <1>1, <1>2, TaskCells, MasterCells, ConnCells, WorkerCells DEF Next

-----------------------------------------------------------------------------
(* The connections of a worker, and where its layers come from. *)

\* Most steps touch nothing of a worker but messages.
LEMMA SameSessions ==
  ASSUME Sessions, Origin,
         UNCHANGED <<asg, proc, backlog, end, blocks, by, pledged>>
  PROVE  Sessions' /\ Origin'
  BY DEF Sessions, OneSession, Ends, Queued, Origin

LEMMA TaskSessions ==
  ASSUME TypeOK, Cells, Sessions, Origin, NEW m \in Masters, NEW w \in Workers,
         MTask(m, w)
  PROVE  Sessions' /\ Origin'
<1>1. CASE MConnect(m, w)
  <2>1. /\ proc[w] # "down" /\ task[m][w] = "connect"
        /\ end' = [end EXCEPT ![m][w] = "queued"]
        /\ backlog' = [backlog EXCEPT ![w] = Append(backlog[w], m)]
        /\ UNCHANGED <<asg, proc, blocks, by, pledged>>
    BY <1>1 DEF MConnect, worker
  <2>2. end[m][w] = "none"
    BY <2>1 DEF Cells, Cell
  <2>3. /\ end'[m][w] = "queued"
        /\ \A n \in Masters, v \in Workers : n # m \/ v # w => end'[n][v] = end[n][v]
    BY <2>1, Types
  <2>4. OneSession'
    BY <2>1, <2>3 DEF Sessions, OneSession, Open
  <2>5. Ends'
    <3> SUFFICES ASSUME NEW v \in Workers, NEW n \in Masters
                 PROVE  /\ proc'[v] = "down" => end'[n][v] = "none" /\ backlog'[v] = <<>>
                        /\ proc'[v] = "setup" => end'[n][v] # "infer"
                        /\ proc'[v] = "load" => end'[n][v] \in {"none", "queued"}
                        /\ proc'[v] = "serve" => end'[n][v] # "data"
      BY DEF Ends
    <3>1. v # w => backlog'[v] = backlog[v]
      BY <2>1, Types
    <3>2. QED
      BY <2>1, <2>3, <3>1 DEF Sessions, Ends
  <2>6. Queued'
    <3> SUFFICES ASSUME NEW v \in Workers,
                        NEW i \in 1 .. Len(backlog'[v]), NEW k \in 1 .. Len(backlog'[v])
                 PROVE  /\ end'[backlog'[v][i]][v] = "queued"
                        /\ backlog'[v][i] = backlog'[v][k] => i = k
      BY DEF Queued
    <3>1. CASE v # w
      <4>1. backlog'[v] = backlog[v] /\ backlog[v] \in Seq(Masters)
        BY <2>1, <3>1, Types
      <4>2. backlog[v][i] \in Masters
        BY <4>1
      <4>3. QED
        BY <2>3, <3>1, <4>1, <4>2 DEF Sessions, Queued
    <3>2. CASE v = w
      <4>1. backlog'[w] = Append(backlog[w], m) /\ backlog[w] \in Seq(Masters)
        BY <2>1, Types
      <4>2. /\ Len(backlog'[w]) = Len(backlog[w]) + 1
            /\ \A l \in 1 .. Len(backlog[w]) :
                 backlog'[w][l] = backlog[w][l] /\ backlog[w][l] \in Masters
            /\ backlog'[w][Len(backlog[w]) + 1] = m
            /\ Len(backlog[w]) \in Nat
        BY <4>1
      <4>3. \A l \in 1 .. Len(backlog[w]) :
              end[backlog[w][l]][w] = "queued" /\ backlog[w][l] # m
        BY <2>2 DEF Sessions, Queued
      <4>4. /\ i \in 1 .. Len(backlog[w]) \/ i = Len(backlog[w]) + 1
            /\ k \in 1 .. Len(backlog[w]) \/ k = Len(backlog[w]) + 1
        BY <3>2, <4>2
      <4>5. end'[backlog'[w][i]][w] = "queued"
        BY <2>3, <4>2, <4>3, <4>4
      <4>6. backlog'[w][i] = backlog'[w][k] => i = k
        <5>1. CASE i \in 1 .. Len(backlog[w]) /\ k \in 1 .. Len(backlog[w])
          BY <4>2, <5>1 DEF Sessions, Queued
        <5>2. CASE ~ (i \in 1 .. Len(backlog[w]) /\ k \in 1 .. Len(backlog[w]))
          BY <4>2, <4>3, <4>4, <5>2
        <5>3. QED
          BY <5>1, <5>2
      <4>7. QED
        BY <3>2, <4>5, <4>6
    <3>3. QED
      BY <3>1, <3>2
  <2>7. Origin'
    BY <2>1 DEF Origin
  <2>8. QED
    BY <2>4, <2>5, <2>6, <2>7 DEF Sessions
<1>2. CASE ~ MConnect(m, w)
  <2>1. UNCHANGED <<asg, proc, backlog, end, blocks, by, pledged>>
    BY <1>2 DEF MTask, MRefused, MAuth, MAckNeeds, MAckCached, MPush, MReady, MInfo,
                MTaskErr, MReads, worker, conns
  <2>2. QED
    BY <2>1, SameSessions
<1>3. QED
  BY <1>1, <1>2

LEMMA MasterSessions ==
  ASSUME TypeOK, Cells, Sessions, Origin, NEW m \in Masters,
         MQuery(m) \/ MStep(m) \/ MCrash(m)
  PROVE  Sessions' /\ Origin'
<1>1. ASSUME NEW a, MAssign(m, a) PROVE Sessions' /\ Origin'
  <2>1. /\ mphase[m] = "find" /\ asg' = [asg EXCEPT ![m] = a]
        /\ UNCHANGED <<proc, backlog, end, blocks, by, pledged>>
    BY <1>1 DEF MAssign, worker, conns
  <2>2. Sessions'
    BY <2>1 DEF Sessions, OneSession, Ends, Queued
  <2>3. \A w \in Workers : w \notin pledged[m]
    BY <2>1 DEF Cells, Cell
  <2>4. \A w \in Workers : by[w] # {m}
    BY <2>3 DEF Origin
  <2>5. \A n \in Masters : n # m => asg'[n] = asg[n]
    BY <2>1, Types
  <2>6. Origin'
    BY <2>1, <2>4, <2>5 DEF Origin
  <2>7. QED
    BY <2>2, <2>6
<1>2. CASE MQuery(m) \/ MTopology(m) \/ MAbort(m) \/ MServe(m) \/ MCrash(m)
  <2>1. UNCHANGED <<asg, proc, backlog, end, blocks, by, pledged>>
    BY <1>2 DEF MQuery, MTopology, MAbort, MServe, MCrash, worker, conns
  <2>2. QED
    BY <2>1, SameSessions
<1>3. QED
  BY <1>1, <1>2 DEF MStep

\* What holds of the workers but w.
Elsewhere(w) ==
  \A v \in Workers, n \in Masters : v # w =>
    /\ proc[v] = "down" => end[n][v] = "none" /\ backlog[v] = <<>>
    /\ proc[v] = "setup" => end[n][v] # "infer"
    /\ proc[v] = "load" => end[n][v] \in {"none", "queued"}
    /\ proc[v] = "serve" => end[n][v] # "data"
    /\ proc[v] = "setup" =>
         \A k \in Masters : end[n][v] \in Open /\ end[k][v] \in Open => n = k

\* The end of one connection of a worker changes from an open state.
LEMMA EndChanges ==
  ASSUME TypeOK, Sessions, NEW m \in Masters, NEW w \in Workers, NEW e,
         end[m][w] \in Open, end' = [end EXCEPT ![m][w] = e], e # "queued",
         UNCHANGED backlog,
         \A v \in Workers : v # w => proc'[v] = proc[v]
  PROVE  /\ end'[m][w] = e
         /\ \A n \in Masters, v \in Workers : n # m \/ v # w => end'[n][v] = end[n][v]
         /\ Queued'
         /\ Elsewhere(w)'
<1>1. /\ end'[m][w] = e
      /\ \A n \in Masters, v \in Workers : n # m \/ v # w => end'[n][v] = end[n][v]
  BY Types
<1>2. Queued'
  <2> SUFFICES ASSUME NEW v \in Workers,
                      NEW i \in 1 .. Len(backlog[v]), NEW k \in 1 .. Len(backlog[v])
               PROVE  /\ end'[backlog[v][i]][v] = "queued"
                      /\ backlog[v][i] = backlog[v][k] => i = k
    BY DEF Queued
  <2>1. backlog[v] \in Seq(Masters)
    BY Types
  <2>2. backlog[v][i] \in Masters
    BY <2>1
  <2>3. end[backlog[v][i]][v] = "queued" /\ (backlog[v][i] = backlog[v][k] => i = k)
    BY DEF Sessions, Queued
  <2>4. QED
    BY <1>1, <2>2, <2>3 DEF Open
<1>3. QED
  BY <1>1, <1>2 DEF Sessions, Ends, OneSession, Elsewhere

\* The process of a worker ends.
LEMMA ExitSessions ==
  ASSUME TypeOK, Sessions, Origin, NEW w \in Workers, Exit(w)
  PROVE  Sessions' /\ Origin'
<1>1. /\ \A n \in Masters, v \in Workers :
           end'[n][v] = IF v = w THEN "none" ELSE end[n][v]
      /\ \A v \in Workers : backlog'[v] = IF v = w THEN <<>> ELSE backlog[v]
      /\ \A v \in Workers : proc'[v] = IF v = w THEN "down" ELSE proc[v]
      /\ \A v \in Workers : v # w => by'[v] = by[v] /\ blocks'[v] = blocks[v]
      /\ by'[w] = {} /\ UNCHANGED <<asg, pledged>>
  BY Types DEF Exit, master
<1>2. OneSession'
  BY <1>1 DEF Sessions, OneSession, Open
<1>3. Ends'
  BY <1>1 DEF Sessions, Ends
<1>4. Queued'
  <2> SUFFICES ASSUME NEW v \in Workers,
                      NEW i \in 1 .. Len(backlog'[v]), NEW k \in 1 .. Len(backlog'[v])
               PROVE  /\ end'[backlog'[v][i]][v] = "queued"
                      /\ backlog'[v][i] = backlog'[v][k] => i = k
    BY DEF Queued
  <2>1. v # w
    BY <1>1
  <2>2. backlog'[v] = backlog[v] /\ backlog[v] \in Seq(Masters)
    BY <1>1, <2>1, Types
  <2>3. backlog[v][i] \in Masters
    BY <2>2
  <2>4. QED
    BY <1>1, <2>1, <2>2, <2>3 DEF Sessions, Queued
<1>5. Origin'
  <2>1. \A v \in Workers : proc'[v] \in {"load", "serve"} => by'[v] # {}
    BY <1>1 DEF Origin
  <2>2. \A v \in Workers, n \in Masters : by'[v] = {n} =>
          blocks'[v] = asg'[n][v] /\ v \in pledged'[n]
    BY <1>1 DEF Origin
  <2>3. QED
    BY <2>1, <2>2 DEF Origin
<1>6. QED
  BY <1>2, <1>3, <1>4, <1>5 DEF Sessions

\* worker_setup is done with its only connection.
LEMMA SetUpSessions ==
  ASSUME TypeOK, Sessions, Origin, NEW m \in Masters, NEW w \in Workers,
         proc[w] = "setup", end[m][w] \in Open, SetUp(m, w),
         end' = [end EXCEPT ![m][w] = "none"], UNCHANGED <<asg, backlog>>
  PROVE  Sessions' /\ Origin'
<1>1. /\ proc'[w] = "load" /\ blocks'[w] = asg[m][w] /\ by'[w] = {m}
      /\ \A v \in Workers : v # w =>
           proc'[v] = proc[v] /\ blocks'[v] = blocks[v] /\ by'[v] = by[v]
      /\ w \in pledged'[m]
      /\ \A n \in Masters, v \in Workers : v \in pledged[n] => v \in pledged'[n]
  BY Types DEF SetUp
<1>2. /\ end'[m][w] = "none"
      /\ \A n \in Masters, v \in Workers : n # m \/ v # w => end'[n][v] = end[n][v]
      /\ Queued'
      /\ Elsewhere(w)'
  <2>1. UNCHANGED backlog /\ \A v \in Workers : v # w => proc'[v] = proc[v]
    BY <1>1
  <2>2. QED
    BY <2>1, EndChanges
<1>3. \A n \in Masters : end'[n][w] \in {"none", "queued"}
  <2> SUFFICES ASSUME NEW n \in Masters, n # m
               PROVE  end[n][w] \in {"none", "queued"}
    BY <1>2
  <2>1. end[n][w] \notin Open
    BY DEF Sessions, OneSession
  <2>2. QED
    BY <2>1, Types DEF EndStates
<1>4. OneSession' /\ Ends'
  BY <1>1, <1>2, <1>3 DEF OneSession, Ends, Elsewhere, Open
<1>5. Origin'
  <2>1. \A v \in Workers : proc'[v] \in {"load", "serve"} => by'[v] # {}
    BY <1>1 DEF Origin
  <2>2. ASSUME NEW v \in Workers, NEW n \in Masters, by'[v] = {n}
        PROVE  blocks'[v] = asg'[n][v] /\ v \in pledged'[n]
    <3>1. CASE v = w
      <4>1. n = m
        BY <1>1, <2>2, <3>1
      <4>2. QED
        BY <1>1, <3>1, <4>1
    <3>2. CASE v # w
      BY <1>1, <2>2, <3>2 DEF Origin
    <3>3. QED
      BY <3>1, <3>2
  <2>3. QED
    BY <2>1, <2>2 DEF Origin
<1>6. QED
  BY <1>2, <1>4, <1>5 DEF Sessions

\* An open connection changes its state or ends, and nothing else of a worker
\* but that it declares itself ready.
LEMMA TurnSessions ==
  ASSUME TypeOK, Sessions, Origin, NEW m \in Masters, NEW w \in Workers, NEW e,
         end[m][w] \in Open, end' = [end EXCEPT ![m][w] = e],
         \/ proc[w] = "setup" /\ e = "data"
         \/ proc[w] = "serve" /\ e \in {"none", "infer"},
         UNCHANGED <<asg, backlog, proc, blocks, by>>,
         \A n \in Masters, v \in Workers : v \in pledged[n] => v \in pledged'[n]
  PROVE  Sessions' /\ Origin'
<1>1. /\ end'[m][w] = e
      /\ \A n \in Masters, v \in Workers : n # m \/ v # w => end'[n][v] = end[n][v]
      /\ Queued'
      /\ Elsewhere(w)'
  <2>1. e # "queued" /\ UNCHANGED backlog /\ \A v \in Workers : v # w => proc'[v] = proc[v]
    OBVIOUS
  <2>2. QED
    BY <2>1, EndChanges
<1>2. OneSession'
  <2> SUFFICES ASSUME proc[w] = "setup", NEW n \in Masters, NEW k \in Masters,
                      end'[n][w] \in Open, end'[k][w] \in Open
               PROVE  n = k
    BY <1>1 DEF OneSession, Elsewhere
  <2>1. end[n][w] \in Open /\ end[k][w] \in Open
    BY <1>1
  <2>2. QED
    BY <2>1 DEF Sessions, OneSession
<1>3. Ends'
  <2> SUFFICES ASSUME NEW n \in Masters
               PROVE  /\ proc[w] = "setup" => end'[n][w] # "infer"
                      /\ proc[w] = "serve" => end'[n][w] # "data"
    <3>1. proc[w] \in {"setup", "serve"}
      OBVIOUS
    <3>2. QED
      BY <1>1, <3>1 DEF Ends, Elsewhere
  <2>1. QED
    BY <1>1 DEF Sessions, Ends
<1>4. Origin'
  BY DEF Origin
<1>5. QED
  BY <1>1, <1>2, <1>3, <1>4 DEF Sessions

LEMMA ConnSessions ==
  ASSUME TypeOK, Sessions, Origin, NEW m \in Masters, NEW w \in Workers,
         WConn(m, w)
  PROVE  Sessions' /\ Origin'
<1>1. CASE WAssignNeeds(m, w)
  <2>1. /\ end[m][w] = "proof" /\ end' = [end EXCEPT ![m][w] = "data"]
        /\ proc[w] = "setup"
        /\ UNCHANGED <<asg, backlog, proc, blocks, by, pledged>>
    BY <1>1 DEF WAssignNeeds, WReads, master, worker
  <2>2. /\ end[m][w] \in Open
        /\ \A n \in Masters, v \in Workers : v \in pledged[n] => v \in pledged'[n]
    BY <2>1 DEF Open
  <2>3. QED
    BY <2>1, <2>2, TurnSessions
<1>2. CASE WAssignCached(m, w)
  <2>1. /\ end[m][w] = "proof" /\ end' = [end EXCEPT ![m][w] = "none"]
        /\ proc[w] = "setup" /\ SetUp(m, w) /\ UNCHANGED <<asg, backlog>>
    BY <1>2 DEF WAssignCached, WReads, master
  <2>2. QED
    BY <2>1, SetUpSessions DEF Open
<1>3. CASE WData(m, w)
  <2>1. /\ end[m][w] = "data" /\ end' = [end EXCEPT ![m][w] = "none"]
        /\ SetUp(m, w) /\ UNCHANGED <<asg, backlog>>
    BY <1>3 DEF WData, WReads, master
  <2>2. proc[w] = "setup"
    BY <2>1, Types DEF Sessions, Ends
  <2>3. QED
    BY <2>1, <2>2, SetUpSessions DEF Open
<1>4. CASE WReassign(m, w)
  <2>1. /\ end[m][w] = "proof" /\ end' = [end EXCEPT ![m][w] = "none"]
        /\ proc[w] = "serve" /\ UNCHANGED <<asg, backlog, proc, blocks, by>>
        /\ pledged' = [pledged EXCEPT ![m] = @ \cup {w}]
    BY <1>4 DEF WReassign, WReads, master
  <2>2. \A n \in Masters, v \in Workers : v \in pledged[n] => v \in pledged'[n]
    BY <2>1, Types
  <2>3. end[m][w] \in Open
    BY <2>1 DEF Open
  <2>4. QED
    BY <2>1, <2>2, <2>3, TurnSessions
<1>5. CASE WHello(m, w)
  <2>1. /\ end[m][w] = "proof" /\ end' = [end EXCEPT ![m][w] = "infer"]
        /\ proc[w] = "serve"
        /\ UNCHANGED <<asg, backlog, proc, blocks, by, pledged>>
    BY <1>5 DEF WHello, WReads, master, worker
  <2>2. QED
    BY <2>1, TurnSessions DEF Open
<1>6. CASE WSetupErr(m, w)
  BY <1>6, ExitSessions DEF WSetupErr
<1>7. CASE WHandlerEnds(m, w)
  <2>1. /\ end[m][w] \in Open /\ end' = [end EXCEPT ![m][w] = "none"]
        /\ proc[w] = "serve"
        /\ UNCHANGED <<asg, backlog, proc, blocks, by, pledged>>
    BY <1>7 DEF WHandlerEnds, master, worker
  <2>2. QED
    BY <2>1, TurnSessions
<1>8. QED
  BY <1>1, <1>2, <1>3, <1>4, <1>5, <1>6, <1>7 DEF WConn

LEMMA WorkerSessions ==
  ASSUME TypeOK, Cells, Sessions, Origin, NEW w \in Workers,
         WSilent(w) \/ WStart(w) \/ WAccept(w) \/ WLoad(w) \/ WCrash(w)
  PROVE  Sessions' /\ Origin'
<1>1. CASE WSilent(w)
  <2>1. UNCHANGED <<asg, proc, backlog, end, blocks, by, pledged>>
    BY <1>1 DEF WSilent, master, conns
  <2>2. QED
    BY <2>1, SameSessions
<1>2. CASE WStart(w)
  <2>1. /\ proc[w] = "down" /\ proc'[w] = "setup"
        /\ \A v \in Workers : v # w => proc'[v] = proc[v]
        /\ UNCHANGED <<asg, backlog, end, blocks, by, pledged>>
    BY <1>2, Types DEF WStart, master, conns
  <2>2. \A n \in Masters : end[n][w] = "none"
    BY <2>1 DEF Sessions, Ends
  <2>3. OneSession' /\ Ends' /\ Queued'
    BY <2>1, <2>2 DEF Sessions, OneSession, Ends, Queued, Open
  <2>4. Origin'
    BY <2>1 DEF Origin
  <2>5. QED
    BY <2>3, <2>4 DEF Sessions
<1>3. CASE WAccept(w)
  <2>1. backlog[w] \in Seq(Masters) /\ backlog[w] # <<>>
    BY <1>3, Types DEF WAccept
  <2> PICK m \in Masters : m = Head(backlog[w])
    BY <2>1, Reading
  <2>2. /\ end' = [end EXCEPT ![m][w] = "proof"]
        /\ backlog' = [backlog EXCEPT ![w] = Tail(@)]
        /\ \/ proc[w] = "serve"
           \/ proc[w] = "setup" /\ \A n \in Masters : end[n][w] \notin Open
        /\ UNCHANGED <<asg, proc, blocks, by, pledged>>
    BY <1>3 DEF WAccept, master, worker
  <2>3. /\ end'[m][w] = "proof"
        /\ \A n \in Masters, v \in Workers : n # m \/ v # w => end'[n][v] = end[n][v]
        /\ backlog'[w] = Tail(backlog[w])
        /\ \A v \in Workers : v # w => backlog'[v] = backlog[v]
    BY <2>2, Types
  <2>4. OneSession'
    BY <2>2, <2>3 DEF Sessions, OneSession
  <2>5. Ends'
    <3> SUFFICES ASSUME NEW v \in Workers, NEW n \in Masters
                 PROVE  /\ proc[v] = "down" => end'[n][v] = "none" /\ backlog'[v] = <<>>
                        /\ proc[v] = "setup" => end'[n][v] # "infer"
                        /\ proc[v] = "load" => end'[n][v] \in {"none", "queued"}
                        /\ proc[v] = "serve" => end'[n][v] # "data"
      BY <2>2 DEF Ends
    <3>1. CASE v = w
      BY <2>2, <2>3, <3>1 DEF Sessions, Ends
    <3>2. CASE v # w
      BY <2>3, <3>2 DEF Sessions, Ends
    <3>3. QED
      BY <3>1, <3>2
  <2>6. Queued'
    <3> SUFFICES ASSUME NEW v \in Workers,
                        NEW i \in 1 .. Len(backlog'[v]), NEW k \in 1 .. Len(backlog'[v])
                 PROVE  /\ end'[backlog'[v][i]][v] = "queued"
                        /\ backlog'[v][i] = backlog'[v][k] => i = k
      BY DEF Queued
    <3>1. CASE v # w
      <4>1. backlog'[v] = backlog[v] /\ backlog[v] \in Seq(Masters)
        BY <2>3, <3>1, Types
      <4>2. backlog[v][i] \in Masters
        BY <4>1
      <4>3. QED
        BY <2>3, <3>1, <4>1, <4>2 DEF Sessions, Queued
    <3>2. CASE v = w
      <4>1. /\ Len(backlog[w]) \in Nat /\ 1 \in 1 .. Len(backlog[w])
            /\ Len(backlog'[w]) = Len(backlog[w]) - 1
            /\ \A l \in 1 .. Len(backlog'[w]) : /\ l + 1 \in 1 .. Len(backlog[w])
                                                /\ backlog'[w][l] = backlog[w][l + 1]
                                                /\ backlog[w][l + 1] \in Masters
            /\ m = backlog[w][1]
        BY <2>1, <2>3
      <4>2. /\ i + 1 \in 1 .. Len(backlog[w]) /\ k + 1 \in 1 .. Len(backlog[w])
            /\ backlog'[w][i] = backlog[w][i + 1] /\ backlog'[w][k] = backlog[w][k + 1]
            /\ backlog[w][i + 1] \in Masters
        BY <3>2, <4>1
      <4>3. /\ end[backlog[w][i + 1]][w] = "queued"
            /\ backlog[w][i + 1] = backlog[w][k + 1] => i + 1 = k + 1
            /\ backlog[w][i + 1] = backlog[w][1] => i + 1 = 1
        BY <4>1, <4>2 DEF Sessions, Queued
      <4>4. backlog[w][i + 1] # m
        BY <3>2, <4>1, <4>3
      <4>5. end'[backlog[w][i + 1]][w] = "queued"
        BY <2>3, <4>2, <4>3, <4>4
      <4>6. i \in Nat /\ k \in Nat
        BY <3>2, <4>1
      <4>7. backlog'[w][i] = backlog'[w][k] => i = k
        BY <4>2, <4>3, <4>6
      <4>8. QED
        BY <3>2, <4>2, <4>5, <4>7
    <3>3. QED
      BY <3>1, <3>2
  <2>7. Origin'
    BY <2>2 DEF Origin
  <2>8. QED
    BY <2>4, <2>5, <2>6, <2>7 DEF Sessions
<1>4. CASE WLoad(w)
  <2>1. /\ proc[w] = "load" /\ proc'[w] = "serve"
        /\ \A v \in Workers : v # w => proc'[v] = proc[v]
        /\ UNCHANGED <<asg, backlog, end, blocks, by, pledged>>
    BY <1>4, Types DEF WLoad, master, conns
  <2>2. OneSession' /\ Ends' /\ Queued'
    BY <2>1 DEF Sessions, OneSession, Ends, Queued
  <2>3. Origin'
    BY <2>1 DEF Origin
  <2>4. QED
    BY <2>2, <2>3 DEF Sessions
<1>5. CASE WCrash(w)
  BY <1>5, ExitSessions DEF WCrash
<1>6. QED
  BY <1>1, <1>2, <1>3, <1>4, <1>5

LEMMA NextSessions ==
  TypeOK /\ Cells /\ Sessions /\ Origin /\ [Next]_vars => Sessions' /\ Origin'
<1> SUFFICES ASSUME TypeOK, Cells, Sessions, Origin, [Next]_vars
             PROVE  Sessions' /\ Origin'
  OBVIOUS
<1>1. CASE UNCHANGED vars
  <2>1. UNCHANGED <<asg, proc, backlog, end, blocks, by, pledged>>
    BY <1>1 DEF vars, master, worker, conns
  <2>2. QED
    BY <2>1, SameSessions
<1>2. ASSUME NEW m \in Masters, NEW w \in Workers, WAnswer(m, w) \/ MFind(m, w)
      PROVE  Sessions' /\ Origin'
  <2>1. UNCHANGED <<asg, proc, backlog, end, blocks, by, pledged>>
    BY <1>2 DEF WAnswer, MFind, master, worker, conns
  <2>2. QED
    BY <2>1, SameSessions
<1>3. QED
  BY <1>1, <1>2, TaskSessions, MasterSessions, ConnSessions, WorkerSessions DEF Next

LEMMA InitInv == Init => Cells /\ Sessions /\ Origin
<1> SUFFICES ASSUME Init PROVE Cells /\ Sessions /\ Origin
  OBVIOUS
<1>1. Cells
  BY DEF Init, Cells, Cell
<1>2. Sessions
  BY DEF Init, Sessions, OneSession, Ends, Queued, Open
<1>3. Origin
  BY DEF Init, Origin
<1>4. QED
  BY <1>1, <1>2, <1>3

LEMMA Inductive == Spec => []IInv
<1>1. Init => IInv
  BY InitType, InitInv DEF IInv
<1>2. IInv /\ [Next]_vars => IInv'
  BY NextType, NextCells, NextSessions DEF IInv, Sessions
<1>3. QED
  BY <1>1, <1>2, PTL DEF Spec

-----------------------------------------------------------------------------
(* What the runs check. *)

\* The types, and that worker_setup talks to one connection only, whatever
\* connects to it, retries or dies.
THEOREM SetupSafe == Spec => []SetupInv
<1>1. IInv => SetupInv
  BY DEF IInv, SetupInv, Sessions
<1>2. QED
  BY <1>1, Inductive, PTL

\* A serving master's worker holds the layers it is sent, unless another
\* master had it set up.
THEOREM RoutedSafe == Spec => []Routed
<1>1. IInv => Routed
  <2> SUFFICES ASSUME IInv, NEW m \in Masters, NEW w \in Workers,
                      end[m][w] = "infer", by[w] \in {{}, {m}}
               PROVE  asg[m][w] \subseteq blocks[w]
    BY DEF Routed
  <2>1. proc[w] = "serve"
    BY Types DEF IInv, Sessions, Ends
  <2>2. by[w] = {m}
    BY <2>1 DEF IInv, Origin
  <2>3. QED
    BY <2>2 DEF IInv, Origin
<1>2. QED
  BY <1>1, Inductive, PTL

-----------------------------------------------------------------------------
(* The protocol implements Formation. *)

\* What Formation sees of a master in phase ph.
Outcome(ph) == CASE ph \in {"off", "find", "setup"} -> "open"
                 [] ph \in {"link", "serve"} -> "formed"
                 [] OTHER -> "aborted"

Joined  == [m \in Masters |-> Members(m)]
Reached == [m \in Masters |-> Outcome(mphase[m])]

LEMMA Views ==
  /\ Cluster!Init <=> /\ Joined = [m \in Masters |-> {}]
                      /\ pledged = [m \in Masters |-> {}]
                      /\ Reached = [m \in Masters |-> "open"]
  /\ UNCHANGED <<Joined, pledged, Reached>> => UNCHANGED Cluster!vars
<1>1. Cluster!Init <=> /\ Joined = [m \in Masters |-> {}]
                       /\ pledged = [m \in Masters |-> {}]
                       /\ Reached = [m \in Masters |-> "open"]
  BY DEF Cluster!Init, Joined, Reached, Outcome
<1>2. UNCHANGED <<Joined, pledged, Reached>> => UNCHANGED Cluster!vars
  BY DEF Cluster!vars, Joined, Reached, Outcome
<1>3. QED
  BY <1>1, <1>2

LEMMA Outcomes ==
  /\ Outcome("off") = "open" /\ Outcome("find") = "open" /\ Outcome("setup") = "open"
  /\ Outcome("link") = "formed" /\ Outcome("serve") = "formed"
  /\ Outcome("dead") = "aborted"
  BY DEF Outcome

\* The assignment is an invitation, or the end of it when nobody was found.
LEMMA AssignForms ==
  ASSUME IInv, NEW m \in Masters, NEW a \in Assignments(m), MAssign(m, a)
  PROVE  Cluster!Next
<1>1. PICK b : a = [w \in Workers |-> IF w \in found[m] THEN b[w] ELSE {}]
  BY DEF Assignments
<1>2. /\ mphase[m] = "find" /\ asg' = [asg EXCEPT ![m] = a]
      /\ mphase' = [mphase EXCEPT ![m] = IF found[m] = {} THEN "serve" ELSE "setup"]
      /\ UNCHANGED pledged
  BY DEF MAssign, worker
<1>3. Members(m) = {} /\ pledged[m] = {}
  <2>1. \A w \in Workers : asg[m][w] = {} /\ w \notin pledged[m]
    BY <1>2 DEF IInv, Cells, Cell
  <2>2. pledged[m] \in SUBSET Workers
    BY Types DEF IInv
  <2>3. QED
    BY <2>1, <2>2 DEF Members
<1>4. PICK ws \in SUBSET Workers : ws = {w \in Workers : a[w] # {}}
  OBVIOUS
<1>5. Joined' = [Joined EXCEPT ![m] = ws]
  <2>1. Members(m)' = ws
    BY <1>2, <1>4, Types DEF IInv, Members
  <2>2. \A n \in Masters : n # m => Members(n)' = Members(n)
    BY <1>2, Types DEF IInv, Members
  <2>3. QED
    BY <2>1, <2>2 DEF Joined
<1>6. Outcome(mphase[m]) = "open"
  BY <1>2, Outcomes
<1>7. CASE found[m] = {}
  <2>1. ws = {}
    BY <1>1, <1>4, <1>7
  <2>2. Joined' = Joined
    BY <1>3, <1>5, <2>1 DEF Joined
  <2>3. Reached' = [Reached EXCEPT ![m] = "formed"]
    <3>1. mphase' = [mphase EXCEPT ![m] = "serve"]
      BY <1>2, <1>7
    <3>2. QED
      BY <3>1, Outcomes, Types DEF IInv, Reached
  <2>4. Cluster!Form(m)
    BY <1>2, <1>3, <1>6, <2>2, <2>3 DEF Cluster!Form, Joined, Reached, Outcome
  <2>5. QED
    BY <2>4 DEF Cluster!Next
<1>8. CASE found[m] # {}
  <2>1. Reached' = Reached
    <3>1. mphase' = [mphase EXCEPT ![m] = "setup"]
      BY <1>2, <1>8
    <3>2. QED
      BY <1>2, <3>1, Outcomes, Types DEF IInv, Reached
  <2>2. Cluster!Invite(m, ws)
    BY <1>2, <1>3, <1>5, <1>6, <2>1 DEF Cluster!Invite, Joined, Reached, Outcome
  <2>3. QED
    BY <2>2 DEF Cluster!Next
<1>9. QED
  BY <1>7, <1>8

\* Master m goes on to phase ph.
LEMMA PhaseMaps ==
  ASSUME IInv, NEW m \in Masters, NEW ph, mphase' = [mphase EXCEPT ![m] = ph],
         UNCHANGED <<asg, pledged>>
  PROVE  /\ Joined' = Joined
         /\ Reached' = [Reached EXCEPT ![m] = Outcome(ph)]
<1>1. Joined' = Joined
  BY DEF Joined, Members
<1>2. Reached' = [Reached EXCEPT ![m] = Outcome(ph)]
  <2>1. \A n \in Masters : Outcome(mphase[n])' = IF n = m THEN Outcome(ph)
                                                 ELSE Outcome(mphase[n])
    BY Types DEF IInv, Outcome
  <2>2. QED
    BY <2>1 DEF Reached
<1>3. QED
  BY <1>1, <1>2

LEMMA MasterForms ==
  ASSUME IInv, NEW m \in Masters, MQuery(m) \/ MStep(m) \/ MCrash(m)
  PROVE  Cluster!Next \/ UNCHANGED Cluster!vars
<1>1. CASE MQuery(m)
  <2>1. /\ mphase[m] = "off" /\ mphase' = [mphase EXCEPT ![m] = "find"]
        /\ UNCHANGED <<asg, pledged>>
    BY <1>1 DEF MQuery, worker
  <2>2. Joined' = Joined /\ Reached' = [Reached EXCEPT ![m] = Outcome("find")]
    BY <2>1, PhaseMaps
  <2>3. Reached' = Reached
    BY <2>1, <2>2, Outcomes DEF Reached
  <2>4. QED
    BY <2>1, <2>2, <2>3, Views
<1>2. CASE MServe(m)
  <2>1. /\ mphase[m] = "link" /\ mphase' = [mphase EXCEPT ![m] = "serve"]
        /\ UNCHANGED <<asg, pledged>>
    BY <1>2 DEF MServe, worker
  <2>2. Joined' = Joined /\ Reached' = [Reached EXCEPT ![m] = Outcome("serve")]
    BY <2>1, PhaseMaps
  <2>3. Reached' = Reached
    BY <2>1, <2>2, Outcomes DEF Reached
  <2>4. QED
    BY <2>1, <2>2, <2>3, Views
<1>3. CASE MAbort(m) \/ MCrash(m)
  <2>1. /\ mphase[m] # "dead" /\ mphase' = [mphase EXCEPT ![m] = "dead"]
        /\ UNCHANGED <<asg, pledged>>
    BY <1>3 DEF MAbort, MCrash, Alive, worker
  <2>2. Joined' = Joined /\ Reached' = [Reached EXCEPT ![m] = "aborted"]
    <3>1. Reached' = [Reached EXCEPT ![m] = Outcome("dead")] /\ Joined' = Joined
      BY <2>1, PhaseMaps
    <3>2. QED
      BY <3>1, Outcomes
  <2>3. Reached[m] # "aborted"
    <3>1. mphase[m] \in {"off", "find", "setup", "link", "serve"}
      BY <2>1, Types DEF IInv
    <3>2. QED
      BY <3>1, Outcomes DEF Reached
  <2>4. Cluster!Abort(m)
    BY <2>1, <2>2, <2>3 DEF Cluster!Abort, Joined, Reached, Outcome
  <2>5. QED
    BY <2>4 DEF Cluster!Next
<1>4. CASE MTopology(m)
  <2>1. /\ mphase[m] = "setup" /\ mphase' = [mphase EXCEPT ![m] = "link"]
        /\ AllReady(m) /\ UNCHANGED <<asg, pledged>>
    BY <1>4 DEF MTopology, worker
  <2>2. Joined' = Joined /\ Reached' = [Reached EXCEPT ![m] = "formed"]
    BY <2>1, PhaseMaps, Outcomes
  <2>3. pledged[m] = Members(m)
    <3>1. \A w \in Workers :
            /\ w \in pledged[m] => asg[m][w] # {}
            /\ task[m][w] = "done" => w \in pledged[m]
      BY DEF IInv, Cells, Cell
    <3>2. pledged[m] \in SUBSET Workers
      BY Types DEF IInv
    <3>3. QED
      BY <2>1, <3>1, <3>2 DEF AllReady, Members
  <2>4. Reached[m] = "open" /\ pledged[m] = Joined[m]
    BY <2>1, <2>3, Outcomes DEF Reached, Joined
  <2>5. Cluster!Form(m)
    BY <2>1, <2>2, <2>4 DEF Cluster!Form, Joined, Reached, Outcome
  <2>6. QED
    BY <2>5 DEF Cluster!Next
<1>5. QED
  BY <1>1, <1>2, <1>3, <1>4, AssignForms DEF MStep

\* A worker declares itself ready, for the first time or again.
LEMMA PledgeForms ==
  ASSUME IInv, NEW m \in Masters, NEW w \in Workers,
         pledged' = [pledged EXCEPT ![m] = @ \cup {w}], UNCHANGED <<mphase, asg>>,
         mphase[m] \in {"setup", "dead"}, asg[m][w] # {}
  PROVE  Cluster!Next \/ UNCHANGED Cluster!vars
<1>1. Joined' = Joined /\ Reached' = Reached
  BY DEF Joined, Members, Reached
<1>2. CASE w \in pledged[m]
  <2>1. pledged' = pledged
    <3>1. pledged \in [Masters -> SUBSET Workers]
      BY Types DEF IInv
    <3>2. pledged[m] \cup {w} = pledged[m]
      BY <1>2
    <3>3. QED
      BY <3>1, <3>2
  <2>2. QED
    BY <1>1, <2>1, Views
<1>3. CASE w \notin pledged[m]
  <2>1. w \in Joined[m] /\ Reached[m] # "formed"
    BY Outcomes DEF Joined, Members, Reached
  <2>2. Cluster!Declare(m, w)
    BY <1>1, <1>3, <2>1 DEF Cluster!Declare, Joined, Reached, Outcome
  <2>3. QED
    BY <2>2 DEF Cluster!Next
<1>4. QED
  BY <1>2, <1>3

LEMMA ConnForms ==
  ASSUME IInv, NEW m \in Masters, NEW w \in Workers, WConn(m, w)
  PROVE  Cluster!Next \/ UNCHANGED Cluster!vars
<1>1. CASE WAssignNeeds(m, w) \/ WHello(m, w) \/ WSetupErr(m, w) \/ WHandlerEnds(m, w)
  <2>1. UNCHANGED <<mphase, asg, pledged>>
    BY <1>1 DEF WAssignNeeds, WHello, WSetupErr, WHandlerEnds, Exit, WReads,
                master, worker
  <2>2. Joined' = Joined /\ Reached' = Reached
    BY <2>1 DEF Joined, Members, Reached
  <2>3. QED
    BY <2>1, <2>2, Views
<1>2. CASE WAssignCached(m, w) \/ WReassign(m, w) \/ WData(m, w)
  <2>1. /\ pledged' = [pledged EXCEPT ![m] = @ \cup {w}]
        /\ UNCHANGED <<mphase, asg>> /\ toW[m][w] # <<>>
        /\ \/ end[m][w] = "proof" /\ Head(toW[m][w]) = "assign"
           \/ end[m][w] = "data" /\ Head(toW[m][w]) = "data"
    BY <1>2 DEF WAssignCached, WReassign, WData, WReads, SetUp, master
  <2>2. mphase[m] \in {"setup", "dead"} /\ asg[m][w] # {}
    BY <2>1, ReadAt DEF IInv
  <2>3. QED
    BY <2>1, <2>2, PledgeForms
<1>3. QED
  BY <1>1, <1>2 DEF WConn

\* Everything else is nothing to Formation.
LEMMA OtherForms ==
  ASSUME \/ UNCHANGED vars
         \/ \E w \in Workers : WSilent(w) \/ WStart(w) \/ WAccept(w) \/ WLoad(w)
                               \/ WCrash(w)
         \/ \E m \in Masters, w \in Workers :
              WAnswer(m, w) \/ MFind(m, w) \/ MTask(m, w)
  PROVE  UNCHANGED Cluster!vars
<1>1. UNCHANGED <<mphase, asg, pledged>>
  <2>1. CASE UNCHANGED vars
    BY <2>1 DEF vars, master, worker
  <2>2. ASSUME NEW w \in Workers,
               WSilent(w) \/ WStart(w) \/ WAccept(w) \/ WLoad(w) \/ WCrash(w)
        PROVE  UNCHANGED <<mphase, asg, pledged>>
    BY <2>2 DEF WSilent, WStart, WAccept, WLoad, WCrash, Exit, master, worker
  <2>3. ASSUME NEW m \in Masters, NEW w \in Workers, WAnswer(m, w) \/ MFind(m, w)
        PROVE  UNCHANGED <<mphase, asg, pledged>>
    BY <2>3 DEF WAnswer, MFind, master, worker
  <2>4. ASSUME NEW m \in Masters, NEW w \in Workers, MTask(m, w)
        PROVE  UNCHANGED <<mphase, asg, pledged>>
    BY <2>4 DEF MTask, MConnect, MRefused, MAuth, MAckNeeds, MAckCached, MPush,
                MReady, MInfo, MTaskErr, MReads, worker
  <2>5. QED
    BY <2>1, <2>2, <2>3, <2>4
<1>2. Joined' = Joined /\ Reached' = Reached
  BY <1>1 DEF Joined, Members, Reached
<1>3. QED
  BY <1>1, <1>2, Views

\* A master's cluster forms of all the workers it gave layers, each having
\* declared itself ready to it, or not at all.
THEOREM SetupForms == Spec => Formed
<1>1. Init => Cluster!Init
  <2> SUFFICES ASSUME Init PROVE Cluster!Init
    OBVIOUS
  <2>1. Joined = [m \in Masters |-> {}]
    BY DEF Init, Joined, Members
  <2>2. Reached = [m \in Masters |-> "open"]
    BY Outcomes DEF Init, Reached
  <2>3. QED
    BY <2>1, <2>2, Views DEF Init
<1>2. IInv /\ [Next]_vars => [Cluster!Next]_Cluster!vars
  <2> SUFFICES ASSUME IInv, [Next]_vars
               PROVE  Cluster!Next \/ UNCHANGED Cluster!vars
    BY Zenon
  <2> QED
    BY MasterForms, ConnForms, OtherForms DEF Next
<1>3. QED
  BY <1>1, <1>2, Inductive, PTL DEF Spec, Formed, Cluster!Spec

=============================================================================
