-------------------------- MODULE LayerAssignment --------------------------
(***************************************************************************)
(* DefaultStrategy::assign_layers (cake/sharding/default.rs): which layers *)
(* each worker is to serve, from the compute power of workers and master   *)
(* and from how many layers fit in their memory.  The layers nobody is     *)
(* given stay with the master.                                             *)
(*                                                                         *)
(* Compute power is a small integer; the quotients the code rounds in f64  *)
(* are exact here, and a tie may be rounded either way.  Memory is the     *)
(* number of layers it holds (max_layers_for_size); Unlimited stands for   *)
(* usize::MAX, which a worker without GPU information reports.             *)
(***************************************************************************)
EXTENDS Integers, Sequences, FiniteSets, Functions

CONSTANTS W,            \* number of workers
          Tflops,       \* compute powers of a worker
          Limits,       \* layers a worker can hold
          LayerCounts,  \* num_layers
          MasterTflops, \* compute powers of the master
          MasterLimits, \* layers the master can hold
          Unlimited     \* no limit known

ASSUME WAssumption            == W \in Nat
ASSUME TflopsAssumption       == Tflops \subseteq Nat /\ MasterTflops \subseteq Nat
ASSUME LayersAssumption       == LayerCounts \subseteq Nat
ASSUME LimitsAssumption       == Limits \subseteq Nat /\ MasterLimits \subseteq Nat
ASSUME UnlimitedAssumption    == /\ Unlimited \in Nat
                                 /\ \A n \in LayerCounts : n < Unlimited

Indices == 0 .. W - 1

VARIABLES
  \* the arguments
  tflops, limit, layers, masterTflops, masterLimit,
  \* the locals
  stage,   \* where the function is
  given,   \* the workers in assignments, in order
  share,   \* the layers assigned to each worker
  offset,  \* offset: the first layer not assigned
  left,    \* remaining_layers (worker_layers when nothing is known of compute)
  at,      \* position of the redistribution loop in assignments
  missing  \* extra_needed

args   == <<tflops, limit, layers, masterTflops, masterLimit>>
avars   == <<args, stage, given, share, offset, left, at, missing>>

MinOf(m, n) == IF m <= n THEN m ELSE n
MaxOf(m, n) == IF m >= n THEN m ELSE n

\* (a / b * n).round() as usize; NaN becomes 0.
Rounded(a, b, n) ==
  IF b = 0 THEN {0}
           ELSE {m \in 0 .. n : 2*a*n - b <= 2*b*m /\ 2*b*m <= 2*a*n + b}

\* workers_tflops, and remaining_tflops when S are the workers to come.
Power(S) ==
  LET sum[n \in 0 .. W] == IF n = 0 THEN 0
                           ELSE sum[n - 1] + (IF n - 1 \in S THEN tflops[n - 1] ELSE 0)
  IN  sum[W]

\* The workers to come.
Todo == Indices \ Range(given)

\* Mutant of Give: offset is not moved.
GiveStays(w, count) ==
  /\ share'  = [share EXCEPT ![w] = @ \cup offset .. offset + count - 1]
  /\ UNCHANGED offset

\* offset .. offset+count-1, the next layers nobody has, go to w.
Give(w, count) ==
  /\ share'  = [share EXCEPT ![w] = @ \cup offset .. offset + count - 1]
  /\ offset' = offset + count

-----------------------------------------------------------------------------
AssignInit ==
  /\ tflops \in [Indices -> Tflops]
  /\ limit \in [Indices -> Limits \cup {Unlimited}]
  /\ \A w \in Indices : tflops[w] = 0 => limit[w] = Unlimited
  /\ layers \in LayerCounts
  /\ masterTflops \in MasterTflops
  /\ masterLimit \in MasterLimits \cup {Unlimited}
  /\ stage = "start" /\ given = <<>> /\ share = [w \in Indices |-> {}]
  /\ offset = 0 /\ left = 0 /\ at = 1 /\ missing = 0

\* No worker or no layer: vec![].
Nothing ==
  /\ stage = "start" /\ (W = 0 \/ layers = 0)
  /\ stage' = "done"
  /\ UNCHANGED <<args, given, share, offset, left, at, missing>>

\* total_tflops is positive.
Measured == masterTflops > 0 \/ \E w \in Indices : tflops[w] > 0

\* No compute power known: half of the layers, in equal parts.
PlanHalf ==
  /\ stage = "start" /\ W # 0 /\ layers # 0
  /\ ~Measured
  /\ stage' = "half"
  /\ left' = layers \div 2
  /\ UNCHANGED <<args, given, share, offset, at, missing>>

\* Mutant of HalfStep: the last worker takes all of the half.
HalfStepWhole ==
  /\ stage = "half" /\ Len(given) < W
  /\ LET w == Len(given)
     IN  /\ Give(w, IF w = W - 1 THEN left ELSE left \div W)
         /\ given' = Append(given, w)
  /\ UNCHANGED <<args, stage, left, at, missing>>

\* One round of that loop; the last worker takes the remainder.
HalfStep ==
  /\ stage = "half" /\ Len(given) < W
  /\ LET w == Len(given)
     IN  /\ Give(w, IF w = W - 1 THEN left - offset ELSE left \div W)
         /\ given' = Append(given, w)
  /\ UNCHANGED <<args, stage, left, at, missing>>

HalfEnd ==
  /\ stage = "half" /\ Len(given) = W
  /\ stage' = "done"
  /\ UNCHANGED <<args, given, share, offset, left, at, missing>>

\* The workers' part of the layers, by compute power.
Plan ==
  /\ stage = "start" /\ W # 0 /\ layers # 0 /\ Measured
  /\ LET sum == Power(Indices)
     IN  left' \in Rounded(sum, sum + masterTflops, layers)
  /\ stage' = "assign"
  /\ UNCHANGED <<args, given, share, offset, at, missing>>

\* w comes first in what is left of the stable sort by compute power.
Strongest(w) == \A v \in Todo \ {w} :
                  tflops[v] < tflops[w] \/ (tflops[v] = tflops[w] /\ w < v)

\* Mutant of Wanted: a part of all layers, in proportion to what power remains.
WantedOfAll(w) ==
  IF Todo = {w}
    THEN {left}
    ELSE {MinOf(MaxOf(m, 1), left) :
            m \in Rounded(tflops[w], Power(Todo), offset + left)}

\* Its part of the layers that are left, at least one; the last takes them all.
Wanted(w) ==
  IF Todo = {w} THEN {left}
                ELSE {MinOf(MaxOf(m, 1), left) : m \in Rounded(tflops[w], Power(Todo), left)}

\* Mutant of Capped: the memory of the worker is not looked at.
Uncapped(w, want) == want

Capped(w, want) == MinOf(want, limit[w])

Assign ==
  /\ stage = "assign" /\ left > 0
  /\ \E w \in Todo :
       /\ Strongest(w)
       /\ \E want \in Wanted(w) :
            /\ Give(w, Capped(w, want))
            /\ left' = left - Capped(w, want)
       /\ given' = Append(given, w)
  /\ UNCHANGED <<args, stage, at, missing>>

\* Does the master keep more than it can hold?
AssignEnd ==
  /\ stage = "assign" /\ (left = 0 \/ Todo = {})
  /\ IF masterLimit < Unlimited /\ layers - offset > masterLimit
       THEN /\ stage' = "push"
            /\ missing' = layers - offset - masterLimit
       ELSE stage' = "done" /\ UNCHANGED missing
  /\ UNCHANGED <<args, given, share, offset, left, at>>

Spare(w) == LET n == Cardinality(share[w])
            IN  IF n <= limit[w] THEN limit[w] - n ELSE 0

\* Mutant of Push: a worker that is full ends the loop.
PushOnce ==
  /\ stage = "push" /\ missing > 0 /\ at <= Len(given)
  /\ LET take == MinOf(Spare(given[at]), missing)
     IN  /\ Give(given[at], take)
         /\ missing' = missing - take
         /\ at' = IF take = 0 THEN Len(given) + 1 ELSE at + 1
  /\ UNCHANGED <<args, stage, given, left>>

\* Redistribution: the next worker in assignments takes what fits.
Push ==
  /\ stage = "push" /\ missing > 0 /\ at <= Len(given)
  /\ LET take == MinOf(Spare(given[at]), missing)
     IN  /\ Give(given[at], take)
         /\ missing' = missing - take
  /\ at' = at + 1
  /\ UNCHANGED <<args, stage, given, left>>

PushEnd ==
  /\ stage = "push" /\ (missing = 0 \/ at > Len(given))
  /\ stage' = "done"
  /\ UNCHANGED <<args, given, share, offset, left, at, missing>>

\* The function has returned.
Returned == stage = "done" /\ UNCHANGED avars

AssignNext == \/ Nothing \/ PlanHalf \/ HalfStep \/ HalfEnd
        \/ Plan \/ Assign \/ AssignEnd \/ Push \/ PushEnd \/ Returned

AssignSpec == AssignInit /\ [][AssignNext]_avars

-----------------------------------------------------------------------------
(***************************************************************************)
(* Properties                                                              *)
(***************************************************************************)

\* Types of all variables (assign_layers).
AssignTypeOK ==
  /\ tflops \in [Indices -> Tflops]
  /\ limit \in [Indices -> Limits \cup {Unlimited}]
  /\ layers \in LayerCounts
  /\ masterTflops \in MasterTflops
  /\ masterLimit \in MasterLimits \cup {Unlimited}
  /\ stage \in {"start", "half", "assign", "push", "done"}
  /\ given \in Seq(Indices)
  /\ share \in [Indices -> SUBSET Nat]
  /\ offset \in Nat /\ left \in Nat
  /\ at \in Nat \ {0} /\ missing \in Nat

\* No layer is given to two workers, and none in the middle is left out: the
\* workers' shares are disjoint and make up exactly the layers before offset,
\* so that each layer has one owner, a worker or the master.
Partition ==
  /\ offset <= layers
  /\ \A v, w \in Indices : v # w => share[v] \cap share[w] = {}
  /\ UNION {share[w] : w \in Indices} = 0 .. offset - 1

\* No worker is given more layers than fit in its memory, neither in the
\* proportional assignment nor by the redistribution that follows it.
Fits == \A w \in Indices : Cardinality(share[w]) <= limit[w]

\* The master keeps more layers than it can hold only when every worker that
\* takes part is full (redistribution; not done when no compute is known).
MasterRelieved ==
  stage = "done" /\ layers - offset > masterLimit /\ Measured =>
    \A i \in DOMAIN given : Spare(given[i]) = 0

\* "proportionally to each worker's TFLOPS": while no memory limit bites and
\* before the redistribution, the chained rounding leaves each of up to three
\* workers within one layer of its exact part.  With more the errors of the
\* rounds add up, to less than a layer per worker.
Proportional ==
  stage = "assign" /\ left = 0 /\ (\A w \in Indices : Spare(w) > 0) =>
    \A w \in Indices :
      LET exact == tflops[w] * offset
          got   == Cardinality(share[w]) * Power(Indices)
          slack == (IF W <= 3 THEN 1 ELSE W - 1) * Power(Indices)
      IN  got - slack <= exact /\ exact <= got + slack

\* What the code reports when layers fit nowhere: "workers full".
WorkersFull ==
  stage = "done" /\ missing > 0 => \A w \in Indices : Spare(w) = 0

\* Strategy: "layers are assigned as contiguous ranges".
Contiguous ==
  stage = "done" =>
    \A w \in Indices : \A a, b \in share[w] : a .. b \subseteq share[w]

-----------------------------------------------------------------------------
(***************************************************************************)
(* The inductive invariant: the layers promised to workers still to come   *)
(* are within those not assigned yet, only workers in assignments have     *)
(* layers, and while the redistribution goes on, the workers behind it are *)
(* full.                                                                   *)
(***************************************************************************)
Fresh == stage = "start" => /\ given = <<>> /\ offset = 0 /\ at = 1
                            /\ \A w \in Indices : share[w] = {}

HalfInv == stage = "half" =>
  /\ ~Measured /\ left <= layers
  /\ Len(given) <= W
  /\ IF Len(given) = W THEN offset <= left
                       ELSE offset = Len(given) * (left \div W)

AssignInv == stage = "assign" => left + offset <= layers /\ at = 1

PushInv == stage = "push" =>
  /\ missing = layers - offset - masterLimit
  /\ \A i \in DOMAIN given : i < at /\ missing > 0 => Spare(given[i]) = 0

\* Whoever has layers is in assignments.
Idle == \A w \in Todo : share[w] = {}

\* A worker that reports no compute power has no GPU and hence no limit.
NoGpu == \A w \in Indices : tflops[w] = 0 => limit[w] = Unlimited

\* All of it, with the three safety properties it carries.
LInv == /\ AssignTypeOK /\ Partition /\ Fits /\ MasterRelieved
        /\ Fresh /\ HalfInv /\ AssignInv /\ PushInv /\ Idle /\ NoGpu

(***************************************************************************)
(* The proportional assignment, round by round, in halves of a layer.      *)
(***************************************************************************)
\* a and b differ by at most h halves of p.
Near(a, b, h, p) == 2 * (a - b) <= h * p /\ 2 * (b - a) <= h * p

All   == Power(Indices)
Total == offset + left
Done  == Indices \ Todo
Roomy == \A w \in Done : Spare(w) > 0

\* How far k rounds take what is left from the part of the workers to come,
\* and how far a worker's share is from its own part at most.
Drift(k) == IF W > 3 THEN 2 * k ELSE IF k <= 1 THEN k ELSE 2
Slack    == IF W <= 3 THEN 2 ELSE 2 * (W - 1)

\* After each round what is left, and every share assigned so far, is as close
\* to its exact part as that, while no memory limit has bitten.
Rounds == stage = "assign" =>
  /\ IsFiniteSet(Todo) /\ Cardinality(Todo) + Len(given) = W
  /\ All > 0 \/ left = 0
  /\ Roomy =>
       /\ Near(left * All, Total * Power(Todo), IF left = 0 THEN Slack ELSE Drift(Len(given)), All)
       /\ \A w \in Done : Near(Cardinality(share[w]) * All, tflops[w] * Total, Slack, All)
=============================================================================
