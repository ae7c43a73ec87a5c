-------------------------- MODULE InferenceProofs --------------------------
(***************************************************************************)
(* Proofs about Inference for every number of blocks and workers, every    *)
(* placement, every number of requests and every prompt and token limit,   *)
(* whatever workers crash and operations fail: type correctness, the       *)
(* inductive invariant IInv, and what follows from it, the safety          *)
(* properties and that Inference implements Generation.  At the end, what  *)
(* remains where single connections break (LossySpec).                     *)
(***************************************************************************)
EXTENDS InferenceInv, TLAPS

-----------------------------------------------------------------------------
(* Type correctness. *)

\* The bounds of block_idx.
LEMMA BlockRange == N \in Nat /\ N > 0 /\ 0 \in 0 .. N
  BY NAssumption

\* What the operators of the model build has the right type.
LEMMA GarbageType == Garbage \in Activation
  BY DEF Garbage, Activation

LEMMA NoCacheType == NoCache \in [Blocks -> Cache]
  BY DEF NoCache, Cache, Empty

LEMMA ExtendType ==
  ASSUME NEW a \in Activation, NEW c \in Cache, NEW i \in Nat
  PROVE  Extend(c, a, i) \in Cache
  BY DEF Extend, Activation, Cache, Mixed

LEMMA ApplyType ==
  ASSUME NEW a \in Activation, NEW c \in Cache, NEW i \in Nat, NEW b \in Nat
  PROVE  Apply(b, c, a, i) \in Activation
  BY DEF Apply, Activation, Garbage

LEMMA TokenType == ASSUME NEW a \in Activation, NEW e \in BOOLEAN
                   PROVE  TokenOf(a, e) \in Token
  BY DEF TokenOf, Token, Activation

LEMMA TaskProgress ==
  ASSUME NEW t \in Task, NEW a \in Activation, NEW i \in Nat
  PROVE  [t EXCEPT !.x = a, !.op = i] \in Task
  BY DEF Task

LEMMA MessageTypes ==
  /\ NoTask \in Task
  /\ GoodbyeMsg \in Request
  /\ Reply("WorkerInfo", Garbage) \in Response
  /\ Reply("WorkerError", Garbage) \in Response
  BY DEF NoTask, Task, GoodbyeMsg, Request, Reply, Response, Activation, Garbage

\* A block of the master, or the block a remote batch starts with.
LEMMA BlockIndex == ASSUME blk \in 0 .. N, blk < N
                    PROVE  /\ blk \in Blocks /\ blk \in Nat
                           /\ blk + 1 \in 0 .. N
                           /\ Owner[blk] # Local => blk \in Remote
  BY NAssumption DEF Blocks, Remote

LEMMA InitType == Init => TypeOK
  BY BlockRange, GarbageType, NoCacheType, MessageTypes
  DEF Init, TypeOK

\* Steps of the master.
LEMMA MasterType == TypeOK /\ Master => TypeOK'
<1> USE BlockRange DEF TypeOK
<1> SUFFICES ASSUME TypeOK, Master PROVE TypeOK'
  OBVIOUS
<1>1. CASE Begin
  BY <1>1, NoCacheType, PromptAssumption, SampleAssumption
  DEF Begin, pass, worker
<1>2. CASE NextToken
  <2>1. /\ tokens' \in Seq(Token) /\ promptLen' \in Nat /\ indexPos' \in Nat
        /\ cache' \in [Blocks -> Cache]
    <3>1. CASE generated = 0
      <4>1. <<>> \in Seq(Token)
        OBVIOUS
      <4>2. QED
        BY <1>2, <3>1, <4>1, NoCacheType DEF NextToken
    <3>2. CASE generated # 0
      BY <1>2, <3>2 DEF NextToken
    <3>3. QED
      BY <3>1, <3>2
  <2>2. x' \in Activation /\ idx' \in Nat
    <3> DEFINE num    == promptLen' + Len(tokens')
               size   == IF index > 0 THEN 1 ELSE num
               offset == IF size <= num THEN num - size ELSE 0
    <3>1. num \in Nat /\ req \in Nat
      BY <2>1
    <3>2. offset \in Nat /\ num - offset \in Nat
      BY <3>1
    <3>3. /\ x' = [req |-> req, pos |-> offset, n |-> num - offset, at |-> 0]
          /\ idx' = IF index > 0 THEN indexPos' ELSE 0
      BY <1>2 DEF NextToken
    <3> HIDE DEF num, size, offset
    <3>4. QED
      BY <2>1, <3>1, <3>2, <3>3 DEF Activation
  <2>3. QED
    BY <1>2, <2>1, <2>2 DEF NextToken, worker
<1>3. CASE EncodeFails
  <2>1. tokens' \in Seq(Token) /\ cache' \in [Blocks -> Cache]
    BY <1>3, NoCacheType DEF EncodeFails
  <2>2. QED
    BY <1>3, <2>1 DEF EncodeFails, Fail, worker
<1>4. CASE LoopEnds
  BY <1>4 DEF LoopEnds, gen, worker
<1>5. CASE LocalBlock
  <2>1. /\ blk \in Blocks /\ blk \in Nat /\ blk + 1 \in 0 .. N
    BY <1>5, BlockIndex DEF LocalBlock
  <2>2. cache[blk] \in Cache
    BY <2>1
  <2>3. x' \in Activation
    BY <1>5, <2>1, <2>2, ApplyType DEF LocalBlock
  <2>4. cache' \in [Blocks -> Cache]
    BY <1>5, <2>1, <2>2, ExtendType DEF LocalBlock
  <2>5. QED
    BY <1>5, <2>1, <2>3, <2>4 DEF LocalBlock, gen, worker
<1>6. CASE LocalFails
  <2>1. blk \in Blocks
    BY <1>6, BlockIndex DEF LocalFails
  <2>2. cache[blk] \in Cache
    BY <2>1
  <2>3. cache' \in [Blocks -> Cache]
    BY <1>6, <2>1, <2>2, ExtendType DEF LocalFails
  <2>4. QED
    BY <1>6, <2>3 DEF LocalFails, Fail, worker
<1>7. CASE SendBatch
  <2>1. blk \in Remote /\ blk \in Nat
    BY <1>7, BlockIndex DEF SendBatch
  <2>2. blk' \in blk + 1 .. N /\ blk' \in 0 .. N
    BY <1>7, <2>1 DEF SendBatch
  <2>3. BatchMsg(x, idx, blk, blk') \in Request
    BY <2>1, <2>2 DEF BatchMsg, Request
  <2>4. toWorker' \in [Remote -> Seq(Request)]
    BY <1>7, <2>1, <2>3 DEF SendBatch
  <2>5. first' \in 0 .. N /\ first' \in Remote
    BY <1>7, <2>1 DEF SendBatch
  <2>6. QED
    BY <1>7, <2>2, <2>4, <2>5 DEF SendBatch, gen, worker
<1>8. CASE RecvTensor
  <2>1. first \in Remote /\ Head(toMaster[first]) \in Response
    BY <1>8 DEF RecvTensor, Receive
  <2>2. x' \in Activation
    BY <1>8, <2>1 DEF RecvTensor, Response
  <2>3. toMaster' \in [Remote -> Seq(Response)]
    BY <1>8, <2>1 DEF RecvTensor, Receive
  <2>4. QED
    BY <1>8, <2>2, <2>3 DEF RecvTensor, gen, worker
<1>9. CASE RecvError
  <2>1. toMaster' \in [Remote -> Seq(Response)]
    BY <1>9 DEF RecvError, Receive
  <2>2. QED
    BY <1>9, <2>1 DEF RecvError, Fail, worker
<1>10. CASE RecvFails
  BY <1>10 DEF RecvFails, Fail, worker
<1>11. CASE Sample
  <2>1. indexPos' \in Nat
    BY <1>11 DEF Sample, Activation
  <2>2. tokens' \in Seq(Token)
    BY <1>11, TokenType DEF Sample
  <2>3. QED
    BY <1>11, <2>1, <2>2 DEF Sample, worker
<1>12. CASE SampleFails
  <2>1. indexPos' \in Nat
    BY <1>12 DEF SampleFails, Activation
  <2>2. QED
    BY <1>12, <2>1 DEF SampleFails, Fail, worker
<1>13. CASE GoodbyeLocal
  BY <1>13, BlockIndex DEF GoodbyeLocal, gen, worker
<1>14. CASE GoodbyeSend
  <2>1. toWorker' \in [Remote -> Seq(Request)]
    BY <1>14, MessageTypes, BlockIndex DEF GoodbyeSend
  <2>2. blk \in Remote
    BY <1>14, BlockIndex DEF GoodbyeSend
  <2>3. QED
    BY <1>14, <2>1, <2>2 DEF GoodbyeSend, gen, pass, worker
<1>15. CASE GoodbyeAck
  <2>1. toMaster' \in [Remote -> Seq(Response)]
    BY <1>15 DEF GoodbyeAck, Receive
  <2>2. blk' \in 0 .. N
    BY <1>15, BlockIndex, NAssumption DEF GoodbyeAck, Remote, Blocks
  <2>3. QED
    BY <1>15, <2>1, <2>2 DEF GoodbyeAck, gen, worker
<1>16. CASE GoodbyeFails
  BY <1>16 DEF GoodbyeFails, Answer, gen, pass, worker
<1>17. CASE GoodbyeDone
  BY <1>17 DEF GoodbyeDone, Answer, gen, pass, worker
<1>18. QED
  BY <1>1, <1>2, <1>3, <1>4, <1>5, <1>6, <1>7, <1>8, <1>9, <1>10, <1>11,
     <1>12, <1>13, <1>14, <1>15, <1>16, <1>17
  DEF Master

\* Steps of a worker's task.
LEMMA WorkerType == ASSUME TypeOK, NEW b \in Remote, Worker(b) PROVE TypeOK'
<1>1. CASE HandleGoodbye(b)
  <2>1. toWorker' \in [Remote -> Seq(Request)]
    BY <1>1 DEF TypeOK, HandleGoodbye, Ready
  <2>2. kv' \in [Remote -> [Blocks -> Cache]]
    BY <1>1, NoCacheType DEF TypeOK, HandleGoodbye
  <2>3. toMaster' \in [Remote -> Seq(Response)]
    BY <1>1, MessageTypes DEF TypeOK, HandleGoodbye, Send
  <2>4. QED
    BY <1>1, <2>1, <2>2, <2>3
    DEF TypeOK, HandleGoodbye, master, gen, pass
<1>2. CASE TakeBatch(b)
  <2>1. toWorker' \in [Remote -> Seq(Request)] /\ Head(toWorker[b]) \in Request
    BY <1>2 DEF TypeOK, TakeBatch, Ready
  <2>2. task' \in [Remote -> Task]
    BY <1>2, <2>1 DEF TypeOK, TakeBatch, Request, Task
  <2>3. QED
    BY <1>2, <2>1, <2>2 DEF TypeOK, TakeBatch, master, gen, pass
<1>3. CASE RunOp(b) \/ FailOp(b)
  <2>1. /\ task[b] \in Task /\ task[b].op \in Nat /\ task[b].idx \in Nat
        /\ task[b].x \in Activation /\ kv[b] \in [Blocks -> Cache]
    BY DEF TypeOK, Task
  <2>2. Grown(b) \in [Remote -> [Blocks -> Cache]]
    <3>1. CASE task[b].op \in Blocks
      <4>1. Extend(kv[b][task[b].op], task[b].x, task[b].idx) \in Cache
        BY <2>1, <3>1, ExtendType
      <4>2. QED
        BY <2>1, <3>1, <4>1 DEF TypeOK, Grown
    <3>2. CASE task[b].op \notin Blocks
      BY <3>2 DEF TypeOK, Grown
    <3>3. QED
      BY <3>1, <3>2
  <2>3. CASE RunOp(b)
    <3>1. Apply(task[b].op, kv[b][task[b].op], task[b].x, task[b].idx)
            \in Activation
      BY <2>1, GarbageType DEF Apply, Activation
    <3>2. [task[b] EXCEPT !.x  = Apply(task[b].op, kv[b][task[b].op],
                                       task[b].x, task[b].idx),
                          !.op = task[b].op + 1] \in Task
      <4>1. task[b].op + 1 \in Nat
        BY <2>1
      <4>2. QED
        BY <2>1, <3>1, <4>1, TaskProgress
    <3>3. task' \in [Remote -> Task]
      BY <2>3, <3>2 DEF TypeOK, RunOp
    <3>4. QED
      BY <2>2, <2>3, <3>3 DEF TypeOK, RunOp, master, gen, pass
  <2>4. CASE FailOp(b)
    <3>1. toMaster' \in [Remote -> Seq(Response)] /\ task' \in [Remote -> Task]
      BY <2>4, MessageTypes DEF TypeOK, FailOp, Send
    <3>2. QED
      BY <2>2, <2>4, <3>1 DEF TypeOK, FailOp, master, gen, pass
  <2>5. QED
    BY <1>3, <2>3, <2>4
<1>4. CASE SendResult(b)
  <2>1. Reply("Tensor", task[b].x) \in Response
    BY DEF TypeOK, Task, Reply, Response
  <2>2. toMaster' \in [Remote -> Seq(Response)] /\ task' \in [Remote -> Task]
    BY <1>4, <2>1, MessageTypes DEF TypeOK, SendResult, Send
  <2>3. QED
    BY <1>4, <2>2 DEF TypeOK, SendResult, master, gen, pass
<1>5. QED
  BY <1>1, <1>2, <1>3, <1>4 DEF Worker

\* Failures.
LEMMA BreakType == ASSUME TypeOK, NEW S, Break(S) PROVE TypeOK'
<1>1. up' \in [Remote -> BOOLEAN]
  BY DEF TypeOK, Break
<1>2. toWorker' \in [Remote -> Seq(Request)] /\ task' \in [Remote -> Task]
  BY MessageTypes DEF TypeOK, Break
<1>3. kv' \in [Remote -> [Blocks -> Cache]]
  BY NoCacheType DEF TypeOK, Break
<1>4. toMaster' \in [Remote -> Seq(Response)]
  <2>1. CASE toMaster' = toMaster
    BY <2>1 DEF TypeOK
  <2>2. CASE toMaster' = [b \in Remote |-> IF b \in S THEN <<>> ELSE toMaster[b]]
    BY <2>2 DEF TypeOK
  <2>3. QED
    BY <2>1, <2>2 DEF Break
<1>5. QED
  BY <1>1, <1>2, <1>3, <1>4 DEF TypeOK, Break, master, gen, pass

LEMMA CancelType == TypeOK /\ Cancel => TypeOK'
  BY DEF TypeOK, Cancel, Answer, gen, pass, worker

LEMMA StutterType == TypeOK /\ UNCHANGED vars => TypeOK'
  BY DEF TypeOK, vars, master, gen, pass, worker

LEMMA NextType == TypeOK /\ [Next]_vars => TypeOK'
  BY MasterType, WorkerType, BreakType, StutterType DEF Next, Crash, AllServed

\* Every variable keeps its type, whatever fails: processes, connections or
\* handlers.
THEOREM Typing == Spec => []TypeOK
  BY InitType, NextType, PTL DEF Spec

THEOREM TypingLossy == LossySpec => []TypeOK
<1>1. TypeOK /\ [LossyNext]_vars => TypeOK'
  BY NextType, BreakType DEF LossyNext, ConnLost
<1>2. QED
  BY InitType, <1>1, PTL DEF LossySpec

THEOREM TypingCancel == CancelSpec => []TypeOK
<1>1. TypeOK /\ [CancelNext]_vars => TypeOK'
  BY NextType, CancelType DEF CancelNext
<1>2. QED
  BY InitType, <1>1, PTL DEF CancelSpec

-----------------------------------------------------------------------------
(* Runs of blocks. *)

\* A block of the batch sent last belongs to no other connection's run.
LEMMA RunUnique ==
  ASSUME TypeOK, first \in Remote, StartsRun(first), IsRun(first, blk),
         NEW c \in Remote, NEW b \in Remote, InRun(c, b), c # first
  PROVE  b < first \/ blk <= b
<1> SUFFICES ASSUME first <= b, b < blk PROVE FALSE
  BY NAssumption DEF Remote, Blocks, TypeOK
<1>1. b \in Nat /\ c \in Nat /\ first \in Nat /\ blk \in Nat
  BY NAssumption DEF Remote, Blocks, TypeOK
<1>2. \A k \in first .. blk - 1 : Owner[k] = Owner[first]
  BY DEF IsRun
<1>3. c <= b /\ \A k \in c .. b : Owner[k] = Owner[c]
  BY DEF InRun
<1>4. CASE c < first
  <2>1. first \in c .. b /\ first - 1 \in c .. b
    BY <1>1, <1>4
  <2>2. Owner[first] = Owner[c] /\ Owner[first - 1] = Owner[c]
    BY <1>3, <2>1
  <2>3. QED
    BY <1>1, <1>4, <2>2 DEF StartsRun
<1>5. CASE first < c
  <2>1. c \in first .. blk - 1 /\ c - 1 \in first .. blk - 1
    BY <1>1, <1>3, <1>5
  <2>2. Owner[c] = Owner[first] /\ Owner[c - 1] = Owner[first]
    BY <1>2, <2>1
  <2>3. QED
    BY <1>1, <1>5, <2>2 DEF InRun
<1>6. QED
  BY <1>1, <1>4, <1>5

\* The blocks of the batch sent last form first's run.
LEMMA RunMember ==
  ASSUME TypeOK, first \in Remote, StartsRun(first), IsRun(first, blk),
         NEW b \in Nat, first <= b, b < blk
  PROVE  b \in Remote /\ InRun(first, b)
<1>1. first \in Nat /\ blk \in Nat /\ blk <= N /\ N \in Nat
  BY NAssumption DEF Remote, Blocks, TypeOK
<1>2. b \in Blocks /\ b \in first .. blk - 1
  BY <1>1 DEF Blocks
<1>3. Owner[b] = Owner[first] /\ \A k \in first .. b : Owner[k] = Owner[first]
  BY <1>1, <1>2 DEF IsRun
<1>4. QED
  BY <1>2, <1>3 DEF Remote, InRun, StartsRun

-----------------------------------------------------------------------------
(* The initial state. *)

LEMMA InitIInv == Init => IInv
<1> SUFFICES ASSUME Init PROVE IInv
  OBVIOUS
<1>1. TypeOK
  BY InitType
<1>2. SharedFate /\ IdleKv
  BY DEF Init, SharedFate, IdleKv
<1>3. Quiet
  BY DEF Init, Quiet
<1>4. phase = "idle"
  BY DEF Init
<1>5. ByeInv /\ WaitInv /\ GenInv /\ PassInv /\ LocalKv /\ RemoteKv /\ LeavingKv
  BY <1>4 DEF ByeInv, WaitInv, GenInv, PassInv, LocalKv, RemoteKv, LeavingKv,
              Active, InPass, Leaving
<1>6. QED
  BY <1>1, <1>2, <1>3, <1>5 DEF IInv

-----------------------------------------------------------------------------
(* Steps of the master. *)

LEMMA BeginStep == ASSUME IInv, Begin PROVE IInv'
<1>1. TypeOK' /\ TypeOK
  BY MasterType DEF IInv, Master
<1>2. /\ phase = "idle" /\ phase' = "loop"
      /\ UNCHANGED <<up, toWorker, toMaster, task, kv>>
  BY DEF Begin, worker
<1>3. SharedFate'
  BY <1>2 DEF IInv, SharedFate
<1>4. Quiet'
  BY <1>2 DEF IInv, Quiet, Awaited
<1>5. ByeInv' /\ WaitInv' /\ PassInv' /\ LeavingKv' /\ IdleKv'
  BY <1>2 DEF ByeInv, WaitInv, PassInv, InPass, LeavingKv, Leaving, IdleKv
<1>6. GenInv'
  BY <1>1, <1>2, PromptAssumption, SampleAssumption
  DEF TypeOK, Begin, GenInv, Active, Leaving, Reference!Ended
<1>7. ASSUME NEW b \in Blocks PROVE Expect(b)' = Empty
  <2>1. Frontier' = 0 /\ indexPos' = 0
    BY <1>2 DEF Begin, Frontier
  <2>2. ~(b < 0)
    BY NAssumption DEF Blocks
  <2>3. QED
    BY <2>1, <2>2 DEF Expect
<1>8. LocalKv'
  BY <1>7 DEF Begin, LocalKv, NoCache
<1>9. RemoteKv'
  <2> SUFFICES ASSUME NEW c \in Remote, NEW b \in Remote, up[c]
               PROVE  kv[c][b] = Empty \/ Blocked(c)'
    BY <1>2, <1>7 DEF RemoteKv, Remote
  <2>1. kv[c] = NoCache \/ \E d \in Remote : d < c /\ ~up[d]
    BY <1>2 DEF IInv, IdleKv
  <2>2. QED
    BY <1>2, <2>1 DEF Blocked, NoCache, Remote
<1>10. QED
  BY <1>1, <1>3, <1>4, <1>5, <1>6, <1>8, <1>9 DEF IInv

\* generate_text returns: what the caches hold no longer matters.
LEMMA LeaveLoop ==
  ASSUME IInv, TypeOK', Active, phase' = "goodbye", blk' = 0,
         genOk' => Len(tokens') = sampleLen' \/ Reference!Ended(tokens)',
         UNCHANGED <<req, dialog, up, toWorker, task, kv>>,
         \A c \in Remote : /\ toWorker[c] = <<>> /\ task[c] = NoTask
                           /\ toMaster'[c] = <<>>
  PROVE  IInv'
<1>1. SharedFate' /\ Quiet'
  BY DEF IInv, SharedFate, Quiet
<1>2. /\ ByeInv' /\ WaitInv' /\ PassInv' /\ LocalKv' /\ RemoteKv' /\ IdleKv'
  BY DEF ByeInv, WaitInv, PassInv, InPass, LocalKv, RemoteKv, Active, IdleKv
<1>3. GenInv'
  BY DEF IInv, GenInv, Active, Leaving
<1>4. LeavingKv'
  BY DEF LeavingKv, Remote, Blocks
<1>5. QED
  BY <1>1, <1>2, <1>3, <1>4 DEF IInv

\* Outside a wait nothing is under way.
LEMMA AllQuiet ==
  ASSUME IInv, phase \notin {"wait", "byewait"}, NEW c \in Remote
  PROVE  toWorker[c] = <<>> /\ toMaster[c] = <<>> /\ task[c] = NoTask
  BY DEF IInv, Quiet, Awaited

LEMMA LoopEndsStep == ASSUME IInv, LoopEnds PROVE IInv'
<1>1. TypeOK'
  BY MasterType DEF IInv, Master
<1>2. phase = "loop" /\ Active
  BY DEF LoopEnds, Active
<1>3. Len(tokens') = sampleLen'
  BY <1>2 DEF IInv, GenInv, LoopEnds, gen
<1>4. QED
  BY <1>1, <1>2, <1>3, AllQuiet, LeaveLoop DEF LoopEnds, gen, worker

LEMMA ErrorStep ==
  ASSUME IInv, EncodeFails \/ LocalFails \/ SampleFails PROVE IInv'
<1>1. TypeOK'
  BY MasterType DEF IInv, Master
<1>2. phase \in {"loop", "forward"} /\ Active
  BY DEF EncodeFails, LocalFails, SampleFails, Active
<1>3. /\ phase' = "goodbye" /\ blk' = 0 /\ ~genOk'
      /\ UNCHANGED <<req, dialog, up, toWorker, toMaster, task, kv>>
  BY DEF EncodeFails, LocalFails, SampleFails, Fail, worker
<1>4. QED
  BY <1>1, <1>2, <1>3, AllQuiet, LeaveLoop

LEMMA RecvErrorStep ==
  ASSUME IInv, RecvError \/ RecvFails PROVE IInv'
<1>1. TypeOK'
  BY MasterType DEF IInv, Master
<1>2. phase = "wait" /\ Active /\ first \in Remote
  BY DEF RecvError, RecvFails, Active, IInv, WaitInv
<1>3. /\ phase' = "goodbye" /\ blk' = 0 /\ ~genOk'
      /\ UNCHANGED <<req, dialog, up, toWorker, task, kv>>
  BY DEF RecvError, RecvFails, Fail, worker
<1>4. /\ toWorker[first] = <<>> /\ task[first] = NoTask
      /\ toMaster'[first] = <<>>
  <2>1. OnItsWay \/ Running \/ Answered \/ Errored \/ Lost
    BY <1>2 DEF IInv, WaitInv
  <2>2. CASE RecvError
    <3>1. toMaster[first] # <<>> /\ toMaster'[first] = Tail(toMaster[first])
      BY <1>2, <2>2 DEF RecvError, Receive, IInv, TypeOK
    <3>2. Answered \/ Errored
      BY <2>1, <3>1 DEF OnItsWay, Running, Lost
    <3>3. toWorker[first] = <<>> /\ task[first] = NoTask
      BY <3>2 DEF Answered, Errored
    <3>4. \E r : toMaster[first] = <<r>>
      BY <3>2 DEF Answered, Errored
    <3>5. QED
      BY <3>1, <3>3, <3>4
  <2>3. CASE RecvFails
    <3>1. toMaster[first] = <<>> /\ ~up[first] /\ toMaster' = toMaster
      BY <2>3 DEF RecvFails
    <3>2. QED
      BY <1>2, <3>1 DEF IInv, Quiet
  <2>4. QED
    BY <2>2, <2>3
<1>5. ASSUME NEW c \in Remote, c # first
      PROVE  toWorker[c] = <<>> /\ task[c] = NoTask /\ toMaster'[c] = <<>>
  <2>1. toWorker[c] = <<>> /\ task[c] = NoTask /\ toMaster[c] = <<>>
    BY <1>2, <1>5 DEF IInv, Quiet, Awaited
  <2>2. toMaster'[c] = toMaster[c]
    BY <1>2, <1>5 DEF RecvError, RecvFails, Receive, IInv, TypeOK
  <2>3. QED
    BY <2>1, <2>2
<1>6. QED
  BY <1>1, <1>2, <1>3, <1>4, <1>5, LeaveLoop

\* The counters stay as they are.
LEMMA GenStable ==
  ASSUME IInv, UNCHANGED <<req, gen>>, phase # "idle",
         Active' => Active, Leaving' => Leaving
  PROVE  GenInv'
  BY DEF IInv, GenInv, gen, Active, Leaving, Reference!Ended

\* A block whose cache is a prefix of what precedes a computes the right thing.
LEMMA RightBlock ==
  ASSUME NEW a \in Activation, NEW i \in Nat, NEW b \in Nat, NEW c,
         a.req > 0, a.pos = i, a.at = b,
         c = IF i = 0 THEN Empty ELSE [req |-> a.req, len |-> i]
  PROVE  /\ Apply(b, c, a, i) = [a EXCEPT !.at = b + 1]
         /\ Extend(c, a, i) = [req |-> a.req, len |-> i + a.n]
<1>1. a # Garbage
  BY DEF Garbage
<1>2. c.len = i /\ (i > 0 => c.req = a.req)
  BY DEF Empty
<1>3. Coherent(c, a, i)
  BY <1>1, <1>2 DEF Coherent
<1>4. QED
  BY <1>3 DEF Apply, Extend

\* What a block must hold depends on the frontier only through its own side.
LEMMA ExpectStable ==
  ASSUME NEW b, (b < Frontier) = (b < Frontier)',
         UNCHANGED <<req, indexPos>>, x'.n = x.n
  PROVE  Expect(b)' = Expect(b)
  BY DEF Expect

LEMMA NextTokenStep == ASSUME IInv, NextToken PROVE IInv'
<1>1. TypeOK' /\ TypeOK
  BY MasterType DEF IInv, Master
<1>2. /\ phase = "loop" /\ phase' = "forward" /\ blk' = 0
      /\ index < sampleLen
      /\ UNCHANGED <<req, dialog, sampleLen, index, genOk, generated,
                      up, toWorker, toMaster, task, kv>>
  BY DEF NextToken, worker
<1>3. /\ req > 0 /\ dialog > 0 /\ genOk /\ generated = index
      /\ Len(tokens) = index /\ ~Reference!Ended(tokens)
      /\ indexPos = IF index = 0 THEN 0 ELSE dialog + index - 1
      /\ index > 0 => promptLen = dialog
  BY <1>2 DEF IInv, GenInv, Active
<1>4. /\ Len(tokens') = index /\ ~Reference!Ended(tokens)'
      /\ promptLen' = dialog /\ indexPos' = indexPos
      /\ cache' = IF index = 0 THEN NoCache ELSE cache
  <2>1. CASE index = 0
    BY <1>3, <2>1 DEF NextToken, Reference!Ended
  <2>2. CASE index # 0
    BY <1>1, <1>3, <2>2 DEF NextToken, TypeOK, Reference!Ended
  <2>3. QED
    BY <2>1, <2>2
<1>5. /\ idx' = indexPos'
      /\ x' = [req |-> req, pos |-> idx',
               n |-> IF index = 0 THEN dialog ELSE 1, at |-> 0]
  <2> DEFINE num    == promptLen' + Len(tokens')
             size   == IF index > 0 THEN 1 ELSE num
             offset == IF size <= num THEN num - size ELSE 0
  <2>1. /\ x' = [req |-> req, pos |-> offset, n |-> num - offset, at |-> 0]
        /\ idx' = IF index > 0 THEN indexPos' ELSE 0
    BY DEF NextToken
  <2>2. num = dialog + index /\ dialog \in Nat /\ index \in Nat
    BY <1>1, <1>4 DEF TypeOK
  <2>3. offset = indexPos /\ idx' = indexPos
    BY <1>3, <1>4, <2>1, <2>2
  <2>4. num - offset = IF index = 0 THEN dialog ELSE 1
    BY <1>3, <2>2, <2>3
  <2> HIDE DEF num, size, offset
  <2>5. QED
    BY <1>4, <2>1, <2>3, <2>4
<1>6. SharedFate' /\ Quiet'
  BY <1>2 DEF IInv, SharedFate, Quiet, Awaited
<1>7. ByeInv' /\ WaitInv' /\ LeavingKv' /\ IdleKv'
  BY <1>2 DEF ByeInv, WaitInv, LeavingKv, Leaving, IdleKv
<1>8. GenInv'
  BY <1>1, <1>2, <1>3, <1>4 DEF GenInv, Active, Leaving, TypeOK
<1>9. PassInv'
  BY <1>2, <1>4, <1>5 DEF PassInv, InPass, StartsRun
<1>10. ASSUME NEW b \in Blocks PROVE Expect(b)' = Expect(b)
  <2>1. Frontier = 0 /\ Frontier' = 0 /\ ~(b < 0)
    BY <1>2, NAssumption DEF Frontier, Blocks
  <2>2. QED
    BY <1>2, <1>4, <2>1 DEF Expect
<1>11. LocalKv'
  <2> SUFFICES ASSUME NEW b \in Blocks \ Remote PROVE cache'[b] = Expect(b)
    BY <1>10 DEF LocalKv
  <2>1. cache[b] = Expect(b)
    BY <1>2 DEF IInv, LocalKv, Active
  <2>2. CASE index = 0
    <3>1. Expect(b) = Empty
      BY <1>2, <1>3, <2>2, NAssumption DEF Expect, Frontier, Blocks
    <3>2. QED
      BY <1>4, <2>2, <3>1 DEF NoCache
  <2>3. QED
    BY <1>4, <2>1, <2>2
<1>12. RemoteKv'
  <2> SUFFICES ASSUME NEW c \in Remote, NEW b \in Remote,
                      InRun(c, b), up[c]
               PROVE  kv[c][b] = Expect(b) \/ Blocked(c)'
    BY <1>2, <1>10 DEF RemoteKv, Remote, InRun
  <2>1. kv[c][b] = Expect(b) \/ Blocked(c)
    BY <1>2 DEF IInv, RemoteKv, Active
  <2>2. Blocked(c) => Blocked(c)'
    BY <1>2, NAssumption DEF Blocked, Remote, Blocks
  <2>3. QED
    BY <2>1, <2>2
<1>13. QED
  BY <1>1, <1>6, <1>7, <1>8, <1>9, <1>11, <1>12 DEF IInv

LEMMA LocalBlockStep == ASSUME IInv, LocalBlock PROVE IInv'
<1>1. TypeOK' /\ TypeOK
  BY MasterType DEF IInv, Master
<1>2. /\ phase = "forward" /\ phase' = "forward" /\ blk' = blk + 1
      /\ blk < N /\ Owner[blk] = Local /\ blk \in Blocks \ Remote
      /\ UNCHANGED <<req, gen, idx, up, toWorker, toMaster, task, kv>>
  BY <1>1, BlockIndex DEF LocalBlock, worker, Remote, TypeOK
<1>3. blk \in Nat /\ N \in Nat
  BY <1>1, NAssumption DEF TypeOK
<1>4. /\ idx = indexPos /\ index < sampleLen /\ promptLen = dialog
      /\ x = [req |-> req, pos |-> idx,
              n |-> IF index = 0 THEN dialog ELSE 1, at |-> blk]
  BY <1>2 DEF IInv, PassInv, InPass
<1>5. cache[blk] = IF idx = 0 THEN Empty ELSE [req |-> req, len |-> idx]
  <2>1. cache[blk] = Expect(blk)
    BY <1>2 DEF IInv, LocalKv, Active
  <2>2. Frontier = blk /\ ~(blk < blk)
    BY <1>2, <1>3 DEF Frontier
  <2>3. QED
    BY <1>4, <2>1, <2>2 DEF Expect
<1>6. /\ x' = [x EXCEPT !.at = blk + 1]
      /\ Extend(cache[blk], x, idx) = [req |-> req, len |-> idx + x.n]
      /\ x.n > 0
  <2>1. x \in Activation /\ idx \in Nat /\ x.req > 0 /\ x.n > 0
    BY <1>1, <1>2, <1>4 DEF IInv, GenInv, Active, TypeOK
  <2>2. QED
    BY <1>2, <1>3, <1>4, <1>5, <2>1, RightBlock DEF LocalBlock
<1>7. SharedFate' /\ Quiet'
  BY <1>2 DEF IInv, SharedFate, Quiet, Awaited
<1>8. ByeInv' /\ WaitInv' /\ LeavingKv' /\ IdleKv'
  BY <1>2 DEF ByeInv, WaitInv, LeavingKv, Leaving, IdleKv
<1>9. GenInv'
  BY <1>2, GenStable DEF Active, Leaving
<1>10. PassInv'
  BY <1>2, <1>3, <1>4, <1>6 DEF PassInv, InPass, StartsRun, gen
<1>11. ASSUME NEW b \in Blocks, b # blk PROVE Expect(b)' = Expect(b)
  <2>1. Frontier = blk /\ Frontier' = blk + 1
    BY <1>2 DEF Frontier
  <2>2. b \in Nat
    BY NAssumption DEF Blocks
  <2>3. (b < Frontier) = (b < Frontier)'
    BY <1>3, <1>11, <2>1, <2>2
  <2>4. QED
    BY <1>2, <1>4, <1>6, <2>3, ExpectStable DEF gen
<1>12. LocalKv'
  <2> SUFFICES ASSUME NEW b \in Blocks \ Remote PROVE cache'[b] = Expect(b)'
    BY DEF LocalKv
  <2>1. cache' = [cache EXCEPT ![blk] = Extend(@, x, idx)]
    BY DEF LocalBlock
  <2>2. CASE b = blk
    <3>1. cache'[b] = [req |-> req, len |-> idx + x.n]
      BY <1>1, <1>2, <1>6, <2>1, <2>2 DEF TypeOK
    <3>2. blk < Frontier' /\ idx + x.n # 0 /\ x'.n = x.n
      <4>1. Frontier' = blk + 1 /\ idx \in Nat /\ x.n \in Nat
        BY <1>1, <1>2 DEF Frontier, TypeOK, Activation
      <4>2. QED
        BY <1>3, <1>4, <1>6, <4>1
    <3>3. QED
      BY <1>2, <1>4, <2>2, <3>1, <3>2 DEF Expect, gen
  <2>3. CASE b # blk
    BY <1>1, <1>2, <1>11, <2>1, <2>3 DEF IInv, LocalKv, Active, TypeOK
  <2>4. QED
    BY <2>2, <2>3
<1>13. RemoteKv'
  <2> SUFFICES ASSUME NEW c \in Remote, NEW b \in Remote,
                      InRun(c, b), up[c]
               PROVE  kv[c][b] = Expect(b)' \/ Blocked(c)'
    BY <1>2 DEF RemoteKv, InRun
  <2>1. kv[c][b] = Expect(b) \/ Blocked(c)
    BY <1>2 DEF IInv, RemoteKv, Active
  <2>2. Expect(b)' = Expect(b)
    BY <1>2, <1>11 DEF Remote
  <2>3. ASSUME NEW d \in Remote, blk <= d PROVE blk + 1 <= d
    BY <1>2, <1>3, <2>3, NAssumption DEF Remote, Blocks
  <2>4. Blocked(c) => Blocked(c)'
    BY <1>2, <2>3 DEF Blocked
  <2>5. QED
    BY <2>1, <2>2, <2>4
<1>14. QED
  BY <1>1, <1>7, <1>8, <1>9, <1>10, <1>12, <1>13 DEF IInv

LEMMA SendBatchStep == ASSUME IInv, SendBatch PROVE IInv'
<1>1. TypeOK' /\ TypeOK
  BY MasterType DEF IInv, Master
<1>2. /\ phase = "forward" /\ phase' = "wait" /\ first' = blk
      /\ blk < N /\ Owner[blk] # Local /\ blk \in Remote /\ blk \in Nat
      /\ UNCHANGED <<req, gen, x, idx, cache, up, toMaster, task, kv>>
  BY <1>1, BlockIndex DEF SendBatch, worker, TypeOK
<1>3. PICK end \in blk + 1 .. N :
        /\ IsRun(blk, end) /\ blk' = end
        /\ toWorker' = IF up[blk]
                         THEN [toWorker EXCEPT ![blk] =
                                 Append(@, BatchMsg(x, idx, blk, end))]
                         ELSE toWorker
  BY DEF SendBatch
<1>4. /\ idx = indexPos /\ index < sampleLen /\ promptLen = dialog
      /\ x = [req |-> req, pos |-> idx,
              n |-> IF index = 0 THEN dialog ELSE 1, at |-> blk]
      /\ StartsRun(blk)
  BY <1>2 DEF IInv, PassInv, InPass
<1>5. \A c \in Remote :
        toWorker[c] = <<>> /\ toMaster[c] = <<>> /\ task[c] = NoTask
  BY <1>2, AllQuiet
<1>6. /\ \A c \in Remote : c # blk => toWorker'[c] = <<>>
      /\ toWorker'[blk] = IF up[blk] THEN <<BatchMsg(x, idx, blk, end)>> ELSE <<>>
  <2>1. \A m : Append(<<>>, m) = <<m>>
    OBVIOUS
  <2>2. ASSUME NEW c \in Remote
        PROVE  toWorker'[c] = IF up[blk] /\ c = blk
                                THEN Append(toWorker[c], BatchMsg(x, idx, blk, end))
                                ELSE toWorker[c]
    BY <1>1, <1>3 DEF TypeOK
  <2>3. QED
    BY <1>2, <1>5, <2>1, <2>2
<1>7. SharedFate'
  BY <1>2 DEF IInv, SharedFate
<1>8. Quiet'
  BY <1>2, <1>5, <1>6 DEF Quiet, Awaited
<1>9. WaitInv'
  <2>1. first' < blk' /\ IsRun(first', blk') /\ StartsRun(first')
    BY <1>2, <1>3, <1>4, NAssumption
  <2>2. CASE up[blk]
    BY <1>2, <1>3, <1>5, <1>6, <2>1, <2>2
    DEF WaitInv, OnItsWay, IsRun, StartsRun
  <2>3. CASE ~up[blk]
    BY <1>2, <1>3, <1>5, <1>6, <2>1, <2>3 DEF WaitInv, Lost, IsRun, StartsRun
  <2>4. QED
    BY <2>2, <2>3
<1>10. ByeInv' /\ LeavingKv' /\ IdleKv'
  BY <1>2 DEF ByeInv, LeavingKv, Leaving, IdleKv
<1>11. GenInv'
  BY <1>2, GenStable DEF Active, Leaving
<1>12. PassInv'
  BY <1>2, <1>4 DEF PassInv, InPass, gen
<1>13. ASSUME NEW b PROVE Expect(b)' = Expect(b)
  <2>1. Frontier = blk /\ Frontier' = blk
    BY <1>2, <1>5 DEF Frontier, NoTask
  <2>2. QED
    BY <1>2, <2>1 DEF Expect, gen
<1>14. LocalKv'
  BY <1>2, <1>13 DEF IInv, LocalKv, Active
<1>15. RemoteKv'
  <2> SUFFICES ASSUME NEW c \in Remote, NEW b \in Remote,
                      InRun(c, b), up[c]
               PROVE  kv[c][b] = Expect(b) \/ Blocked(c)'
    BY <1>2, <1>13 DEF RemoteKv, InRun
  <2>1. kv[c][b] = Expect(b) \/ Blocked(c)
    BY <1>2 DEF IInv, RemoteKv, Active
  <2>2. Blocked(c) => Blocked(c)'
    BY <1>2, <1>5 DEF Blocked
  <2>3. QED
    BY <2>1, <2>2
<1>16. QED
  BY <1>1, <1>7, <1>8, <1>9, <1>10, <1>11, <1>12, <1>14, <1>15 DEF IInv

LEMMA RecvTensorStep == ASSUME IInv, RecvTensor PROVE IInv'
<1>1. TypeOK' /\ TypeOK
  BY MasterType DEF IInv, Master
<1>2. /\ phase = "wait" /\ phase' = "forward"
      /\ toMaster[first] # <<>> /\ Head(toMaster[first]).kind = "Tensor"
      /\ toMaster' = [toMaster EXCEPT ![first] = Tail(@)]
      /\ x' = Head(toMaster[first]).x
      /\ UNCHANGED <<req, gen, idx, blk, first, cache, up, toWorker, task, kv>>
  BY DEF RecvTensor, Receive, worker
<1>3. /\ first \in Remote /\ first < blk /\ first \in Nat /\ blk \in Nat
      /\ IsRun(first, blk) /\ StartsRun(first)
  BY <1>1, <1>2, NAssumption DEF IInv, WaitInv, Remote, Blocks, TypeOK
<1>4. Answered
  <2>1. OnItsWay \/ Running \/ Answered \/ Errored \/ Lost
    BY <1>2 DEF IInv, WaitInv
  <2>2. QED
    BY <1>2, <2>1 DEF OnItsWay, Running, Errored, Lost, Reply
<1>5. /\ idx = indexPos /\ index < sampleLen /\ promptLen = dialog
      /\ x = [req |-> req, pos |-> idx,
              n |-> IF index = 0 THEN dialog ELSE 1, at |-> first]
  BY <1>2 DEF IInv, PassInv, InPass
<1>6. x' = [x EXCEPT !.at = blk]
  BY <1>2, <1>4 DEF Answered, Reply
<1>7. ASSUME NEW c \in Remote
      PROVE  toWorker[c] = <<>> /\ toMaster'[c] = <<>> /\ task[c] = NoTask
  <2>1. CASE c = first
    <3>1. \E r : toMaster[first] = <<r>>
      BY <1>4 DEF Answered
    <3>2. toMaster'[first] = <<>>
      BY <1>1, <1>2, <1>3, <3>1 DEF TypeOK
    <3>3. QED
      BY <1>4, <2>1, <3>2 DEF Answered
  <2>2. CASE c # first
    <3>1. toMaster'[c] = toMaster[c]
      BY <1>1, <1>2, <2>2 DEF TypeOK
    <3>2. QED
      BY <1>2, <2>2, <3>1 DEF IInv, Quiet, Awaited
  <2>3. QED
    BY <2>1, <2>2
<1>8. SharedFate' /\ Quiet'
  BY <1>2, <1>7 DEF IInv, SharedFate, Quiet
<1>9. ByeInv' /\ WaitInv' /\ LeavingKv' /\ IdleKv'
  BY <1>2 DEF ByeInv, WaitInv, LeavingKv, Leaving, IdleKv
<1>10. GenInv'
  BY <1>2, GenStable DEF Active, Leaving
<1>11. PassInv'
  <2>1. ASSUME blk < N PROVE Owner[blk] = Local \/ StartsRun(blk)
    <3>1. blk - 1 \in first .. blk - 1
      BY <1>3
    <3>2. Owner[blk - 1] = Owner[first] /\ Owner[blk] # Owner[first]
      BY <1>3, <2>1, <3>1, NAssumption DEF IsRun
    <3>3. QED
      BY <3>2 DEF StartsRun
  <2>2. QED
    BY <1>2, <1>5, <1>6, <2>1 DEF PassInv, InPass, gen, StartsRun
<1>12. ASSUME NEW b PROVE Expect(b)' = Expect(b)
  <2>1. Frontier = blk /\ Frontier' = blk
    BY <1>2, <1>4 DEF Frontier, Answered, NoTask
  <2>2. x'.n = x.n
    BY <1>5, <1>6
  <2>3. QED
    BY <1>2, <2>1, <2>2 DEF Expect, gen
<1>13. LocalKv'
  BY <1>2, <1>12 DEF IInv, LocalKv, Active
<1>14. RemoteKv'
  <2> SUFFICES ASSUME NEW c \in Remote, NEW b \in Remote,
                      InRun(c, b), up[c]
               PROVE  kv[c][b] = Expect(b) \/ Blocked(c)'
    BY <1>2, <1>12 DEF RemoteKv, InRun
  <2>1. ~Errored
    BY <1>2 DEF Errored, Reply
  <2>2. kv[c][b] = Expect(b) \/ Blocked(c)
    BY <1>2, <2>1 DEF IInv, RemoteKv, Active
  <2>3. Blocked(c) => Blocked(c)'
    BY <1>2 DEF Blocked
  <2>4. QED
    BY <2>2, <2>3
<1>15. QED
  BY <1>1, <1>8, <1>9, <1>10, <1>11, <1>13, <1>14 DEF IInv

\* After the last block nothing is left ahead of the pass: no dead connection
\* was crossed, so every reachable cache holds the prefix.
LEMMA Complete ==
  ASSUME IInv, phase = "forward", blk = N
  PROVE  /\ \A b \in Blocks \ Remote : cache[b] = [req |-> req, len |-> idx + x.n]
         /\ \A c, b \in Remote : InRun(c, b) /\ up[c] =>
              kv[c][b] = [req |-> req, len |-> idx + x.n]
<1>1. TypeOK /\ N \in Nat
  BY NAssumption DEF IInv
<1>2. idx = indexPos /\ x.n = IF index = 0 THEN dialog ELSE 1
  BY DEF IInv, PassInv, InPass
<1>3. dialog > 0
  BY DEF IInv, GenInv
<1>4. ASSUME NEW b \in Blocks
      PROVE  Expect(b) = [req |-> req, len |-> idx + x.n]
  <2>1. Frontier = N /\ b < N
    BY <1>1 DEF Frontier, Blocks
  <2>2. idx + x.n # 0
    BY <1>1, <1>2, <1>3 DEF TypeOK
  <2>3. QED
    BY <1>2, <2>1, <2>2 DEF Expect
<1>5. ASSUME NEW c \in Remote PROVE ~Blocked(c)
  BY <1>1 DEF Blocked, Remote, Blocks
<1>6. QED
  BY <1>4, <1>5 DEF IInv, LocalKv, RemoteKv, Active, Remote

LEMMA SampleStep == ASSUME IInv, Sample PROVE IInv'
<1>1. TypeOK' /\ TypeOK
  BY MasterType DEF IInv, Master
<1>2. /\ phase = "forward" /\ blk = N /\ Active
      /\ indexPos' = indexPos + x.n /\ generated' = generated + 1
      /\ UNCHANGED <<req, dialog, sampleLen, genOk, promptLen, x, idx, first,
                     cache, up, toWorker, toMaster, task, kv>>
  BY DEF Sample, worker, Active
<1>3. PICK eos \in BOOLEAN :
        /\ tokens' = Append(tokens, TokenOf(x, eos))
        /\ IF eos THEN phase' = "goodbye" /\ blk' = 0 /\ UNCHANGED index
                  ELSE phase' = "loop" /\ index' = index + 1 /\ UNCHANGED blk
  BY DEF Sample
<1>4. /\ Len(tokens') = Len(tokens) + 1
      /\ tokens'[Len(tokens')].eos = eos
  BY <1>1, <1>3 DEF TypeOK, TokenOf
<1>5. \A c \in Remote :
        toWorker[c] = <<>> /\ toMaster[c] = <<>> /\ task[c] = NoTask
  BY <1>2, AllQuiet
<1>6. CASE eos
  <2>1. Reference!Ended(tokens)'
    <3>1. tokens' # <<>>
      BY <1>1, <1>4 DEF TypeOK
    <3>2. QED
      BY <1>4, <1>6, <3>1 DEF Reference!Ended
  <2>2. QED
    BY <1>1, <1>2, <1>3, <1>5, <1>6, <2>1, LeaveLoop
<1>7. CASE ~eos
  <2>1. phase' = "loop" /\ index' = index + 1 /\ blk' = blk
    BY <1>3, <1>7
  <2>2. /\ idx = indexPos /\ index < sampleLen /\ promptLen = dialog
        /\ x.n = IF index = 0 THEN dialog ELSE 1
    BY <1>2 DEF IInv, PassInv, InPass
  <2>3. /\ req > 0 /\ dialog > 0 /\ genOk /\ generated = index
        /\ Len(tokens) = index
        /\ indexPos = IF index = 0 THEN 0 ELSE dialog + index - 1
    BY <1>2 DEF IInv, GenInv
  <2>4. indexPos' = dialog + index' - 1 /\ indexPos' > 0
    BY <1>1, <1>2, <2>1, <2>2, <2>3 DEF TypeOK
  <2>5. ~Reference!Ended(tokens)'
    BY <1>4, <1>7 DEF Reference!Ended
  <2>6. GenInv'
    BY <1>1, <1>2, <1>4, <2>1, <2>2, <2>3, <2>4, <2>5
    DEF GenInv, Active, Leaving, TypeOK
  <2>7. SharedFate' /\ Quiet'
    BY <1>2, <1>5 DEF IInv, SharedFate, Quiet
  <2>8. ByeInv' /\ WaitInv' /\ PassInv' /\ LeavingKv' /\ IdleKv'
    BY <2>1 DEF ByeInv, WaitInv, PassInv, InPass, LeavingKv, Leaving, IdleKv
  <2>9. ASSUME NEW b \in Blocks
        PROVE  Expect(b)' = [req |-> req, len |-> idx + x.n]
    <3>1. Frontier' = 0 /\ ~(b < 0)
      BY <2>1, NAssumption DEF Frontier, Blocks
    <3>2. QED
      BY <1>2, <2>2, <2>4, <3>1 DEF Expect
  <2>10. LocalKv' /\ RemoteKv'
    BY <1>2, <2>9, Complete DEF LocalKv, RemoteKv, Remote, InRun
  <2>11. QED
    BY <1>1, <2>6, <2>7, <2>8, <2>10 DEF IInv
<1>8. QED
  BY <1>6, <1>7

LEMMA GoodbyeLocalStep == ASSUME IInv, GoodbyeLocal PROVE IInv'
<1>1. TypeOK' /\ TypeOK
  BY MasterType DEF IInv, Master
<1>2. /\ phase = "goodbye" /\ phase' = "goodbye" /\ blk' = blk + 1
      /\ Owner[blk] = Local
      /\ UNCHANGED <<req, gen, up, toWorker, toMaster, task, kv>>
  BY DEF GoodbyeLocal, worker
<1>3. SharedFate' /\ Quiet'
  BY <1>2 DEF IInv, SharedFate, Quiet, Awaited
<1>4. GenInv'
  BY <1>2, GenStable DEF Active, Leaving
<1>5. ByeInv' /\ WaitInv' /\ PassInv' /\ LocalKv' /\ RemoteKv' /\ IdleKv'
  BY <1>2 DEF ByeInv, WaitInv, PassInv, InPass, LocalKv, RemoteKv, Active, IdleKv
<1>6. LeavingKv'
  <2> SUFFICES ASSUME NEW c \in Remote, c < blk + 1, up[c]
               PROVE  kv[c] = NoCache
    BY <1>2 DEF LeavingKv
  <2>1. c # blk
    BY <1>2 DEF Remote
  <2>2. c \in Nat /\ blk \in Nat
    BY <1>1, NAssumption DEF Remote, Blocks, TypeOK
  <2>3. c < blk
    BY <2>1, <2>2
  <2>4. QED
    BY <1>2, <2>3 DEF IInv, LeavingKv, Leaving
<1>7. QED
  BY <1>1, <1>3, <1>4, <1>5, <1>6 DEF IInv

LEMMA GoodbyeSendStep == ASSUME IInv, GoodbyeSend PROVE IInv'
<1>1. TypeOK' /\ TypeOK
  BY MasterType DEF IInv, Master
<1>2. /\ phase = "goodbye" /\ phase' = "byewait" /\ blk \in Remote
      /\ UNCHANGED <<req, gen, blk, up, toMaster, task, kv>>
  BY <1>1, BlockIndex DEF GoodbyeSend, worker, pass, TypeOK
<1>3. \A c \in Remote :
        toWorker[c] = <<>> /\ toMaster[c] = <<>> /\ task[c] = NoTask
  BY <1>2, AllQuiet
<1>4. /\ \A c \in Remote : c # blk => toWorker'[c] = <<>>
      /\ toWorker'[blk] = IF up[blk] THEN <<GoodbyeMsg>> ELSE <<>>
  <2>1. \A m : Append(<<>>, m) = <<m>>
    OBVIOUS
  <2>2. ASSUME NEW c \in Remote
        PROVE  toWorker'[c] = IF up[blk] /\ c = blk
                                THEN Append(toWorker[c], GoodbyeMsg)
                                ELSE toWorker[c]
    BY <1>1 DEF TypeOK, GoodbyeSend
  <2>3. QED
    BY <1>2, <1>3, <2>1, <2>2
<1>5. SharedFate'
  BY <1>2 DEF IInv, SharedFate
<1>6. Quiet'
  BY <1>2, <1>3, <1>4 DEF Quiet, Awaited
<1>7. ByeInv'
  BY <1>2, <1>3, <1>4 DEF ByeInv
<1>8. GenInv'
  BY <1>2, GenStable DEF Active, Leaving
<1>9. WaitInv' /\ PassInv' /\ LocalKv' /\ RemoteKv' /\ IdleKv'
  BY <1>2 DEF WaitInv, PassInv, InPass, LocalKv, RemoteKv, Active, IdleKv
<1>10. LeavingKv'
  BY <1>2 DEF IInv, LeavingKv, Leaving
<1>11. QED
  BY <1>1, <1>5, <1>6, <1>7, <1>8, <1>9, <1>10 DEF IInv

LEMMA GoodbyeAckStep == ASSUME IInv, GoodbyeAck PROVE IInv'
<1>1. TypeOK' /\ TypeOK
  BY MasterType DEF IInv, Master
<1>2. /\ phase = "byewait" /\ phase' = "goodbye" /\ blk' = blk + 1
      /\ toMaster[blk] # <<>>
      /\ toMaster' = [toMaster EXCEPT ![blk] = Tail(@)]
      /\ UNCHANGED <<req, gen, up, toWorker, task, kv>>
  BY DEF GoodbyeAck, Receive, worker
<1>3. /\ blk \in Remote /\ task[blk] = NoTask /\ toWorker[blk] = <<>>
      /\ \E r : toMaster[blk] = <<r>>
      /\ up[blk] => kv[blk] = NoCache
  BY <1>2 DEF IInv, ByeInv
<1>4. ASSUME NEW c \in Remote
      PROVE  toWorker[c] = <<>> /\ toMaster'[c] = <<>> /\ task[c] = NoTask
  <2>1. CASE c = blk
    BY <1>1, <1>2, <1>3, <2>1 DEF TypeOK
  <2>2. CASE c # blk
    <3>1. toMaster'[c] = toMaster[c]
      BY <1>1, <1>2, <2>2 DEF TypeOK
    <3>2. QED
      BY <1>2, <2>2, <3>1 DEF IInv, Quiet, Awaited
  <2>3. QED
    BY <2>1, <2>2
<1>5. SharedFate' /\ Quiet'
  BY <1>2, <1>4 DEF IInv, SharedFate, Quiet
<1>6. GenInv'
  BY <1>2, GenStable DEF Active, Leaving
<1>7. ByeInv' /\ WaitInv' /\ PassInv' /\ LocalKv' /\ RemoteKv' /\ IdleKv'
  BY <1>2 DEF ByeInv, WaitInv, PassInv, InPass, LocalKv, RemoteKv, Active, IdleKv
<1>8. LeavingKv'
  <2> SUFFICES ASSUME NEW c \in Remote, c < blk + 1, up[c]
               PROVE  kv[c] = NoCache
    BY <1>2 DEF LeavingKv
  <2>1. c < blk \/ c = blk
    BY <1>1, NAssumption DEF Remote, Blocks, TypeOK
  <2>2. QED
    BY <1>2, <1>3, <2>1 DEF IInv, LeavingKv, Leaving
<1>9. QED
  BY <1>1, <1>5, <1>6, <1>7, <1>8 DEF IInv

LEMMA GoodbyeEndStep ==
  ASSUME IInv, GoodbyeFails \/ GoodbyeDone PROVE IInv'
<1>1. TypeOK' /\ TypeOK
  BY MasterType DEF IInv, Master
<1>2. /\ phase \in {"goodbye", "byewait"} /\ phase' = "idle"
      /\ UNCHANGED <<req, gen, blk, up, toWorker, toMaster, task, kv>>
  BY DEF GoodbyeFails, GoodbyeDone, Answer, worker, pass
<1>3. SharedFate'
  BY <1>2 DEF IInv, SharedFate
<1>4. Quiet'
  <2>1. \A c \in Remote :
          toWorker[c] = <<>> /\ toMaster[c] = <<>> /\ task[c] = NoTask
    BY <1>2 DEF GoodbyeFails, GoodbyeDone, IInv, Quiet, Awaited
  <2>2. QED
    BY <1>2, <2>1 DEF Quiet
<1>5. /\ ByeInv' /\ WaitInv' /\ PassInv' /\ LocalKv' /\ RemoteKv'
      /\ LeavingKv' /\ GenInv'
  BY <1>2 DEF ByeInv, WaitInv, PassInv, InPass, LocalKv, RemoteKv, Active,
              LeavingKv, Leaving, GenInv
<1>6. IdleKv'
  <2> SUFFICES ASSUME NEW c \in Remote, up[c]
               PROVE  kv[c] = NoCache \/ \E d \in Remote : d < c /\ ~up[d]
    BY <1>2 DEF IdleKv
  <2>1. c < blk => kv[c] = NoCache
    BY <1>2 DEF IInv, LeavingKv, Leaving
  <2>2. CASE GoodbyeFails
    <3>1. blk \in Remote /\ ~up[blk]
      BY <1>1, <2>2 DEF GoodbyeFails, TypeOK
    <3>2. c < blk \/ blk < c
      BY <3>1, NAssumption DEF Remote, Blocks
    <3>3. QED
      BY <2>1, <3>1, <3>2
  <2>3. CASE GoodbyeDone
    BY <2>1, <2>3, NAssumption DEF GoodbyeDone, Remote, Blocks
  <2>4. QED
    BY <2>2, <2>3
<1>7. QED
  BY <1>1, <1>3, <1>4, <1>5, <1>6 DEF IInv

LEMMA MasterStep == ASSUME IInv, Master PROVE IInv'
  BY BeginStep, NextTokenStep, LoopEndsStep, ErrorStep, LocalBlockStep,
     SendBatchStep, RecvTensorStep, RecvErrorStep, SampleStep,
     GoodbyeLocalStep, GoodbyeSendStep, GoodbyeAckStep, GoodbyeEndStep
  DEF Master

-----------------------------------------------------------------------------
(* Steps of a worker's task. *)

\* A task acts only on the connection the master is waiting on.
LEMMA ActsAwaited ==
  ASSUME IInv, NEW b \in Remote, toWorker[b] # <<>> \/ task[b].run
  PROVE  Awaited(b)
  BY DEF IInv, Quiet, NoTask

LEMMA HandleGoodbyeStep ==
  ASSUME IInv, NEW b \in Remote, HandleGoodbye(b) PROVE IInv'
<1>1. TypeOK' /\ TypeOK
  BY WorkerType DEF IInv, Worker
<1>2. /\ up[b] /\ toWorker[b] # <<>> /\ Head(toWorker[b]).kind = "Goodbye"
      /\ toWorker' = [toWorker EXCEPT ![b] = Tail(@)]
      /\ kv' = [kv EXCEPT ![b] = NoCache]
      /\ toMaster' = [toMaster EXCEPT ![b] =
                        Append(@, Reply("WorkerInfo", Garbage))]
      /\ UNCHANGED <<phase, req, gen, blk, up, task>>
  BY DEF HandleGoodbye, Ready, Send, master, pass
<1>3. phase = "byewait" /\ b = blk
  <2>1. Awaited(b)
    BY <1>2, ActsAwaited
  <2>2. ASSUME phase = "wait", b = first PROVE FALSE
    <3>1. OnItsWay
      BY <1>2, <2>2 DEF IInv, WaitInv, Running, Answered, Errored, Lost
    <3>2. QED
      BY <1>2, <2>2, <3>1 DEF OnItsWay, BatchMsg
  <2>3. QED
    BY <2>1, <2>2 DEF Awaited
<1>4. /\ toWorker[b] = <<GoodbyeMsg>> /\ toMaster[b] = <<>>
      /\ task[b] = NoTask
  BY <1>2, <1>3 DEF IInv, ByeInv
<1>5. /\ toWorker'[b] = <<>> /\ kv'[b] = NoCache
      /\ toMaster'[b] = <<Reply("WorkerInfo", Garbage)>>
  <2>1. \A m : Append(<<>>, m) = <<m>> /\ Tail(<<m>>) = <<>>
    OBVIOUS
  <2>2. /\ toWorker'[b] = Tail(toWorker[b]) /\ kv'[b] = NoCache
        /\ toMaster'[b] = Append(toMaster[b], Reply("WorkerInfo", Garbage))
    BY <1>1, <1>2 DEF TypeOK
  <2>3. QED
    BY <1>4, <2>1, <2>2
<1>6. \A c \in Remote : c # b => /\ toWorker'[c] = toWorker[c]
                                /\ toMaster'[c] = toMaster[c]
                                /\ kv'[c] = kv[c]
  BY <1>1, <1>2 DEF TypeOK
<1>7. SharedFate'
  BY <1>2 DEF IInv, SharedFate
<1>8. Quiet'
  BY <1>2, <1>3, <1>4, <1>5, <1>6 DEF IInv, Quiet, Awaited
<1>9. ByeInv'
  BY <1>2, <1>3, <1>4, <1>5 DEF ByeInv
<1>10. GenInv'
  BY <1>2, <1>3, GenStable DEF Active, Leaving
<1>11. WaitInv' /\ PassInv' /\ LocalKv' /\ RemoteKv' /\ IdleKv'
  BY <1>2, <1>3 DEF WaitInv, PassInv, InPass, LocalKv, RemoteKv, Active, IdleKv
<1>12. LeavingKv'
  BY <1>2, <1>3, <1>5, <1>6 DEF IInv, LeavingKv, Leaving
<1>13. QED
  BY <1>1, <1>7, <1>8, <1>9, <1>10, <1>11, <1>12 DEF IInv

LEMMA TakeBatchStep ==
  ASSUME IInv, NEW b \in Remote, TakeBatch(b) PROVE IInv'
<1>1. TypeOK' /\ TypeOK
  BY WorkerType DEF IInv, Worker
<1>2. /\ up[b] /\ toWorker[b] # <<>> /\ Head(toWorker[b]).kind = "Batch"
      /\ toWorker' = [toWorker EXCEPT ![b] = Tail(@)]
      /\ UNCHANGED <<phase, req, gen, cache, x, idx, blk, first, up, toMaster, kv>>
  BY DEF TakeBatch, Ready, master, pass
<1>3. phase = "wait" /\ b = first
  <2>1. Awaited(b)
    BY <1>2, ActsAwaited
  <2>2. ASSUME phase = "byewait", b = blk PROVE FALSE
    <3>1. toWorker[b] = <<GoodbyeMsg>>
      BY <1>2, <2>2 DEF IInv, ByeInv
    <3>2. QED
      BY <1>2, <3>1 DEF GoodbyeMsg
  <2>3. QED
    BY <2>1, <2>2 DEF Awaited
<1>4. OnItsWay
  BY <1>2, <1>3 DEF IInv, WaitInv, Running, Answered, Errored, Lost
<1>5. /\ first \in Nat /\ first < blk /\ blk \in Nat
      /\ IsRun(first, blk) /\ StartsRun(first)
  BY <1>1, <1>3, NAssumption DEF IInv, WaitInv, Remote, Blocks, TypeOK
<1>6. x.at = first
  BY <1>3 DEF IInv, PassInv, InPass
<1>7. /\ toWorker'[b] = <<>>
      /\ task'[b] = [run |-> TRUE, x |-> x, idx |-> idx, op |-> first, end |-> blk]
  <2>1. \A m : Head(<<m>>) = m /\ Tail(<<m>>) = <<>>
    OBVIOUS
  <2>2. /\ toWorker'[b] = Tail(toWorker[b])
        /\ task'[b] = LET m == Head(toWorker[b])
                      IN  [run |-> TRUE, x |-> m.x, idx |-> m.idx,
                           op |-> m.lo, end |-> m.end]
    BY <1>1, <1>2 DEF TypeOK, TakeBatch
  <2> DEFINE msg == BatchMsg(x, idx, first, blk)
  <2>3. Head(toWorker[b]) = msg /\ Tail(toWorker[b]) = <<>>
    BY <1>3, <1>4, <2>1 DEF OnItsWay
  <2>4. msg.x = x /\ msg.idx = idx /\ msg.lo = first /\ msg.end = blk
    BY DEF BatchMsg
  <2> HIDE DEF msg
  <2>5. QED
    BY <2>2, <2>3, <2>4
<1>8. \A c \in Remote : c # b => toWorker'[c] = toWorker[c] /\ task'[c] = task[c]
  BY <1>1, <1>2 DEF TypeOK, TakeBatch
<1>9. SharedFate'
  BY <1>2 DEF IInv, SharedFate
<1>10. Quiet'
  BY <1>2, <1>3, <1>8 DEF IInv, Quiet, Awaited
<1>11. WaitInv'
  <2>1. task'[first].x = [x EXCEPT !.at = task'[first].op]
    BY <1>1, <1>3, <1>6, <1>7 DEF TypeOK, Activation
  <2>2. Running'
    BY <1>2, <1>3, <1>4, <1>5, <1>7, <2>1 DEF Running, OnItsWay
  <2>3. QED
    BY <1>2, <1>3, <1>5, <2>2 DEF WaitInv, IsRun, StartsRun
<1>12. ByeInv' /\ LeavingKv' /\ IdleKv'
  BY <1>2, <1>3 DEF ByeInv, LeavingKv, Leaving, IdleKv
<1>13. GenInv'
  BY <1>2, <1>3, GenStable DEF Active, Leaving
<1>14. PassInv'
  BY <1>2, <1>3 DEF IInv, PassInv, InPass, gen
<1>15. ASSUME NEW k PROVE Expect(k)' = Expect(k)
  <2>1. Frontier = first /\ Frontier' = first
    BY <1>2, <1>3, <1>4, <1>7 DEF Frontier, OnItsWay, NoTask
  <2>2. QED
    BY <1>2, <2>1 DEF Expect, gen
<1>16. LocalKv'
  BY <1>2, <1>3, <1>15 DEF IInv, LocalKv, Active
<1>17. RemoteKv'
  <2> SUFFICES ASSUME NEW c \in Remote, NEW k \in Remote, InRun(c, k), up[c]
               PROVE  kv[c][k] = Expect(k) \/ Blocked(c)'
    BY <1>2, <1>15 DEF RemoteKv, InRun
  <2>1. ~Errored
    BY <1>4 DEF Errored, OnItsWay
  <2>2. kv[c][k] = Expect(k) \/ Blocked(c)
    BY <1>2, <1>3, <2>1 DEF IInv, RemoteKv, Active
  <2>3. Blocked(c) => Blocked(c)'
    BY <1>2 DEF Blocked
  <2>4. QED
    BY <2>2, <2>3
<1>18. QED
  BY <1>1, <1>9, <1>10, <1>11, <1>12, <1>13, <1>14, <1>16, <1>17 DEF IInv

\* A block the pass has not run yet, of a live connection, holds the prefix.
LEMMA RunningKv ==
  ASSUME IInv, phase = "wait", Running, up[first], task[first].op < blk
  PROVE  LET op == task[first].op
         IN  /\ op \in Remote /\ op \in Nat
             /\ kv[first][op] = IF idx = 0 THEN Empty
                                           ELSE [req |-> req, len |-> idx]
<1>1. /\ TypeOK /\ first \in Remote /\ first \in Nat /\ first < blk
      /\ IsRun(first, blk) /\ StartsRun(first)
  BY NAssumption DEF IInv, WaitInv, Remote, Blocks
<1>2. task[first].op \in Nat /\ first <= task[first].op
  BY <1>1 DEF TypeOK, Task, Running
<1>3. task[first].op \in Remote /\ InRun(first, task[first].op)
  BY <1>1, <1>2, RunMember
<1>4. ~Blocked(first)
  BY <1>1, NAssumption DEF Blocked, Remote, Blocks
<1>5. kv[first][task[first].op] = Expect(task[first].op)
  <2>1. RemoteKv /\ Active /\ ~Errored
    BY DEF IInv, Active, Running, Errored
  <2>2. QED
    BY <1>1, <1>3, <1>4, <2>1 DEF RemoteKv
<1>6. Frontier = task[first].op
  BY DEF Frontier, Running
<1>7. idx = indexPos
  BY DEF IInv, PassInv, InPass
<1>8. QED
  BY <1>2, <1>3, <1>5, <1>6, <1>7 DEF Expect

\* A task that moves on, to the next op or to its reply, moves the frontier
\* inside its own run: nothing changes for other connections.
LEMMA TaskMoves ==
  ASSUME IInv, TypeOK', phase = "wait", up[first],
         UNCHANGED <<phase, req, gen, cache, x, idx, blk, first, up>>,
         Frontier \in first .. blk, Frontier' \in first .. blk,
         toMaster[first] = <<>>,
         \A c \in Remote : c # first => kv'[c] = kv[c]
  PROVE  /\ LocalKv'
         /\ \A c, b \in Remote :
              InRun(c, b) /\ up[c] /\ c # first =>
                kv'[c][b] = Expect(b)' \/ Blocked(c)'
<1>1. /\ TypeOK /\ first \in Remote /\ first \in Nat /\ blk \in Nat
      /\ first < blk /\ IsRun(first, blk) /\ StartsRun(first)
  <2>1. /\ TypeOK /\ first \in Remote
        /\ first < blk /\ IsRun(first, blk) /\ StartsRun(first)
    BY DEF IInv, WaitInv
  <2>2. first \in Nat /\ blk \in Nat
    BY <2>1, NAssumption DEF Remote, Blocks, TypeOK
  <2>3. QED
    BY <2>1, <2>2
<1>2. Frontier \in Nat /\ Frontier' \in Nat
  BY <1>1
<1>3. ASSUME NEW b \in Nat, b < first \/ blk <= b
      PROVE  Expect(b)' = Expect(b)
  <2>1. (b < Frontier) = (b < Frontier)'
    BY <1>1, <1>2, <1>3
  <2>2. QED
    BY <2>1 DEF Expect, gen
<1>4. LocalKv'
  <2> SUFFICES ASSUME NEW b \in Blocks \ Remote PROVE cache'[b] = Expect(b)'
    BY DEF LocalKv
  <2>1. b \in Nat
    BY NAssumption DEF Blocks
  <2>2. b < first \/ blk <= b
    BY <1>1, <2>1, RunMember
  <2>3. QED
    BY <1>3, <2>1, <2>2 DEF IInv, LocalKv, Active
<1>5. ASSUME NEW c \in Remote, NEW b \in Remote, InRun(c, b), up[c], c # first
      PROVE  kv'[c][b] = Expect(b)' \/ Blocked(c)'
  <2>1. b \in Nat /\ (b < first \/ blk <= b)
    BY <1>1, <1>5, RunUnique, NAssumption DEF Remote, Blocks
  <2>2. kv[c][b] = Expect(b) \/ Blocked(c)
    BY <1>5 DEF IInv, RemoteKv, Active
  <2>3. ASSUME NEW d \in Remote, first <= d, ~up[d] PROVE blk <= d
    <3>1. d \in Nat
      BY NAssumption DEF Remote, Blocks
    <3>2. d < blk => InRun(first, d)
      BY <1>1, <2>3, <3>1, RunMember
    <3>3. d < blk => Owner[d] = Owner[first]
      BY <2>3, <3>1, <3>2, <1>1 DEF InRun
    <3>4. QED
      BY <1>1, <2>3, <3>1, <3>3 DEF IInv, SharedFate
  <2>4. Blocked(c) => Blocked(c)'
    BY <2>3 DEF Blocked
  <2>5. QED
    BY <1>3, <1>5, <2>1, <2>2, <2>4
<1>6. QED
  BY <1>4, <1>5

\* The master does not move, and the connections stay as they are.
LEMMA TaskKeeps ==
  ASSUME IInv, phase = "wait",
         UNCHANGED <<phase, req, gen, cache, x, idx, blk, first, up>>
  PROVE  /\ SharedFate' /\ ByeInv' /\ GenInv' /\ PassInv'
         /\ LeavingKv' /\ IdleKv'
<1>1. SharedFate' /\ ByeInv' /\ LeavingKv' /\ IdleKv'
  BY DEF IInv, SharedFate, ByeInv, LeavingKv, Leaving, IdleKv
<1>2. GenInv'
  BY GenStable DEF Active, Leaving
<1>3. PassInv'
  BY DEF IInv, PassInv, InPass, gen
<1>4. QED
  BY <1>1, <1>2, <1>3

\* While a task runs, the master waits for it.
LEMMA TaskRuns ==
  ASSUME IInv, NEW b \in Remote, task[b].run
  PROVE  /\ phase = "wait" /\ b = first /\ Running
         /\ first \in Nat /\ blk \in Nat /\ first < blk
         /\ IsRun(first, blk) /\ StartsRun(first)
         /\ task[first].op \in Nat
<1>1. Awaited(b)
  BY ActsAwaited
<1>2. phase = "wait" /\ b = first
  BY <1>1 DEF Awaited, IInv, ByeInv, NoTask
<1>3. Running
  BY <1>2 DEF IInv, WaitInv, OnItsWay, Answered, Errored, Lost, NoTask
<1>4. /\ first \in Nat /\ blk \in Nat /\ first < blk
      /\ IsRun(first, blk) /\ StartsRun(first)
  BY <1>2, NAssumption DEF IInv, WaitInv, Remote, Blocks, TypeOK
<1>5. task[first].op \in Nat
  BY <1>2 DEF IInv, TypeOK, Task
<1>6. QED
  BY <1>2, <1>3, <1>4, <1>5

LEMMA RunOpStep ==
  ASSUME IInv, NEW b \in Remote, RunOp(b) PROVE IInv'
<1>1. TypeOK' /\ TypeOK
  BY WorkerType DEF IInv, Worker
<1>2. /\ up[b] /\ task[b].run /\ task[b].op < task[b].end
      /\ UNCHANGED <<phase, req, gen, cache, x, idx, blk, first, up, toWorker,
                     toMaster>>
  BY DEF RunOp, master, pass
<1>3. /\ phase = "wait" /\ b = first /\ Running /\ first \in Nat
      /\ blk \in Nat /\ first < blk /\ IsRun(first, blk) /\ StartsRun(first)
      /\ task[first].op \in Nat
  BY <1>2, TaskRuns
<1> DEFINE t  == task[first]
           op == t.op
<1>4. /\ op < blk /\ first <= op /\ t.idx = idx /\ t.end = blk
      /\ t.x = [x EXCEPT !.at = op] /\ t \in Task
  BY <1>1, <1>2, <1>3 DEF Running, TypeOK
<1>5. op \in Remote /\ op \in Blocks
  BY <1>2, <1>3, <1>4, RunningKv DEF Remote
<1>6. /\ x \in Activation /\ idx \in Nat /\ idx = indexPos
      /\ x.req = req /\ req > 0 /\ x.pos = idx /\ x.n > 0
  <2>1. x \in Activation /\ idx \in Nat
    BY <1>1 DEF TypeOK
  <2>2. req > 0 /\ dialog > 0
    BY <1>3 DEF IInv, GenInv
  <2>3. /\ idx = indexPos
        /\ x = [req |-> req, pos |-> idx,
                n |-> IF index = 0 THEN dialog ELSE 1, at |-> first]
    BY <1>3 DEF IInv, PassInv, InPass
  <2>4. QED
    BY <2>1, <2>2, <2>3
<1>7. /\ Apply(op, kv[first][op], t.x, t.idx) = [t.x EXCEPT !.at = op + 1]
      /\ Extend(kv[first][op], t.x, t.idx) = [req |-> req, len |-> idx + x.n]
  <2>1. kv[first][op] = IF idx = 0 THEN Empty ELSE [req |-> req, len |-> idx]
    BY <1>2, <1>3, <1>4, RunningKv
  <2>2. /\ t.x \in Activation /\ t.x.req = req /\ t.x.pos = idx
        /\ t.x.at = op /\ t.x.n = x.n
    BY <1>1, <1>3, <1>4, <1>6 DEF Activation
  <2> DEFINE c == kv[first][op]
             a == t.x
  <2>3. /\ a \in Activation /\ idx \in Nat /\ op \in Nat /\ a.req > 0
        /\ a.pos = idx /\ a.at = op
        /\ c = IF idx = 0 THEN Empty ELSE [req |-> a.req, len |-> idx]
    BY <1>3, <1>6, <2>1, <2>2
  <2> HIDE DEF c, a, op
  <2>4. /\ Apply(op, c, a, idx) = [a EXCEPT !.at = op + 1]
        /\ Extend(c, a, idx) = [req |-> a.req, len |-> idx + a.n]
    BY <2>3, RightBlock
  <2>5. QED
    BY <1>4, <2>2, <2>4 DEF c, a, op
<1>8. /\ task'[first] = [t EXCEPT !.x = [t.x EXCEPT !.at = op + 1], !.op = op + 1]
      /\ \A c \in Remote : c # first => task'[c] = task[c] /\ kv'[c] = kv[c]
      /\ kv'[first] = [kv[first] EXCEPT ![op] = [req |-> req, len |-> idx + x.n]]
  <2>1. /\ task' = [task EXCEPT ![first] =
                      [t EXCEPT !.x = Apply(op, kv[first][op], t.x, t.idx),
                                !.op = op + 1]]
        /\ kv' = [kv EXCEPT ![first] =
                    [kv[first] EXCEPT ![op] = Extend(kv[first][op], t.x, t.idx)]]
    BY <1>1, <1>3 DEF RunOp, Grown, TypeOK
  <2>2. QED
    BY <1>1, <1>3, <1>7, <2>1 DEF TypeOK
<1>9. Quiet'
  <2> SUFFICES ASSUME NEW c \in Remote
               PROVE  /\ ~up'[c] => toWorker'[c] = <<>> /\ task'[c] = NoTask
                      /\ ~Awaited(c)' => /\ toWorker'[c] = <<>>
                                         /\ toMaster'[c] = <<>>
                                         /\ task'[c] = NoTask
    BY DEF Quiet
  <2>1. CASE c # first
    BY <1>2, <1>3, <1>8, <2>1 DEF IInv, Quiet, Awaited
  <2>2. CASE c = first
    BY <1>2, <1>3, <2>2 DEF Awaited
  <2>3. QED
    BY <2>1, <2>2
<1>10. /\ task'[first].op = op + 1 /\ task'[first].run
       /\ task'[first].idx = idx /\ task'[first].end = blk
       /\ task'[first].x = [x EXCEPT !.at = op + 1]
  <2>1. /\ t.run /\ t.x \in Activation
        /\ DOMAIN t = {"run", "x", "idx", "op", "end"}
    BY <1>2, <1>3, <1>4 DEF Task
  <2>2. [t.x EXCEPT !.at = op + 1] = [x EXCEPT !.at = op + 1]
    BY <1>4, <1>6 DEF Activation
  <2>3. QED
    BY <1>4, <1>8, <2>1, <2>2 DEF Task
<1>11. Running'
  BY <1>2, <1>3, <1>4, <1>10 DEF Running
<1>12. WaitInv'
  BY <1>2, <1>3, <1>11 DEF IInv, WaitInv, IsRun, StartsRun
<1>13. Frontier = op /\ Frontier' = op + 1
  BY <1>2, <1>3, <1>10 DEF Frontier, Running
<1>14. /\ LocalKv'
       /\ \A c, k \in Remote : InRun(c, k) /\ up[c] /\ c # first =>
            kv'[c][k] = Expect(k)' \/ Blocked(c)'
  BY <1>1, <1>2, <1>3, <1>4, <1>8, <1>13, TaskMoves DEF Running
<1>15. ASSUME NEW k \in Remote, InRun(first, k)
       PROVE  kv'[first][k] = Expect(k)'
  <2>1. k \in Nat /\ k \in Blocks
    BY NAssumption DEF Remote, Blocks
  <2>2. CASE k = op
    <3>1. kv'[first][k] = [req |-> req, len |-> idx + x.n]
      BY <1>1, <1>3, <1>8, <2>1, <2>2 DEF TypeOK
    <3>2. k < Frontier' /\ idx + x.n # 0
      BY <1>3, <1>6, <1>13, <2>2 DEF Activation
    <3>3. QED
      BY <1>2, <1>6, <3>1, <3>2 DEF Expect, gen
  <2>3. CASE k # op
    <3>1. (k < Frontier) = (k < Frontier)'
      BY <1>3, <1>13, <2>1, <2>3
    <3>2. Expect(k)' = Expect(k)
      BY <1>2, <3>1 DEF Expect, gen
    <3>3. ~Blocked(first) /\ ~Errored
      BY <1>3, NAssumption DEF Blocked, Remote, Blocks, Running, Errored
    <3>4. kv[first][k] = Expect(k)
      BY <1>2, <1>3, <1>15, <3>3 DEF IInv, RemoteKv, Active
    <3>5. kv'[first][k] = kv[first][k]
      BY <1>1, <1>3, <1>8, <2>1, <2>3 DEF TypeOK
    <3>6. QED
      BY <3>2, <3>4, <3>5
  <2>4. QED
    BY <2>2, <2>3
<1>16. RemoteKv'
  BY <1>2, <1>14, <1>15 DEF RemoteKv, InRun
<1>17. QED
  BY <1>1, <1>2, <1>3, <1>9, <1>12, <1>14, <1>16, TaskKeeps DEF IInv

\* The task replies, with the result or with an error, and is idle again.
LEMMA TaskEnds ==
  ASSUME IInv, NEW b \in Remote, up[b], task[b].run, TypeOK', NEW r,
         task' = [task EXCEPT ![b] = NoTask],
         Send(b, r),
         \A c \in Remote : c # b => kv'[c] = kv[c],
         \/ r = Reply("WorkerError", Garbage)
         \/ /\ r = Reply("Tensor", task[b].x) /\ task[b].op = task[b].end
            /\ kv' = kv,
         UNCHANGED <<phase, req, gen, cache, x, idx, blk, first, up, toWorker>>
  PROVE  IInv'
<1>1. TypeOK
  BY DEF IInv
<1>2. /\ phase = "wait" /\ b = first /\ Running /\ first \in Nat
      /\ blk \in Nat /\ first < blk /\ IsRun(first, blk) /\ StartsRun(first)
      /\ task[first].op \in Nat
  BY TaskRuns
<1>3. /\ toWorker[first] = <<>> /\ toMaster[first] = <<>>
      /\ task[first].op \in first .. blk
      /\ task[first].end = blk
      /\ task[first].x = [x EXCEPT !.at = task[first].op]
  BY <1>2 DEF Running
<1>4. toMaster'[first] = <<r>> /\ task'[first] = NoTask
  <2>1. \A m : Append(<<>>, m) = <<m>>
    OBVIOUS
  <2>2. toMaster'[first] = Append(toMaster[first], r) /\ task'[first] = NoTask
    BY <1>1, <1>2 DEF TypeOK, Send
  <2>3. QED
    BY <1>3, <2>1, <2>2
<1>5. \A c \in Remote : c # first => /\ toMaster'[c] = toMaster[c]
                                    /\ task'[c] = task[c]
  BY <1>1, <1>2 DEF TypeOK, Send
<1>6. Errored' \/ (Answered' /\ ~Errored' /\ kv' = kv /\ task[first].op = blk)
  <2>1. CASE r = Reply("WorkerError", Garbage)
    BY <1>3, <1>4, <2>1 DEF Errored
  <2>2. CASE r = Reply("Tensor", task[b].x) /\ task[b].op = task[b].end /\ kv' = kv
    <3>1. r = Reply("Tensor", [x EXCEPT !.at = blk])
      BY <1>2, <1>3, <2>2
    <3>2. Answered'
      BY <1>3, <1>4, <3>1 DEF Answered
    <3>3. ~Errored'
      <4>1. \A m, n : <<m>> = <<n>> => m = n
        OBVIOUS
      <4>2. r # Reply("WorkerError", Garbage)
        BY <3>1 DEF Reply
      <4>3. QED
        BY <1>4, <4>1, <4>2 DEF Errored
    <3>4. QED
      BY <1>2, <1>3, <2>2, <3>2, <3>3
  <2>3. QED
    BY <2>1, <2>2
<1>7. WaitInv'
  <2>1. /\ phase' = "wait" /\ first' \in Remote /\ first' < blk'
        /\ IsRun(first, blk)' /\ StartsRun(first)'
    BY <1>2 DEF IsRun, StartsRun
  <2>2. QED
    BY <1>6, <2>1 DEF WaitInv
<1>8. Quiet'
  <2> SUFFICES ASSUME NEW c \in Remote
               PROVE  /\ ~up'[c] => toWorker'[c] = <<>> /\ task'[c] = NoTask
                      /\ ~Awaited(c)' => /\ toWorker'[c] = <<>>
                                         /\ toMaster'[c] = <<>>
                                         /\ task'[c] = NoTask
    BY DEF Quiet
  <2>1. CASE c # first
    BY <1>2, <1>5, <2>1 DEF IInv, Quiet, Awaited
  <2>2. CASE c = first
    BY <1>2, <2>2 DEF Awaited
  <2>3. QED
    BY <2>1, <2>2
<1>9. Frontier = task[first].op /\ Frontier' = blk
  BY <1>2, <1>4 DEF Frontier, Running, NoTask
<1>10. /\ LocalKv'
       /\ \A c, k \in Remote : InRun(c, k) /\ up[c] /\ c # first =>
            kv'[c][k] = Expect(k)' \/ Blocked(c)'
  BY <1>1, <1>2, <1>3, <1>9, TaskMoves
<1>11. RemoteKv'
  <2> SUFFICES ASSUME NEW c \in Remote, NEW k \in Remote, InRun(c, k), up[c],
                      ~(c = first /\ Errored')
               PROVE  kv'[c][k] = Expect(k)' \/ Blocked(c)'
    BY <1>2 DEF RemoteKv, InRun
  <2>1. CASE c # first
    BY <1>10, <2>1
  <2>2. CASE c = first
    <3>1. kv' = kv /\ task[first].op = blk
      BY <1>6, <2>2
    <3>2. Expect(k)' = Expect(k)
      BY <1>9, <3>1 DEF Expect, gen
    <3>3. ~Blocked(first) /\ ~Errored
      BY <1>2, NAssumption DEF Blocked, Remote, Blocks, Running, Errored
    <3>4. kv[first][k] = Expect(k)
      BY <1>2, <2>2, <3>3 DEF IInv, RemoteKv, Active
    <3>5. QED
      BY <2>2, <3>1, <3>2, <3>4
  <2>3. QED
    BY <2>1, <2>2
<1>12. QED
  BY <1>2, <1>7, <1>8, <1>10, <1>11, TaskKeeps DEF IInv

LEMMA FailOpStep ==
  ASSUME IInv, NEW b \in Remote, FailOp(b) PROVE IInv'
<1>1. TypeOK' /\ TypeOK
  BY WorkerType DEF IInv, Worker
<1>2. \A c \in Remote : c # b => kv'[c] = kv[c]
  BY <1>1 DEF FailOp, Grown, TypeOK
<1>3. /\ up[b] /\ task[b].run /\ task' = [task EXCEPT ![b] = NoTask]
      /\ Send(b, Reply("WorkerError", Garbage))
      /\ UNCHANGED <<phase, req, gen, cache, x, idx, blk, first, up, toWorker>>
  BY DEF FailOp, master, pass
<1>4. QED
  BY <1>1, <1>2, <1>3, TaskEnds

LEMMA SendResultStep ==
  ASSUME IInv, NEW b \in Remote, SendResult(b) PROVE IInv'
<1>1. TypeOK' /\ TypeOK
  BY WorkerType DEF IInv, Worker
<1>2. /\ up[b] /\ task[b].run /\ task' = [task EXCEPT ![b] = NoTask]
      /\ Send(b, Reply("Tensor", task[b].x)) /\ task[b].op = task[b].end
      /\ UNCHANGED <<phase, req, gen, cache, x, idx, blk, first, up, toWorker, kv>>
  BY DEF SendResult, master, pass
<1>3. QED
  BY <1>1, <1>2, TaskEnds

LEMMA WorkerStep ==
  ASSUME IInv, NEW b \in Remote, Worker(b) PROVE IInv'
  BY HandleGoodbyeStep, TakeBatchStep, RunOpStep, FailOpStep, SendResultStep
  DEF Worker

-----------------------------------------------------------------------------
(* A worker process dies. *)

LEMMA CrashStep ==
  ASSUME IInv, NEW w \in Workers, Crash(w) PROVE IInv'
<1> DEFINE S == {c \in Remote : Owner[c] = w}
<1>1. Break(S)
  BY DEF Crash
<1>2. TypeOK' /\ TypeOK
  BY <1>1, BreakType DEF IInv
<1>3. /\ UNCHANGED <<phase, req, gen, cache, x, idx, blk, first>>
      /\ \A c \in Remote :
           IF Owner[c] = w
             THEN /\ ~up'[c] /\ toWorker'[c] = <<>> /\ task'[c] = NoTask
                  /\ toMaster'[c] \in {toMaster[c], <<>>}
             ELSE /\ up'[c] = up[c] /\ toWorker'[c] = toWorker[c]
                  /\ task'[c] = task[c] /\ toMaster'[c] = toMaster[c]
                  /\ kv'[c] = kv[c]
  <2>1. up \in [Remote -> BOOLEAN]
    BY <1>2 DEF TypeOK
  <2>2. QED
    BY <1>1, <2>1 DEF Break, master, pass
<1>4. \A c \in Remote : up'[c] => up[c] /\ Owner[c] # w
  BY <1>3
<1>5. SharedFate'
  <2>1. up' \in [Remote -> BOOLEAN]
    BY <1>2 DEF TypeOK
  <2>2. QED
    BY <1>3, <2>1 DEF IInv, SharedFate
<1>6. Quiet'
  BY <1>3 DEF IInv, Quiet, Awaited
<1>7. ByeInv'
  <2> SUFFICES ASSUME phase = "byewait" PROVE ByeInv'
    BY <1>3 DEF ByeInv
  <2>1. blk \in Remote /\ ByeInv
    BY <1>2 DEF TypeOK, IInv
  <2>2. CASE Owner[blk] = w
    BY <1>3, <2>1, <2>2 DEF ByeInv
  <2>3. CASE Owner[blk] # w
    BY <1>3, <2>1, <2>3 DEF ByeInv
  <2>4. QED
    BY <2>2, <2>3
<1>8. WaitInv'
  <2> SUFFICES ASSUME phase = "wait" PROVE WaitInv'
    BY <1>3 DEF WaitInv
  <2>1. /\ first \in Remote /\ first < blk /\ IsRun(first, blk) /\ StartsRun(first)
        /\ OnItsWay \/ Running \/ Answered \/ Errored \/ Lost
    BY DEF IInv, WaitInv
  <2>2. CASE Owner[first] = w
    <3>1. /\ ~up'[first] /\ toWorker'[first] = <<>> /\ task'[first] = NoTask
          /\ toMaster'[first] = toMaster[first] \/ toMaster'[first] = <<>>
      BY <1>3, <2>1, <2>2
    <3>2. Answered' \/ Errored' \/ Lost'
      BY <1>3, <2>1, <3>1
      DEF OnItsWay, Running, Answered, Errored, Lost
    <3>3. QED
      BY <1>3, <2>1, <3>2 DEF WaitInv, IsRun, StartsRun
  <2>3. CASE Owner[first] # w
    <3>1. /\ up'[first] = up[first] /\ toWorker'[first] = toWorker[first]
          /\ task'[first] = task[first] /\ toMaster'[first] = toMaster[first]
      BY <1>3, <2>1, <2>3
    <3>2. OnItsWay' \/ Running' \/ Answered' \/ Errored' \/ Lost'
      BY <1>3, <2>1, <3>1
      DEF OnItsWay, Running, Answered, Errored, Lost
    <3>3. QED
      BY <1>3, <2>1, <3>2 DEF WaitInv, IsRun, StartsRun
  <2>4. QED
    BY <2>2, <2>3
<1>9. GenInv'
  <2>1. CASE phase = "idle"
    BY <1>3, <2>1 DEF GenInv, Active, Leaving
  <2>2. CASE phase # "idle"
    BY <1>3, <2>2, GenStable DEF Active, Leaving
  <2>3. QED
    BY <2>1, <2>2
<1>10. PassInv'
  BY <1>3 DEF IInv, PassInv, InPass, StartsRun, gen
<1>11. LeavingKv' /\ IdleKv'
  BY <1>3, <1>4 DEF IInv, LeavingKv, Leaving, IdleKv
<1>12. ASSUME phase # "wait" \/ Owner[first] # w, Active
       PROVE  Frontier' = Frontier
  <2>1. phase = "wait" => first \in Remote
    BY <1>2 DEF TypeOK
  <2>2. QED
    BY <1>3, <1>12, <2>1 DEF Frontier
<1>13. ASSUME phase = "wait"
       PROVE  Frontier \in first .. blk /\ Frontier' \in first .. blk
  <2>1. /\ first \in Nat /\ blk \in Nat /\ first < blk /\ WaitInv /\ WaitInv'
        /\ first \in Remote /\ task[first].op \in Nat /\ task'[first].op \in Nat
    <3>1. first \in Remote /\ first < blk /\ WaitInv
      BY <1>13 DEF IInv, WaitInv
    <3>2. first \in Nat /\ blk \in Nat
      BY <1>2, NAssumption DEF TypeOK
    <3>3. task[first] \in Task /\ task'[first] \in Task
      BY <1>2, <3>1 DEF TypeOK
    <3>4. QED
      BY <1>8, <3>1, <3>2, <3>3 DEF Task
  <2>2. Frontier \in first .. blk
    BY <1>13, <2>1 DEF Frontier, WaitInv, OnItsWay, Running, Answered, Errored,
                        Lost, NoTask
  <2>3. Frontier' \in first .. blk
    BY <1>3, <1>13, <2>1
    DEF Frontier, WaitInv, OnItsWay, Running, Answered, Errored, Lost, NoTask
  <2>4. QED
    BY <2>2, <2>3
<1>14. ASSUME Active, NEW b \in Blocks,
              phase = "wait" => b < first \/ blk <= b \/ Owner[first] # w
       PROVE  Expect(b)' = Expect(b)
  <2>1. (b < Frontier) = (b < Frontier)'
    <3>1. CASE phase # "wait" \/ Owner[first] # w
      BY <1>12, <1>14, <3>1
    <3>2. CASE phase = "wait" /\ (b < first \/ blk <= b)
      <4>1. b \in Nat /\ first \in Nat /\ blk \in Nat
        BY <1>2, NAssumption DEF Blocks, TypeOK
      <4>2. QED
        BY <1>13, <3>2, <4>1
    <3>3. QED
      BY <1>14, <3>1, <3>2
  <2>2. QED
    BY <1>3, <2>1 DEF Expect, gen
<1>15. LocalKv'
  <2> SUFFICES ASSUME Active, NEW b \in Blocks \ Remote
               PROVE  cache[b] = Expect(b)'
    BY <1>3 DEF LocalKv, Active
  <2>1. phase = "wait" => b < first \/ blk <= b
    <3>1. phase = "wait" => first \in Remote /\ IsRun(first, blk) /\ StartsRun(first)
      BY DEF IInv, WaitInv
    <3>2. b \in Nat /\ first \in Nat /\ blk \in Nat
      BY <1>2, NAssumption DEF Blocks, TypeOK
    <3>3. QED
      BY <1>2, <3>1, <3>2, RunMember
  <2>2. Expect(b)' = Expect(b)
    BY <1>14, <2>1
  <2>3. QED
    BY <2>2 DEF IInv, LocalKv
<1>16. RemoteKv'
  <2> SUFFICES ASSUME Active, NEW c \in Remote, NEW b \in Remote,
                      InRun(c, b), up'[c],
                      ~(phase = "wait" /\ c = first /\ Errored')
               PROVE  kv'[c][b] = Expect(b)' \/ Blocked(c)'
    BY <1>3 DEF RemoteKv, Active, InRun
  <2>1. up[c] /\ Owner[c] # w /\ kv'[c] = kv[c] /\ b \in Blocks
    BY <1>3, <1>4 DEF Remote
  <2>2. phase = "wait" => b < first \/ blk <= b \/ Owner[first] # w
    <3>1. CASE c = first
      BY <2>1, <3>1
    <3>2. CASE c # first
      <4>1. phase = "wait" => first \in Remote /\ IsRun(first, blk) /\ StartsRun(first)
        BY DEF IInv, WaitInv
      <4>2. QED
        BY <1>2, <3>2, <4>1, RunUnique
    <3>3. QED
      BY <3>1, <3>2
  <2>3. Expect(b)' = Expect(b)
    BY <1>14, <2>1, <2>2
  <2>4. ~(phase = "wait" /\ c = first /\ Errored)
    <3>1. CASE c = first
      <4>1. /\ toWorker'[first] = toWorker[first] /\ task'[first] = task[first]
            /\ toMaster'[first] = toMaster[first]
        BY <1>3, <2>1, <3>1
      <4>2. QED
        BY <1>3, <3>1, <4>1 DEF Errored
    <3>2. QED
      BY <3>1
  <2>5. kv[c][b] = Expect(b) \/ Blocked(c)
    BY <2>1, <2>4 DEF IInv, RemoteKv
  <2>6. Blocked(c) => Blocked(c)'
    <3>1. phase = "wait" => toMaster'[first] \in {toMaster[first], <<>>}
      BY <1>2, <1>3 DEF TypeOK
    <3>2. QED
      BY <1>3, <3>1 DEF Blocked
  <2>7. QED
    BY <2>1, <2>3, <2>5, <2>6
<1>17. QED
  BY <1>2, <1>5, <1>6, <1>7, <1>8, <1>9, <1>10, <1>11, <1>15, <1>16 DEF IInv

-----------------------------------------------------------------------------
(* IInv is inductive. *)

LEMMA StutterStep == ASSUME IInv, UNCHANGED vars PROVE IInv'
<1>1. TypeOK'
  BY StutterType DEF IInv
<1>2. /\ UNCHANGED <<phase, req, gen, cache, x, idx, blk, first>>
      /\ UNCHANGED <<up, toWorker, toMaster, task, kv>>
  BY DEF vars, master, worker, pass
<1>3. SharedFate' /\ Quiet' /\ ByeInv' /\ IdleKv' /\ LeavingKv'
  BY <1>2 DEF IInv, SharedFate, Quiet, Awaited, ByeInv, IdleKv, LeavingKv, Leaving
<1>4. WaitInv'
  BY <1>2 DEF IInv, WaitInv, OnItsWay, Running, Answered, Errored, Lost,
              IsRun, StartsRun
<1>5. GenInv' /\ PassInv'
  BY <1>2 DEF IInv, GenInv, PassInv, gen, Active, Leaving, InPass, StartsRun,
              Reference!Ended
<1>6. ASSUME NEW b PROVE Expect(b)' = Expect(b)
  BY <1>2 DEF Expect, Frontier, gen
<1>7. LocalKv'
  BY <1>2, <1>6 DEF IInv, LocalKv, Active
<1>8. RemoteKv'
  <2>1. \A c : Blocked(c)' = Blocked(c)
    BY <1>2 DEF Blocked
  <2>2. Errored' = Errored
    BY <1>2 DEF Errored
  <2>3. QED
    BY <1>2, <1>6, <2>1, <2>2 DEF IInv, RemoteKv, Active, InRun
<1>9. QED
  BY <1>1, <1>3, <1>4, <1>5, <1>7, <1>8 DEF IInv

LEMMA NextIInv == IInv /\ [Next]_vars => IInv'
  BY MasterStep, WorkerStep, CrashStep, StutterStep DEF Next, AllServed

\* The inductive invariant of Inference: in every reachable state each cache
\* holds exactly what the pass in progress expects, or lies behind a dead
\* worker the pass has not reached.
THEOREM Inductive == Spec => []IInv
<1>1. QED
  BY InitIInv, NextIInv, PTL DEF Spec

-----------------------------------------------------------------------------
(* Safety properties. *)

LEMMA SoundLogitsHolds == IInv => SoundLogits
<1> SUFFICES ASSUME IInv, phase = "forward", blk = N
             PROVE  /\ x # Garbage /\ x.at = N /\ x.req = req
                    /\ x.pos + x.n = dialog + Len(tokens)
  BY DEF SoundLogits
<1>1. /\ req > 0 /\ Len(tokens) = index
      /\ indexPos = IF index = 0 THEN 0 ELSE dialog + index - 1
  BY DEF IInv, GenInv, Active
<1>2. /\ idx = indexPos
      /\ x = [req |-> req, pos |-> idx,
              n |-> IF index = 0 THEN dialog ELSE 1, at |-> blk]
  BY DEF IInv, PassInv, InPass
<1>3. index \in Nat /\ dialog \in Nat
  BY DEF IInv, TypeOK
<1>4. QED
  BY <1>1, <1>2, <1>3 DEF Garbage

\* Every token is sampled from the logits of the current request's whole prefix
\* through all blocks in order, on every cluster and under any crashes.
THEOREM SoundLogitsAlways == Spec => []SoundLogits
  BY Inductive, SoundLogitsHolds, PTL

LEMMA KvAgreesHolds == IInv => KvAgrees
<1> SUFFICES ASSUME IInv, phase = "loop", generated > 0
             PROVE  LET held == [req |-> req, len |-> indexPos]
                    IN  /\ indexPos = dialog + generated - 1
                        /\ \A b \in Blocks \ Remote : cache[b] = held
                        /\ \A c, b \in Remote :
                             InRun(c, b) /\ Reachable(c) => kv[c][b] = held
  BY DEF KvAgrees
<1>1. indexPos = dialog + generated - 1 /\ dialog > 0 /\ dialog \in Nat
      /\ generated \in Nat
  BY DEF IInv, GenInv, Active, TypeOK
<1>2. ASSUME NEW b \in Blocks
      PROVE  Expect(b) = [req |-> req, len |-> indexPos]
  <2>1. Frontier = 0 /\ ~(b < 0) /\ indexPos # 0
    BY <1>1, NAssumption DEF Frontier, Blocks
  <2>2. QED
    BY <2>1 DEF Expect
<1>3. ASSUME NEW c \in Remote, Reachable(c) PROVE up[c] /\ ~Blocked(c)
  BY <1>3, NAssumption DEF Reachable, Blocked, Remote, Blocks
<1>4. QED
  BY <1>1, <1>2, <1>3 DEF IInv, LocalKv, RemoteKv, Active, Remote

\* Between two tokens the master and every reachable worker task hold the same
\* prefix: the tokens before index_pos.
THEOREM KvAgreesAlways == Spec => []KvAgrees
  BY Inductive, KvAgreesHolds, PTL

\* At most one of: a message one way, a message the other way, a running task.
LEMMA AtMostOne ==
  ASSUME NEW p, NEW q, NEW run \in BOOLEAN,
         \/ (\E m : p = <<m>>) /\ q = <<>> /\ ~run
         \/ p = <<>> /\ (\E m : q = <<m>>) /\ ~run
         \/ p = <<>> /\ q = <<>>
  PROVE  /\ Len(p) + Len(q) + (IF run THEN 1 ELSE 0) <= 1
         /\ p = <<>> /\ q = <<>> /\ ~run =>
              Len(p) + Len(q) + (IF run THEN 1 ELSE 0) <= 0
<1>1. \A m : Len(<<m>>) = 1
  OBVIOUS
<1>2. Len(<<>>) = 0
  OBVIOUS
<1> DEFINE count == IF run THEN 1 ELSE 0
<1>3. count \in 0 .. 1 /\ (~run => count = 0)
  OBVIOUS
<1>4. \/ Len(p) = 1 /\ Len(q) = 0 /\ count = 0
      \/ Len(p) = 0 /\ Len(q) = 1 /\ count = 0
      \/ Len(p) = 0 /\ Len(q) = 0
  BY <1>1, <1>2, <1>3
<1>5. p = <<>> /\ q = <<>> /\ ~run => Len(p) = 0 /\ Len(q) = 0 /\ count = 0
  BY <1>2, <1>3
<1> HIDE DEF count
<1>6. Len(p) + Len(q) + count <= 1
  <2>1. ASSUME NEW i, NEW j, NEW k \in 0 .. 1,
               \/ i = 1 /\ j = 0 /\ k = 0
               \/ i = 0 /\ j = 1 /\ k = 0
               \/ i = 0 /\ j = 0
        PROVE  i + j + k <= 1
    BY <2>1
  <2>2. QED
    BY <1>3, <1>4, <2>1
<1>7. p = <<>> /\ q = <<>> /\ ~run => Len(p) + Len(q) + count <= 0
  BY <1>5
<1>8. QED
  BY <1>6, <1>7 DEF count

LEMMA ReplyPairedHolds == IInv => ReplyPaired
<1> SUFFICES ASSUME IInv PROVE ReplyPaired
  OBVIOUS
<1>1. \A m : Head(<<m>>) = m
  OBVIOUS
<1>2. ASSUME NEW c \in Remote
      PROVE  /\ task[c].run \in BOOLEAN
             /\ \/ /\ \E m : toWorker[c] = <<m>>
                   /\ toMaster[c] = <<>> /\ ~task[c].run
                \/ /\ toWorker[c] = <<>> /\ ~task[c].run
                   /\ \E m : toMaster[c] = <<m>>
                \/ toWorker[c] = <<>> /\ toMaster[c] = <<>>
             /\ ~Awaited(c) => /\ toWorker[c] = <<>> /\ toMaster[c] = <<>>
                               /\ ~task[c].run
  <2>1. task[c].run \in BOOLEAN
    BY DEF IInv, TypeOK, Task
  <2>2. ~NoTask.run
    BY DEF NoTask
  <2>3. CASE phase = "wait" /\ c = first
    <3>1. OnItsWay \/ Running \/ Answered \/ Errored \/ Lost
      BY <2>3 DEF IInv, WaitInv
    <3>2. QED
      BY <2>1, <2>2, <2>3, <3>1
      DEF OnItsWay, Running, Answered, Errored, Lost, Awaited
  <2>4. CASE phase = "byewait" /\ c = blk
    BY <2>1, <2>2, <2>4 DEF IInv, ByeInv, Awaited
  <2>5. CASE ~Awaited(c)
    BY <2>1, <2>2, <2>5 DEF IInv, Quiet
  <2>6. QED
    BY <2>3, <2>4, <2>5 DEF Awaited
<1>3. ASSUME NEW c \in Remote
      PROVE  Len(toWorker[c]) + Len(toMaster[c]) + (IF task[c].run THEN 1 ELSE 0)
               <= IF \/ phase = "wait" /\ c = first
                     \/ phase = "byewait" /\ c = blk THEN 1 ELSE 0
  BY <1>2, AtMostOne DEF Awaited
<1>4. ASSUME phase = "wait", toMaster[first] # <<>>
      PROVE  Head(toMaster[first]).kind # "WorkerInfo"
  BY <1>1, <1>4
  DEF IInv, WaitInv, OnItsWay, Running, Answered, Errored, Lost, Reply
<1>5. ASSUME phase = "byewait", toMaster[blk] # <<>>
      PROVE  Head(toMaster[blk]).kind = "WorkerInfo"
  BY <1>1, <1>5 DEF IInv, ByeInv, Reply
<1>6. QED
  BY <1>3, <1>4, <1>5 DEF ReplyPaired

\* A reply is always the answer to the message just sent.
THEOREM ReplyPairedAlways == Spec => []ReplyPaired
  BY Inductive, ReplyPairedHolds, PTL

LEMMA CleanHandoverHolds == IInv => CleanHandover
<1>1. ASSUME NEW c \in Remote, Reachable(c)
      PROVE  up[c] /\ ~ \E d \in Remote : d < c /\ ~up[d]
  BY <1>1, NAssumption DEF Reachable, Remote, Blocks
<1>2. QED
  BY <1>1 DEF IInv, IdleKv, CleanHandover

\* Between two requests no reachable worker task remembers the last one.
THEOREM CleanHandoverAlways == Spec => []CleanHandover
  BY Inductive, CleanHandoverHolds, PTL

LEMMA StartsCleanHolds == IInv => StartsClean
<1> SUFFICES ASSUME IInv, NEW c \in Remote, task[c].run, task[c].idx = 0,
                    NEW b \in task[c].op .. task[c].end - 1
             PROVE  kv[c][b] = Empty
  BY DEF StartsClean
<1>1. /\ phase = "wait" /\ c = first /\ Running
      /\ first \in Nat /\ blk \in Nat /\ first < blk
      /\ IsRun(first, blk) /\ StartsRun(first) /\ task[first].op \in Nat
  BY TaskRuns
<1>2. /\ b \in Nat /\ first <= b /\ b < blk /\ task[first].op <= b
      /\ task[first].op <= blk /\ idx = 0
  BY <1>1 DEF Running
<1>3. b \in Remote /\ InRun(first, b)
  BY <1>1, <1>2, RunMember DEF IInv
<1>4. up[first]
  BY <1>1 DEF IInv, Quiet, NoTask
<1>5. ~Blocked(first) /\ ~Errored
  BY <1>1, NAssumption DEF Blocked, Remote, Blocks, Errored, Running
<1>6. kv[first][b] = Expect(b)
  BY <1>1, <1>3, <1>4, <1>5 DEF IInv, RemoteKv, Active
<1>7. Frontier = task[first].op /\ indexPos = 0
  BY <1>1, <1>2 DEF Frontier, Running, IInv, PassInv, InPass
<1>8. QED
  BY <1>1, <1>2, <1>6, <1>7 DEF Expect

\* A worker that starts on a prompt finds empty caches for the blocks it runs.
THEOREM StartsCleanAlways == Spec => []StartsClean
  BY Inductive, StartsCleanHolds, PTL

-----------------------------------------------------------------------------
(* Inference implements Generation. *)

LEMMA InitRefines == Init => Reference!Init
  BY DEF Init, Reference!Init, Busy

LEMMA StepRefines == IInv /\ [Next]_vars => [Reference!Next]_(Reference!vars)
<1> SUFFICES ASSUME IInv, [Next]_vars
             PROVE  Reference!Next \/ UNCHANGED Reference!vars
  OBVIOUS
<1>1. ASSUME UNCHANGED <<req, dialog, sampleLen, tokens, answers>>,
             phase = "idle" <=> phase' = "idle"
      PROVE  UNCHANGED Reference!vars
  BY <1>1 DEF Reference!vars, Busy
<1>2. CASE Begin
  BY <1>2 DEF Begin, Reference!Next, Reference!Begin, Busy
<1>3. CASE NextToken \/ EncodeFails
  <2>1. phase = "loop"
    BY <1>3 DEF NextToken, EncodeFails
  <2>2. generated = 0 => tokens = <<>>
    BY <2>1 DEF IInv, GenInv, Active, TypeOK
  <2>3. QED
    BY <1>1, <1>3, <2>1, <2>2 DEF NextToken, EncodeFails, Fail
<1>4. CASE LoopEnds \/ LocalBlock \/ SendBatch \/ RecvTensor \/ GoodbyeLocal
           \/ GoodbyeSend \/ GoodbyeAck
  BY <1>1, <1>4 DEF LoopEnds, LocalBlock, SendBatch, RecvTensor, GoodbyeLocal,
                    GoodbyeSend, GoodbyeAck, gen
<1>5. CASE LocalFails \/ RecvError \/ RecvFails \/ SampleFails
  BY <1>1, <1>5 DEF LocalFails, RecvError, RecvFails, SampleFails, Fail
<1>6. CASE Sample
  <2>1. /\ phase = "forward" /\ blk = N /\ phase' # "idle"
        /\ UNCHANGED <<req, dialog, sampleLen, answers>>
    BY <1>6 DEF Sample
  <2>2. PICK eos \in BOOLEAN : tokens' = Append(tokens, TokenOf(x, eos))
    BY <1>6 DEF Sample
  <2>3. SoundLogits
    BY SoundLogitsHolds
  <2>4. TokenOf(x, eos) = [req |-> req, seen |-> dialog + Len(tokens), eos |-> eos]
    BY <2>1, <2>3 DEF SoundLogits, TokenOf
  <2>5. Len(tokens) < sampleLen /\ ~Reference!Ended(tokens)
    BY <2>1 DEF IInv, GenInv, PassInv, Active, InPass
  <2>6. Reference!Emit
    BY <2>1, <2>2, <2>4, <2>5 DEF Reference!Emit, Busy
  <2>7. QED
    BY <2>6 DEF Reference!Next
<1>7. CASE GoodbyeFails \/ GoodbyeDone
  <2>1. /\ phase \in {"goodbye", "byewait"} /\ phase' = "idle"
        /\ answers' = Append(answers, [ok |-> genOk, tokens |-> tokens])
        /\ UNCHANGED <<req, dialog, sampleLen, tokens>>
    BY <1>7 DEF GoodbyeFails, GoodbyeDone, Answer, gen
  <2>2. genOk \in BOOLEAN
    BY DEF IInv, TypeOK
  <2>3. genOk => Len(tokens) = sampleLen \/ Reference!Ended(tokens)
    BY <2>1 DEF IInv, GenInv, Leaving
  <2>4. Reference!Finish(genOk)
    BY <2>1, <2>3 DEF Reference!Finish, Busy
  <2>5. QED
    BY <2>2, <2>4 DEF Reference!Next
<1>8. CASE \E b \in Remote : Worker(b)
  BY <1>1, <1>8 DEF Worker, HandleGoodbye, TakeBatch, RunOp, FailOp, SendResult,
                    master, gen
<1>9. CASE \E w \in Workers : Crash(w)
  BY <1>1, <1>9 DEF Crash, Break, master, gen
<1>10. CASE UNCHANGED vars
  BY <1>1, <1>10 DEF vars, master, gen
<1>11. QED
  BY <1>2, <1>3, <1>4, <1>5, <1>6, <1>7, <1>8, <1>9, <1>10
  DEF Next, Master, AllServed

\* Text is generated as if one process held the whole model: wherever the
\* blocks live and whatever crashes, every token is computed from its own
\* request, and a request answered as a success was served to the end.
THEOREM Implements == Spec => SingleProcess
  BY Inductive, InitRefines, StepRefines, PTL
  DEF Spec, SingleProcess, Reference!Spec

-----------------------------------------------------------------------------
(* Connections that break one by one. *)

\* A stream holding one message.
LEMMA OneMessage ==
  ASSUME NEW M, NEW q \in Seq(M), Len(q) = 1
  PROVE  q # <<>> /\ Tail(q) = <<>> /\ \E m : q = <<m>>
<1>1. q = <<q[1]>>
  OBVIOUS
<1>2. \A m : <<m>> # <<>> /\ Tail(<<m>>) = <<>>
  OBVIOUS
<1>3. QED
  BY <1>1, <1>2

LEMMA InitLossy == Init => LossyInv
<1>1. Init => TypeOK
  BY InitType
<1>2. Init => Quiet /\ ByeInv /\ OneBatch /\ LeavingKv /\ CleanHandover
  BY DEF Init, Quiet, ByeInv, OneBatch, LeavingKv, Leaving, CleanHandover
<1>3. QED
  BY <1>1, <1>2 DEF LossyInv

\* A step of the master that waits for no reply and leaves nothing under way.
LEMMA LossyMoves ==
  ASSUME LossyInv, TypeOK', phase' \in {"loop", "forward", "goodbye"},
         phase' = "goodbye" => blk' = 0, UNCHANGED <<up, toWorker, task, kv>>,
         \A c \in Remote : /\ toWorker[c] = <<>> /\ task[c] = NoTask
                           /\ toMaster'[c] = <<>>
  PROVE  LossyInv'
<1>1. Quiet'
  BY DEF Quiet
<1>2. ByeInv' /\ OneBatch' /\ CleanHandover'
  BY DEF ByeInv, OneBatch, CleanHandover
<1>3. LeavingKv'
  BY DEF LeavingKv, Leaving, Remote, Blocks
<1>4. QED
  BY <1>1, <1>2, <1>3 DEF LossyInv

\* Outside a wait nothing is under way.
LEMMA LossyQuiet ==
  ASSUME LossyInv, phase \notin {"wait", "byewait"}, NEW c \in Remote
  PROVE  toWorker[c] = <<>> /\ toMaster[c] = <<>> /\ task[c] = NoTask
  BY DEF LossyInv, Quiet, Awaited

LEMMA LossyComputes ==
  ASSUME LossyInv,
         \/ Begin \/ NextToken \/ EncodeFails \/ LoopEnds \/ LocalBlock
         \/ LocalFails \/ Sample \/ SampleFails
  PROVE  LossyInv'
<1>1. TypeOK'
  BY MasterType DEF LossyInv, Master
<1>2. /\ phase \notin {"wait", "byewait"}
      /\ phase' \in {"loop", "forward", "goodbye"}
      /\ phase' = "goodbye" => blk' = 0
      /\ UNCHANGED <<up, toWorker, toMaster, task, kv>>
  <2>1. CASE Begin
    BY <2>1 DEF Begin, worker
  <2>2. CASE NextToken \/ LocalBlock
    BY <2>2 DEF NextToken, LocalBlock, worker
  <2>3. CASE EncodeFails \/ LoopEnds \/ LocalFails \/ SampleFails
    BY <2>3 DEF EncodeFails, LoopEnds, LocalFails, SampleFails, Fail, worker
  <2>4. CASE Sample
    BY <2>4 DEF Sample, worker
  <2>5. QED
    BY <2>1, <2>2, <2>3, <2>4
<1>3. QED
  BY <1>1, <1>2, LossyQuiet, LossyMoves

LEMMA LossyReceives ==
  ASSUME LossyInv, RecvTensor \/ RecvError \/ RecvFails PROVE LossyInv'
<1>1. TypeOK' /\ TypeOK
  BY MasterType DEF LossyInv, Master
<1>2. /\ phase = "wait" /\ phase' \in {"forward", "goodbye"}
      /\ phase' = "goodbye" => blk' = 0
      /\ UNCHANGED <<up, toWorker, task, kv>>
  BY DEF RecvTensor, RecvError, RecvFails, Fail, worker
<1>3. first \in Remote /\ toMaster[first] \in Seq(Response)
  BY <1>1, <1>2 DEF TypeOK
<1>4. /\ toWorker[first] = <<>> /\ task[first] = NoTask
      /\ toMaster'[first] = <<>>
  <2>1. CASE RecvTensor \/ RecvError
    <3>1. toMaster[first] # <<>> /\ toMaster'[first] = Tail(toMaster[first])
      BY <1>1, <1>3, <2>1 DEF RecvTensor, RecvError, Receive, TypeOK
    <3>2. /\ task[first] = NoTask /\ toWorker[first] = <<>>
          /\ Len(toMaster[first]) = 1
      BY <1>2, <3>1 DEF LossyInv, OneBatch
    <3>3. QED
      BY <1>3, <3>1, <3>2, OneMessage
  <2>2. CASE RecvFails
    <3>1. toMaster[first] = <<>> /\ ~up[first] /\ toMaster' = toMaster
      BY <2>2 DEF RecvFails
    <3>2. QED
      BY <1>3, <3>1 DEF LossyInv, Quiet
  <2>3. QED
    BY <2>1, <2>2
<1>5. ASSUME NEW c \in Remote, c # first
      PROVE  toWorker[c] = <<>> /\ task[c] = NoTask /\ toMaster'[c] = <<>>
  <2>1. toWorker[c] = <<>> /\ task[c] = NoTask /\ toMaster[c] = <<>>
    BY <1>2, <1>5 DEF LossyInv, Quiet, Awaited
  <2>2. toMaster'[c] = toMaster[c]
    BY <1>1, <1>5 DEF RecvTensor, RecvError, RecvFails, Receive, TypeOK
  <2>3. QED
    BY <2>1, <2>2
<1>6. QED
  BY <1>1, <1>2, <1>4, <1>5, LossyMoves

LEMMA LossySends == ASSUME LossyInv, SendBatch PROVE LossyInv'
<1>1. TypeOK' /\ TypeOK
  BY MasterType DEF LossyInv, Master
<1>2. /\ phase = "forward" /\ phase' = "wait" /\ first' = blk
      /\ blk \in Remote /\ UNCHANGED <<up, toMaster, task, kv>>
  BY <1>1, BlockIndex DEF SendBatch, worker, TypeOK
<1>3. \A c \in Remote :
        toWorker[c] = <<>> /\ toMaster[c] = <<>> /\ task[c] = NoTask
  BY <1>2, LossyQuiet
<1>4. /\ \A c \in Remote : c # blk => toWorker'[c] = <<>>
      /\ IF up[blk] THEN /\ Len(toWorker'[blk]) = 1
                         /\ Head(toWorker'[blk]).kind = "Batch"
                    ELSE toWorker'[blk] = <<>>
  <2> PICK m : /\ m.kind = "Batch"
               /\ toWorker' = IF up[blk]
                                THEN [toWorker EXCEPT ![blk] = Append(@, m)]
                                ELSE toWorker
    <3>1. PICK end : toWorker' = IF up[blk]
                          THEN [toWorker EXCEPT ![blk] =
                                  Append(@, BatchMsg(x, idx, blk, end))]
                          ELSE toWorker
      BY DEF SendBatch
    <3>2. BatchMsg(x, idx, blk, end).kind = "Batch"
      BY DEF BatchMsg
    <3> HIDE DEF BatchMsg
    <3>3. QED
      BY <3>1, <3>2
  <2>1. Append(<<>>, m) = <<m>> /\ Len(<<m>>) = 1 /\ Head(<<m>>) = m
    OBVIOUS
  <2>2. ASSUME NEW c \in Remote
        PROVE  toWorker'[c] = IF up[blk] /\ c = blk THEN Append(toWorker[c], m)
                                                    ELSE toWorker[c]
    BY <1>1 DEF TypeOK
  <2>3. \A c \in Remote : toWorker'[c] = IF up[blk] /\ c = blk THEN <<m>> ELSE <<>>
    BY <1>3, <2>1, <2>2
  <2>4. QED
    BY <1>2, <2>1, <2>3
<1>5. Quiet'
  BY <1>2, <1>3, <1>4 DEF Quiet, Awaited
<1>6. OneBatch'
  BY <1>2, <1>3, <1>4 DEF OneBatch
<1>7. ByeInv' /\ LeavingKv' /\ CleanHandover'
  BY <1>2 DEF ByeInv, LeavingKv, Leaving, CleanHandover
<1>8. QED
  BY <1>1, <1>5, <1>6, <1>7 DEF LossyInv

LEMMA LossyGoodbyes ==
  ASSUME LossyInv, GoodbyeLocal \/ GoodbyeSend PROVE LossyInv'
<1>1. TypeOK' /\ TypeOK
  BY MasterType DEF LossyInv, Master
<1>2. /\ phase = "goodbye" /\ UNCHANGED <<up, toMaster, task, kv>>
      /\ blk \in Nat /\ \A c \in Remote : c \in Nat
  BY <1>1, NAssumption DEF GoodbyeLocal, GoodbyeSend, worker, TypeOK, Remote, Blocks
<1>3. \A c \in Remote :
        toWorker[c] = <<>> /\ toMaster[c] = <<>> /\ task[c] = NoTask
  BY <1>2, LossyQuiet
<1>4. CASE GoodbyeLocal
  <2>1. phase' = "goodbye" /\ blk' = blk + 1 /\ blk \notin Remote
        /\ toWorker' = toWorker
    BY <1>4 DEF GoodbyeLocal, Remote
  <2>2. Quiet'
    BY <1>2, <1>3, <2>1 DEF Quiet
  <2>3. LeavingKv'
    <3>1. ASSUME NEW c \in Remote, c < blk + 1 PROVE c < blk
      BY <1>2, <2>1, <3>1
    <3>2. QED
      BY <1>2, <2>1, <3>1 DEF LossyInv, LeavingKv, Leaving
  <2>4. ByeInv' /\ OneBatch' /\ CleanHandover'
    BY <2>1 DEF ByeInv, OneBatch, CleanHandover
  <2>5. QED
    BY <1>1, <2>2, <2>3, <2>4 DEF LossyInv
<1>5. CASE GoodbyeSend
  <2>1. phase' = "byewait" /\ blk' = blk /\ blk \in Remote
    BY <1>1, <1>5, BlockIndex DEF GoodbyeSend, pass, TypeOK
  <2>2. /\ \A c \in Remote : c # blk => toWorker'[c] = <<>>
        /\ toWorker'[blk] = IF up[blk] THEN <<GoodbyeMsg>> ELSE <<>>
    <3>1. \A m : Append(<<>>, m) = <<m>>
      OBVIOUS
    <3>2. ASSUME NEW c \in Remote
          PROVE  toWorker'[c] = IF up[blk] /\ c = blk
                                  THEN Append(toWorker[c], GoodbyeMsg)
                                  ELSE toWorker[c]
      BY <1>1, <1>5 DEF TypeOK, GoodbyeSend
    <3>3. QED
      BY <1>3, <2>1, <3>1, <3>2
  <2>3. Quiet'
    BY <1>2, <1>3, <2>1, <2>2 DEF Quiet, Awaited
  <2>4. ByeInv'
    BY <1>2, <1>3, <2>1, <2>2 DEF ByeInv
  <2>5. OneBatch' /\ CleanHandover' /\ LeavingKv'
    BY <1>2, <2>1 DEF OneBatch, CleanHandover, LossyInv, LeavingKv, Leaving
  <2>6. QED
    BY <1>1, <2>3, <2>4, <2>5 DEF LossyInv
<1>6. QED
  BY <1>4, <1>5

LEMMA LossyAck == ASSUME LossyInv, GoodbyeAck PROVE LossyInv'
<1>1. TypeOK' /\ TypeOK
  BY MasterType DEF LossyInv, Master
<1>2. /\ phase = "byewait" /\ phase' = "goodbye" /\ blk' = blk + 1
      /\ toMaster[blk] # <<>>
      /\ toMaster' = [toMaster EXCEPT ![blk] = Tail(@)]
      /\ UNCHANGED <<up, toWorker, task, kv>>
  BY DEF GoodbyeAck, Receive, worker
<1>3. /\ blk \in Remote /\ task[blk] = NoTask /\ toWorker[blk] = <<>>
      /\ \E r : toMaster[blk] = <<r>>
      /\ up[blk] => kv[blk] = NoCache
  BY <1>2 DEF LossyInv, ByeInv
<1>4. ASSUME NEW c \in Remote
      PROVE  toWorker[c] = <<>> /\ toMaster'[c] = <<>> /\ task[c] = NoTask
  <2>1. CASE c = blk
    BY <1>1, <1>2, <1>3, <2>1 DEF TypeOK
  <2>2. CASE c # blk
    <3>1. toMaster'[c] = toMaster[c]
      BY <1>1, <1>2, <2>2 DEF TypeOK
    <3>2. QED
      BY <1>2, <2>2, <3>1 DEF LossyInv, Quiet, Awaited
  <2>3. QED
    BY <2>1, <2>2
<1>5. Quiet'
  BY <1>2, <1>4 DEF Quiet
<1>6. ByeInv' /\ OneBatch' /\ CleanHandover'
  BY <1>2 DEF ByeInv, OneBatch, CleanHandover
<1>7. LeavingKv'
  <2> SUFFICES ASSUME NEW c \in Remote, c < blk + 1, up[c]
               PROVE  kv[c] = NoCache
    BY <1>2 DEF LeavingKv
  <2>1. c < blk \/ c = blk
    BY <1>1, NAssumption DEF Remote, Blocks, TypeOK
  <2>2. QED
    BY <1>2, <1>3, <2>1 DEF LossyInv, LeavingKv, Leaving
<1>8. QED
  BY <1>1, <1>5, <1>6, <1>7 DEF LossyInv

\* The lock is released: every connection that is up and was reached is clean.
LEMMA LossyEnds ==
  ASSUME LossyInv, GoodbyeFails \/ GoodbyeDone PROVE LossyInv'
<1>1. TypeOK' /\ TypeOK
  BY MasterType DEF LossyInv, Master
<1>2. /\ phase \in {"goodbye", "byewait"} /\ phase' = "idle"
      /\ UNCHANGED <<blk, up, toWorker, toMaster, task, kv>>
  BY DEF GoodbyeFails, GoodbyeDone, Answer, worker, pass
<1>3. Quiet'
  <2>1. \A c \in Remote :
          toWorker[c] = <<>> /\ toMaster[c] = <<>> /\ task[c] = NoTask
    BY <1>2 DEF GoodbyeFails, GoodbyeDone, LossyInv, Quiet, Awaited
  <2>2. QED
    BY <1>2, <2>1 DEF Quiet
<1>4. ByeInv' /\ OneBatch' /\ LeavingKv'
  BY <1>2 DEF ByeInv, OneBatch, LeavingKv, Leaving
<1>5. CleanHandover'
  <2> SUFFICES ASSUME NEW c \in Remote, Reachable(c) PROVE kv[c] = NoCache
    BY <1>2 DEF CleanHandover, Reachable
  <2>1. up[c] /\ c \in Nat
    BY NAssumption DEF Reachable, Remote, Blocks
  <2>2. c < blk => kv[c] = NoCache
    BY <1>2, <2>1 DEF LossyInv, LeavingKv, Leaving
  <2>3. CASE GoodbyeFails
    <3>1. blk \in Remote /\ ~up[blk] /\ blk \in Nat
      BY <1>1, <2>3, NAssumption DEF GoodbyeFails, TypeOK, Remote, Blocks
    <3>2. ~(blk <= c)
      BY <3>1 DEF Reachable
    <3>3. QED
      BY <2>1, <2>2, <3>1, <3>2
  <2>4. CASE GoodbyeDone
    BY <2>2, <2>4, NAssumption DEF GoodbyeDone, Remote, Blocks
  <2>5. QED
    BY <2>3, <2>4
<1>6. QED
  BY <1>1, <1>3, <1>4, <1>5 DEF LossyInv

LEMMA LossyMaster == ASSUME LossyInv, Master PROVE LossyInv'
  BY LossyComputes, LossyReceives, LossySends, LossyGoodbyes, LossyAck, LossyEnds
  DEF Master

\* A task acts only on the connection the master is waiting on.
LEMMA LossyActs ==
  ASSUME LossyInv, NEW b \in Remote, toWorker[b] # <<>> \/ task[b].run
  PROVE  Awaited(b)
  BY DEF LossyInv, Quiet, NoTask

LEMMA LossyHandles ==
  ASSUME LossyInv, NEW b \in Remote, HandleGoodbye(b) PROVE LossyInv'
<1>1. TypeOK' /\ TypeOK
  BY WorkerType DEF LossyInv, Worker
<1>2. /\ up[b] /\ toWorker[b] # <<>> /\ Head(toWorker[b]).kind = "Goodbye"
      /\ toWorker' = [toWorker EXCEPT ![b] = Tail(@)]
      /\ kv' = [kv EXCEPT ![b] = NoCache]
      /\ toMaster' = [toMaster EXCEPT ![b] =
                        Append(@, Reply("WorkerInfo", Garbage))]
      /\ UNCHANGED <<phase, blk, first, up, task>>
  BY DEF HandleGoodbye, Ready, Send, master, pass
<1>3. phase = "byewait" /\ b = blk
  <2>1. Awaited(b)
    BY <1>2, LossyActs
  <2>2. ASSUME phase = "wait", b = first PROVE FALSE
    BY <1>2, <2>2 DEF LossyInv, OneBatch
  <2>3. QED
    BY <2>1, <2>2 DEF Awaited
<1>4. /\ toWorker[b] = <<GoodbyeMsg>> /\ toMaster[b] = <<>>
      /\ task[b] = NoTask
  BY <1>2, <1>3 DEF LossyInv, ByeInv
<1>5. /\ toWorker'[b] = <<>> /\ kv'[b] = NoCache
      /\ toMaster'[b] = <<Reply("WorkerInfo", Garbage)>>
  <2>1. \A m : Append(<<>>, m) = <<m>> /\ Tail(<<m>>) = <<>>
    OBVIOUS
  <2>2. /\ toWorker'[b] = Tail(toWorker[b]) /\ kv'[b] = NoCache
        /\ toMaster'[b] = Append(toMaster[b], Reply("WorkerInfo", Garbage))
    BY <1>1, <1>2 DEF TypeOK
  <2>3. QED
    BY <1>4, <2>1, <2>2
<1>6. \A c \in Remote : c # b => /\ toWorker'[c] = toWorker[c]
                                /\ toMaster'[c] = toMaster[c]
                                /\ kv'[c] = kv[c]
  BY <1>1, <1>2 DEF TypeOK
<1>7. Quiet'
  BY <1>2, <1>3, <1>4, <1>5, <1>6 DEF LossyInv, Quiet, Awaited
<1>8. ByeInv'
  BY <1>2, <1>3, <1>4, <1>5 DEF ByeInv
<1>9. OneBatch' /\ CleanHandover'
  BY <1>2, <1>3 DEF OneBatch, CleanHandover
<1>10. LeavingKv'
  BY <1>2, <1>3, <1>5, <1>6 DEF LossyInv, LeavingKv, Leaving
<1>11. QED
  BY <1>1, <1>7, <1>8, <1>9, <1>10 DEF LossyInv

LEMMA LossyTakes ==
  ASSUME LossyInv, NEW b \in Remote, TakeBatch(b) PROVE LossyInv'
<1>1. TypeOK' /\ TypeOK
  BY WorkerType DEF LossyInv, Worker
<1>2. /\ up[b] /\ toWorker[b] # <<>> /\ Head(toWorker[b]).kind = "Batch"
      /\ toWorker' = [toWorker EXCEPT ![b] = Tail(@)]
      /\ UNCHANGED <<phase, blk, first, up, toMaster, kv>>
  BY DEF TakeBatch, Ready, master, pass
<1>3. phase = "wait" /\ b = first
  <2>1. Awaited(b)
    BY <1>2, LossyActs
  <2>2. ASSUME phase = "byewait", b = blk PROVE FALSE
    <3>1. toWorker[b] = <<GoodbyeMsg>>
      BY <1>2, <2>2 DEF LossyInv, ByeInv
    <3>2. QED
      BY <1>2, <3>1 DEF GoodbyeMsg
  <2>3. QED
    BY <2>1, <2>2 DEF Awaited
<1>4. toMaster[b] = <<>> /\ Len(toWorker[b]) = 1 /\ toWorker[b] \in Seq(Request)
  BY <1>1, <1>2, <1>3 DEF LossyInv, OneBatch, TypeOK
<1>5. toWorker'[b] = <<>> /\ task'[b].run
  <2>1. toWorker'[b] = Tail(toWorker[b]) /\ task'[b].run
    BY <1>1, <1>2 DEF TypeOK, TakeBatch
  <2>2. QED
    BY <1>4, <2>1, OneMessage
<1>6. \A c \in Remote : c # b => toWorker'[c] = toWorker[c] /\ task'[c] = task[c]
  BY <1>1, <1>2 DEF TypeOK, TakeBatch
<1>7. Quiet'
  BY <1>2, <1>3, <1>5, <1>6 DEF LossyInv, Quiet, Awaited
<1>8. OneBatch'
  BY <1>2, <1>3, <1>4, <1>5 DEF OneBatch
<1>9. ByeInv' /\ LeavingKv' /\ CleanHandover'
  BY <1>2, <1>3 DEF ByeInv, LeavingKv, Leaving, CleanHandover
<1>10. QED
  BY <1>1, <1>7, <1>8, <1>9 DEF LossyInv

\* A batch runs on the connection it was sent over.
LEMMA LossyRunning ==
  ASSUME LossyInv, NEW b \in Remote, task[b].run
  PROVE  /\ phase = "wait" /\ b = first
         /\ toWorker[b] = <<>> /\ toMaster[b] = <<>>
<1>1. Awaited(b)
  BY LossyActs
<1>2. ~NoTask.run
  BY DEF NoTask
<1>3. ~(phase = "byewait" /\ b = blk)
  BY <1>2 DEF LossyInv, ByeInv
<1>4. QED
  BY <1>1, <1>2, <1>3 DEF Awaited, LossyInv, OneBatch

LEMMA LossyRuns ==
  ASSUME LossyInv, NEW b \in Remote, RunOp(b) \/ FailOp(b) \/ SendResult(b)
  PROVE  LossyInv'
<1>1. TypeOK' /\ TypeOK
  BY WorkerType DEF LossyInv, Worker
<1>2. /\ up[b] /\ task[b].run
      /\ UNCHANGED <<phase, blk, first, up, toWorker>>
  BY DEF RunOp, FailOp, SendResult, master, pass
<1>3. phase = "wait" /\ b = first /\ toWorker[b] = <<>> /\ toMaster[b] = <<>>
  BY <1>2, LossyRunning
<1>4. /\ \A c \in Remote : c # b => /\ toMaster'[c] = toMaster[c]
                                    /\ task'[c] = task[c]
      /\ \/ task'[b].run /\ toMaster'[b] = <<>>
         \/ \E r : /\ task'[b] = NoTask /\ toMaster'[b] = <<r>>
                   /\ r.kind # "WorkerInfo"
  <2>1. CASE RunOp(b)
    <3>1. task[b] \in Task
      BY <1>1 DEF TypeOK
    <3>2. task'[b].run
      BY <1>1, <1>2, <2>1, <3>1 DEF TypeOK, RunOp, Task
    <3>3. QED
      BY <1>1, <1>3, <2>1, <3>2 DEF TypeOK, RunOp
  <2>2. CASE FailOp(b) \/ SendResult(b)
    <3>1. PICK r : /\ r.kind # "WorkerInfo"
                   /\ toMaster' = [toMaster EXCEPT ![b] = Append(@, r)]
                   /\ task' = [task EXCEPT ![b] = NoTask]
      <4>1. /\ Reply("WorkerError", Garbage).kind # "WorkerInfo"
            /\ Reply("Tensor", task[b].x).kind # "WorkerInfo"
        BY DEF Reply
      <4> HIDE DEF Reply
      <4>2. QED
        BY <2>2, <4>1 DEF FailOp, SendResult, Send
    <3>2. Append(<<>>, r) = <<r>>
      OBVIOUS
    <3>3. QED
      BY <1>1, <1>3, <3>1, <3>2 DEF TypeOK
  <2>3. QED
    BY <2>1, <2>2
<1>5. Quiet'
  BY <1>2, <1>3, <1>4 DEF LossyInv, Quiet, Awaited
<1>6. OneBatch'
  <2>1. \A r : Len(<<r>>) = 1 /\ Head(<<r>>) = r
    OBVIOUS
  <2>2. QED
    BY <1>2, <1>3, <1>4, <2>1 DEF OneBatch
<1>7. ByeInv' /\ LeavingKv' /\ CleanHandover'
  BY <1>2, <1>3 DEF ByeInv, LeavingKv, Leaving, CleanHandover
<1>8. QED
  BY <1>1, <1>5, <1>6, <1>7 DEF LossyInv

LEMMA LossyWorker ==
  ASSUME LossyInv, NEW b \in Remote, Worker(b) PROVE LossyInv'
  BY LossyHandles, LossyTakes, LossyRuns DEF Worker

\* Any set of connections may break at any time.
LEMMA LossyBreaks == ASSUME LossyInv, NEW S, Break(S) PROVE LossyInv'
<1>1. TypeOK' /\ TypeOK
  BY BreakType DEF LossyInv
<1>2. /\ UNCHANGED <<phase, blk, first>>
      /\ \A c \in Remote :
           IF c \in S
             THEN /\ ~up'[c] /\ toWorker'[c] = <<>> /\ task'[c] = NoTask
                  /\ toMaster'[c] \in {toMaster[c], <<>>}
             ELSE /\ up'[c] = up[c] /\ toWorker'[c] = toWorker[c]
                  /\ task'[c] = task[c] /\ toMaster'[c] = toMaster[c]
                  /\ kv'[c] = kv[c]
  <2>1. up \in [Remote -> BOOLEAN]
    BY <1>1 DEF TypeOK
  <2>2. QED
    BY <2>1 DEF Break, master, pass
<1>3. \A c \in Remote : up'[c] => up[c] /\ kv'[c] = kv[c]
  BY <1>2
<1>4. Quiet'
  BY <1>2 DEF LossyInv, Quiet, Awaited
<1>5. ByeInv'
  <2> SUFFICES ASSUME phase = "byewait" PROVE ByeInv'
    BY <1>2 DEF ByeInv
  <2>1. blk \in Remote /\ ByeInv
    BY <1>1 DEF TypeOK, LossyInv
  <2>2. CASE blk \in S
    BY <1>2, <2>1, <2>2 DEF ByeInv
  <2>3. CASE blk \notin S
    BY <1>2, <2>1, <2>3 DEF ByeInv
  <2>4. QED
    BY <2>2, <2>3
<1>6. OneBatch'
  <2> SUFFICES ASSUME phase = "wait" PROVE OneBatch'
    BY <1>2 DEF OneBatch
  <2>1. first \in Remote /\ OneBatch
    BY <1>1 DEF TypeOK, LossyInv
  <2>2. CASE first \in S
    <3>1. \/ task[first].run /\ toMaster[first] = <<>>
          \/ toMaster[first] = <<>>
          \/ /\ Len(toMaster[first]) = 1
             /\ Head(toMaster[first]).kind # "WorkerInfo"
      BY <2>1 DEF OneBatch
    <3>2. QED
      BY <1>2, <2>1, <2>2, <3>1 DEF OneBatch
  <2>3. CASE first \notin S
    BY <1>2, <2>1, <2>3 DEF OneBatch
  <2>4. QED
    BY <2>2, <2>3
<1>7. LeavingKv'
  BY <1>2, <1>3 DEF LossyInv, LeavingKv, Leaving
<1>8. CleanHandover'
  <2> SUFFICES ASSUME phase = "idle", NEW c \in Remote,
                      \A d \in Remote : d <= c => up'[d]
               PROVE  kv'[c] = NoCache
    BY <1>2 DEF CleanHandover, Reachable
  <2>1. c <= c
    BY NAssumption DEF Remote, Blocks
  <2>2. Reachable(c)
    BY <1>3 DEF Reachable
  <2>3. QED
    BY <1>3, <2>1, <2>2 DEF LossyInv, CleanHandover
<1>9. QED
  BY <1>1, <1>4, <1>5, <1>6, <1>7, <1>8 DEF LossyInv

LEMMA LossyStutter == ASSUME LossyInv, UNCHANGED vars PROVE LossyInv'
<1>1. TypeOK'
  BY StutterType DEF LossyInv
<1>2. UNCHANGED <<phase, blk, first, up, toWorker, toMaster, task, kv>>
  BY DEF vars, master, pass, worker
<1>3. Quiet' /\ ByeInv' /\ OneBatch'
  BY <1>2 DEF LossyInv, Quiet, Awaited, ByeInv, OneBatch
<1>4. LeavingKv' /\ CleanHandover'
  BY <1>2 DEF LossyInv, LeavingKv, Leaving, CleanHandover, Reachable
<1>5. QED
  BY <1>1, <1>3, <1>4 DEF LossyInv

LEMMA NextLossy == LossyInv /\ [LossyNext]_vars => LossyInv'
<1> SUFFICES ASSUME LossyInv, [LossyNext]_vars PROVE LossyInv'
  OBVIOUS
<1>1. CASE Master
  BY <1>1, LossyMaster
<1>2. CASE \E b \in Remote : Worker(b)
  BY <1>2, LossyWorker
<1>3. CASE \E w \in Workers : Crash(w)
  BY <1>3, LossyBreaks DEF Crash
<1>4. CASE \E b \in Remote : ConnLost(b)
  BY <1>4, LossyBreaks DEF ConnLost
<1>5. CASE AllServed \/ UNCHANGED vars
  BY <1>5, LossyStutter DEF AllServed
<1>6. QED
  BY <1>1, <1>2, <1>3, <1>4, <1>5 DEF LossyNext, Next

\* However connections break, at most one message is under way, and what it is
\* fits what the master waits for.
LEMMA LossyReplies == LossyInv => ReplyPaired
<1> SUFFICES ASSUME LossyInv PROVE ReplyPaired
  OBVIOUS
<1>1. \A m : Head(<<m>>) = m
  OBVIOUS
<1>2. ~NoTask.run
  BY DEF NoTask
<1>3. ASSUME NEW c \in Remote
      PROVE  /\ task[c].run \in BOOLEAN
             /\ \/ /\ \E m : toWorker[c] = <<m>>
                   /\ toMaster[c] = <<>> /\ ~task[c].run
                \/ /\ toWorker[c] = <<>> /\ ~task[c].run
                   /\ \E m : toMaster[c] = <<m>>
                \/ toWorker[c] = <<>> /\ toMaster[c] = <<>>
             /\ ~Awaited(c) => /\ toWorker[c] = <<>> /\ toMaster[c] = <<>>
                               /\ ~task[c].run
  <2>1. /\ task[c].run \in BOOLEAN
        /\ toWorker[c] \in Seq(Request) /\ toMaster[c] \in Seq(Response)
    BY DEF LossyInv, TypeOK, Task
  <2>2. /\ Len(toWorker[c]) = 1 => \E m : toWorker[c] = <<m>>
        /\ Len(toMaster[c]) = 1 => \E m : toMaster[c] = <<m>>
    BY <2>1, OneMessage
  <2>3. CASE phase = "wait" /\ c = first
    BY <1>2, <2>1, <2>2, <2>3 DEF LossyInv, OneBatch, Awaited
  <2>4. CASE phase = "byewait" /\ c = blk
    BY <1>2, <2>1, <2>4 DEF LossyInv, ByeInv, Awaited
  <2>5. CASE ~Awaited(c)
    BY <1>2, <2>1, <2>5 DEF LossyInv, Quiet
  <2>6. QED
    BY <2>3, <2>4, <2>5 DEF Awaited
<1>4. ASSUME NEW c \in Remote
      PROVE  Len(toWorker[c]) + Len(toMaster[c]) + (IF task[c].run THEN 1 ELSE 0)
               <= IF \/ phase = "wait" /\ c = first
                     \/ phase = "byewait" /\ c = blk THEN 1 ELSE 0
  BY <1>3, AtMostOne DEF Awaited
<1>5. ASSUME phase = "wait", toMaster[first] # <<>>
      PROVE  Head(toMaster[first]).kind # "WorkerInfo"
  BY <1>5 DEF LossyInv, OneBatch
<1>6. ASSUME phase = "byewait", toMaster[blk] # <<>>
      PROVE  Head(toMaster[blk]).kind = "WorkerInfo"
  BY <1>1, <1>6 DEF LossyInv, ByeInv, Reply
<1>7. QED
  BY <1>4, <1>5, <1>6 DEF ReplyPaired

THEOREM LossyInductive == LossySpec => []LossyInv
  BY InitLossy, NextLossy, PTL DEF LossySpec

\* A reply is the answer to the message just sent even where connections break
\* one by one while their worker lives on.
THEOREM ReplyPairedLossy == LossySpec => []ReplyPaired
  BY LossyInductive, LossyReplies, PTL

\* Nor does a broken connection keep goodbye from clearing the tasks before it.
THEOREM CleanHandoverLossy == LossySpec => []CleanHandover
<1>1. LossyInv => CleanHandover
  BY DEF LossyInv
<1>2. QED
  BY LossyInductive, <1>1, PTL
=============================================================================
