---------------------------- MODULE InferenceInv ----------------------------
(***************************************************************************)
(* The inductive invariant behind the safety properties of Inference under *)
(* Spec (workers fail as processes).  The point is RemoteKv: a cache may   *)
(* hold leftovers of an earlier request only behind a dead worker the      *)
(* current pass has not crossed, and a pass never crosses a dead worker.   *)
(***************************************************************************)
EXTENDS Inference

Active  == phase \in {"loop", "forward", "wait"}
InPass  == phase \in {"forward", "wait"}
Leaving == phase \in {"goodbye", "byewait"}

\* Block c starts a run: its connection is the one forward uses.
StartsRun(c) == c = 0 \/ Owner[c - 1] # Owner[c]

Awaited(c) == \/ phase = "wait" /\ c = first
              \/ phase = "byewait" /\ c = blk

\* All connections to a worker share its fate.
SharedFate == \A b, c \in Remote : Owner[b] = Owner[c] => up[b] = up[c]

Quiet == \A c \in Remote :
           /\ ~up[c] => toWorker[c] = <<>> /\ task[c] = NoTask
           /\ ~Awaited(c) => /\ toWorker[c] = <<>> /\ toMaster[c] = <<>>
                             /\ task[c] = NoTask

\* Where the goodbye sent to blk is: on its way, acknowledged, or lost.
ByeInv == phase = "byewait" =>
  /\ blk \in Remote
  /\ task[blk] = NoTask
  /\ \/ /\ toWorker[blk] = <<GoodbyeMsg>> /\ toMaster[blk] = <<>>
     \/ /\ toWorker[blk] = <<>>
        /\ toMaster[blk] = <<Reply("WorkerInfo", Garbage)>>
        /\ up[blk] => kv[blk] = NoCache
     \/ ~up[blk] /\ toWorker[blk] = <<>> /\ toMaster[blk] = <<>>

\* Where the batch sent to first is: on its way, running, answered or lost.
OnItsWay == /\ toWorker[first] = <<BatchMsg(x, idx, first, blk)>>
            /\ toMaster[first] = <<>> /\ task[first] = NoTask
Running  == /\ toWorker[first] = <<>> /\ toMaster[first] = <<>>
            /\ task[first].run
            /\ task[first].idx = idx /\ task[first].end = blk
            /\ first <= task[first].op /\ task[first].op <= blk
            /\ task[first].x = [x EXCEPT !.at = task[first].op]
Answered == /\ toWorker[first] = <<>> /\ task[first] = NoTask
            /\ toMaster[first] = <<Reply("Tensor", [x EXCEPT !.at = blk])>>
Errored  == /\ toWorker[first] = <<>> /\ task[first] = NoTask
            /\ toMaster[first] = <<Reply("WorkerError", Garbage)>>
Lost     == /\ toWorker[first] = <<>> /\ task[first] = NoTask
            /\ toMaster[first] = <<>> /\ ~up[first]

WaitInv == phase = "wait" =>
  /\ first \in Remote /\ first < blk
  /\ IsRun(first, blk) /\ StartsRun(first)
  /\ OnItsWay \/ Running \/ Answered \/ Errored \/ Lost

\* The counters agree with each other and with the tokens.
GenInv ==
  /\ phase # "idle" => req > 0 /\ dialog > 0
  /\ Active => /\ genOk
               /\ index <= sampleLen
               /\ generated = index /\ Len(tokens) = index
               /\ ~Reference!Ended(tokens)
               /\ indexPos = IF index = 0 THEN 0 ELSE dialog + index - 1
               /\ index > 0 => promptLen = dialog
  /\ Leaving /\ genOk => Len(tokens) = sampleLen \/ Reference!Ended(tokens)

\* The hidden state in hand is the right one for this pass.
PassInv == InPass =>
  /\ index < sampleLen /\ promptLen = dialog
  /\ idx = indexPos
  /\ x = [req |-> req, pos |-> idx, n |-> IF index = 0 THEN dialog ELSE 1,
          at  |-> IF phase = "wait" THEN first ELSE blk]
  /\ phase = "forward" /\ blk < N =>
       Owner[blk] = Local \/ StartsRun(blk)

\* Blocks below the frontier have been run in this pass.
Frontier == IF phase = "forward" THEN blk
            ELSE IF phase # "wait" THEN 0
            ELSE IF task[first].run THEN task[first].op
            ELSE IF toMaster[first] # <<>> THEN blk ELSE first

\* What the cache of block b must hold.
Expect(b) ==
  LET len == IF b < Frontier THEN indexPos + x.n ELSE indexPos
  IN  IF len = 0 THEN Empty ELSE [req |-> req, len |-> len]

\* A dead connection lies between the current pass and block c.
Blocked(c) ==
  \E d \in Remote :
    /\ d < c /\ ~up[d]
    /\ phase = "forward" => blk <= d
    /\ phase = "wait" => /\ first <= d
                         /\ toMaster[first] = <<>> \/ blk <= d

LocalKv == Active => \A b \in Blocks \ Remote : cache[b] = Expect(b)

RemoteKv == Active =>
  \A c \in Remote, b \in Remote :
    InRun(c, b) /\ up[c] /\ ~(phase = "wait" /\ c = first /\ Errored) =>
      kv[c][b] = Expect(b) \/ Blocked(c)

LeavingKv == Leaving => \A c \in Remote : c < blk /\ up[c] => kv[c] = NoCache

IdleKv == phase = "idle" =>
  \A c \in Remote : up[c] => \/ kv[c] = NoCache
                             \/ \E d \in Remote : d < c /\ ~up[d]

\* The strengthening that is inductive under Spec.
IInv == /\ TypeOK
        /\ SharedFate /\ Quiet /\ ByeInv /\ WaitInv
        /\ GenInv /\ PassInv
        /\ LocalKv /\ RemoteKv /\ LeavingKv /\ IdleKv

(***************************************************************************)
(* Under LossySpec, where connections to one worker have fates of their    *)
(* own, a cache may lag behind the pass; what remains is that at most one  *)
(* message is under way, of the right kind, and that goodbye leaves the    *)
(* tasks it reached clean.                                                 *)
(***************************************************************************)

\* The batch sent to first is running, on its way, answered by anything but an
\* acknowledgement, or lost with its connection.
OneBatch == phase = "wait" =>
  \/ task[first].run /\ toWorker[first] = <<>> /\ toMaster[first] = <<>>
  \/ /\ task[first] = NoTask
     /\ \/ /\ Len(toWorker[first]) = 1 /\ Head(toWorker[first]).kind = "Batch"
           /\ toMaster[first] = <<>>
        \/ /\ Len(toMaster[first]) = 1
           /\ Head(toMaster[first]).kind # "WorkerInfo"
           /\ toWorker[first] = <<>>
        \/ toWorker[first] = <<>> /\ toMaster[first] = <<>> /\ ~up[first]

\* The strengthening that is inductive under LossySpec.
LossyInv == /\ TypeOK
            /\ Quiet /\ ByeInv /\ OneBatch
            /\ LeavingKv /\ CleanHandover
=============================================================================
