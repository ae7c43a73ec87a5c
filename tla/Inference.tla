----------------------------- MODULE Inference -----------------------------
(***************************************************************************)
(* Distributed text generation: the master (cake/sharding/master.rs,       *)
(* models/common/text_model.rs) serves chat requests one at a time under   *)
(* the write lock of the API; every transformer block is local to the      *)
(* master or owned by a worker, behind one TCP connection per remote block *)
(* (cake/sharding/client.rs).  Each connection is served on the worker by  *)
(* a task of its own with a KV cache of its own (cake/sharding/worker.rs). *)
(*                                                                         *)
(* Data abstraction.  A hidden-state tensor is known by what it is the     *)
(* hidden state OF: the tokens pos .. pos+n-1 of request req, after blocks *)
(* 0 .. at-1 have been applied in order.  A per-block KV cache is known by *)
(* the request whose first len tokens it holds.  Anything else (a block    *)
(* skipped or repeated, a cache with other or missing tokens, a position   *)
(* index that does not match) is Garbage, resp. Mixed: the program cannot  *)
(* tell, the model can.                                                    *)
(***************************************************************************)
EXTENDS Naturals, Sequences

CONSTANTS N,          \* number of transformer blocks (num_hidden_layers)
          Workers,    \* worker processes
          Local,      \* ident() of a block the master runs itself
          Owner,      \* block -> Local or the worker the topology names
          MaxReq,     \* bound: requests served in a behaviour
          PromptLens, \* prompt lengths, in tokens
          SampleLens  \* values of sample_len / max_tokens

Blocks == 0 .. N - 1

ASSUME NAssumption       == N \in Nat \ {0}
ASSUME LocalAssumption   == Local \notin Workers
ASSUME OwnerAssumption   == Owner \in [Blocks -> Workers \cup {Local}]
ASSUME MaxReqAssumption  == MaxReq \in Nat
ASSUME PromptAssumption  == PromptLens \subseteq Nat \ {0}
ASSUME SampleAssumption  == SampleLens \subseteq Nat

Remote == {b \in Blocks : Owner[b] # Local}

VARIABLES
  \* the master
  phase,      \* where the request handler is
  req,        \* requests accepted so far; the current one when not idle
  dialog,     \* encoded length of the current request's chat history
  sampleLen,  \* sample_len of generate_text
  index,      \* its loop variable
  genOk,      \* gen_result is not an error
  tokens,     \* the generated part of TextModelBase::tokens
  promptLen,  \* prompt_len
  generated,  \* generated
  indexPos,   \* index_pos
  cache,      \* ctx.cache of the master, per block
  x,          \* the hidden state being passed through the blocks
  idx,        \* context_index of this pass
  blk,        \* block_idx (of forward, then of goodbye)
  first,      \* first block of the batch sent last
  answers,    \* history: the answers given so far
  \* per remote block: its connection and the worker's task behind it
  up,         \* the connection is established
  toWorker,   \* messages on their way to the worker
  toMaster,   \* messages on their way to the master
  task,       \* the batch the worker's task is executing
  kv          \* the KV cache of that task, per block

gen    == <<dialog, sampleLen, index, genOk, tokens, promptLen, generated,
            indexPos>>
pass   == <<x, idx, blk, first>>
master == <<phase, req, gen, pass, cache, answers>>
worker == <<task, kv>>
vars   == <<master, up, toWorker, toMaster, worker>>

-----------------------------------------------------------------------------
(* Hidden states and KV caches. *)

Activation == [req : Nat, pos : Nat, n : Nat, at : Nat]
Garbage    == [req |-> 0, pos |-> 0, n |-> 0, at |-> 0]

Cache == [req : Nat, len : Nat]
Empty == [req |-> 0, len |-> 0]
Mixed == [req |-> 0, len |-> 1]

\* The cache c holds exactly the tokens before position i of a's request, and
\* a is the hidden state of the tokens at i: attention sees the whole prefix.
Coherent(c, a, i) == /\ a # Garbage
                     /\ a.pos = i
                     /\ c.len = i
                     /\ i > 0 => c.req = a.req

\* Cache::process_kv appends the new keys and values to whatever is there.
Extend(c, a, i) == IF Coherent(c, a, i) THEN [req |-> a.req, len |-> i + a.n]
                                        ELSE Mixed

\* Output of block b for input a, index_pos i and cache c.
Apply(b, c, a, i) == IF Coherent(c, a, i) /\ a.at = b
                       THEN [a EXCEPT !.at = b + 1]
                       ELSE Garbage

\* Sampling a token from the logits of the last block's output.
TokenOf(a, eos) == IF a # Garbage /\ a.at = N
                     THEN [req |-> a.req, seen |-> a.pos + a.n, eos |-> eos]
                     ELSE [req |-> 0, seen |-> 0, eos |-> eos]

Token == [req : Nat, seen : Nat, eos : BOOLEAN]

NoCache == [b \in Blocks |-> Empty]

(* Messages and the worker's view of a batch. *)

BatchMsg(a, i, lo, end) == [kind |-> "Batch", x |-> a, idx |-> i,
                            lo |-> lo, end |-> end]
GoodbyeMsg == [kind |-> "Goodbye", x |-> Garbage, idx |-> 0,
               lo |-> 0, end |-> 0]
Request == [kind : {"Batch", "Goodbye"}, x : Activation, idx : Nat,
            lo : Nat, end : Nat]

Reply(k, a) == [kind |-> k, x |-> a]
Response == [kind : {"Tensor", "WorkerError", "WorkerInfo"}, x : Activation]

Task   == [run : BOOLEAN, x : Activation, idx : Nat, op : Nat, end : Nat]
NoTask == [run |-> FALSE, x |-> Garbage, idx |-> 0, op |-> 0, end |-> 0]

\* Mutant of IsRun: the inner loop may stop before the run does.
IsRunPart(lo, end) == \A b \in lo .. end - 1 : Owner[b] = Owner[lo]

\* lo .. end-1 is what forward's inner loop collects from lo: the contiguous
\* blocks with the same ident().
IsRun(lo, end) == /\ \A b \in lo .. end - 1 : Owner[b] = Owner[lo]
                  /\ end = N \/ Owner[end] # Owner[lo]

-----------------------------------------------------------------------------
Init ==
  /\ phase = "idle" /\ req = 0 /\ answers = <<>>
  /\ dialog = 0 /\ sampleLen = 0 /\ index = 0 /\ genOk = TRUE
  /\ tokens = <<>> /\ promptLen = 0 /\ generated = 0 /\ indexPos = 0
  /\ cache = NoCache
  /\ x = Garbage /\ idx = 0 /\ blk = 0 /\ first = 0
  /\ up       = [b \in Remote |-> TRUE]
  /\ toWorker = [b \in Remote |-> <<>>]
  /\ toMaster = [b \in Remote |-> <<>>]
  /\ task     = [b \in Remote |-> NoTask]
  /\ kv       = [b \in Remote |-> NoCache]

(***************************************************************************)
(* The master                                                              *)
(***************************************************************************)

\* The handler gets the write lock: Master::reset, then the chat history.
Begin ==
  /\ phase = "idle" /\ req < MaxReq
  /\ phase' = "loop"
  /\ req' = req + 1
  /\ dialog' \in PromptLens
  /\ sampleLen' \in SampleLens
  /\ index' = 0 /\ genOk' = TRUE
  /\ tokens' = <<>> /\ promptLen' = 0 /\ generated' = 0 /\ indexPos' = 0
  /\ cache' = NoCache
  /\ UNCHANGED <<pass, answers, up, toWorker, toMaster, worker>>

\* Mutants of Fail: the error is dropped; the handler returns on it at once;
\* goodbye goes on from the block at hand.
FailSwallowed == phase' = "goodbye" /\ blk' = 0 /\ UNCHANGED genOk
FailReturns   == phase' = "idle" /\ blk' = 0 /\ genOk' = FALSE
FailKeepsBlk  == phase' = "goodbye" /\ genOk' = FALSE /\ UNCHANGED blk

\* generate_text stops with an error; the handler still calls goodbye.
Fail == /\ phase' = "goodbye"
        /\ genOk' = FALSE
        /\ blk' = 0

\* next_token: on the first call prepare_prompt encodes the history; then the
\* context is the whole prompt at 0, later the last token at index_pos.
NextToken ==
  /\ phase = "loop" /\ index < sampleLen
  /\ phase' = "forward"
  /\ IF generated = 0
       THEN /\ tokens' = <<>>
            /\ promptLen' = dialog
            /\ indexPos' = 0
            /\ cache' = NoCache
       ELSE UNCHANGED <<tokens, promptLen, indexPos, cache>>
  /\ LET num    == promptLen' + Len(tokens')
         size   == IF index > 0 THEN 1 ELSE num
         offset == IF size <= num THEN num - size ELSE 0
     IN  /\ x' = [req |-> req, pos |-> offset, n |-> num - offset, at |-> 0]
         /\ idx' = IF index > 0 THEN indexPos' ELSE 0
  /\ blk' = 0
  /\ UNCHANGED <<req, dialog, sampleLen, index, genOk, generated, first,
                 answers, up, toWorker, toMaster, worker>>

\* prepare_prompt: the tokenizer rejects the dialog after the state is cleared.
EncodeFails ==
  /\ phase = "loop" /\ index < sampleLen /\ generated = 0
  /\ Fail
  /\ tokens' = <<>> /\ indexPos' = 0
  /\ cache' = NoCache
  /\ UNCHANGED <<req, dialog, sampleLen, index, promptLen, generated, x, idx,
                 first, answers, up, toWorker, toMaster, worker>>

\* for index in 0..sample_len is exhausted.
LoopEnds ==
  /\ phase = "loop" /\ index = sampleLen
  /\ phase' = "goodbye"
  /\ blk' = 0
  /\ UNCHANGED <<req, gen, x, idx, first, cache, answers, up, toWorker,
                 toMaster, worker>>

LocalBlock ==
  /\ phase = "forward" /\ blk < N /\ Owner[blk] = Local
  /\ x' = Apply(blk, cache[blk], x, idx)
  /\ cache' = [cache EXCEPT ![blk] = Extend(@, x, idx)]
  /\ blk' = blk + 1
  /\ UNCHANGED <<phase, req, gen, idx, first, answers, up, toWorker, toMaster,
                 worker>>

\* A local block's forward fails, before or after its attention cached k and v.
LocalFails ==
  /\ phase = "forward" /\ blk < N /\ Owner[blk] = Local
  /\ Fail
  /\ cache' \in {cache, [cache EXCEPT ![blk] = Extend(@, x, idx)]}
  /\ UNCHANGED <<req, dialog, sampleLen, index, tokens, promptLen, generated,
                 indexPos, x, idx, first, answers, up, toWorker, toMaster,
                 worker>>

\* The contiguous blocks of one worker go as a batch over the connection of
\* the first.  Bytes written to a dead connection reach nobody; that the write
\* itself may report it leads where RecvFails leads.
SendBatch ==
  /\ phase = "forward" /\ blk < N /\ Owner[blk] # Local
  /\ \E end \in {e \in blk + 1 .. N : IsRun(blk, e)} :
       /\ blk' = end
       /\ toWorker' = IF up[blk]
                        THEN [toWorker EXCEPT ![blk] =
                                Append(@, BatchMsg(x, idx, blk, end))]
                        ELSE toWorker
  /\ first' = blk
  /\ phase' = "wait"
  /\ UNCHANGED <<req, gen, x, idx, cache, answers, up, toMaster, worker>>

\* Mutant of Receive: the frame is left in the stream.
ReceiveKeeps(b) == toMaster[b] # <<>> /\ UNCHANGED toMaster

Receive(b) == /\ toMaster[b] # <<>>
              /\ toMaster' = [toMaster EXCEPT ![b] = Tail(@)]

RecvTensor ==
  /\ phase = "wait" /\ Receive(first)
  /\ Head(toMaster[first]).kind = "Tensor"
  /\ x' = Head(toMaster[first]).x
  /\ phase' = "forward"
  /\ UNCHANGED <<req, gen, idx, blk, first, cache, answers, up, toWorker,
                 worker>>

\* WorkerError, or any other reply: forward_request returns Err.
RecvError ==
  /\ phase = "wait" /\ Receive(first)
  /\ Head(toMaster[first]).kind # "Tensor"
  /\ Fail
  /\ UNCHANGED <<req, dialog, sampleLen, index, tokens, promptLen, generated,
                 indexPos, x, idx, first, cache, answers, up, toWorker, worker>>

\* The connection is gone and holds no more replies: the read fails.
RecvFails ==
  /\ phase = "wait" /\ ~up[first] /\ toMaster[first] = <<>>
  /\ Fail
  /\ UNCHANGED <<req, dialog, sampleLen, index, tokens, promptLen, generated,
                 indexPos, x, idx, first, cache, answers, up, toWorker,
                 toMaster, worker>>

\* Mutant of Sample: index_pos is not advanced.
SampleKeepsPos ==
  /\ phase = "forward" /\ blk = N
  /\ generated' = generated + 1
  /\ \E eos \in BOOLEAN :
       /\ tokens' = Append(tokens, TokenOf(x, eos))
       /\ IF eos THEN phase' = "goodbye" /\ blk' = 0 /\ UNCHANGED index
                 ELSE phase' = "loop" /\ index' = index + 1 /\ UNCHANGED blk
  /\ UNCHANGED <<req, dialog, sampleLen, genOk, promptLen, indexPos, x, idx,
                 first, cache, answers, up, toWorker, toMaster, worker>>

\* All blocks are done: logits, index_pos, sampling; EOS leaves the loop.
Sample ==
  /\ phase = "forward" /\ blk = N
  /\ indexPos' = indexPos + x.n
  /\ generated' = generated + 1
  /\ \E eos \in BOOLEAN :
       /\ tokens' = Append(tokens, TokenOf(x, eos))
       /\ IF eos THEN phase' = "goodbye" /\ blk' = 0 /\ UNCHANGED index
                 ELSE phase' = "loop" /\ index' = index + 1 /\ UNCHANGED blk
  /\ UNCHANGED <<req, dialog, sampleLen, genOk, promptLen, x, idx, first,
                 cache, answers, up, toWorker, toMaster, worker>>

\* The head fails (before index_pos moves) or the sampler does (after).
SampleFails ==
  /\ phase = "forward" /\ blk = N
  /\ Fail
  /\ indexPos' \in {indexPos, indexPos + x.n}
  /\ UNCHANGED <<req, dialog, sampleLen, index, tokens, promptLen, generated,
                 x, idx, first, cache, answers, up, toWorker, toMaster, worker>>

\* The handler returns: the answer leaves and the write lock is released.
Answer(ok) == /\ phase' = "idle"
              /\ answers' = Append(answers, [ok |-> ok, tokens |-> tokens])

\* TextModelBase::goodbye: a local block's goodbye does nothing.
GoodbyeLocal ==
  /\ phase = "goodbye" /\ blk < N /\ Owner[blk] = Local
  /\ blk' = blk + 1
  /\ UNCHANGED <<phase, req, gen, x, idx, first, cache, answers, up, toWorker,
                 toMaster, worker>>

GoodbyeSend ==
  /\ phase = "goodbye" /\ blk < N /\ Owner[blk] # Local
  /\ toWorker' = IF up[blk]
                   THEN [toWorker EXCEPT ![blk] = Append(@, GoodbyeMsg)]
                   ELSE toWorker
  /\ phase' = "byewait"
  /\ UNCHANGED <<req, gen, pass, cache, answers, up, toMaster, worker>>

\* Client::goodbye takes any reply for an acknowledgement.
GoodbyeAck ==
  /\ phase = "byewait" /\ Receive(blk)
  /\ blk' = blk + 1
  /\ phase' = "goodbye"
  /\ UNCHANGED <<req, gen, x, idx, first, cache, answers, up, toWorker, worker>>

\* Mutant of GoodbyeFails: a failed goodbye is sent again.
GoodbyeRetries ==
  /\ phase = "byewait" /\ ~up[blk] /\ toMaster[blk] = <<>>
  /\ phase' = "goodbye"
  /\ UNCHANGED <<req, gen, pass, cache, answers, up, toWorker, toMaster, worker>>

\* The first connection that fails ends the loop; the handler ignores the error.
GoodbyeFails ==
  /\ phase = "byewait" /\ ~up[blk] /\ toMaster[blk] = <<>>
  /\ Answer(genOk)
  /\ UNCHANGED <<req, gen, pass, cache, up, toWorker, toMaster, worker>>

GoodbyeDone ==
  /\ phase = "goodbye" /\ blk = N
  /\ Answer(genOk)
  /\ UNCHANGED <<req, gen, pass, cache, up, toWorker, toMaster, worker>>

Master ==
  \/ Begin \/ NextToken \/ EncodeFails \/ LoopEnds
  \/ LocalBlock \/ LocalFails \/ SendBatch
  \/ RecvTensor \/ RecvError \/ RecvFails \/ Sample \/ SampleFails
  \/ GoodbyeLocal \/ GoodbyeSend \/ GoodbyeAck \/ GoodbyeFails \/ GoodbyeDone

(***************************************************************************)
(* A worker's task for connection b (handle_master_client)                 *)
(***************************************************************************)

Ready(b) == up[b] /\ ~task[b].run /\ toWorker[b] # <<>>

Send(b, r) == toMaster' = [toMaster EXCEPT ![b] = Append(@, r)]

\* Mutant of HandleGoodbye: the cache survives the session.
GoodbyeKeepsKv(b) ==
  /\ Ready(b) /\ Head(toWorker[b]).kind = "Goodbye"
  /\ toWorker' = [toWorker EXCEPT ![b] = Tail(@)]
  /\ Send(b, Reply("WorkerInfo", Garbage))
  /\ UNCHANGED <<master, up, task, kv>>

HandleGoodbye(b) ==
  /\ Ready(b) /\ Head(toWorker[b]).kind = "Goodbye"
  /\ toWorker' = [toWorker EXCEPT ![b] = Tail(@)]
  /\ kv' = [kv EXCEPT ![b] = NoCache]
  /\ Send(b, Reply("WorkerInfo", Garbage))
  /\ UNCHANGED <<master, up, task>>

TakeBatch(b) ==
  /\ Ready(b) /\ Head(toWorker[b]).kind = "Batch"
  /\ toWorker' = [toWorker EXCEPT ![b] = Tail(@)]
  /\ task' = LET m == Head(toWorker[b])
             IN  [task EXCEPT ![b] = [run |-> TRUE, x |-> m.x, idx |-> m.idx,
                                      op |-> m.lo, end |-> m.end]]
  /\ UNCHANGED <<master, up, toMaster, kv>>

\* Mutant of Grown: nothing is cached.
NotGrown(b) == kv

\* Keys and values of the current op's input join the cache of its block.
Grown(b) == LET t == task[b]
            IN  [kv EXCEPT ![b][t.op] = Extend(@, t.x, t.idx)]

RunOp(b) ==
  /\ up[b] /\ task[b].run /\ task[b].op < task[b].end
  /\ task' = LET t == task[b]
             IN  [task EXCEPT ![b] =
                    [t EXCEPT !.x  = Apply(t.op, kv[b][t.op], t.x, t.idx),
                              !.op = t.op + 1]]
  /\ kv' = Grown(b)
  /\ UNCHANGED <<master, up, toWorker, toMaster>>

\* Mutant of FailOp: batch_error does not skip the result.
FailOpRepliesTwice(b) ==
  /\ up[b] /\ task[b].run /\ task[b].op < task[b].end
  /\ kv' \in {kv, Grown(b)}
  /\ task' = [task EXCEPT ![b].op = task[b].end]
  /\ Send(b, Reply("WorkerError", Garbage))
  /\ UNCHANGED <<master, up, toWorker>>

\* An op fails: the ops before it keep what they cached, and so may the op
\* itself; the master is told and the task waits for the next message.
FailOp(b) ==
  /\ up[b] /\ task[b].run /\ task[b].op < task[b].end
  /\ kv' \in {kv, Grown(b)}
  /\ task' = [task EXCEPT ![b] = NoTask]
  /\ Send(b, Reply("WorkerError", Garbage))
  /\ UNCHANGED <<master, up, toWorker>>

SendResult(b) ==
  /\ up[b] /\ task[b].run /\ task[b].op = task[b].end
  /\ Send(b, Reply("Tensor", task[b].x))
  /\ task' = [task EXCEPT ![b] = NoTask]
  /\ UNCHANGED <<master, up, toWorker, kv>>

Worker(b) == \/ HandleGoodbye(b) \/ TakeBatch(b) \/ RunOp(b) \/ FailOp(b)
             \/ SendResult(b)

(***************************************************************************)
(* Failures                                                                *)
(***************************************************************************)

\* The connections in S break; replies already delivered may still be read.
Break(S) ==
  /\ up'       = [b \in Remote |-> up[b] /\ b \notin S]
  /\ toWorker' = [b \in Remote |-> IF b \in S THEN <<>> ELSE toWorker[b]]
  /\ task'     = [b \in Remote |-> IF b \in S THEN NoTask ELSE task[b]]
  /\ kv'       = [b \in Remote |-> IF b \in S THEN NoCache ELSE kv[b]]
  /\ toMaster' \in {toMaster,
                    [b \in Remote |-> IF b \in S THEN <<>> ELSE toMaster[b]]}
  /\ UNCHANGED master

\* A worker process dies and every connection to it with it.  The master never
\* reconnects a Client, so for this master the worker is gone for good.
Crash(w) == \E b \in Remote : /\ Owner[b] = w /\ up[b]
                              /\ Break({c \in Remote : Owner[c] = w})

\* One connection breaks while the worker process lives on.
ConnLost(b) == up[b] /\ Break({b})

\* The HTTP client of a non-streaming request resets its connection: the
\* handler's future is dropped at the await it is suspended at.
Cancel ==
  /\ phase \in {"wait", "byewait"} \/ (phase = "loop" /\ index > 0)
  /\ Answer(FALSE)
  /\ UNCHANGED <<req, gen, pass, cache, up, toWorker, toMaster, worker>>

-----------------------------------------------------------------------------
\* Nothing is left to do once MaxReq requests have been served.
AllServed == phase = "idle" /\ req = MaxReq /\ UNCHANGED vars

Next == \/ Master
        \/ \E b \in Remote : Worker(b)
        \/ \E w \in Workers : Crash(w)
        \/ AllServed

\* Workers fail as processes.
Spec == Init /\ [][Next]_vars

\* Single connections fail as well.
LossyNext == Next \/ \E b \in Remote : ConnLost(b)
LossySpec == Init /\ [][LossyNext]_vars

\* Handlers are dropped as well.
CancelNext == Next \/ Cancel
CancelSpec == Init /\ [][CancelNext]_vars

\* The runtime keeps polling the handler and every worker task, and the
\* operating system reports a closed connection.  Requests need not arrive
\* and nothing need fail.
Fairness == /\ WF_vars(Master /\ phase # "idle")
            /\ \A b \in Remote : WF_vars(Worker(b))

FairSpec      == Spec /\ Fairness
FairLossySpec == LossySpec /\ Fairness

-----------------------------------------------------------------------------
(***************************************************************************)
(* Properties                                                              *)
(***************************************************************************)

\* Types of all variables; a reply is awaited at a remote block only.
TypeOK ==
  /\ phase \in {"idle", "loop", "forward", "wait", "goodbye", "byewait"}
  /\ req \in Nat /\ dialog \in Nat /\ sampleLen \in Nat /\ index \in Nat
  /\ genOk \in BOOLEAN
  /\ tokens \in Seq(Token)
  /\ promptLen \in Nat /\ generated \in Nat /\ indexPos \in Nat
  /\ cache \in [Blocks -> Cache]
  /\ x \in Activation /\ idx \in Nat
  /\ blk \in 0 .. N /\ first \in 0 .. N
  /\ phase = "wait" => first \in Remote
  /\ phase = "byewait" => blk \in Remote
  /\ answers \in Seq([ok : BOOLEAN, tokens : Seq(Token)])
  /\ up \in [Remote -> BOOLEAN]
  /\ toWorker \in [Remote -> Seq(Request)]
  /\ toMaster \in [Remote -> Seq(Response)]
  /\ task \in [Remote -> Task]
  /\ kv \in [Remote -> [Blocks -> Cache]]

\* c is the block whose connection carries the run of blocks b is in.
InRun(c, b) == /\ c \in Remote /\ c <= b
               /\ \A k \in c .. b : Owner[k] = Owner[c]
               /\ c = 0 \/ Owner[c - 1] # Owner[c]

\* No connection is broken up to and including that of block c.
Reachable(c) == \A d \in Remote : d <= c => up[d]

\* The logits a token is sampled from are those of the current request's whole
\* prefix through all N blocks in order (TextModelBase::forward), whatever
\* failed before and wherever the blocks live.
SoundLogits ==
  phase = "forward" /\ blk = N =>
    /\ x # Garbage /\ x.at = N /\ x.req = req
    /\ x.pos + x.n = dialog + Len(tokens)

\* Between two tokens the master and every worker task that can still be
\* reached hold exactly the same prefix: the first index_pos tokens of the
\* current request, all but the token sampled last.
KvAgrees ==
  phase = "loop" /\ generated > 0 =>
    LET held == [req |-> req, len |-> indexPos]
    IN  /\ indexPos = dialog + generated - 1
        /\ \A b \in Blocks \ Remote : cache[b] = held
        /\ \A c, b \in Remote :
             InRun(c, b) /\ Reachable(c) => kv[c][b] = held

\* The protocol has no correlation ids, so a reply must be the answer to the
\* message just sent: at most one is outstanding, on the connection awaited, and
\* its kind fits, although Client::goodbye would take any.
ReplyPaired ==
  /\ \A c \in Remote :
       Len(toWorker[c]) + Len(toMaster[c]) + (IF task[c].run THEN 1 ELSE 0)
         <= IF \/ phase = "wait" /\ c = first
               \/ phase = "byewait" /\ c = blk THEN 1 ELSE 0
  /\ phase = "wait" /\ toMaster[first] # <<>> =>
       Head(toMaster[first]).kind # "WorkerInfo"
  /\ phase = "byewait" /\ toMaster[blk] # <<>> =>
       Head(toMaster[blk]).kind = "WorkerInfo"

\* The response to a message is a response to that message
\* (Client::forward_request): never a hidden state of an earlier request.
ReplyIsOurs ==
  phase = "wait" /\ toMaster[first] # <<>> =>
    LET r == Head(toMaster[first])
    IN  r.kind = "Tensor" => r.x = Garbage \/ r.x.req = req

\* When the write lock is released, no task reachable without crossing a broken
\* connection remembers anything of the request served last (goodbye).
CleanHandover ==
  phase = "idle" => \A c \in Remote : Reachable(c) => kv[c] = NoCache

\* A worker that starts on a prompt finds empty caches for the blocks it is
\* about to run ("make sure we start clean", prepare_prompt).
StartsClean ==
  \A c \in Remote :
    task[c].run /\ task[c].idx = 0 =>
      \A b \in task[c].op .. task[c].end - 1 : kv[c][b] = Empty

\* One process holding all blocks would have answered the same.
Busy == phase # "idle"
Reference == INSTANCE Generation WITH busy <- Busy, limit <- sampleLen,
                                      stream <- tokens
SingleProcess == Reference!Spec

\* The write lock is always released: no failure of a worker or of a
\* connection leaves a request, and everyone queued behind it, waiting.
EveryRequestAnswered == (phase # "idle") ~> (phase = "idle")
=============================================================================
