---------------------------- MODULE ClusterSetup ----------------------------
(***************************************************************************)
(* A zero-config cluster is set up: discovery by datagrams                 *)
(* (sharding/discovery.rs), the mutual authentication (sharding/auth.rs),  *)
(* master_setup against worker_setup (sharding/mod.rs), and the first      *)
(* messages of the inference connections (client.rs, worker.rs).           *)
(*                                                                         *)
(* A master is one run of a master process; several may be up at a time.   *)
(* A worker process can be started again.  The transfer of model data is   *)
(* one message here (ModelTransfer has it chunk by chunk), and whether a   *)
(* worker asks for it is left open; messages a side sends without waiting  *)
(* in between are one message.  A dead peer is noticed as a closed         *)
(* connection, after the messages it sent.                                 *)
(***************************************************************************)
EXTENDS Integers, Sequences, FiniteSets

CONSTANTS Masters, Workers, Layers,
          Plans,        \* master -> assignments of layers it may decide on
          Name,         \* the name each worker advertises
          Order,        \* the workers in the order of the task handles
          MinWorkers,   \* discovery stops at so many, 0: at the deadline
          MaxAttempts,  \* connection attempts of a task
          MaxStarts,    \* bound: process starts of a worker
          MaxCrashes    \* bound: processes that die

ASSUME SetupConstants ==
  /\ Order \in Seq(Workers)
  /\ \A w \in Workers : \E i \in 1 .. Len(Order) : Order[i] = w
  /\ MinWorkers \in Nat /\ MaxAttempts \in Nat \ {0}
  /\ MaxStarts \in Nat /\ MaxCrashes \in Nat
  /\ Plans \in [Masters -> SUBSET [Workers -> SUBSET Layers]]

VARIABLES
  mphase,  \* master: off, find, setup, link, serve, dead
  air,     \* discovery answers under way
  found,   \* master -> workers discovered
  asg,     \* master -> worker -> layers assigned
  task,    \* master -> worker -> what its task awaits
  tries,   \* master -> worker -> failed connection attempts
  proc,    \* worker process: down, setup, load, serve
  adv,     \* its discovery listener: on, last (told to stop), off
  backlog, \* connections not yet accepted
  end,     \* master -> worker -> the worker's end of their connection
  toW, toM,\* master -> worker -> messages under way
  blocks,  \* worker -> layers loaded, or about to be
  by,      \* history: worker -> the master they were assigned by
  pledged, \* history: master -> workers that declared themselves ready to it
  starts, crashes

master == <<mphase, found, asg, task, tries>>
worker == <<proc, adv, blocks, by, pledged>>
conns  == <<backlog, end, toW, toM>>
bounds == <<starts, crashes>>
vars   == <<master, air, worker, conns, bounds>>

Awaiting == {"proof", "ack", "push", "ready", "info"}
Open     == {"proof", "data", "infer"}

Members(m) == {w \in Workers : asg[m][w] # {}}
Alive(m)   == mphase[m] \notin {"off", "dead"}

\* The master's end of its connection to w is there.
Held(m, w) == Alive(m) /\ task[m][w] \in Awaiting \cup {"linked"}

\* The read end of a connection finds nothing more.
HungUpW(m, w) == ~ Held(m, w) /\ toW[m][w] = <<>>
HungUpM(m, w) == end[m][w] = "none" /\ toM[m][w] = <<>>

-----------------------------------------------------------------------------
Init ==
  /\ mphase = [m \in Masters |-> "off"] /\ air = {}
  /\ found = [m \in Masters |-> {}]
  /\ asg = [m \in Masters |-> [w \in Workers |-> {}]]
  /\ task = [m \in Masters |-> [w \in Workers |-> "none"]]
  /\ tries = [m \in Masters |-> [w \in Workers |-> 0]]
  /\ proc = [w \in Workers |-> "down"] /\ adv = [w \in Workers |-> "off"]
  /\ blocks = [w \in Workers |-> {}] /\ by = [w \in Workers |-> {}]
  /\ pledged = [m \in Masters |-> {}]
  /\ backlog = [w \in Workers |-> <<>>]
  /\ end = [m \in Masters |-> [w \in Workers |-> "none"]]
  /\ toW = [m \in Masters |-> [w \in Workers |-> <<>>]]
  /\ toM = toW
  /\ starts = [w \in Workers |-> 0] /\ crashes = 0

-----------------------------------------------------------------------------
(* Discovery.  Datagrams are lost, delayed and duplicated: one that was    *)
(* sent may arrive at any time, any number of times, or never.             *)

\* discover_workers: from now on a query goes out every second.
MQuery(m) ==
  /\ mphase[m] = "off"
  /\ mphase' = [mphase EXCEPT ![m] = "find"]
  /\ UNCHANGED <<found, asg, task, tries, air, worker, conns, bounds>>

\* A query reaches the listener thread, which answers; told to stop, it may do
\* so once more.
WAnswer(m, w) ==
  /\ adv[w] # "off" /\ mphase[m] = "find"
  /\ air' = air \cup {<<m, w>>}
  /\ adv' = [adv EXCEPT ![w] = IF @ = "last" THEN "off" ELSE @]
  /\ UNCHANGED <<master, proc, blocks, by, pledged, conns, bounds>>

\* Its receive times out and it sees the flag.
WSilent(w) ==
  /\ adv[w] = "last"
  /\ adv' = [adv EXCEPT ![w] = "off"]
  /\ UNCHANGED <<master, air, proc, blocks, by, pledged, conns, bounds>>

Enough(m) == MinWorkers > 0 /\ Cardinality(found[m]) >= MinWorkers

\* workers.insert unless the name is there.
Collect(m, w) == IF \E v \in found[m] : Name[v] = Name[w]
                   THEN found[m] ELSE found[m] \cup {w}

MFind(m, w) ==
  /\ mphase[m] = "find" /\ ~ Enough(m)
  /\ <<m, w>> \in air
  /\ found' = [found EXCEPT ![m] = Collect(m, w)]
  /\ found' # found
  /\ UNCHANGED <<mphase, asg, task, tries, air, worker, conns, bounds>>

-----------------------------------------------------------------------------
(* master_setup. *)

\* What a plan gives the workers that were found.
Assignments(m) == {[w \in Workers |-> IF w \in found[m] THEN a[w] ELSE {}] : a \in Plans[m]}

\* The deadline has passed or there are enough: layers are assigned, one task
\* is spawned for each worker that got some.  Nobody found: all layers local.
\* Late answers find no socket.
MAssign(m, a) ==
  /\ mphase[m] = "find"
  /\ asg' = [asg EXCEPT ![m] = a]
  /\ mphase' = [mphase EXCEPT ![m] = IF found[m] = {} THEN "serve" ELSE "setup"]
  /\ task' = [task EXCEPT ![m] = [w \in Workers |->
                IF a[w] = {} THEN "none" ELSE "connect"]]
  /\ found' = [found EXCEPT ![m] = {}]
  /\ air' = {a2 \in air : a2[1] # m}
  /\ UNCHANGED <<tries, worker, conns, bounds>>

\* connect reaches a bound listener; the nonce is sent.
MConnect(m, w) ==
  /\ task[m][w] = "connect" /\ Alive(m) /\ proc[w] # "down"
  /\ backlog' = [backlog EXCEPT ![w] = Append(@, m)]
  /\ end' = [end EXCEPT ![m][w] = "queued"]
  /\ toW' = [toW EXCEPT ![m][w] = <<"nonce">>]
  /\ toM' = [toM EXCEPT ![m][w] = <<>>]
  /\ task' = [task EXCEPT ![m][w] = "proof"]
  /\ tries' = [tries EXCEPT ![m][w] = 0]
  /\ UNCHANGED <<mphase, found, asg, air, worker, bounds>>

\* An attempt is refused or times out.  The setup task tries again,
\* Client::new does not.
MRefused(m, w) ==
  /\ task[m][w] = "connect" /\ Alive(m)
  /\ proc[w] = "down" \/ mphase[m] = "setup"
  /\ tries' = [tries EXCEPT ![m][w] = @ + 1]
  /\ task' = IF mphase[m] = "link" \/ tries[m][w] + 1 = MaxAttempts
               THEN [task EXCEPT ![m][w] = "failed"] ELSE task
  /\ UNCHANGED <<mphase, found, asg, air, worker, conns, bounds>>

\* The task reads message msg, waiting for it in state st.
MReads(m, w, st, msg) ==
  /\ task[m][w] = st /\ Alive(m)
  /\ toM[m][w] # <<>> /\ Head(toM[m][w]) = msg
  /\ toM' = [toM EXCEPT ![m][w] = Tail(@)]
  /\ UNCHANGED <<mphase, found, asg, tries, air, worker, backlog, end, bounds>>

\* authenticate_as_master: the worker's proof is answered with the own one,
\* the first message follows.
MAuth(m, w) ==
  /\ MReads(m, w, "proof", "proof")
  /\ toW' = [toW EXCEPT ![m][w] =
              Append(@, IF mphase[m] = "setup" THEN "assign" ELSE "hello")]
  /\ task' = [task EXCEPT ![m][w] = IF mphase[m] = "setup" THEN "ack" ELSE "info"]

MAckNeeds(m, w) ==
  /\ MReads(m, w, "ack", "needs")
  /\ task' = [task EXCEPT ![m][w] = "push"]
  /\ UNCHANGED toW

MAckCached(m, w) ==
  /\ MReads(m, w, "ack", "cached")
  /\ task' = [task EXCEPT ![m][w] = "ready"]
  /\ UNCHANGED toW

\* push_model_data, ModelDataDone at its end.
MPush(m, w) ==
  /\ task[m][w] = "push" /\ Alive(m) /\ end[m][w] # "none"
  /\ toW' = [toW EXCEPT ![m][w] = Append(@, "data")]
  /\ task' = [task EXCEPT ![m][w] = "ready"]
  /\ UNCHANGED <<mphase, found, asg, tries, air, worker, backlog, end, toM, bounds>>

\* WorkerReady: the task is done, its connection dropped.
MReady(m, w) ==
  /\ MReads(m, w, "ready", "ready")
  /\ task' = [task EXCEPT ![m][w] = "done"]
  /\ UNCHANGED toW

\* WorkerInfo: the Client is there.
MInfo(m, w) ==
  /\ MReads(m, w, "info", "info")
  /\ task' = [task EXCEPT ![m][w] = "linked"]
  /\ UNCHANGED toW

\* The peer has closed the connection.
MTaskErr(m, w) ==
  /\ task[m][w] \in Awaiting /\ Alive(m) /\ HungUpM(m, w)
  /\ task' = [task EXCEPT ![m][w] = "failed"]
  /\ UNCHANGED <<mphase, found, asg, tries, air, worker, conns, bounds>>

Earlier(w) == {Order[j] : j \in 1 .. (CHOOSE i \in 1 .. Len(Order) : Order[i] = w) - 1}

\* Mutant of AllReady: a handle that failed is passed over.
SomeReady(m) == \A w \in Members(m) : task[m][w] \in {"done", "failed"}

AllReady(m) == \A w \in Members(m) : task[m][w] = "done"

\* All handles awaited with success: the topology is complete, and loading the
\* model opens an inference connection to each worker.
MTopology(m) ==
  /\ mphase[m] = "setup" /\ AllReady(m)
  /\ mphase' = [mphase EXCEPT ![m] = "link"]
  /\ task' = [task EXCEPT ![m] = [w \in Workers |->
                IF asg[m][w] = {} THEN "none" ELSE "connect"]]
  /\ UNCHANGED <<found, asg, tries, air, worker, conns, bounds>>

\* The first handle, in order, that failed ends master_setup and the process
\* with it; a connection that fails while loading the model does too.
MAbort(m) ==
  /\ \/ /\ mphase[m] = "setup"
        /\ \E w \in Members(m) :
             /\ task[m][w] = "failed"
             /\ \A v \in Earlier(w) \cap Members(m) : task[m][v] = "done"
     \/ mphase[m] = "link" /\ \E w \in Members(m) : task[m][w] = "failed"
  /\ mphase' = [mphase EXCEPT ![m] = "dead"]
  /\ UNCHANGED <<found, asg, task, tries, air, worker, conns, bounds>>

MServe(m) ==
  /\ mphase[m] = "link" /\ \A w \in Members(m) : task[m][w] = "linked"
  /\ mphase' = [mphase EXCEPT ![m] = "serve"]
  /\ UNCHANGED <<found, asg, task, tries, air, worker, conns, bounds>>

MCrash(m) ==
  /\ Alive(m) /\ crashes < MaxCrashes
  /\ mphase' = [mphase EXCEPT ![m] = "dead"]
  /\ crashes' = crashes + 1
  /\ UNCHANGED <<found, asg, task, tries, air, worker, conns, starts>>

-----------------------------------------------------------------------------
(* worker_setup and Worker::run. *)

\* The process ends, with its listener and all its connections.
Exit(w) ==
  /\ proc' = [proc EXCEPT ![w] = "down"] /\ adv' = [adv EXCEPT ![w] = "off"]
  /\ blocks' = [blocks EXCEPT ![w] = {}] /\ by' = [by EXCEPT ![w] = {}]
  /\ backlog' = [backlog EXCEPT ![w] = <<>>]
  /\ end' = [m \in Masters |-> [end[m] EXCEPT ![w] = "none"]]
  /\ UNCHANGED <<master, air, toW, toM, pledged>>

WStart(w) ==
  /\ proc[w] = "down" /\ starts[w] < MaxStarts
  /\ starts' = [starts EXCEPT ![w] = @ + 1]
  /\ proc' = [proc EXCEPT ![w] = "setup"] /\ adv' = [adv EXCEPT ![w] = "on"]
  /\ UNCHANGED <<master, air, blocks, by, pledged, conns, crashes>>

\* authenticate_as_worker reads the nonce, which was sent with the connection,
\* and answers with its proof.
Greet(m, w) ==
  /\ toW' = [toW EXCEPT ![m][w] = <<>>]
  /\ toM' = [toM EXCEPT ![m][w] = <<"proof">>]

\* Mutant of WAccept: connections are accepted as they come.
AcceptAny(w) ==
  /\ backlog[w] # <<>> /\ proc[w] \in {"setup", "serve"}
  /\ backlog' = [backlog EXCEPT ![w] = Tail(@)]
  /\ end' = [end EXCEPT ![Head(backlog[w])][w] = "proof"]
  /\ Greet(Head(backlog[w]), w)
  /\ UNCHANGED <<master, air, worker, bounds>>

\* worker_setup accepts one connection in all, run any number.
WAccept(w) ==
  /\ backlog[w] # <<>>
  /\ \/ proc[w] = "serve"
     \/ proc[w] = "setup" /\ \A m \in Masters : end[m][w] \notin Open
  /\ backlog' = [backlog EXCEPT ![w] = Tail(@)]
  /\ end' = [end EXCEPT ![Head(backlog[w])][w] = "proof"]
  /\ Greet(Head(backlog[w]), w)
  /\ UNCHANGED <<master, air, worker, bounds>>

\* The worker's end reads message msg in state st and goes to st2.
WReads(m, w, st, msg, st2) ==
  /\ end[m][w] = st /\ toW[m][w] # <<>> /\ Head(toW[m][w]) = msg
  /\ toW' = [toW EXCEPT ![m][w] = Tail(@)]
  /\ end' = [end EXCEPT ![m][w] = st2]
  /\ UNCHANGED <<master, air, backlog, bounds>>

Says(m, w, msgs) == toM' = [toM EXCEPT ![m][w] = @ \o msgs]

\* WorkerReady is sent and worker_setup returns: its discovery handle is
\* dropped, the layers are loaded next.
SetUp(m, w) ==
  /\ proc' = [proc EXCEPT ![w] = "load"] /\ adv' = [adv EXCEPT ![w] = "last"]
  /\ blocks' = [blocks EXCEPT ![w] = asg[m][w]] /\ by' = [by EXCEPT ![w] = {m}]
  /\ pledged' = [pledged EXCEPT ![m] = @ \cup {w}]

WAssignNeeds(m, w) == /\ proc[w] = "setup"
                      /\ WReads(m, w, "proof", "assign", "data")
                      /\ Says(m, w, <<"needs">>)
                      /\ UNCHANGED worker

WAssignCached(m, w) == /\ proc[w] = "setup"
                       /\ WReads(m, w, "proof", "assign", "none")
                       /\ Says(m, w, <<"cached", "ready">>)
                       /\ SetUp(m, w)

WData(m, w) == /\ WReads(m, w, "data", "data", "none")
               /\ Says(m, w, <<"ready">>)
               /\ SetUp(m, w)

\* A serving worker takes a LayerAssignment for a master that was restarted:
\* it acknowledges it and keeps the layers it has.
WReassign(m, w) == /\ proc[w] = "serve"
                   /\ WReads(m, w, "proof", "assign", "none")
                   /\ Says(m, w, <<"cached", "ready">>)
                   /\ pledged' = [pledged EXCEPT ![m] = @ \cup {w}]
                   /\ UNCHANGED <<proc, adv, blocks, by>>

\* Mutant of WHello: worker_setup answers it too.
HelloAnytime(m, w) == /\ WReads(m, w, "proof", "hello", "infer")
                      /\ Says(m, w, <<"info">>)
                      /\ UNCHANGED worker

WHello(m, w) == /\ proc[w] = "serve"
                /\ WReads(m, w, "proof", "hello", "infer")
                /\ Says(m, w, <<"info">>)
                /\ UNCHANGED worker

\* Worker::new has loaded the layers.
WLoad(w) ==
  /\ proc[w] = "load"
  /\ proc' = [proc EXCEPT ![w] = "serve"]
  /\ UNCHANGED <<master, air, adv, blocks, by, pledged, conns, bounds>>

\* Mutant of WSetupErr: the end of the connection during the transfer is missed.
SetupErrUnseen(m, w) ==
  /\ proc[w] = "setup" /\ end[m][w] \in Open \ {"data"}
  /\ \/ HungUpW(m, w)
     \/ end[m][w] = "proof" /\ toW[m][w] # <<>> /\ Head(toW[m][w]) = "hello"
  /\ Exit(w) /\ UNCHANGED bounds

\* worker_setup fails, on a message it does not expect or a connection that
\* ended, and so does the process.
WSetupErr(m, w) ==
  /\ proc[w] = "setup" /\ end[m][w] \in Open
  /\ \/ HungUpW(m, w)
     \/ end[m][w] = "proof" /\ toW[m][w] # <<>> /\ Head(toW[m][w]) = "hello"
  /\ Exit(w) /\ UNCHANGED bounds

\* A handler of a serving worker ends with its connection.
WHandlerEnds(m, w) ==
  /\ proc[w] = "serve" /\ end[m][w] \in Open /\ HungUpW(m, w)
  /\ end' = [end EXCEPT ![m][w] = "none"]
  /\ UNCHANGED <<master, air, worker, backlog, toW, toM, bounds>>

\* The process dies, its layers cannot be loaded, or a stranger's connection
\* is the one worker_setup accepts.
WCrash(w) ==
  /\ proc[w] # "down" /\ crashes < MaxCrashes
  /\ crashes' = crashes + 1
  /\ Exit(w) /\ UNCHANGED starts

-----------------------------------------------------------------------------
MStep(m) == \/ MTopology(m) \/ MAbort(m) \/ MServe(m)
            \/ \E a \in Assignments(m) : MAssign(m, a)

MTask(m, w) == \/ MConnect(m, w) \/ MRefused(m, w) \/ MAuth(m, w)
               \/ MAckNeeds(m, w) \/ MAckCached(m, w) \/ MPush(m, w)
               \/ MReady(m, w) \/ MInfo(m, w) \/ MTaskErr(m, w)

WConn(m, w) == \/ WAssignNeeds(m, w) \/ WAssignCached(m, w)
               \/ WData(m, w) \/ WReassign(m, w)
               \/ WHello(m, w) \/ WSetupErr(m, w) \/ WHandlerEnds(m, w)

Next == \/ \E m \in Masters : MQuery(m) \/ MStep(m) \/ MCrash(m)
        \/ \E w \in Workers : WSilent(w) \/ WStart(w) \/ WAccept(w) \/ WLoad(w)
                              \/ WCrash(w)
        \/ \E m \in Masters, w \in Workers :
             WAnswer(m, w) \/ MFind(m, w) \/ MTask(m, w) \/ WConn(m, w)

\* What runs by itself: tasks, accept loops, handlers.  Nothing has to be
\* started, answered or to fail.
Steps == \/ \E m \in Masters : MStep(m)
         \/ \E w \in Workers : WAccept(w) \/ WLoad(w)
         \/ \E m \in Masters, w \in Workers : MTask(m, w) \/ WConn(m, w)

\* Some of them goes on while one can: no behaviour repeats a state, so that
\* fairness to each would ask for more than is needed.
Fairness == WF_vars(Steps)

Spec == Init /\ [][Next]_vars /\ Fairness

-----------------------------------------------------------------------------
TypeOK ==
  /\ mphase \in [Masters -> {"off", "find", "setup", "link", "serve", "dead"}]
  /\ air \subseteq Masters \X Workers
  /\ found \in [Masters -> SUBSET Workers]
  /\ asg \in [Masters -> [Workers -> SUBSET Layers]]
  /\ task \in [Masters -> [Workers -> Awaiting \cup {"none", "connect", "done",
                                                      "linked", "failed"}]]
  /\ tries \in [Masters -> [Workers -> Nat]]
  /\ proc \in [Workers -> {"down", "setup", "load", "serve"}]
  /\ adv \in [Workers -> {"on", "last", "off"}]
  /\ backlog \in [Workers -> Seq(Masters)]
  /\ end \in [Masters -> [Workers -> Open \cup {"none", "queued"}]]
  /\ toW \in [Masters -> [Workers ->
       Seq({"nonce", "assign", "hello", "data"})]]
  /\ toM \in [Masters -> [Workers ->
       Seq({"proof", "needs", "cached", "ready", "info"})]]
  /\ blocks \in [Workers -> SUBSET Layers]
  /\ by \in [Workers -> SUBSET Masters] /\ pledged \in [Masters -> SUBSET Workers]
  /\ starts \in [Workers -> Nat] /\ crashes \in Nat

\* worker_setup talks to one connection only.
OneSession ==
  \A w \in Workers : proc[w] = "setup" =>
    \A m, n \in Masters : end[m][w] \in Open /\ end[n][w] \in Open => m = n

SetupInv == TypeOK /\ OneSession

\* A serving master's worker holds the layers it is sent, unless another
\* master had it set up: workers that restarted, were never set up or were
\* given up in between are not talked to.
Routed ==
  \A m \in Masters, w \in Workers :
    mphase[m] = "serve" /\ task[m][w] = "linked" /\ end[m][w] = "infer" =>
      asg[m][w] \subseteq blocks[w] \/ by[w] \notin {{}, {m}}

\* ... the comment at worker.rs:317-319 has no exception: "we already have
\* cached data".
RoutedAlways ==
  \A m \in Masters, w \in Workers :
    mphase[m] = "serve" /\ task[m][w] = "linked" /\ end[m][w] = "infer" =>
      asg[m][w] \subseteq blocks[w]

\* A master's cluster forms of all the workers it gave layers, each having
\* declared itself ready, or not at all.
Cluster == INSTANCE Formation WITH
  members  <- [m \in Masters |-> Members(m)],
  declared <- pledged,
  outcome  <- [m \in Masters |->
                 CASE mphase[m] \in {"off", "find", "setup"} -> "open"
                   [] mphase[m] \in {"link", "serve"} -> "formed"
                   [] OTHER -> "aborted"]

Formed == Cluster!Spec

Settled ==
  /\ \A m \in Masters : mphase[m] \in {"off", "serve", "dead"}
  /\ \A w \in Workers : proc[w] # "load"
  /\ \A m \in Masters, w \in Workers : proc[w] = "setup" => end[m][w] = "none"

\* Everything comes to an end: in the long run no master is left waiting for a
\* worker and no worker in a setup its master has given up, whatever dies.
Settles == <>[]Settled
=============================================================================
