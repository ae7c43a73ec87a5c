------------------------------ MODULE Startup ------------------------------
(***************************************************************************)
(* How the processes of a cluster start: the subcommand that decides what  *)
(* a process is (main.rs), the topology it gets, from zero-config setup,   *)
(* from a file or none (Context::from_args, topology.rs), the layers a     *)
(* worker loads (Worker::new) and where the master places each of its own  *)
(* (TextModelBase::load).                                                  *)
(*                                                                         *)
(* A layer is named by the prefix of the model's tensors and its number.   *)
(***************************************************************************)
EXTENDS Integers, FiniteSets, Sequences

CONSTANTS
  WorkerSeq,  \* the worker machines, the strongest first
  Master,     \* the machine the master runs on
  NumLayers,
  Archs,      \* the architectures of the model
  Stems,      \* architecture -> the prefixes a checkpoint of it may use
  Files,      \* topology files: machine -> the layer ranges <<first, last>> it lists
  Tflops      \* machine -> its compute power

VARIABLES
  arch,
  stem,       \* the prefix of the checkpoint's tensors
  index,      \* the checkpoint has an index
  file,       \* the topology file of this cluster
  cmd,        \* machine -> the options of its `cake run` or `cake serve`
  at,         \* machine -> where its start is
  topo,       \* machine -> its topology: machine -> set of layer names
  loaded,     \* machine -> the layers it holds
  placed      \* the master's layers -> the machine that computes it

startvars == <<arch, stem, index, file, cmd, at, topo, loaded, placed>>

Workers == {WorkerSeq[k] : k \in DOMAIN WorkerSeq}
Machines == Workers \cup {Master}

\* Topology files name workers.
StartAssumption == \A f \in Files : DOMAIN f \subseteq Workers

\* Whoever reads a topology file gets the same topology: it lists some layer, or
\* the power of all machines is the same.
Even == \/ \A m \in Machines : Tflops[m] = Tflops[Master]
        \/ \A f \in Files : DOMAIN f # {} => \E w \in DOMAIN f : \E r \in f[w] : r[1] .. r[2] # {}

None == "none"
NoTopology == <<>>
Numbers == 0 .. NumLayers - 1

\* The prefix in the configuration of each architecture, and the one the
\* assignment of zero-config setup uses (layer_prefix_for_config).
ConfigStem(a) == IF a = "llama" THEN "model" ELSE "model.language_model"
SetupStem(a)  == IF a = "qwen3_5" THEN "model.language_model" ELSE "model"

Commands(m) ==
  LET line(model, key, uses, name) ==
        [model |-> model, key |-> key, file |-> uses, name |-> name]
  IN  IF m = Master
      THEN [model : {TRUE}, key : BOOLEAN, file : BOOLEAN, name : {None}]
      ELSE {line(FALSE, TRUE, FALSE, m),     \* zero-config worker
            line(FALSE, TRUE, TRUE, m),      \* worker of a topology file
            line(FALSE, TRUE, TRUE, None),
            line(TRUE, FALSE, TRUE, m),      \* as docs/clustering.md starts it
            line(FALSE, FALSE, FALSE, m)}

StartInit ==
  /\ arch \in Archs
  /\ stem \in Stems[arch]
  /\ index \in BOOLEAN
  /\ file \in Files
  /\ cmd \in {c \in [Machines -> UNION {Commands(m) : m \in Machines}] :
                \A m \in Machines : c[m] \in Commands(m)}
  /\ at = [m \in Machines |-> "main"]
  /\ topo = [m \in Machines |-> NoTopology]
  /\ loaded = [m \in Machines |-> {}]
  /\ placed = <<>>

Goto(m, there) == at' = [at EXCEPT ![m] = there]

\* The subcommand and the options decide what a process is: with a model a
\* master, with only a cluster key a worker.
Role(m) == IF cmd[m].model THEN "master" ELSE IF cmd[m].key THEN "worker" ELSE "none"
ZeroConfig(m) == Role(m) # "none" /\ cmd[m].key /\ ~cmd[m].file

\* "model is required."
Refuse(m) ==
  /\ at[m] = "main" /\ Role(m) = "none"
  /\ Goto(m, "failed")
  /\ UNCHANGED <<arch, stem, index, file, cmd, topo, loaded, placed>>

\* run_as_worker and run_as_master without a topology file: discovery.
Discover(m) ==
  /\ at[m] = "main" /\ ZeroConfig(m)
  /\ Goto(m, "setup")
  /\ UNCHANGED <<arch, stem, index, file, cmd, topo, loaded, placed>>

(***************************************************************************)
(* Layer assignment in proportion to compute power (module LayerAssignment *)
(* has the limits of memory) over the workers found, the strongest first:   *)
(* power is that of the machine that computes it.                           *)
(***************************************************************************)
Rounded(a, b) == (2 * a + b) \div (2 * b)

Share(prefix, power, found) ==
  LET ws == SelectSeq(WorkerSeq, LAMBDA w : w \in found)
      n == Len(ws)
      sum[k \in 1 .. n + 1] == IF k > n THEN 0 ELSE Tflops[ws[k]] + sum[k + 1]
      count(k, left) == IF k = n \/ left = 0 THEN left
                        ELSE LET c == Rounded(Tflops[ws[k]] * left, sum[k])
                             IN  IF c = 0 THEN 1 ELSE c
      left[k \in 1 .. n + 1] == IF k = 1 THEN Rounded(sum[1] * NumLayers, sum[1] + power)
                                ELSE left[k - 1] - count(k - 1, left[k - 1])
      first(k) == left[1] - left[k]
  IN  [w \in found |->
         LET k == CHOOSE k \in DOMAIN ws : ws[k] = w
         IN  {<<prefix, i>> : i \in first(k) .. first(k + 1) - 1}]

\* master_setup and the worker_setup of the machines it found: the workers that
\* get layers get them, and the master a topology of those; none found, none used.
Setup(m) ==
  /\ m = Master /\ at[m] = "setup"
  /\ \E found \in SUBSET {w \in Workers : Role(w) = "worker" /\ at[w] = "setup"} :
       LET shares == Share(SetupStem(arch), Tflops[m], found)
           given == {w \in found : shares[w] # {}}
       IN  /\ topo' = [x \in Machines |->
                         CASE x = m -> [w \in given |-> shares[w]]
                           [] x \in given -> [w \in {x} |-> shares[w]]
                           [] OTHER -> topo[x]]
           /\ at' = [x \in Machines |-> IF x = m \/ x \in given THEN "open" ELSE at[x]]
  /\ UNCHANGED <<arch, stem, index, file, cmd, loaded, placed>>

(***************************************************************************)
(* Context::from_args.                                                     *)
(***************************************************************************)
\* Topology::from_path: the ranges are inclusive; their names are the checkpoint's.
Expand(ranges) == UNION {{<<stem, n>> : n \in r[1] .. r[2]} : r \in ranges}

\* auto_assign_layers_with_strategy: the layers of the nodes of a file, by the power
\* of the machine that reads it.
AutoAssign(m) == Share(SetupStem(arch), Tflops[m], DOMAIN file)

\* A file that lists no layer at all has them assigned.
Context(m) ==
  /\ at[m] = "main" /\ Role(m) # "none" /\ ~ZeroConfig(m)
  /\ LET listed == [w \in DOMAIN file |-> Expand(file[w])]
     IN  topo' = [topo EXCEPT ![m] =
           IF ~cmd[m].file THEN NoTopology
           ELSE IF DOMAIN file # {} /\ \A w \in DOMAIN file : listed[w] = {}
                THEN AutoAssign(m)
                ELSE listed]
  /\ Goto(m, "open")
  /\ UNCHANGED <<arch, stem, index, file, cmd, loaded, placed>>

\* The prefix of the first layer in the index, else the configuration's.
Prefix == IF index THEN stem ELSE ConfigStem(arch)
InCheckpoint(name) == name[1] = stem /\ name[2] \in Numbers

\* Mutant of NodeOf: any node of the topology file will do.
AnyNode(m) == DOMAIN topo[m]

\* Worker::new: the node of its name, or the first of the map, whichever that is.
NodeOf(m) == IF cmd[m].name \in DOMAIN topo[m] THEN {cmd[m].name} ELSE DOMAIN topo[m]

StartWorker(m) ==
  /\ Role(m) = "worker" /\ at[m] = "open"
  /\ \/ /\ cmd[m].name = None \/ DOMAIN topo[m] = {}
        /\ Goto(m, "failed") /\ UNCHANGED loaded
     \/ /\ cmd[m].name # None
        /\ \E node \in NodeOf(m) :
             IF \A name \in topo[m][node] : InCheckpoint(name)
             THEN /\ Goto(m, "up")
                  /\ loaded' = [loaded EXCEPT ![m] = topo[m][node]]
             ELSE Goto(m, "failed") /\ UNCHANGED loaded
  /\ UNCHANGED <<arch, stem, index, file, cmd, topo, placed>>

\* TextModelBase::load: first the local layers, then a connection for each other
\* one; the map is searched in no particular order.
Names == {<<Prefix, n>> : n \in Numbers}
NodesFor(m, name) == {w \in DOMAIN topo[m] : name \in topo[m][w]}

LoadLocal(m) ==
  /\ Role(m) = "master" /\ at[m] = "open"
  /\ LET mine == {name \in Names : NodesFor(m, name) = {}} IN
     IF \A name \in mine \cup Names : InCheckpoint(name)
     THEN /\ loaded' = [loaded EXCEPT ![m] = mine]
          /\ Goto(m, "connect")
     ELSE Goto(m, "failed") /\ UNCHANGED loaded
  /\ UNCHANGED <<arch, stem, index, file, cmd, topo, placed>>

\* Client::new wants a listener at the node's address and the same cluster key.
Listens(m, w) == Role(w) = "worker" /\ at[w] = "up" /\ cmd[w].key = cmd[m].key

Connect(m) ==
  /\ Role(m) = "master" /\ at[m] = "connect"
  /\ LET remote == Names \ loaded[m] IN
     \/ \E pick \in [remote -> DOMAIN topo[m]] :
          /\ \A name \in remote : pick[name] \in NodesFor(m, name)
          /\ \A name \in remote : Listens(m, pick[name])
          /\ placed' = IF m = Master THEN [name \in Names |->
                         IF name \in remote THEN pick[name] ELSE m] ELSE placed
          /\ Goto(m, "up")
     \/ /\ \E name \in remote : \E w \in NodesFor(m, name) : ~Listens(m, w)
        /\ Goto(m, "failed") /\ UNCHANGED placed
  /\ UNCHANGED <<arch, stem, index, file, cmd, topo, loaded>>

StartNext ==
  \E m \in Machines :
    Refuse(m) \/ Discover(m) \/ Setup(m) \/ Context(m) \/ StartWorker(m) \/ LoadLocal(m) \/ Connect(m)

StartSpec == StartInit /\ [][StartNext]_startvars

(***************************************************************************)
(* Properties.                                                             *)
(***************************************************************************)
TypeOK ==
  /\ \A m \in Machines :
       /\ at[m] \in {"main", "setup", "open", "connect", "up", "failed"}
       /\ DOMAIN topo[m] \subseteq Workers
  /\ DOMAIN placed \subseteq Names

\* However the cluster was started, a master that serves has every layer of the
\* model in one place, and the machine it sends a layer to has loaded it
\* (Worker::new, TextModelBase::load, Context::from_args).
Placed ==
  at[Master] = "up" =>
    /\ DOMAIN placed = Names
    /\ \A name \in Names : name \in loaded[placed[name]]

\* A topology file may leave the layers to the master to decide (the comment at
\* topology.rs:203): when it serves, the workers it names that do have loaded what it
\* will send them (Context::from_args, Worker::new).
MasterDecides ==
  at[Master] = "up" =>
    \A w \in DOMAIN topo[Master] :
      (Role(w) = "worker" /\ cmd[w].name = w /\ at[w] = "up") => loaded[w] = topo[Master][w]
=============================================================================
