---------------------------- MODULE ModelTransfer ---------------------------
(***************************************************************************)
(* One worker machine's model directories and the setup connections that   *)
(* fill them: worker_setup from the LayerAssignment on, push_model_data,   *)
(* receive_model_data and has_valid_model_cache (cake/sharding/mod.rs).    *)
(* A connection or either process can die between any two chunks, and in   *)
(* the middle of a write; the directories survive.                         *)
(*                                                                         *)
(* Data abstraction.  A directory is named by the hash of config.json, so  *)
(* by the model.  A file is known by the chunks appended since it was      *)
(* created, the index file also by the layers its weight_map refers to.    *)
(***************************************************************************)
EXTENDS Integers, Sequences, FiniteSets

CONSTANTS Layers,      \* the models' transformer layers
          Models,      \* models a master may come with
          Sharded,     \* those with a model.safetensors.index.json
          Shards,      \* shard files of a sharded model
          ShardsOf,    \* layer -> the shards that hold its tensors
          WeightChunks,\* chunks of a weight file
          Window,      \* bound: chunks the connection buffers
          MaxSetups    \* bound: setup connections in a behaviour

Small == {"config", "tokenizer", "index"}
NoFile == "-"

ShardAssumption == /\ Models # {} /\ Sharded \subseteq Models
                   /\ ShardsOf \in [Layers -> (SUBSET Shards) \ {{}}]
                   /\ Shards \cap (Small \cup {"single", NoFile}) = {}
ChunkAssumption == WeightChunks \in Nat \ {0} /\ Window \in Nat \ {0}
SetupAssumption == MaxSetups \in Nat

VARIABLES
  setups,  \* setup connections so far
  phase,   \* the worker process: down, wait, receive, load, serve
  model,   \* model of the connection at hand, its directory
  layers,  \* layers of its LayerAssignment
  pushing, \* the master's task is in push_model_data
  pend,    \* files it has not sent to the end
  sent,    \* chunks sent of the file at hand
  at,      \* the file at hand
  wire,    \* messages in the connection, towards the worker
  cur,     \* current_file of receive_model_data
  disk,    \* directory -> file -> chunks in it, or Absent
  covers,  \* directory -> layers its index file maps
  dirty    \* history: directories with a transfer begun and not completed

sender   == <<pushing, pend, sent, at>>
receiver == <<phase, cur>>
store    == <<disk, covers>>
session  == <<setups, model, layers>>
vars     == <<session, sender, receiver, wire, store, dirty>>

-----------------------------------------------------------------------------
(* Files. *)

Files  == Small \cup {"single"} \cup Shards
Absent == -1
Chunks(f) == IF f \in Small THEN 1 ELSE WeightChunks

\* Mutant of WeightFiles: one shard per layer.
OneShard(m, ls) ==
  IF m \in Sharded THEN {CHOOSE s \in ShardsOf[l] : TRUE : l \in ls} ELSE {"single"}

\* needed_shards, or the only weight file.
WeightFiles(m, ls) ==
  IF m \in Sharded THEN UNION {ShardsOf[l] : l \in ls} ELSE {"single"}

ToSend(m, ls) == {"config", "tokenizer"} \cup WeightFiles(m, ls)
                   \cup (IF m \in Sharded THEN {"index"} ELSE {})

\* files_to_send in order; the shards come out of a HashSet in any order.
First(fs) == IF "config" \in fs THEN {"config"}
             ELSE IF "tokenizer" \in fs THEN {"tokenizer"}
             ELSE IF "index" \in fs THEN {"index"} ELSE fs

Exists(m, f)   == disk[m][f] # Absent
Complete(m, f) == disk[m][f] = Chunks(f)

\* Mutant of HasValidCache: the index is proof enough.
TrustIndex(m, ls) ==
  /\ Exists(m, "config")
  /\ \/ Exists(m, "single")
     \/ Complete(m, "index")

\* has_valid_model_cache: files need only exist, and one shard of a layer is
\* enough.  An index file cut short is no JSON.
HasValidCache(m, ls) ==
  /\ Exists(m, "config")
  /\ \/ Exists(m, "single")
     \/ /\ Complete(m, "index")
        /\ \A l \in ls : /\ l \in covers[m]
                         /\ \E s \in ShardsOf[l] : Exists(m, s)

\* All that loading the layers ls needs is there.
Holds(m, ls) ==
  /\ Complete(m, "config")
  /\ m \in Sharded => Complete(m, "index") /\ ls \subseteq covers[m]
  /\ \A f \in WeightFiles(m, ls) : Complete(m, f)

Chunk(f) == [file |-> f, done |-> FALSE]
Done     == [file |-> NoFile, done |-> TRUE]

-----------------------------------------------------------------------------
Init ==
  /\ setups = 0 /\ phase = "down"
  /\ model = CHOOSE m \in Models : TRUE
  /\ layers = {}
  /\ pushing = FALSE /\ pend = {} /\ sent = 0 /\ at = NoFile
  /\ wire = <<>> /\ cur = NoFile
  /\ disk = [m \in Models |-> [f \in Files |-> Absent]]
  /\ covers = [m \in Models |-> {}]
  /\ dirty = {}

\* The worker is started and waits for a master.
Start ==
  /\ phase = "down" /\ setups < MaxSetups
  /\ phase' = "wait"
  /\ setups' = setups + 1
  /\ UNCHANGED <<model, layers, sender, wire, cur, store, dirty>>

\* LayerAssignment and its ack: the transfer starts unless the directory looks
\* valid; then the worker is ready at once.
Assign(m, ls) ==
  /\ phase = "wait"
  /\ model' = m /\ layers' = ls
  /\ wire' = <<>> /\ cur' = NoFile /\ sent' = 0 /\ at' = NoFile
  /\ IF HasValidCache(m, ls)
       THEN /\ phase' = "load"
            /\ pushing' = FALSE /\ pend' = {}
            /\ UNCHANGED dirty
       ELSE /\ phase' = "receive"
            /\ pushing' = TRUE /\ pend' = ToSend(m, ls)
            /\ dirty' = dirty \cup {m}
  /\ UNCHANGED <<setups, store>>

\* push_model_data: the next chunk of the file at hand, or of the next file.
PushChunk(f) ==
  /\ pushing /\ Len(wire) < Window
  /\ IF at = NoFile THEN f \in First(pend) ELSE f = at
  /\ wire' = Append(wire, Chunk(f))
  /\ IF sent + 1 = Chunks(f)
       THEN /\ pend' = pend \ {f} /\ sent' = 0 /\ at' = NoFile
       ELSE /\ sent' = sent + 1 /\ at' = f
            /\ UNCHANGED pend
  /\ UNCHANGED <<session, pushing, receiver, store, dirty>>

\* Mutant of PushDone: done is signalled with the last file unsent.
PushDoneEarly ==
  /\ pushing /\ Cardinality(pend) <= 1 /\ Len(wire) < Window
  /\ wire' = Append(wire, Done)
  /\ pushing' = FALSE
  /\ UNCHANGED <<session, pend, sent, at, receiver, store, dirty>>

PushDone ==
  /\ pushing /\ pend = {} /\ Len(wire) < Window
  /\ wire' = Append(wire, Done)
  /\ pushing' = FALSE
  /\ UNCHANGED <<session, pend, sent, at, receiver, store, dirty>>

\* Mutant of Opened: the file is opened for appending, not created.
Reopened(f) == IF Exists(model, f) THEN disk[model][f] ELSE 0

\* The chunks in f when a chunk for it arrives: File::create truncates the
\* file unless it is the one being written.
Opened(f) == IF f = cur THEN disk[model][f] ELSE 0

\* receive_model_data writes a chunk.
ReceiveChunk ==
  /\ phase = "receive" /\ wire # <<>> /\ ~Head(wire).done
  /\ LET f == Head(wire).file
     IN  /\ cur' = f
         /\ disk' = [disk EXCEPT ![model][f] = Opened(f) + 1]
         /\ covers' = IF f = "index" THEN [covers EXCEPT ![model] = layers] ELSE covers
  /\ wire' = Tail(wire)
  /\ UNCHANGED <<session, phase, sender, dirty>>

\* The process dies, or the disk is full, in the middle of a write: the file
\* is created or has part of the chunk, the connection is gone.
WriteFails ==
  /\ phase = "receive" /\ wire # <<>> /\ ~Head(wire).done
  /\ LET f == Head(wire).file
     IN  /\ disk' = [disk EXCEPT ![model][f] = Opened(f)]
         /\ covers' = IF f = "index" THEN [covers EXCEPT ![model] = {}] ELSE covers
  /\ phase' = "down" /\ pushing' = FALSE /\ wire' = <<>>
  /\ UNCHANGED <<session, pend, sent, at, cur, dirty>>

\* ModelDataDone: the worker reports ready and goes on to load its layers.
ReceiveDone ==
  /\ phase = "receive" /\ wire # <<>> /\ Head(wire).done
  /\ phase' = "load" /\ cur' = NoFile
  /\ wire' = Tail(wire)
  /\ dirty' = dirty \ {model}
  /\ UNCHANGED <<session, sender, store>>

\* A process dies, the connection breaks or a checksum does not match: the
\* worker's setup fails and its process ends; the master's task fails.
Break ==
  /\ phase \in {"wait", "receive"}
  /\ phase' = "down" /\ pushing' = FALSE /\ wire' = <<>> /\ cur' = NoFile
  /\ UNCHANGED <<session, pend, sent, at, store, dirty>>

\* Mutant of Load: it waits for files that are missing.
LoadWaits ==
  /\ phase = "load" /\ Holds(model, layers)
  /\ phase' = "serve"
  /\ UNCHANGED <<session, sender, wire, cur, store, dirty>>

\* Worker::new loads the blocks from the directory; a truncated or missing
\* file is an error that ends the process.
Load ==
  /\ phase = "load"
  /\ phase' = IF Holds(model, layers) THEN "serve" ELSE "down"
  /\ UNCHANGED <<session, sender, wire, cur, store, dirty>>

\* The serving process dies.
Die ==
  /\ phase = "serve"
  /\ phase' = "down"
  /\ UNCHANGED <<session, sender, wire, cur, store, dirty>>

AnyAssign == \E m \in Models, ls \in (SUBSET Layers) \ {{}} : Assign(m, ls)
AnyPush   == \E f \in pend : PushChunk(f)

Next == \/ Start \/ AnyAssign \/ AnyPush \/ PushDone
        \/ ReceiveChunk \/ WriteFails \/ ReceiveDone \/ Break \/ Load \/ Die

\* The two processes keep running; failures are not required to happen.
Steps == AnyPush \/ PushDone \/ ReceiveChunk \/ ReceiveDone \/ Load

Spec == Init /\ [][Next]_vars /\ WF_vars(Steps)

-----------------------------------------------------------------------------
TypeOK ==
  /\ setups \in 0 .. MaxSetups
  /\ phase \in {"down", "wait", "receive", "load", "serve"}
  /\ model \in Models /\ layers \subseteq Layers
  /\ pushing \in BOOLEAN /\ pend \subseteq Files
  /\ sent \in Nat /\ at \in Files \cup {NoFile}
  /\ wire \in Seq([file : Files \cup {NoFile}, done : BOOLEAN])
  /\ cur \in Files \cup {NoFile}
  /\ disk \in [Models -> [Files -> Nat \cup {Absent}]]
  /\ covers \in [Models -> SUBSET Layers]
  /\ dirty \subseteq Models

\* A directory no transfer was cut short in is what has_valid_model_cache takes
\* it for: where it says valid, everything needed to load the layers is there,
\* whatever was assigned and transferred before.
CacheSound ==
  \A m \in Models \ dirty : \A ls \in (SUBSET Layers) \ {{}} :
    HasValidCache(m, ls) => Holds(m, ls)

\* When the transfer is over the directory holds all the layers of the
\* assignment, with whatever earlier transfers, also broken ones, left there.
Delivery == ReceiveDone => Holds(model, layers)'
Delivered == [][Delivery]_vars

\* A worker that has reported ready has valid model data for its layers (the
\* comments at mod.rs:764 and mod.rs:906).
ReadyHolds == phase = "load" => Holds(model, layers)

\* A transfer ends: with the worker's layers loaded, or with its process down.
InSetup == phase \in {"receive", "load"}
SetupOver == phase \in {"serve", "down"}
SetupEnds == InSetup ~> SetupOver
=============================================================================
