----------------------------- MODULE ModelCache -----------------------------
(***************************************************************************)
(* The cache of downloaded models: `cake pull` and every start that names  *)
(* a repository (utils/hf.rs ensure_model_downloaded), `cake list` and     *)
(* `cake rm` (utils/models.rs), over downloads that fail, a process that   *)
(* dies half way and a repository that publishes a new revision.           *)
(*                                                                         *)
(* hf-hub stores what it downloads in a snapshot directory per revision    *)
(* and moves a file there only when it is whole.                           *)
(***************************************************************************)
EXTENDS Integers

CONSTANTS
  RepoLayouts, \* the layouts of the repository: "sharded", "single", "root"
  Shards,      \* the shards an index names, or the files of a "root" repository
  MaxRevs,     \* bound: revisions the repository publishes
  MaxFaults    \* bound: failed downloads, crashes and interrupted removals

CacheAssumption ==
  /\ Shards \cap {"config", "tokenizer", "index", "model"} = {}
  /\ MaxRevs \in Nat \ {0} /\ MaxFaults \in Nat

VARIABLES
  repo,       \* the layout of the repository
  rev,        \* its current revision
  snaps,      \* revision -> the files of its snapshot directory
  age,        \* revision -> how many directories have changed since its own did
  pc,         \* where the running command is
  dir,        \* the snapshot ensure_model_downloaded will return (0: none yet)
  todo,       \* the files it has still to fetch
  smooth,     \* nothing failed and nothing was published since the pull began
  result,     \* what the last pull returned: a revision, or 0 for an error
  faults

cachevars == <<repo, rev, snaps, age, pc, dir, todo, smooth, result, faults>>

Revs == 1 .. MaxRevs

\* What the repository offers.
Offered(layout) ==
  CASE layout = "sharded" -> {"config", "tokenizer", "index"} \cup Shards
    [] layout = "single"  -> {"config", "tokenizer", "model"}
    [] OTHER              -> Shards

CacheInit ==
  /\ repo \in RepoLayouts
  /\ rev = 1
  /\ snaps = [r \in Revs |-> {}]
  /\ age = [r \in Revs |-> r - 1]
  /\ pc = "idle" /\ dir = 0 /\ todo = {} /\ smooth = TRUE /\ result = 0 /\ faults = 0

(***************************************************************************)
(* find_cached_model and check_model_dir.                                  *)
(***************************************************************************)
\* Mutant of Cached: the shards of an index are not looked for.
IndexOnly(files) == "config" \in files /\ ("model" \in files \/ "index" \in files)
Cached(files) ==
  /\ "config" \in files
  /\ "model" \in files \/ ("index" \in files /\ Shards \subseteq files)

\* "complete" and "partial" as `cake list` shows them; other directories are no models.
Status(files) ==
  IF "config" \notin files THEN "none"
  ELSE IF "index" \in files
       THEN IF Shards \subseteq files THEN "complete" ELSE "partial"
       ELSE IF "model" \in files THEN "complete" ELSE "partial"

\* The snapshots that list_models finds.
Models == {r \in Revs : Status(snaps[r]) # "none"}

\* The complete snapshot that changed last.
NewestOf(set) == CHOOSE r \in set : \A o \in set : age[r] <= age[o]
\* The directory of r changes.
Changed(r) ==
  age' = [o \in Revs |-> IF o = r THEN 0 ELSE IF age[o] < age[r] THEN age[o] + 1 ELSE age[o]]

\* find_cached_model: the newest of the complete snapshots.
Hits == {r \in Revs : Cached(snaps[r])}

(***************************************************************************)
(* ensure_model_downloaded.                                                *)
(***************************************************************************)
Goto(next) == pc' = next
Answer(r) == result' = r /\ pc' = "idle" /\ dir' = 0 /\ todo' = {}

\* `?` on a download, or a file the repository does not have.
Stored(f) ==
  /\ f \in Offered(repo)
  /\ snaps' = [snaps EXCEPT ![rev] = @ \cup {f}]
  /\ IF f \in snaps[rev] THEN UNCHANGED age ELSE Changed(rev)
  /\ UNCHANGED <<faults, smooth>>
Refused(f) ==
  /\ \/ f \notin Offered(repo) /\ UNCHANGED <<faults, smooth>>
     \/ f \in Offered(repo) /\ faults < MaxFaults /\ faults' = faults + 1 /\ smooth' = FALSE
  /\ UNCHANGED <<snaps, age>>

Pull ==
  /\ pc = "idle"
  /\ IF Hits # {} THEN Answer(NewestOf(Hits)) ELSE /\ Goto("config") /\ result' = 0
                                                   /\ UNCHANGED <<dir, todo>>
  /\ smooth' = TRUE
  /\ UNCHANGED <<repo, rev, snaps, age, faults>>

\* config.json and tokenizer.json: an error is taken for an absent file.
Optional(at, f, next) ==
  /\ pc = at
  /\ Stored(f) \/ Refused(f)
  /\ Goto(next)
  /\ UNCHANGED <<repo, rev, dir, todo, result>>

Index ==
  /\ pc = "index"
  /\ \/ Stored("index") /\ dir' = rev /\ todo' = Shards /\ Goto("shards")
     \/ Refused("index") /\ Goto("single") /\ UNCHANGED <<dir, todo>>
  /\ UNCHANGED <<repo, rev, result>>

Single ==
  /\ pc = "single"
  /\ \/ Stored("model") /\ Answer(rev)
     \/ Refused("model") /\ Goto("list") /\ UNCHANGED <<dir, todo, result>>
  /\ UNCHANGED <<repo, rev>>

\* The .safetensors files at the root of the repository.
ListFiles ==
  /\ pc = "list"
  /\ \/ /\ todo' = Offered(repo) \cap (Shards \cup {"model"})
        /\ Goto("shards") /\ UNCHANGED <<smooth, faults, dir, result>>
     \/ /\ faults < MaxFaults /\ faults' = faults + 1 /\ smooth' = FALSE
        /\ Answer(0)
  /\ UNCHANGED <<repo, rev, snaps, age>>

\* The directory of the first file of a "root" repository.
Directory == IF dir = 0 THEN rev ELSE dir

Shard ==
  /\ pc = "shards"
  /\ IF todo = {}
     THEN Answer(dir) /\ UNCHANGED <<snaps, age, smooth, faults>>
     ELSE \E f \in todo :
            \/ /\ Stored(f) /\ todo' = todo \ {f}
               /\ dir' = Directory
               /\ UNCHANGED <<pc, result>>
            \/ Refused(f) /\ Answer(0)
  /\ UNCHANGED <<repo, rev>>

(***************************************************************************)
(* cake rm: find_model and delete_model.                                   *)
(***************************************************************************)
\* The directory of the model goes with all its snapshots, file by file.
\* (The name without its owner is refused as ambiguous when two snapshots are models;
\* the full name always finds one.)
FindModel ==
  /\ pc = "idle"
  /\ Models # {}
  /\ Goto("remove") /\ result' = 0
  /\ UNCHANGED <<repo, rev, snaps, age, dir, todo, smooth, faults>>

RemoveFile ==
  /\ pc = "remove"
  /\ IF \A r \in Revs : snaps[r] = {}
     THEN Goto("idle") /\ UNCHANGED <<snaps, age>>
     ELSE /\ \E r \in Revs : \E f \in snaps[r] :
               /\ snaps' = [snaps EXCEPT ![r] = @ \ {f}]
               /\ Changed(r)
          /\ UNCHANGED pc
  /\ UNCHANGED <<repo, rev, dir, todo, smooth, result, faults>>

(***************************************************************************)
(* The world.                                                              *)
(***************************************************************************)
Publish ==
  /\ rev < MaxRevs
  /\ rev' = rev + 1
  /\ smooth' = FALSE
  /\ UNCHANGED <<repo, snaps, age, pc, dir, todo, result, faults>>

Crash ==
  /\ pc # "idle" /\ faults < MaxFaults
  /\ faults' = faults + 1
  /\ result' = 0 /\ pc' = "idle" /\ dir' = 0 /\ todo' = {}
  /\ UNCHANGED <<repo, rev, snaps, age, smooth>>

CacheNext ==
  \/ Pull \/ Optional("config", "config", "tokenizer")
  \/ Optional("tokenizer", "tokenizer", "index")
  \/ Index \/ Single \/ ListFiles \/ Shard
  \/ FindModel \/ RemoveFile \/ Publish \/ Crash

CacheSpec == CacheInit /\ [][CacheNext]_cachevars

(***************************************************************************)
(* Properties.                                                             *)
(***************************************************************************)
CacheTypeOK ==
  /\ repo \in RepoLayouts /\ rev \in Revs /\ result \in 0 .. MaxRevs /\ dir \in 0 .. MaxRevs
  /\ snaps \in [Revs -> SUBSET Offered(repo)] /\ age \in [Revs -> Nat]
  /\ todo \subseteq Shards \cup {"model"} /\ smooth \in BOOLEAN /\ faults \in 0 .. MaxFaults
  /\ pc \in {"idle", "config", "tokenizer", "index", "shards", "single", "list", "remove"}

\* Every weight file and the config of one revision.
Whole(r) == (Offered(repo) \ {"tokenizer"}) \subseteq snaps[r]

\* A pull that meets no failure and no new revision returns a snapshot with all
\* the weights, whatever failed pulls, crashes, interrupted removals and older
\* revisions left in the cache (ensure_model_downloaded, find_cached_model).
Healed == pc = "idle" /\ smooth /\ result # 0 => Whole(result)
=============================================================================
