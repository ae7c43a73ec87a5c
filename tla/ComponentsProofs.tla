-------------------------- MODULE ComponentsProofs --------------------------
(***************************************************************************)
(* Proofs about Components: what the proofs of its parts say of the whole,  *)
(* for every value of the parts' constants.                                 *)
(***************************************************************************)
EXTENDS Components, FiniteSetTheorems, TLAPS

-----------------------------------------------------------------------------
(* One part runs, and makes the steps of its module.                       *)

\* The part that runs is never another.
LEMMA PartStays == [Next]_vars => part' = part
<1>1. CASE UNCHANGED vars
  BY <1>1 DEF vars
<1>2. CASE Next
  BY <1>2 DEF Next, Rest6, Rest10, Rest11, Rest12, Rest14, Rest15
<1>3. QED
  BY <1>1, <1>2

LEMMA TransferSteps ==
  ASSUME part' = "transfer", [Next]_vars PROVE part = "transfer" /\ [Pipeline!Next]_Pipeline!vars
<1>1. part = "transfer"
  BY PartStays
<1>2. CASE UNCHANGED vars
  BY <1>1, <1>2 DEF vars, Pipeline!vars, Pipeline!sender, Pipeline!receiver, Pipeline!session, Pipeline!store
<1>3. CASE Next
  BY <1>1, <1>3 DEF Next
<1>4. QED
  BY <1>1, <1>2, <1>3

LEMMA UiSteps ==
  ASSUME part' = "chat", [Next]_vars PROVE part = "chat" /\ [User!Next]_User!vars
<1>1. part = "chat"
  BY PartStays
<1>2. CASE UNCHANGED vars
  BY <1>1, <1>2 DEF vars, User!vars, User!client, User!link, User!lock, User!stream
<1>3. CASE Next
  BY <1>1, <1>3 DEF Next
<1>4. QED
  BY <1>1, <1>2, <1>3

LEMMA HubSteps ==
  ASSUME part' = "cache", [Next]_vars PROVE part = "cache" /\ [Caches!CacheNext]_Caches!cachevars
<1>1. part = "cache"
  BY PartStays
<1>2. CASE UNCHANGED vars
  BY <1>1, <1>2 DEF vars, Caches!cachevars
<1>3. CASE Next
  BY <1>1, <1>3 DEF Next
<1>4. QED
  BY <1>1, <1>2, <1>3

TransferInv == part = "transfer" => Pipeline!IInv
UiInv       == part = "chat" => User!ChatInv
HubInv      == part = "cache" => Caches!CInv

LEMMA TransferAssumed == Pipeline!Assumed
  BY PartsAssumption DEF Pipeline!Assumed

LEMMA TransferInit == Init => TransferInv
  BY TransferAssumed, Pipeline!InitInv DEF Init, TransferInv

LEMMA TransferNext == TransferInv /\ [Next]_vars => TransferInv'
<1> SUFFICES ASSUME TransferInv, [Next]_vars, part' = "transfer" PROVE Pipeline!IInv'
  BY DEF TransferInv
<1> QED
  BY TransferSteps, TransferAssumed, Pipeline!NextInv DEF TransferInv

LEMMA UiInit == Init => UiInv
  BY PartsAssumption, User!ChatInit DEF Init, UiInv

LEMMA UiNext == UiInv /\ [Next]_vars => UiInv'
<1> SUFFICES ASSUME UiInv, [Next]_vars, part' = "chat" PROVE User!ChatInv'
  BY DEF UiInv
<1> QED
  BY UiSteps, PartsAssumption, User!ChatStep DEF UiInv

LEMMA HubInit == Init => HubInv
  BY PartsAssumption, Caches!InitC DEF Init, HubInv

LEMMA HubNext == HubInv /\ [Next]_vars => HubInv'
<1> SUFFICES ASSUME HubInv, [Next]_vars, part' = "cache" PROVE Caches!CInv'
  BY DEF HubInv
<1> QED
  BY HubSteps, PartsAssumption, Caches!NextC DEF HubInv

-----------------------------------------------------------------------------
(* What the proofs of the parts say. *)

\* Model transfer: where has_valid_model_cache spares the transfer, the files of
\* all the layers asked for are there.
THEOREM CacheSoundAlways == Spec => []CacheSound
<1>1. TransferInv => CacheSound
  BY DEF TransferInv, CacheSound, Pipeline!IInv
<1>2. QED
  BY <1>1, TransferInit, TransferNext, PTL DEF Spec

\* Model transfer: a transfer that is taken to be over has brought every file.
THEOREM DeliveredAlways == Spec => Delivered
<1>1. TransferInv /\ [Next]_vars => [part = "transfer" => Pipeline!Delivery]_vars
  <2>1. ASSUME part = "transfer", Pipeline!IInv, Pipeline!Next PROVE Pipeline!Delivery
    <3>1. ASSUME Pipeline!ReceiveDone PROVE Pipeline!Holds(v3, v4)'
      <4>1. v2 = "receive"
        BY <3>1 DEF Pipeline!ReceiveDone
      <4>2. Pipeline!TypeOK /\ Pipeline!Transferring
        BY <2>1, <4>1 DEF Pipeline!IInv
      <4>3. QED
        BY <2>1, <3>1, <4>1, <4>2, TransferAssumed, Pipeline!DoneHolds DEF Pipeline!IInv
    <3>2. QED
      BY <3>1 DEF Pipeline!Delivery
  <2>2. QED
    BY <2>1 DEF TransferInv, Next
<1>2. QED
  BY <1>1, TransferInit, TransferNext, PTL DEF Spec, Delivered

\* Chat: a message is the tokens of its own turn in order, or the error text.
THEOREM ChatPlacedAlways == Spec => []ChatPlaced
<1>1. UiInv => ChatPlaced
  BY User!ChatPlaces DEF UiInv, ChatPlaced
<1>2. QED
  BY <1>1, UiInit, UiNext, PTL DEF Spec

\* Chat: the text of the turn that streams is in its message or on its way.
THEOREM WholeAlways == Spec => []Whole
<1>1. UiInv => Whole
  BY User!ChatWhole DEF UiInv, Whole
<1>2. QED
  BY <1>1, UiInit, UiNext, PTL DEF Spec

\* Model cache: a pull that meets no failure returns a complete snapshot.
THEOREM HealedAlways == Spec => []Healed
<1>1. HubInv => Healed
  BY DEF HubInv, Healed, Caches!CInv
<1>2. QED
  BY <1>1, HubInit, HubNext, PTL DEF Spec
CursorInv == part = "chat" => User!CursorInv

LEMMA CursorInit == Init => CursorInv
  BY PartsAssumption, User!CursorInit DEF Init, CursorInv

LEMMA CursorNext == CursorInv /\ [Next]_vars => CursorInv'
<1> SUFFICES ASSUME CursorInv, [Next]_vars, part' = "chat" PROVE User!CursorInv'
  BY DEF CursorInv
<1> QED
  BY UiSteps, PartsAssumption, User!CursorNext DEF CursorInv

\* Chat: the cursor stays in the line, and is on a character of it unless one of
\* more than one byte is there.
THEOREM CursorFitsAlways == Spec => []CursorFits
<1>1. CursorInv => CursorFits
  BY User!CursorPlace DEF CursorInv, CursorFits
<1>2. CursorInv /\ [Next]_vars => CursorInv'
  BY CursorNext
<1>3. QED
  BY <1>1, <1>2, CursorInit, PTL DEF Spec
-----------------------------------------------------------------------------
(* Flux: what is loaded at each stage.  v1 is kind, v3 stage and v4 held.  *)

FxHolds ==
  \/ v3 \in {"idle", "encode", "transformer", "vae", "done"} /\ v4 = {}
  \/ v3 = "encoding" /\ IF v1 = "flux1" THEN v4 \in {{}, {"clip"}, {"t5"}}
                                       ELSE v4 = {"flux_text_encoder"}
  \/ v3 = "denoise" /\ v4 = {IF v1 = "flux1" THEN "flux1_transformer" ELSE "flux_transformer"}
  \/ v3 = "decode" /\ v4 = {IF v1 = "flux1" THEN "flux1_vae" ELSE "flux_vae"}

FxInv == part = "flux" => FxHolds

LEMMA FxInit == Init => FxInv
  BY DEF Init, FxInv, FxHolds, Model!Init

LEMMA FxSteps == ASSUME part' = "flux", [Next]_vars PROVE part = "flux" /\ [Model!Next]_Model!fvars
<1>1. part = "flux"
  BY PartStays
<1>2. CASE UNCHANGED vars
  BY <1>1, <1>2 DEF vars, Model!fvars
<1>3. CASE Next
  BY <1>1, <1>3 DEF Next
<1>4. QED
  BY <1>1, <1>2, <1>3

LEMMA FxNext == FxInv /\ [Next]_vars => FxInv'
<1> SUFFICES ASSUME FxHolds, [Model!Next]_Model!fvars PROVE FxHolds'
  BY FxSteps DEF FxInv
<1> USE DEF FxHolds
<1>1. CASE Model!Generate
  BY <1>1 DEF Model!Generate
<1>2. ASSUME Model!Fault, v1' = v1 PROVE FxHolds'
  BY <1>2 DEF Model!Fault, Model!Finish
<1>3. CASE Model!LoadEncoder
  BY <1>2, <1>3 DEF Model!LoadEncoder, Model!Load
<1>4. CASE Model!EncodeClip
  BY <1>2, <1>4 DEF Model!EncodeClip
<1>5. CASE Model!LoadT5
  BY <1>2, <1>5 DEF Model!LoadT5, Model!Load
<1>6. CASE Model!Encode
  BY <1>2, <1>6 DEF Model!Encode, Model!Dropped
<1>7. CASE Model!LoadTransformer
  BY <1>2, <1>7 DEF Model!LoadTransformer
<1>8. CASE Model!Denoise
  BY <1>2, <1>8 DEF Model!Denoise
<1>9. CASE Model!DropTransformer
  BY <1>9 DEF Model!DropTransformer, Model!Dropped
<1>10. CASE Model!LoadVae
  BY <1>2, <1>10 DEF Model!LoadVae, Model!Load
<1>11. CASE Model!Decode
  BY <1>2, <1>11 DEF Model!Decode, Model!Finish
<1>12. CASE Model!Return
  BY <1>12 DEF Model!Return
<1>13. CASE UNCHANGED Model!fvars
  BY <1>13 DEF Model!fvars
<1>14. QED
  BY <1>1, <1>3, <1>4, <1>5, <1>6, <1>7, <1>8, <1>9, <1>10, <1>11, <1>12, <1>13 DEF Model!Next

\* Flux: two components never share the device's memory and none is left in it
\* after a request, whichever of them failed.
THEOREM OneAtATimeAlways == Spec => []OneAtATime
<1>1. FxInv => OneAtATime
  <2>1. ASSUME FxHolds PROVE Model!OneAtATime
    <3>1. \E c : v4 \in {{}, {c}}
      BY <2>1 DEF FxHolds
    <3>2. Cardinality(v4) = 0 \/ Cardinality(v4) = 1
      BY <3>1, FS_EmptySet, FS_Singleton
    <3>3. v3 \in {"idle", "done"} => v4 = {}
      BY <2>1 DEF FxHolds
    \* the instance has its own copy of FiniteSets
    <3>4. Model!Cardinality(v4) = Cardinality(v4)
      BY DEF Model!Cardinality, Cardinality
    <3>5. QED
      BY <3>2, <3>3, <3>4 DEF Model!OneAtATime
  <2>2. QED
    BY <2>1 DEF FxInv, OneAtATime
<1>2. QED
  BY <1>1, FxInit, FxNext, PTL DEF Spec
-----------------------------------------------------------------------------
(* Startup: where the topology of a machine that has one is from.  v4 is    *)
(* file, v5 cmd, v6 at, v7 topo, v8 loaded and v9 placed.                  *)

BootMaster == Param.startup.Master
Opened(m)  == v6[m] \notin {"main", "setup"}

\* The topology of a file, and that of a file that lists no layer.
Listed   == [w \in DOMAIN v4 |-> Boot!Expand(v4[w])]
FromFile == IF DOMAIN v4 # {} /\ \A w \in DOMAIN v4 : Listed[w] = {}
              THEN Boot!AutoAssign(BootMaster) ELSE Listed

BootTypes ==
  /\ \A m \in Boot!Machines : v5[m] \in Boot!Commands(m)
  /\ DOMAIN v6 = Boot!Machines /\ DOMAIN v7 = Boot!Machines /\ DOMAIN v8 = Boot!Machines
  /\ v4 \in Param.startup.Files

\* Only zero-config machines wait for a setup; whoever had a topology file has
\* its topology, a worker that was set up its part of the master's.
Topology(m) ==
  /\ v6[m] = "setup" => Boot!ZeroConfig(m)
  /\ v5[m].file /\ Opened(m) /\ Boot!Role(m) # "none" => v7[m] = FromFile
  /\ Boot!ZeroConfig(m) /\ m # BootMaster /\ Opened(m) =>
       /\ Boot!ZeroConfig(BootMaster) /\ Opened(BootMaster)
       /\ m \in DOMAIN v7[BootMaster] /\ v7[m] = [w \in {m} |-> v7[BootMaster][m]]

\* The master sends layers to the workers of its file, or to those it set up.
Sends ==
  Opened(BootMaster) =>
    /\ DOMAIN v7[BootMaster] \subseteq Boot!Workers
    /\ Boot!ZeroConfig(BootMaster) => \A w \in DOMAIN v7[BootMaster] : Boot!ZeroConfig(w)
    /\ ~ Boot!ZeroConfig(BootMaster) /\ ~ v5[BootMaster].file => DOMAIN v7[BootMaster] = {}

\* A worker that serves has the layers of its node.
Holds(w) ==
  Boot!Role(w) = "worker" /\ v6[w] = "up" =>
    v5[w].name # "none" /\ \E node \in Boot!NodeOf(w) : v8[w] = v7[w][node]

\* The master keeps the layers of no node.
Local ==
  v6[BootMaster] = "connect" =>
    v8[BootMaster] = {name \in Boot!Names : Boot!NodesFor(BootMaster, name) = {}}

\* A layer is placed where a process serves.
Served ==
  v6[BootMaster] = "up" => \A name \in Boot!Names : v9[name] \in Boot!Machines /\ v6[v9[name]] = "up"

BootHolds ==
  /\ BootTypes /\ Sends /\ Local /\ Served /\ Boot!Placed
  /\ \A m \in Boot!Machines : Topology(m) /\ Holds(m)

BootInv == part = "startup" => BootHolds

LEMMA BootSteps ==
  ASSUME part' = "startup", [Next]_vars PROVE part = "startup" /\ [Boot!StartNext]_Boot!startvars
<1>1. part = "startup"
  BY PartStays
<1>2. CASE UNCHANGED vars
  BY <1>1, <1>2 DEF vars, Boot!startvars
<1>3. CASE Next
  BY <1>1, <1>3 DEF Next
<1>4. QED
  BY <1>1, <1>2, <1>3

LEMMA BootInit == Init => BootInv
<1> SUFFICES ASSUME Boot!StartInit PROVE BootHolds
  BY DEF Init, BootInv
<1>1. BootMaster \in Boot!Machines
  BY DEF BootMaster, Boot!Machines
<1>2. \A m \in Boot!Machines : v6[m] = "main"
  BY DEF Boot!StartInit
<1>3. BootTypes
  BY DEF Boot!StartInit, BootTypes
<1>4. Sends /\ Local /\ Served /\ \A m \in Boot!Machines : Topology(m) /\ Holds(m)
  BY <1>1, <1>2 DEF Topology, Sends, Holds, Local, Served, Opened
<1>5. Boot!Placed
  BY <1>1, <1>2 DEF Boot!Placed, BootMaster
<1>6. QED
  BY <1>3, <1>4, <1>5 DEF BootHolds

\* What the command lines and the files say does not change.
LEMMA BootFrame ==
  ASSUME UNCHANGED <<v1, v2, v3, v4, v5>>
  PROVE  /\ FromFile' = FromFile /\ Boot!Names' = Boot!Names
         /\ \A m : /\ Boot!Role(m)' = Boot!Role(m) /\ Boot!ZeroConfig(m)' = Boot!ZeroConfig(m)
                   /\ Boot!Commands(m)' = Boot!Commands(m)
<1>1. Boot!AutoAssign(BootMaster)' = Boot!AutoAssign(BootMaster)
  BY DEF Boot!AutoAssign, Boot!SetupStem, BootMaster
<1>2. Listed' = Listed
  BY DEF Listed, Boot!Expand
<1>3. FromFile' = FromFile
  BY <1>1, <1>2 DEF FromFile
<1>4. Boot!Names' = Boot!Names
  BY DEF Boot!Names, Boot!Prefix, Boot!ConfigStem
<1>5. QED
  BY <1>3, <1>4 DEF Boot!Role, Boot!ZeroConfig, Boot!Commands
\* A topology has the workers found, and a file's those of the file.
LEMMA BootDomains ==
  ASSUME BootTypes
  PROVE  /\ \A p, t, found : DOMAIN Boot!Share(p, t, found) = found
         /\ DOMAIN FromFile \subseteq Boot!Workers
<1>1. \A p, t, found : DOMAIN Boot!Share(p, t, found) = found
  BY DEF Boot!Share
<1>2. DOMAIN FromFile = DOMAIN v4
  BY <1>1 DEF FromFile, Listed, Boot!AutoAssign
<1>3. DOMAIN v4 \subseteq Boot!Workers
  BY PartsAssumption DEF Boot!StartAssumption, BootTypes
<1>4. QED
  BY <1>1, <1>2, <1>3

\* A step of one machine that was not up.
LEMMA BootOne ==
  ASSUME NEW m \in Boot!Machines, BootHolds, UNCHANGED <<v1, v2, v3, v4, v5>>,
         DOMAIN v6' = DOMAIN v6, DOMAIN v7' = DOMAIN v7, DOMAIN v8' = DOMAIN v8,
         \A x \in Boot!Machines \ {m} : v6'[x] = v6[x] /\ v7'[x] = v7[x] /\ v8'[x] = v8[x],
         v6[m] # "up", Opened(m) => Opened(m)' /\ v7'[m] = v7[m],
         Topology(m)', Holds(m)', m = BootMaster => Sends' /\ Local',
         v6'[BootMaster] = "up" => \/ v6[BootMaster] = "up" /\ UNCHANGED v9
                                   \/ (Served /\ Boot!Placed)'
  PROVE  BootHolds'
<1>1. BootMaster \in Boot!Machines
  BY DEF BootMaster, Boot!Machines
<1>2. BootTypes'
  BY BootFrame DEF BootHolds, BootTypes
<1>3. Sends' /\ Local'
  <2>1. CASE m = BootMaster
    BY <2>1
  <2>2. CASE m # BootMaster
    <3>1. v6'[BootMaster] = v6[BootMaster] /\ v7'[BootMaster] = v7[BootMaster] /\ v8'[BootMaster] = v8[BootMaster]
      BY <1>1, <2>2
    <3>2. Sends'
      BY <3>1, BootFrame DEF BootHolds, Sends, Opened
    <3>4. Local'
      BY <3>1, BootFrame DEF BootHolds, Local, Boot!NodesFor
    <3>5. QED
      BY <3>2, <3>4
  <2>3. QED
    BY <2>1, <2>2
<1>4. ASSUME NEW x \in Boot!Machines PROVE Topology(x)' /\ Holds(x)'
  <2>1. CASE x = m
    BY <2>1
  <2>2. CASE x # m
    <3>1. v6'[x] = v6[x] /\ v7'[x] = v7[x] /\ v8'[x] = v8[x]
      BY <2>2
    <3>2. Opened(BootMaster) => Opened(BootMaster)' /\ v7'[BootMaster] = v7[BootMaster]
      BY <1>1 DEF Opened
    <3>3. Topology(x)
      BY DEF BootHolds
    <3>4. Topology(x)'
      BY <3>1, <3>2, <3>3, BootFrame DEF Topology, Opened
    <3>5. Holds(x)
      BY DEF BootHolds
    <3>6. Holds(x)'
      BY <3>1, <3>5, BootFrame DEF Holds, Boot!NodeOf
    <3>7. QED
      BY <3>4, <3>6
  <2>3. QED
    BY <2>1, <2>2
<1>5. Served' /\ Boot!Placed'
  <2>1. CASE v6[BootMaster] = "up" /\ UNCHANGED v9 /\ v6'[BootMaster] = "up"
    <3>1. Served /\ Boot!Placed
      BY DEF BootHolds
    <3>2. \A x \in Boot!Machines : v6[x] = "up" => v6'[x] = "up" /\ v8'[x] = v8[x]
      OBVIOUS
    <3>3. \A name \in Boot!Names : v9[name] \in Boot!Machines /\ v6[v9[name]] = "up"
      BY <2>1, <3>1 DEF Served
    <3>4. Served'
      BY <2>1, <3>2, <3>3, BootFrame DEF Served
    <3>5. DOMAIN v9 = Boot!Names /\ \A name \in Boot!Names : name \in v8[v9[name]]
      BY <2>1, <3>1 DEF Boot!Placed, BootMaster
    <3>6. Boot!Placed'
      BY <2>1, <3>2, <3>3, <3>5, BootFrame DEF Boot!Placed
    <3>7. QED
      BY <3>4, <3>6
  <2>2. CASE v6'[BootMaster] # "up"
    BY <2>2 DEF Served, Boot!Placed, BootMaster
  <2>3. QED
    BY <2>1, <2>2
<1>6. QED
  BY <1>2, <1>3, <1>4, <1>5 DEF BootHolds

\* The options of the master, and those of a worker that serves.
LEMMA BootRoles ==
  ASSUME BootTypes
  PROVE  /\ BootMaster \in Boot!Machines /\ Boot!Role(BootMaster) = "master"
         /\ \A w \in Boot!Machines :
              /\ Boot!ZeroConfig(w) => ~ v5[w].file /\ Boot!Role(w) # "none"
              /\ Boot!Role(w) = "worker" =>
                   /\ w # BootMaster /\ v5[w].key /\ v5[w].name \in {w, "none"}
                   /\ v5[w].file \/ Boot!ZeroConfig(w)
<1>1. BootMaster \in Boot!Machines
  BY DEF BootMaster, Boot!Machines
<1>2. v5[BootMaster].model
  BY <1>1 DEF BootTypes, Boot!Commands, BootMaster
<1>3. Boot!Role(BootMaster) = "master"
  BY <1>2 DEF Boot!Role
<1>4. ASSUME NEW w \in Boot!Machines, Boot!ZeroConfig(w) PROVE ~ v5[w].file /\ Boot!Role(w) # "none"
  BY <1>4 DEF Boot!ZeroConfig
<1>5. ASSUME NEW w \in Boot!Machines, Boot!Role(w) = "worker"
      PROVE  /\ w # BootMaster /\ v5[w].key /\ v5[w].name \in {w, "none"}
             /\ v5[w].file \/ Boot!ZeroConfig(w)
  <2>1. w # BootMaster /\ v5[w].key
    BY <1>3, <1>5 DEF Boot!Role
  <2>2. v5[w] \in Boot!Commands(w)
    BY DEF BootTypes
  <2>3. v5[w].name \in {w, "none"}
    BY <2>1, <2>2 DEF Boot!Commands, Boot!None, BootMaster
  <2>4. v5[w].file \/ Boot!ZeroConfig(w)
    BY <1>5, <2>1 DEF Boot!ZeroConfig
  <2>5. QED
    BY <2>1, <2>3, <2>4
<1>6. QED
  BY <1>1, <1>3, <1>4, <1>5

LEMMA BootRefuse ==
  ASSUME BootHolds, NEW m \in Boot!Machines, Boot!Refuse(m) PROVE BootHolds'
<1>1. m # BootMaster /\ Boot!Role(m) = "none" /\ v6[m] = "main"
  BY BootRoles DEF Boot!Refuse, BootHolds
<1>2. v6' = [v6 EXCEPT ![m] = "failed"] /\ UNCHANGED <<v1, v2, v3, v4, v5, v7, v8, v9>>
  BY DEF Boot!Refuse, Boot!Goto
<1>3. DOMAIN v6 = Boot!Machines
  BY DEF BootHolds, BootTypes
<1>4. Boot!Role(m)' = "none" /\ v6'[m] = "failed" /\ v6'[BootMaster] = v6[BootMaster]
  BY <1>1, <1>2, <1>3, BootFrame
<1>5. Topology(m)' /\ Holds(m)'
  BY <1>4 DEF Topology, Holds, Boot!ZeroConfig
<1>6. Opened(m) => Opened(m)' /\ v7'[m] = v7[m]
  BY <1>1 DEF Opened
<1>7. QED
  BY <1>1, <1>2, <1>3, <1>4, <1>5, <1>6, BootOne

LEMMA BootDiscover ==
  ASSUME BootHolds, NEW m \in Boot!Machines, Boot!Discover(m) PROVE BootHolds'
<1>1. Boot!ZeroConfig(m) /\ v6[m] = "main"
  BY DEF Boot!Discover
<1>2. v6' = [v6 EXCEPT ![m] = "setup"] /\ UNCHANGED <<v1, v2, v3, v4, v5, v7, v8, v9>>
  BY DEF Boot!Discover, Boot!Goto
<1>3. DOMAIN v6 = Boot!Machines
  BY DEF BootHolds, BootTypes
<1>4. Boot!ZeroConfig(m)' /\ v6'[m] = "setup"
  BY <1>1, <1>2, <1>3, BootFrame
<1>5. Topology(m)' /\ Holds(m)'
  BY <1>4 DEF Topology, Holds, Opened
<1>6. Opened(m) => Opened(m)' /\ v7'[m] = v7[m]
  BY <1>1 DEF Opened
<1>7. m = BootMaster => Sends' /\ Local'
  BY <1>4 DEF Sends, Local, Opened
<1>8. v6'[BootMaster] = "up" => v6[BootMaster] = "up"
  BY <1>2, <1>3, <1>4
<1>9. QED
  BY <1>1, <1>2, <1>3, <1>5, <1>6, <1>7, <1>8, BootOne

\* Whoever reads the file gets the topology of the file.
LEMMA BootReads ==
  ASSUME Boot!Even, BootTypes, NEW m \in Boot!Machines
  PROVE  FromFile = IF DOMAIN v4 # {} /\ \A w \in DOMAIN v4 : Listed[w] = {}
                    THEN Boot!AutoAssign(m) ELSE Listed
<1>1. CASE \A x \in Boot!Machines : Param.startup.Tflops[x] = Param.startup.Tflops[BootMaster]
  <2>1. BootMaster \in Boot!Machines
    BY DEF BootMaster, Boot!Machines
  <2>2. Boot!AutoAssign(m) = Boot!AutoAssign(BootMaster)
    BY <1>1 DEF Boot!AutoAssign
  <2>3. QED
    BY <2>2 DEF FromFile
<1>2. CASE DOMAIN v4 # {} => \E w \in DOMAIN v4 : \E r \in v4[w] : r[1] .. r[2] # {}
  <2>1. SUFFICES ASSUME DOMAIN v4 # {}, \A w \in DOMAIN v4 : Listed[w] = {} PROVE FALSE
    BY DEF FromFile
  <2>2. PICK w \in DOMAIN v4 : \E r \in v4[w] : r[1] .. r[2] # {}
    BY <1>2, <2>1
  <2>3. PICK r \in v4[w] : r[1] .. r[2] # {}
    BY <2>2
  <2>4. PICK n \in r[1] .. r[2] : TRUE
    BY <2>3
  <2>5. <<v2, n>> \in {<<v2, k>> : k \in r[1] .. r[2]}
    BY <2>4
  <2>6. <<v2, n>> \in Boot!Expand(v4[w])
    BY <2>3, <2>5 DEF Boot!Expand
  <2>7. QED
    BY <2>1, <2>6 DEF Listed
<1>3. QED
  BY <1>1, <1>2 DEF Boot!Even, BootTypes, BootMaster

LEMMA BootContext ==
  ASSUME Boot!Even, BootHolds, NEW m \in Boot!Machines, Boot!Context(m) PROVE BootHolds'
<1>1. ~ Boot!ZeroConfig(m) /\ v6[m] = "main" /\ UNCHANGED <<v1, v2, v3, v4, v5, v8, v9>>
  BY DEF Boot!Context
<1>2. v6' = [v6 EXCEPT ![m] = "open"]
  BY DEF Boot!Context, Boot!Goto
<1>3. DOMAIN v6 = Boot!Machines /\ DOMAIN v7 = Boot!Machines
  BY DEF BootHolds, BootTypes
<1>4. v7' = [v7 EXCEPT ![m] = IF ~ v5[m].file THEN <<>> ELSE FromFile]
  <2>1. v7' = [v7 EXCEPT ![m] =
          IF ~ v5[m].file THEN <<>>
          ELSE IF DOMAIN v4 # {} /\ \A w \in DOMAIN v4 : Listed[w] = {}
               THEN Boot!AutoAssign(m) ELSE Listed]
    BY DEF Boot!Context, Boot!NoTopology, Listed
  <2>2. QED
    BY <2>1, BootReads DEF BootHolds
<1>5. ~ Boot!ZeroConfig(m)' /\ v6'[m] = "open" /\ FromFile' = FromFile
  BY <1>1, <1>2, <1>3, BootFrame
<1>6. v7'[m] = IF ~ v5[m].file THEN <<>> ELSE FromFile
  BY <1>3, <1>4
<1>7. Topology(m)' /\ Holds(m)'
  BY <1>1, <1>5, <1>6 DEF Topology, Holds, Opened
<1>8. Opened(m) => Opened(m)' /\ v7'[m] = v7[m]
  BY <1>1 DEF Opened
<1>9. m = BootMaster => Sends' /\ Local'
  <2>1. DOMAIN v7'[m] \subseteq Boot!Workers /\ (~ v5[m].file => DOMAIN v7'[m] = {})
    BY <1>6, BootDomains DEF BootHolds
  <2>2. QED
    BY <1>1, <1>5, <2>1 DEF Sends, Local
<1>10. v6'[BootMaster] = "up" => v6[BootMaster] = "up"
  BY <1>2, <1>3, <1>5
<1>11. DOMAIN v7' = DOMAIN v7 /\ \A x \in Boot!Machines \ {m} : v7'[x] = v7[x]
  BY <1>3, <1>4
<1>12. DOMAIN v6' = DOMAIN v6 /\ \A x \in Boot!Machines \ {m} : v6'[x] = v6[x]
  BY <1>2, <1>3
<1>13. QED
  BY <1>1, <1>7, <1>8, <1>9, <1>10, <1>11, <1>12, BootOne

LEMMA BootStartWorker ==
  ASSUME BootHolds, NEW m \in Boot!Machines, Boot!StartWorker(m) PROVE BootHolds'
<1>1. /\ Boot!Role(m) = "worker" /\ v6[m] = "open" /\ UNCHANGED <<v1, v2, v3, v4, v5, v7, v9>>
      /\ m # BootMaster /\ DOMAIN v6 = Boot!Machines /\ DOMAIN v8 = Boot!Machines
  BY BootRoles DEF Boot!StartWorker, BootHolds, BootTypes
<1>2. \/ v6' = [v6 EXCEPT ![m] = "failed"] /\ UNCHANGED v8
      \/ /\ v5[m].name # "none" /\ v6' = [v6 EXCEPT ![m] = "up"]
         /\ \E node \in Boot!NodeOf(m) : v8' = [v8 EXCEPT ![m] = v7[m][node]]
  BY DEF Boot!StartWorker, Boot!Goto, Boot!None
<1>3. DOMAIN v6' = DOMAIN v6 /\ \A x \in Boot!Machines \ {m} : v6'[x] = v6[x]
  BY <1>1, <1>2
<1>4. DOMAIN v8' = DOMAIN v8 /\ \A x \in Boot!Machines \ {m} : v8'[x] = v8[x]
  BY <1>1, <1>2
<1>5. v6'[m] \in {"failed", "up"} /\ v6'[BootMaster] = v6[BootMaster]
  BY <1>1, <1>2, <1>3, BootRoles DEF BootHolds
<1>6. Topology(m)'
  <2>1. Topology(m) /\ Opened(m)
    BY <1>1 DEF BootHolds, Opened
  <2>2. Opened(BootMaster)' = Opened(BootMaster)
    BY <1>5 DEF Opened
  <2>3. QED
    BY <1>1, <1>5, <2>1, <2>2, BootFrame DEF Topology
<1>7. Holds(m)'
  <2>1. CASE v6' = [v6 EXCEPT ![m] = "failed"]
    BY <1>1, <2>1 DEF Holds
  <2>2. CASE /\ v5[m].name # "none" /\ v6' = [v6 EXCEPT ![m] = "up"]
             /\ \E node \in Boot!NodeOf(m) : v8' = [v8 EXCEPT ![m] = v7[m][node]]
    <3>1. PICK node \in Boot!NodeOf(m) : v8' = [v8 EXCEPT ![m] = v7[m][node]]
      BY <2>2
    <3>2. v8'[m] = v7'[m][node] /\ node \in Boot!NodeOf(m)'
      BY <1>1, <3>1 DEF Boot!NodeOf
    <3>3. QED
      BY <1>1, <2>2, <3>2 DEF Holds
  <2>3. QED
    BY <1>2, <2>1, <2>2
<1>8. Opened(m) => Opened(m)' /\ v7'[m] = v7[m]
  BY <1>1, <1>5 DEF Opened
<1>9. QED
  BY <1>1, <1>3, <1>4, <1>5, <1>6, <1>7, <1>8, BootOne

LEMMA BootLoadLocal ==
  ASSUME BootHolds, NEW m \in Boot!Machines, Boot!LoadLocal(m) PROVE BootHolds'
<1>1. /\ Boot!Role(m) = "master" /\ v6[m] = "open" /\ UNCHANGED <<v1, v2, v3, v4, v5, v7, v9>>
      /\ DOMAIN v6 = Boot!Machines /\ DOMAIN v8 = Boot!Machines
  BY DEF Boot!LoadLocal, BootHolds, BootTypes
<1> DEFINE mine == {name \in Boot!Names : Boot!NodesFor(m, name) = {}}
<1>2. \/ v6' = [v6 EXCEPT ![m] = "connect"] /\ v8' = [v8 EXCEPT ![m] = mine]
      \/ v6' = [v6 EXCEPT ![m] = "failed"] /\ UNCHANGED v8
  BY DEF Boot!LoadLocal, Boot!Goto
<1> HIDE DEF mine
<1>3. DOMAIN v6' = DOMAIN v6 /\ \A x \in Boot!Machines \ {m} : v6'[x] = v6[x]
  BY <1>1, <1>2
<1>4. DOMAIN v8' = DOMAIN v8 /\ \A x \in Boot!Machines \ {m} : v8'[x] = v8[x]
  BY <1>1, <1>2
<1>5. \/ v6'[m] = "failed"
      \/ v6'[m] = "connect" /\ v8'[m] = mine
  <2>1. CASE v6' = [v6 EXCEPT ![m] = "connect"] /\ v8' = [v8 EXCEPT ![m] = mine]
    <3>1. v6'[m] = "connect"
      BY <1>1, <2>1
    <3>2. v8'[m] = mine
      BY <1>1, <2>1
    <3>3. QED
      BY <3>1, <3>2
  <2>2. CASE v6' = [v6 EXCEPT ![m] = "failed"]
    <3>1. v6'[m] = "failed"
      BY <1>1, <2>2
    <3>2. QED
      BY <3>1
  <2>3. QED
    BY <1>2, <2>1, <2>2
<1>6. Opened(m) /\ Opened(m)'
  BY <1>1, <1>5 DEF Opened
<1>7. Opened(BootMaster) => Opened(BootMaster)'
  BY <1>3, <1>6, BootRoles DEF Opened, BootHolds
<1>8. Topology(m)'
  <2>1. Topology(m)
    BY DEF BootHolds
  <2>2. QED
    BY <1>1, <1>5, <1>6, <1>7, <2>1, BootFrame DEF Topology
<1>9. Holds(m)'
  BY <1>5 DEF Holds
<1>10. m = BootMaster => Sends'
  BY <1>1, <1>6, BootFrame DEF BootHolds, Sends
<1>11. m = BootMaster => Local'
  <2>1. Boot!Names' = Boot!Names
    BY <1>1, BootFrame
  <2>2. \A name : Boot!NodesFor(m, name)' = Boot!NodesFor(m, name)
    BY <1>1 DEF Boot!NodesFor
  <2>3. SUFFICES ASSUME m = BootMaster, v6'[BootMaster] = "connect" PROVE Local'
    BY DEF Local
  <2>4. v8'[m] = mine
    BY <1>5, <2>3
  <2>5. v8'[m] = {name \in Boot!Names' : Boot!NodesFor(m, name)' = {}}
    BY <2>1, <2>2, <2>4 DEF mine
  <2>6. QED
    BY <2>3, <2>5 DEF Local
<1>12. v6'[BootMaster] = "up" => v6[BootMaster] = "up"
  BY <1>3, <1>5, BootRoles DEF BootHolds
<1>13. QED
  BY <1>1, <1>3, <1>4, <1>6, <1>8, <1>9, <1>10, <1>11, <1>12, BootOne

\* A worker that serves and that the master sends a layer to has loaded that layer.
LEMMA BootListens ==
  ASSUME BootHolds, Opened(BootMaster), NEW w \in DOMAIN v7[BootMaster], Boot!Listens(BootMaster, w)
  PROVE  w \in Boot!Machines /\ w # BootMaster /\ v8[w] = v7[BootMaster][w]
<1>1. w \in Boot!Machines
  BY DEF BootHolds, Sends, Boot!Machines
<1>2. Boot!Role(w) = "worker" /\ v6[w] = "up" /\ v5[BootMaster].key = v5[w].key
  BY DEF Boot!Listens
<1>3. /\ w # BootMaster /\ v5[w].key /\ v5[w].name \in {w, "none"} /\ Opened(w)
      /\ v5[w].file \/ Boot!ZeroConfig(w)
  BY <1>1, <1>2, BootRoles DEF BootHolds, Opened
<1>4. Topology(w) /\ Topology(BootMaster) /\ Holds(w) /\ Sends
  BY <1>1, BootRoles DEF BootHolds
<1>5. v5[w].name # "none" /\ \E node \in Boot!NodeOf(w) : v8[w] = v7[w][node]
  BY <1>2, <1>4 DEF Holds
<1>6. v5[w].name = w
  BY <1>3, <1>5
<1>7. w \in DOMAIN v7[w] /\ v7[w][w] = v7[BootMaster][w]
  <2>1. CASE Boot!ZeroConfig(w)
    BY <1>3, <1>4, <2>1 DEF Topology
  <2>2. CASE ~ Boot!ZeroConfig(w)
    <3>1. v5[w].file /\ v7[w] = FromFile
      BY <1>2, <1>3, <1>4, <2>2 DEF Topology
    <3>2. ~ Boot!ZeroConfig(BootMaster)
      BY <1>4, <2>2 DEF Sends
    <3>3. v5[BootMaster].file
      BY <1>4, <3>2 DEF Sends
    <3>4. v7[BootMaster] = FromFile
      BY <1>4, <3>3, BootRoles DEF Topology, BootHolds
    <3>5. QED
      BY <3>1, <3>4
  <2>3. QED
    BY <2>1, <2>2
<1>8. Boot!NodeOf(w) = {w}
  BY <1>6, <1>7 DEF Boot!NodeOf
<1>9. QED
  BY <1>1, <1>3, <1>5, <1>7, <1>8

LEMMA BootConnect ==
  ASSUME BootHolds, NEW m \in Boot!Machines, Boot!Connect(m) PROVE BootHolds'
<1>1. /\ Boot!Role(m) = "master" /\ v6[m] = "connect" /\ UNCHANGED <<v1, v2, v3, v4, v5, v7, v8>>
      /\ DOMAIN v6 = Boot!Machines
  BY DEF Boot!Connect, BootHolds, BootTypes
<1> DEFINE remote == Boot!Names \ v8[m]
           Up == \E pick \in [remote -> DOMAIN v7[m]] :
                   /\ \A name \in remote : pick[name] \in Boot!NodesFor(m, name) /\ Boot!Listens(m, pick[name])
                   /\ v9' = IF m = BootMaster
                            THEN [name \in Boot!Names |-> IF name \in remote THEN pick[name] ELSE m]
                            ELSE v9
<1>2. \/ v6' = [v6 EXCEPT ![m] = "up"] /\ Up
      \/ v6' = [v6 EXCEPT ![m] = "failed"] /\ UNCHANGED v9
  BY DEF Boot!Connect, Boot!Goto, BootMaster
<1> HIDE DEF Up
<1>3. DOMAIN v6' = DOMAIN v6 /\ \A x \in Boot!Machines \ {m} : v6'[x] = v6[x]
  BY <1>1, <1>2
<1>4. v6'[m] \in {"failed", "up"}
  <2>1. v6' = [v6 EXCEPT ![m] = "up"] \/ v6' = [v6 EXCEPT ![m] = "failed"]
    BY <1>2
  <2>2. QED
    BY <1>1, <2>1
<1>5. Opened(m) /\ Opened(m)'
  BY <1>1, <1>4 DEF Opened
<1>6. Opened(BootMaster) => Opened(BootMaster)'
  BY <1>3, <1>5, BootRoles DEF Opened, BootHolds
<1>7. Topology(m)'
  <2>1. Topology(m)
    BY DEF BootHolds
  <2>2. QED
    BY <1>1, <1>4, <1>5, <1>6, <2>1, BootFrame DEF Topology
<1>8. Holds(m)'
  BY <1>1, BootFrame DEF Holds
<1>9. m = BootMaster => Sends' /\ Local'
  BY <1>1, <1>4, <1>5, BootFrame DEF BootHolds, Sends, Local
<1>10. ASSUME m = BootMaster, v6'[BootMaster] = "up" PROVE (Served /\ Boot!Placed)'
  <2>1. v6' = [v6 EXCEPT ![m] = "up"] /\ Up
    BY <1>1, <1>2, <1>10
  <2>2. PICK pick \in [remote -> DOMAIN v7[m]] :
          /\ \A name \in remote : pick[name] \in Boot!NodesFor(m, name) /\ Boot!Listens(m, pick[name])
          /\ v9' = IF m = BootMaster
                   THEN [name \in Boot!Names |-> IF name \in remote THEN pick[name] ELSE m]
                   ELSE v9
    BY <2>1 DEF Up
  <2>3. v9' = [name \in Boot!Names |-> IF name \in remote THEN pick[name] ELSE m]
    BY <1>10, <2>2
  <2>4. ASSUME NEW name \in Boot!Names
        PROVE  /\ v9'[name] \in Boot!Machines /\ v6'[v9'[name]] = "up" /\ name \in v8[v9'[name]]
    <3>1. CASE name \in remote
      <4>1. pick[name] \in DOMAIN v7[m] /\ name \in v7[m][pick[name]] /\ Boot!Listens(m, pick[name])
        BY <2>2, <3>1 DEF Boot!NodesFor
      <4>2. pick[name] \in Boot!Machines /\ pick[name] # m /\ v8[pick[name]] = v7[m][pick[name]]
        BY <1>5, <1>10, <4>1, BootListens
      <4>3. v6[pick[name]] = "up"
        BY <4>1 DEF Boot!Listens
      <4>4. v6'[pick[name]] = "up"
        BY <1>3, <4>2, <4>3
      <4>5. v9'[name] = pick[name]
        BY <2>3, <3>1
      <4>6. QED
        BY <4>1, <4>2, <4>4, <4>5
    <3>2. CASE name \notin remote
      BY <1>10, <2>3, <3>2
    <3>3. QED
      BY <3>1, <3>2
  <2>5. Boot!Names' = Boot!Names
    BY <1>1, BootFrame
  <2>6. Served'
    BY <2>4, <2>5 DEF Served
  <2>7. DOMAIN v9' = Boot!Names
    BY <2>3
  <2>8. Boot!Placed'
    BY <1>1, <2>4, <2>5, <2>7 DEF Boot!Placed
  <2>9. QED
    BY <2>6, <2>8
<1>11. v6'[BootMaster] = "up" => \/ v6[BootMaster] = "up" /\ UNCHANGED v9
                                 \/ (Served /\ Boot!Placed)'
  <2>1. CASE m = BootMaster
    BY <1>10, <2>1
  <2>2. CASE m # BootMaster
    <3>1. v6'[BootMaster] = v6[BootMaster]
      BY <1>3, <2>2, BootRoles DEF BootHolds
    <3>2. UNCHANGED v9
      BY <1>2, <2>2 DEF Up
    <3>3. QED
      BY <3>1, <3>2
  <2>3. QED
    BY <2>1, <2>2
<1>12. v6[m] # "up" /\ (Opened(m) => Opened(m)' /\ v7'[m] = v7[m])
  BY <1>1, <1>5
<1>13. QED
  BY <1>1, <1>3, <1>7, <1>8, <1>9, <1>11, <1>12, BootOne

LEMMA BootSetup ==
  ASSUME BootHolds, NEW m \in Boot!Machines, Boot!Setup(m) PROVE BootHolds'
<1>1. /\ m = BootMaster /\ v6[m] = "setup" /\ UNCHANGED <<v1, v2, v3, v4, v5, v8, v9>>
      /\ DOMAIN v6 = Boot!Machines /\ DOMAIN v7 = Boot!Machines
  BY DEF Boot!Setup, BootMaster, BootHolds, BootTypes
<1>2. PICK found \in SUBSET {w \in Boot!Workers : Boot!Role(w) = "worker" /\ v6[w] = "setup"} :
        LET shares == Boot!Share(Boot!SetupStem(v1), Param.startup.Tflops[m], found)
            given == {w \in found : shares[w] # {}}
        IN  /\ v7' = [x \in Boot!Machines |->
                        CASE x = m -> [w \in given |-> shares[w]]
                          [] x \in given -> [w \in {x} |-> shares[w]]
                          [] OTHER -> v7[x]]
            /\ v6' = [x \in Boot!Machines |-> IF x = m \/ x \in given THEN "open" ELSE v6[x]]
  BY DEF Boot!Setup
<1> DEFINE shares == Boot!Share(Boot!SetupStem(v1), Param.startup.Tflops[m], found)
           given == {w \in found : shares[w] # {}}
<1> HIDE DEF shares
<1>3. \A w \in given : /\ w \in Boot!Workers /\ w \in Boot!Machines /\ Boot!Role(w) = "worker"
                       /\ v6[w] = "setup" /\ w # m
  BY <1>1, <1>2, BootRoles DEF Boot!Machines, BootHolds
<1>4. \A w \in given : Boot!ZeroConfig(w)
  BY <1>3 DEF BootHolds, Topology
<1> HIDE DEF given
<1>5. /\ v7' = [x \in Boot!Machines |->
                  IF x = m THEN [w \in given |-> shares[w]]
                  ELSE IF x \in given THEN [w \in {x} |-> shares[w]] ELSE v7[x]]
      /\ v6' = [x \in Boot!Machines |-> IF x = m \/ x \in given THEN "open" ELSE v6[x]]
  BY <1>2, <1>3 DEF given, shares
<1>6. v7'[m] = [w \in given |-> shares[w]] /\ v6'[m] = "open" /\ Opened(BootMaster)'
  BY <1>1, <1>5 DEF Opened
<1>7. \A x \in given : v7'[x] = [w \in {x} |-> v7'[m][x]] /\ v6'[x] = "open"
  BY <1>3, <1>5, <1>6
<1>8. \A x \in Boot!Machines : x # m /\ x \notin given => v7'[x] = v7[x] /\ v6'[x] = v6[x]
  BY <1>5
<1>9. Boot!ZeroConfig(BootMaster) /\ ~ Opened(BootMaster)
  BY <1>1 DEF BootHolds, Topology, Opened
<1>10. Boot!ZeroConfig(BootMaster)' /\ \A x \in given : Boot!ZeroConfig(x)'
  BY <1>1, <1>4, <1>9, BootFrame
<1>11. BootTypes'
  <2>1. DOMAIN v6' = DOMAIN v6 /\ DOMAIN v7' = DOMAIN v7
    BY <1>1, <1>5
  <2>2. QED
    BY <1>1, <2>1, BootFrame DEF BootHolds, BootTypes
<1>12. Sends'
  BY <1>1, <1>3, <1>6, <1>10 DEF Sends
<1>13. Local' /\ Served' /\ Boot!Placed'
  BY <1>1, <1>6 DEF Local, Served, Boot!Placed, BootMaster
<1>14. ASSUME NEW x \in Boot!Machines PROVE Topology(x)' /\ Holds(x)'
  <2>1. CASE x = m
    <3>1. v6'[x] = "open" /\ ~ v5'[x].file
      BY <1>1, <1>6, <1>9, <2>1, BootRoles DEF BootHolds
    <3>2. QED
      BY <1>1, <2>1, <3>1 DEF Topology, Holds
  <2>2. CASE x \in given
    <3>1. v6'[x] = "open" /\ ~ v5'[x].file
      BY <1>1, <1>3, <1>4, <1>7, <2>2, BootRoles DEF BootHolds
    <3>2. x \in DOMAIN v7'[BootMaster] /\ v7'[x] = [w \in {x} |-> v7'[BootMaster][x]]
      BY <1>1, <1>6, <1>7, <2>2
    <3>3. QED
      BY <1>6, <1>10, <3>1, <3>2 DEF Topology, Holds
  <2>3. CASE x # m /\ x \notin given
    <3>1. v7'[x] = v7[x] /\ v6'[x] = v6[x]
      BY <1>8, <2>3
    <3>2. Topology(x) /\ Holds(x)
      BY DEF BootHolds
    <3>3. ~ (Boot!ZeroConfig(x) /\ x # BootMaster /\ Opened(x))
      BY <1>9, <3>2 DEF Topology
    <3>4. Topology(x)'
      BY <1>1, <3>1, <3>2, <3>3, BootFrame DEF Topology, Opened
    <3>5. Holds(x)'
      BY <1>1, <3>1, <3>2, BootFrame DEF Holds, Boot!NodeOf
    <3>6. QED
      BY <3>4, <3>5
  <2>4. QED
    BY <2>1, <2>2, <2>3
<1>15. QED
  BY <1>11, <1>12, <1>13, <1>14 DEF BootHolds

LEMMA BootNext == ASSUME Boot!Even PROVE BootInv /\ [Next]_vars => BootInv'
<1> SUFFICES ASSUME BootInv, [Next]_vars, part' = "startup" PROVE BootHolds'
  BY DEF BootInv
<1>1. BootHolds /\ [Boot!StartNext]_Boot!startvars
  BY BootSteps DEF BootInv
<1>2. CASE UNCHANGED Boot!startvars
  <2>1. UNCHANGED <<v1, v2, v3, v4, v5, v6, v7, v8, v9>>
    BY <1>2 DEF Boot!startvars
  <2>2. BootMaster \in Boot!Machines
    BY DEF BootMaster, Boot!Machines
  <2>3. \A x : Topology(x)' = Topology(x) /\ Holds(x)' = Holds(x)
    BY <2>1, BootFrame DEF Topology, Holds, Opened, Boot!NodeOf
  <2>4. Sends' = Sends /\ Local' = Local
    BY <2>1, BootFrame DEF Sends, Local, Opened, Boot!NodesFor
  <2>5. Served' = Served /\ Boot!Placed' = Boot!Placed /\ BootTypes' = BootTypes
    BY <2>1, BootFrame DEF Served, Boot!Placed, BootTypes
  <2>6. QED
    BY <1>1, <2>3, <2>4, <2>5 DEF BootHolds
<1>3. CASE Boot!StartNext
  <2>1. PICK m \in Boot!Machines :
          \/ Boot!Refuse(m) \/ Boot!Discover(m) \/ Boot!Setup(m) \/ Boot!Context(m)
          \/ Boot!StartWorker(m) \/ Boot!LoadLocal(m) \/ Boot!Connect(m)
    BY <1>3 DEF Boot!StartNext
  <2>2. QED
    BY <1>1, <2>1, BootRefuse, BootDiscover, BootSetup, BootContext, BootStartWorker, BootLoadLocal,
       BootConnect
<1>4. QED
  BY <1>1, <1>2, <1>3

\* Startup: if the machines have the same compute power or no topology file leaves the
\* assignment to the program (Even), every layer of a master that serves is computed
\* where it is loaded, whatever the model, the files and the command lines
\* (Context::from_args, Worker::new, TextModelBase::load, master_setup).
THEOREM StartedAlways == ASSUME Boot!Even PROVE Spec => []Started
<1>1. BootInv => Started
  BY DEF BootInv, BootHolds, Started
<1>2. QED
  BY <1>1, BootInit, BootNext, PTL DEF Spec

\* Startup: under the same condition a worker that a serving master names has loaded
\* the layers the master gave it, also where a topology file left them open
\* (topology.rs:203, Worker::new).
THEOREM DecidedAlways == ASSUME Boot!Even PROVE Spec => []Decided
<1>1. ASSUME BootHolds PROVE Boot!MasterDecides
  <2> SUFFICES ASSUME v6[BootMaster] = "up", NEW w \in DOMAIN v7[BootMaster], Boot!Role(w) = "worker",
                      v5[w].name = w, v6[w] = "up"
               PROVE  v8[w] = v7[BootMaster][w]
    BY DEF Boot!MasterDecides, BootMaster
  <2>1. Opened(BootMaster) /\ Opened(w) /\ BootMaster \in Boot!Machines
    BY DEF Opened, Boot!Machines, BootMaster
  <2>2. w \in Boot!Machines /\ w # BootMaster
    <3>1. w \in Boot!Workers
      BY <1>1, <2>1 DEF BootHolds, Sends
    <3>2. Boot!Role(BootMaster) = "master"
      BY <1>1, <2>1, BootRoles DEF BootHolds
    <3>3. QED
      BY <3>1, <3>2 DEF Boot!Machines
  <2>3. Topology(BootMaster) /\ Topology(w) /\ Holds(w)
    BY <1>1, <2>1, <2>2 DEF BootHolds
  <2>4. w \in DOMAIN v7[w] => v8[w] = v7[w][w]
    BY <2>3 DEF Holds, Boot!NodeOf
  <2>5. CASE Boot!ZeroConfig(w)
    BY <2>1, <2>2, <2>3, <2>4, <2>5 DEF Topology
  <2>6. CASE ~ Boot!ZeroConfig(w)
    <3>1. v5[w].file /\ v5[BootMaster].file /\ ~ Boot!ZeroConfig(BootMaster)
      <4>1. v5[w].file
        BY <1>1, <2>2, <2>6 DEF BootHolds, BootTypes, Boot!ZeroConfig, Boot!Role, Boot!Commands
      <4>2. ~ Boot!ZeroConfig(BootMaster)
        BY <1>1, <2>1, <2>6 DEF BootHolds, Sends
      <4>3. QED
        BY <1>1, <2>1, <4>1, <4>2 DEF BootHolds, Sends
    <3>2. v7[w] = FromFile /\ v7[BootMaster] = FromFile
      <4>1. Boot!Role(w) # "none" /\ Boot!Role(BootMaster) # "none"
        BY <1>1, <2>1, BootRoles DEF BootHolds
      <4>2. QED
        BY <2>1, <2>3, <3>1, <4>1 DEF Topology
    <3>3. QED
      BY <2>4, <3>2
  <2>7. QED
    BY <2>5, <2>6
<1>2. BootInv => Decided
  BY <1>1 DEF BootInv, Decided
<1>3. QED
  BY <1>2, BootInit, BootNext, PTL DEF Spec

----------------------------------------------------------------------------
(* Attention.                                                               *)

AttnInv == part = "attention" => Caches!AttnHolds

LEMMA AttnSteps ==
  ASSUME part' = "attention", [Next]_vars PROVE part = "attention" /\ [Caches!AttnNext]_Caches!avars
<1>1. part = "attention"
  BY PartStays
<1>2. CASE UNCHANGED vars
  BY <1>1, <1>2 DEF vars, Caches!avars, Caches!caches, Caches!pass, Caches!shown
<1>3. CASE Next
  BY <1>1, <1>3 DEF Next
<1>4. QED
  BY <1>1, <1>2, <1>3

\* Attention: a row is computed from tokens of its own request up to its own, whatever the
\* layers, the window and the requests before it, and a pass fails only when it does not fit.
THEOREM AttendedAlways == Spec => []Attended
<1>1. Caches!AttnAssumption
  BY PartsAssumption
<1>2. Init => AttnInv
  <2>1. Caches!AttnInit => Caches!AttnHolds
    BY <1>1, Caches!AttnStarts
  <2>2. QED
    BY <2>1 DEF Init, AttnInv
<1>3. AttnInv /\ [Next]_vars => AttnInv'
  <2>1. Caches!AttnHolds /\ [Caches!AttnNext]_Caches!avars => Caches!AttnHolds'
    BY <1>1, Caches!AttnKeeps
  <2>2. QED
    BY <2>1, AttnSteps DEF AttnInv
<1>4. AttnInv => Attended
  BY DEF AttnInv, Caches!AttnHolds, Attended
<1>5. QED
  BY <1>2, <1>3, <1>4, PTL DEF Spec

----------------------------------------------------------------------------
(* GpuCache.                                                                *)

BufferInv == part = "gpu" => Caches!GpuInv

LEMMA GpuSteps ==
  ASSUME part' = "gpu", [Next]_vars PROVE part = "gpu" /\ [Caches!GpuNext]_Caches!gpuvars
<1>1. part = "gpu"
  BY PartStays
<1>2. CASE UNCHANGED vars
  BY <1>1, <1>2 DEF vars, Caches!gpuvars
<1>3. CASE Next
  BY <1>1, <1>3 DEF Next
<1>4. QED
  BY <1>1, <1>2, <1>3

\* GpuCache: a dispatch reads what its contiguous operands hold, of a view nothing but what
\* views at its address held (get_or_upload, f16_views), and no buffer is given out that a
\* cache still names.
THEOREM CurrentAlways == Spec => []Current
<1>1. Init => BufferInv
  BY Caches!GpuStarts DEF Init, BufferInv
<1>2. BufferInv /\ [Next]_vars => BufferInv'
  <2>1. Caches!GpuAssumption
    BY PartsAssumption
  <2>2. Caches!GpuInv /\ [Caches!GpuNext]_Caches!gpuvars => Caches!GpuInv'
    BY <2>1, Caches!GpuKeeps
  <2>3. QED
    BY <2>2, GpuSteps DEF BufferInv
<1>3. BufferInv => Current
  BY Caches!GpuCurrent DEF BufferInv, Current
<1>4. QED
  BY <1>1, <1>2, <1>3, PTL DEF Spec
----------------------------------------------------------------------------
(* Kernels.                                                                 *)

KerInv == part = "kernels" => Compute!KernelsInv

LEMMA KerSteps ==
  ASSUME part' = "kernels", [Next]_vars PROVE part = "kernels" /\ [Compute!KernelsNext]_Compute!kvars
<1>1. part = "kernels"
  BY PartStays
<1>2. CASE UNCHANGED vars
  BY <1>1, <1>2 DEF vars, Compute!kvars
<1>3. CASE Next
  BY <1>1, <1>3 DEF Next
<1>4. QED
  BY <1>1, <1>2, <1>3

\* Kernels: every element is written once, from the operands the CPU backend uses, and a
\* SIMD group scales its columns by the sum over the whole row, except where Agrees and
\* Summed say what happens instead, for launches of any size.
THEOREM ComputedAlways == Spec => []Computed
<1>1. Compute!KernelAssumption
  BY PartsAssumption
<1>2. Init => KerInv
  BY Compute!KernelsStart DEF Init, KerInv
<1>3. KerInv /\ [Next]_vars => KerInv'
  <2>1. Compute!KernelsInv /\ [Compute!KernelsNext]_Compute!kvars => Compute!KernelsInv'
    BY <1>1, Compute!KernelSteps
  <2>2. QED
    BY <2>1, KerSteps DEF KerInv
<1>4. KerInv => Computed
  BY <1>1, Compute!InvComputes DEF KerInv, Computed
<1>5. QED
  BY <1>2, <1>3, <1>4, PTL DEF Spec
----------------------------------------------------------------------------
(* Experts.                                                                 *)

MixtureInv == part = "experts" => Compute!MixInv

LEMMA ExpertSteps ==
  ASSUME part' = "experts", [Next]_vars
  PROVE  part = "experts" /\ [Compute!ExpertNext]_Compute!evars
<1>1. part = "experts"
  BY PartStays
<1>2. CASE UNCHANGED vars
  BY <1>1, <1>2 DEF vars, Compute!evars, Compute!loaded
<1>3. CASE Next
  BY <1>1, <1>3 DEF Next
<1>4. QED
  BY <1>1, <1>2, <1>3

\* Experts: an output row mixes all and only the experts of its token, each from its own
\* tensors, and a pass fails only for an expert the shards lack.
THEOREM MixedAlways == Spec => []Mixed
<1>1. Compute!ExpertAssumption
  BY PartsAssumption
<1>2. Init => MixtureInv
  BY <1>1, Compute!InitMixes DEF Init, MixtureInv
<1>3. MixtureInv /\ [Next]_vars => MixtureInv'
  <2>1. Compute!MixInv /\ [Compute!ExpertNext]_Compute!evars => Compute!MixInv'
    BY <1>1, Compute!NextMixes
  <2>2. QED
    BY <2>1, ExpertSteps DEF MixtureInv
<1>4. MixtureInv => Mixed
  BY Compute!InvMixes DEF MixtureInv, Mixed
<1>5. QED
  BY <1>2, <1>3, <1>4, PTL DEF Spec
----------------------------------------------------------------------------
(* StableDiffusion and Flux.                                                *)

PictureInv == /\ part = "sd" => Compute!PaintInv
              /\ part = "flux" => Model!DrawInv

LEMMA SdSteps == ASSUME part' = "sd", [Next]_vars PROVE part = "sd" /\ [Compute!SdNext]_Compute!svars
<1>1. part = "sd"
  BY PartStays
<1>2. CASE UNCHANGED vars
  BY <1>1, <1>2 DEF vars, Compute!svars
<1>3. CASE Next
  BY <1>1, <1>3 DEF Next
<1>4. QED
  BY <1>1, <1>2, <1>3

\* StableDiffusion: every picture that is shown was denoised over all its timesteps from
\* its own noise under the prompts its rows of the batch have (its own, unless a guided
\* batch has more pictures than one), and a finished request has shown those it asked for.  Flux: a request that ends well ends with the picture of the size asked for, each
\* patch denoised along the whole schedule with the prompt and all patches in sight.
THEOREM RenderedAlways == Spec => []Rendered
<1>1. Compute!SdAssumption /\ Model!FluxAssumption
  BY PartsAssumption
<1>2. Init => PictureInv
  <2>1. Compute!SdInit => Compute!PaintInv
    BY <1>1, Compute!InitPaints
  <2>2. Model!Init => Model!DrawInv
    BY <1>1, Model!InitDraws
  <2>3. QED
    BY <2>1, <2>2 DEF Init, PictureInv
<1>3. PictureInv /\ [Next]_vars => PictureInv'
  <2>1. Compute!PaintInv /\ [Compute!SdNext]_Compute!svars => Compute!PaintInv'
    BY <1>1, Compute!NextPaints
  <2>2. Model!DrawInv /\ [Model!Next]_Model!fvars => Model!DrawInv'
    BY <1>1, Model!NextDraws
  <2>3. QED
    BY <2>1, <2>2, SdSteps, FxSteps DEF PictureInv
<1>4. PictureInv => Rendered
  <2>1. ASSUME Compute!PaintInv PROVE Compute!Painted /\ Compute!Complete
    BY <1>1, <2>1, Compute!InvPaints
  <2>2. Model!DrawInv => Model!Drawn
    BY <1>1, Model!InvDraws
  <2>3. QED
    BY <2>1, <2>2 DEF PictureInv, Rendered
<1>5. QED
  BY <1>2, <1>3, <1>4, PTL DEF Spec

-----------------------------------------------------------------------------
(* Weights.                                                                *)

WeightsInv == part = "weights" => Model!WInv

LEMMA WeightsSteps ==
  ASSUME part' = "weights", [Next]_vars PROVE part = "weights" /\ [Model!WeightsNext]_Model!wvars
<1>1. part = "weights"
  BY PartStays
<1>2. CASE UNCHANGED vars
  BY <1>1, <1>2 DEF vars, Model!wvars
<1>3. CASE Next
  BY <1>1, <1>3 DEF Next
<1>4. QED
  BY <1>1, <1>2, <1>3

\* Weights: whatever the format, the shards, the split and the GPUs, a node that starts
\* has loaded every matrix of its layers as the checkpoint has it (load_var_builder_for_*,
\* reduce_for_worker, dequantize_*); it fails only over fp8 blocks that are not whole,
\* over a Gemma 3 file of llama.cpp, and as a worker with several GPUs for a GGUF file.
THEOREM FaithfulAlways == Spec => []Faithful
<1>1. Model!WeightsAssumption
  BY PartsAssumption
<1>2. Init => WeightsInv
  <2>1. Model!WeightsInit => Model!WInv
    BY <1>1, Model!InitWeights
  <2>2. QED
    BY <2>1 DEF Init, WeightsInv
<1>3. WeightsInv /\ [Next]_vars => WeightsInv'
  <2>1. Model!WInv /\ [Model!WeightsNext]_Model!wvars => Model!WInv'
    BY <1>1, Model!NextWeights
  <2>2. QED
    BY <2>1, WeightsSteps DEF WeightsInv
<1>4. WeightsInv => Faithful
  <2>1. Model!WInv => Model!Faithful
    BY <1>1, Model!InvFaithful
  <2>2. QED
    BY <2>1 DEF WeightsInv, Faithful
<1>5. QED
  BY <1>2, <1>3, <1>4, PTL DEF Spec

-----------------------------------------------------------------------------
(* Speech.                                                                 *)

SpeechInv == part = "speech" => Model!SpeechInv

LEMMA SpeechSteps ==
  ASSUME part' = "speech", [Next]_vars PROVE part = "speech" /\ [Model!SpeechNext]_Model!svars
<1>1. part = "speech"
  BY PartStays
<1>2. CASE UNCHANGED vars
  BY <1>1, <1>2 DEF vars, Model!svars
<1>3. CASE Next
  BY <1>1, <1>3 DEF Next
<1>4. QED
  BY <1>1, <1>2, <1>3

\* Speech: whatever the text, the windows and the answers of the classifier, both
\* VibeVoice models sample every frame from conditions that heard the prompt, the text
\* and the earlier frames as they should (generate of vibevoice.rs and of
\* vibevoice_1_5b.rs) as long as the layers are on the master; on a worker, from the
\* mixture of both conversations that its one cache is.
THEOREM ConditionedAlways == Spec => []Conditioned
<1>1. Model!SpeechAssumption
  BY PartsAssumption
<1>2. Init => SpeechInv
  <2>1. Model!SpeechInit => Model!SpeechInv
    BY <1>1, Model!InitSpeaks
  <2>2. QED
    BY <2>1 DEF Init, SpeechInv
<1>3. SpeechInv /\ [Next]_vars => SpeechInv'
  <2>1. Model!SpeechInv /\ [Model!SpeechNext]_Model!svars => Model!SpeechInv'
    BY <1>1, Model!NextSpeaks
  <2>2. QED
    BY <2>1, SpeechSteps DEF SpeechInv
<1>4. SpeechInv => Conditioned
  <2>1. Model!SpeechInv => Model!Conditioned
    BY Model!InvConditioned
  <2>2. QED
    BY <2>1 DEF SpeechInv, Conditioned
<1>5. QED
  BY <1>2, <1>3, <1>4, PTL DEF Spec

-----------------------------------------------------------------------------
(* Codec.                                                                  *)

VaeInv == part = "codec" => User!CodecInv

LEMMA VaeSteps ==
  ASSUME part' = "codec", [Next]_vars PROVE part = "codec" /\ [User!CodecNext]_User!cvars
<1>1. part = "codec"
  BY PartStays
<1>2. CASE UNCHANGED vars
  BY <1>1, <1>2 DEF vars, User!cvars
<1>3. CASE Next
  BY <1>1, <1>3 DEF Next
<1>4. QED
  BY <1>1, <1>2, <1>3

\* Codec: whatever the ratios, the kernel and the number of blocks, and however many
\* frames are spoken between two clears, the chunks that decode_streaming made are what
\* decode makes of all the frames, and what encode_streaming made of the chunks is what
\* encode makes of all of the samples but its last frame (vae_decoder.rs, vae_encoder.rs):
\* there is no seam between two chunks.
THEOREM SeamlessAlways == Spec => []Seamless
<1>1. User!CodecAssumption
  BY PartsAssumption
<1>2. Init => VaeInv
  <2>1. User!CodecInit => User!CodecInv
    BY <1>1, User!CodecStarts
  <2>2. QED
    BY <2>1 DEF Init, VaeInv
<1>3. VaeInv /\ [Next]_vars => VaeInv'
  <2>1. User!CodecInv /\ [User!CodecNext]_User!cvars => User!CodecInv'
    BY <1>1, User!CodecSteps
  <2>2. QED
    BY <2>1, VaeSteps DEF VaeInv
<1>4. VaeInv => Seamless
  <2>1. User!CodecInv => User!Seamless
    BY <1>1, User!CodecSeamless
  <2>2. QED
    BY <2>1 DEF VaeInv, Seamless
<1>5. QED
  BY <1>2, <1>3, <1>4, PTL DEF Spec

-----------------------------------------------------------------------------
(* LuxTTS.                                                                 *)

VoiceInv == part = "luxtts" => Pipeline!LuxInv

LEMMA VoiceSteps ==
  ASSUME part' = "luxtts", [Next]_vars PROVE part = "luxtts" /\ [Pipeline!LuxNext]_Pipeline!lvars
<1>1. part = "luxtts"
  BY PartStays
<1>2. CASE UNCHANGED vars
  BY <1>1, <1>2 DEF vars, Pipeline!lvars, Pipeline!Requested
<1>3. CASE Next
  BY <1>1, <1>3 DEF Next
<1>4. QED
  BY <1>1, <1>2, <1>3

\* LuxTTS: whatever the text, the numbers of layers and the rates of the stacks, the
\* decoder computes the velocity of the current frames at the current time, with every
\* frame in its own place after packing, downsampling, upsampling and narrowing
\* (zipformer.rs, flow_matching.rs); the audio that is saved has two hops per frame; and
\* only a placed block, a cut word, a short reference or an empty text ends a run early.
THEOREM VoicedAlways == Spec => []Voiced
<1>1. Pipeline!LuxAssumption
  BY PartsAssumption
<1>2. Init => VoiceInv
  <2>1. Pipeline!LuxInit => Pipeline!LuxInv
    BY <1>1, Pipeline!LuxStarts
  <2>2. QED
    BY <2>1 DEF Init, VoiceInv
<1>3. VoiceInv /\ [Next]_vars => VoiceInv'
  <2>1. Pipeline!LuxInv /\ [Pipeline!LuxNext]_Pipeline!lvars => Pipeline!LuxInv'
    BY <1>1, Pipeline!LuxSteps
  <2>2. QED
    BY <2>1, VoiceSteps DEF VoiceInv
<1>4. VoiceInv => Voiced
  <2>1. Pipeline!LuxInv => Pipeline!Voiced
    BY Pipeline!LuxVoices
  <2>2. QED
    BY <2>1 DEF VoiceInv, Voiced
<1>5. QED
  BY <1>2, <1>3, <1>4, PTL DEF Spec
=============================================================================
