------------------------------ MODULE Formation ------------------------------
(***************************************************************************)
(* What master_setup (cake/sharding/mod.rs) promises: a master's cluster   *)
(* is formed of all its members, each of which has declared itself ready   *)
(* to this master, or not at all.                                          *)
(***************************************************************************)
CONSTANTS Masters, Workers

VARIABLES members,  \* master -> the workers it gave layers
          declared, \* master -> those that declared themselves ready to it
          outcome   \* master -> open, formed or aborted

vars == <<members, declared, outcome>>

Init == /\ members  = [m \in Masters |-> {}]
        /\ declared = [m \in Masters |-> {}]
        /\ outcome  = [m \in Masters |-> "open"]

\* The assignment is made, once.
Invite(m, ws) ==
  /\ outcome[m] = "open" /\ members[m] = {} /\ declared[m] = {}
  /\ members' = [members EXCEPT ![m] = ws]
  /\ UNCHANGED <<declared, outcome>>

\* A member declares itself ready, perhaps to a master that has given up.
Declare(m, w) ==
  /\ w \in members[m] \ declared[m] /\ outcome[m] # "formed"
  /\ declared' = [declared EXCEPT ![m] = @ \cup {w}]
  /\ UNCHANGED <<members, outcome>>

Form(m) ==
  /\ outcome[m] = "open" /\ declared[m] = members[m]
  /\ outcome' = [outcome EXCEPT ![m] = "formed"]
  /\ UNCHANGED <<members, declared>>

\* A master gives up or dies, also after its cluster was formed.
Abort(m) ==
  /\ outcome[m] # "aborted"
  /\ outcome' = [outcome EXCEPT ![m] = "aborted"]
  /\ UNCHANGED <<members, declared>>

Next == \E m \in Masters :
          \/ \E ws \in SUBSET Workers : Invite(m, ws)
          \/ \E w \in Workers : Declare(m, w)
          \/ Form(m) \/ Abort(m)

Spec == Init /\ [][Next]_vars
=============================================================================
