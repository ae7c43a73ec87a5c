---- MODULE MCSetup ----
EXTENDS ClusterSetup, TLC
CONSTANTS w0, w1, l0, l1, m0, m1
MCOrder == <<w0, w1>>
MCName == [w \in Workers |-> w]
MCPlans == m0 :> {w0 :> {l0} @@ w1 :> {l1}} @@ m1 :> {w0 :> {l1} @@ w1 :> {}}
====
