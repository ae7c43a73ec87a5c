---------------------------- MODULE MCInference ----------------------------
(* Small clusters for TLC. *)
EXTENDS InferenceInv, TLC

CONSTANTS w1, w2

\* A worker that owns two neighbouring blocks (hence an idle second
\* connection), a local block, a second worker behind the first.
MixedOwner == 0 :> w1 @@ 1 :> w1 @@ 2 :> Local @@ 3 :> w2

\* The same with a last block behind the second worker, on the first one again, as
\* the redistribution in default.rs may leave it: its process is visited twice in a
\* pass, over two connections with a cache each, and holds a third one, idle.
SplitOwner == 0 :> w1 @@ 1 :> w1 @@ 2 :> Local @@ 3 :> w2 @@ 4 :> w1

MCPromptLens == {2}
MCSampleLens == {0, 1, 3}
=============================================================================
