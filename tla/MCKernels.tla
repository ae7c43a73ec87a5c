----------------------------- MODULE MCKernels -----------------------------
(* Metal's fused attention over two SIMD groups and two positions of the KV  *)
(* cache: head dimension 64, and two tokens in the cache.                    *)
EXTENDS Kernels

MCLaunches == {[op |-> "metal_attention", dims |-> <<2, 2>>]}
=============================================================================
