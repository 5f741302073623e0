---------------------------- MODULE MCObjectStore ----------------------------
(* Buckets, keys and files of the runs of ObjectStore.                     *)
EXTENDS ObjectStore, TLC

CONSTANTS b1, b2, k1, k2, f1, f2

\* Sizes whose sums tell the files apart.
MCPairSize == (f1 :> 1) @@ (f2 :> 2)

Symmetry == Permutations({b1, b2}) \cup Permutations({k1, k2})
=============================================================================
