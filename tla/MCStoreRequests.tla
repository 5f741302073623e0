--------------------------- MODULE MCStoreRequests ---------------------------
(* Buckets, keys, files and workers of the runs of StoreRequests.          *)
EXTENDS StoreRequests, TLC

CONSTANTS b1, b2, k1, k2, f1, f2, w1, w2

\* Sizes whose sums tell the files apart.
MCPairSize == (f1 :> 1) @@ (f2 :> 2)

Symmetry == Permutations({w1, w2}) \cup Permutations({b1, b2})
=============================================================================
