----------------------------- MODULE MCMultipart -----------------------------
(* Uploads and workers of the runs of Multipart.                           *)
EXTENDS Multipart, TLC

CONSTANTS u1, u2, w1, w2

Symmetry == Permutations({u1, u2}) \cup Permutations({w1, w2})
=============================================================================
