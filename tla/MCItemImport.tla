---- MODULE MCItemImport ----
(* Two uploads, of two records and of none that is valid, in two seconds. *)
EXTENDS ItemImport, TLC

CONSTANTS c1, c2, r1, r2

MCHolds == c1 :> {r1, r2} @@ c2 :> {}
====
