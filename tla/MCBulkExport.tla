---- MODULE MCBulkExport ----
(* Two exports of three items of one type and one of another, two to a file. *)
EXTENDS BulkExport

MCTypeOf == [i \in Items |-> IF i = 4 THEN 2 ELSE 1]
====
