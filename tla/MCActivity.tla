----------------------------- MODULE MCActivity -----------------------------
(* The flow and the workers of the runs of Activity.                       *)
EXTENDS Activity

CONSTANTS w1, w2

\* A registration with an identifier and two approvals of the same action_id.
MCFlow == <<"begin", "item_login", "identifier_grant", "approval", "approval", "end">>
MCShortFlow == <<"begin", "item_login", "approval", "end">>

Symmetry == {[w \in {w1, w2} |-> w],
             [w \in {w1, w2} |-> IF w = w1 THEN w2 ELSE w1]}
=============================================================================
