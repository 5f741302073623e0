---------------------------- MODULE ActivityFlow ----------------------------
(***************************************************************************)
(* What an activity of weko-workflow promises its users, without requests, *)
(* commits or statuses: an item walks along the steps of its flow one at a *)
(* time, may be sent back, is published from the last step only, and ends  *)
(* either finished (and then published) or cancelled (and then never       *)
(* published). An administrator may end it where it stands. Activity.tla   *)
(* is the program and implements this module when its requests come one at *)
(* a time.                                                                 *)
(***************************************************************************)
EXTENDS Naturals, Sequences

CONSTANTS Flow,         \* the endpoints of the flow's actions, in action_order
          Forced        \* whether there is an administrator to end it at once

VARIABLES pos,          \* the action_order the activity stands at
          state,        \* "making", "finally" or "cancel"
          published     \* the item has been published

vars == <<pos, state, published>>

Last == Len(Flow)

Init == pos = 2 /\ state = "making" /\ published = FALSE

\* One step forward, never past the last step before the end.
Advance ==
    /\ state = "making" /\ pos + 1 < Last
    /\ pos' = pos + 1
    /\ UNCHANGED <<state, published>>

\* Rejected or returned: to any earlier step after the beginning.
SendBack ==
    /\ state = "making"
    /\ pos' \in 2 .. pos
    /\ UNCHANGED <<state, published>>

Publish ==
    /\ state = "making" /\ pos + 1 = Last
    /\ published' = TRUE
    /\ UNCHANGED <<pos, state>>

Finish ==
    /\ state = "making" /\ pos + 1 = Last /\ published
    /\ pos' = Last /\ state' = "finally"
    /\ UNCHANGED published

Cancel ==
    /\ state = "making" /\ ~published
    /\ state' = "cancel"
    /\ UNCHANGED <<pos, published>>

\* From any step, and even when it was cancelled.
End ==
    /\ Forced
    /\ state' = "finally"
    /\ UNCHANGED <<pos, published>>

Next == Advance \/ SendBack \/ Publish \/ Finish \/ Cancel \/ End

Spec == Init /\ [][Next]_vars
=============================================================================
