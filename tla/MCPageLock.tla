------------------------------ MODULE MCPageLock ------------------------------
(* Tabs, users and the activity of the run of PageLock.                      *)
EXTENDS PageLock, TLC

CONSTANTS t1, t2, t3, ada, bob, act1

\* The registrant has two tabs, somebody else one.
MCTabUser == (t1 :> ada) @@ (t2 :> ada) @@ (t3 :> bob)
MCRegistrant == (act1 :> ada)
=============================================================================
