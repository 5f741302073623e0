----------------------------- MODULE UploadLife -----------------------------
(***************************************************************************)
(* What an upload in parts promises its client, without requests, tasks or *)
(* rows: its bytes are written while it is open and never afterwards, it   *)
(* is either completed and becomes an object of the bucket, once, or it is *)
(* aborted, it weighs on the bucket until then, and its bytes are on disk  *)
(* as long as it is not aborted. Multipart.tla is the program and          *)
(* implements this module when the requests on an upload come one at a     *)
(* time.                                                                   *)
(***************************************************************************)
EXTENDS Integers

CONSTANTS Uploads,
          Contents,     \* what can be on disk of an upload
          Blank         \* what is there when it is opened, one of Contents

VARIABLES state,        \* Uploads -> "none", "open", "completed", "object", "aborted"
          bytes,        \* Uploads -> Contents
          kept,         \* the uploads that have their bytes on disk
          weight        \* of the bucket, in uploads

vars == <<state, bytes, kept, weight>>

Init ==
    /\ state = [u \in Uploads |-> "none"]
    /\ bytes = [u \in Uploads |-> Blank]
    /\ kept = {} /\ weight = 0

Become(u, from, to) == state[u] = from /\ state' = [state EXCEPT ![u] = to]

\* The bytes are laid out before there is an upload to write them to.
Reserve(u) ==
    /\ state[u] = "none"
    /\ kept' = kept \cup {u}
    /\ UNCHANGED <<state, bytes, weight>>

Open(u) ==
    /\ Become(u, "none", "open") /\ u \in kept
    /\ weight' = weight + 1
    /\ UNCHANGED <<bytes, kept>>

Write(u) ==
    /\ state[u] = "open"
    /\ \E c \in Contents : bytes' = [bytes EXCEPT ![u] = c]
    /\ UNCHANGED <<state, kept, weight>>

Complete(u) ==
    /\ Become(u, "open", "completed")
    /\ UNCHANGED <<bytes, kept, weight>>

\* The object takes over the weight and the bytes.
Merge(u) ==
    /\ Become(u, "completed", "object")
    /\ UNCHANGED <<bytes, kept, weight>>

Abort(u) ==
    /\ Become(u, "open", "aborted")
    /\ weight' = weight - 1
    /\ UNCHANGED <<bytes, kept>>

Discard(u) ==
    /\ state[u] = "aborted"
    /\ kept' = kept \ {u}
    /\ UNCHANGED <<state, bytes, weight>>

Next ==
    \E u \in Uploads :
        \/ Reserve(u) \/ Open(u) \/ Write(u) \/ Complete(u) \/ Merge(u)
        \/ Abort(u) \/ Discard(u)

Spec == Init /\ [][Next]_vars
=============================================================================
