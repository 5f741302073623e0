------------------------------ MODULE Shelves ------------------------------
(***************************************************************************)
(* What the buckets of invenio-files-rest promise those who store in them, *)
(* without rows, heads, stamps, sizes or quotas: a bucket shows at most    *)
(* one file under each key, remembers the files it has shown there, and    *)
(* brings back no other; a file is kept as long as a bucket remembers it;  *)
(* a locked bucket stays as it is. ObjectStore.tla is the program and      *)
(* implements this module.                                                 *)
(***************************************************************************)
CONSTANTS Buckets, Keys, Files,
          MayLeave      \* whether a removed file may be kept all the same

VARIABLES state,    \* Buckets -> "none", "live", "deleted" (marked) or "removed"
          locked,   \* Buckets -> BOOLEAN
          shown,    \* Buckets -> Keys -> the file shown, as a set of one or none
          past,     \* Buckets -> Keys -> the files remembered, the one shown too
          fate      \* Files -> "unused", "stored" or "deleted"

vars == <<state, locked, shown, past, fate>>

Empty == [k \in Keys |-> {}]

Init ==
    /\ state = [b \in Buckets |-> "none"]
    /\ locked = [b \in Buckets |-> FALSE]
    /\ shown = [b \in Buckets |-> Empty]
    /\ past = [b \in Buckets |-> Empty]
    /\ fate = [f \in Files |-> "unused"]

Open(b) == state[b] = "live" /\ ~locked[b]

\* A marked bucket can still be reached from its objects.
Writable(b) == state[b] \in {"live", "deleted"} /\ ~locked[b]

\* What may be left of some files when one version of one of them goes.
Fewer(fs) == {fs} \cup {fs \ {f} : f \in fs}

\* Of these files the ones no bucket remembers any more are gone.
Collect(fs) ==
    fate' = [f \in Files |->
        IF f \in fs /\ \A b \in Buckets, k \in Keys : f \notin past'[b][k]
        THEN "deleted" ELSE fate[f]]

Create(b) ==
    /\ state[b] = "none"
    /\ state' = [state EXCEPT ![b] = "live"]
    /\ UNCHANGED <<locked, shown, past, fate>>

Store(f) == fate[f] = "unused" /\ fate' = [fate EXCEPT ![f] = "stored"]

Put(b, k, f) ==
    /\ Open(b) /\ Store(f)
    /\ shown' = [shown EXCEPT ![b][k] = {f}]
    /\ past' = [past EXCEPT ![b][k] = @ \cup {f}]
    /\ UNCHANGED <<state, locked>>

\* Deleted without a version: nothing is forgotten.
Hide(b, k) ==
    /\ Open(b) /\ shown[b][k] # {}
    /\ shown' = [shown EXCEPT ![b][k] = {}]
    /\ UNCHANGED <<state, locked, past, fate>>

\* A version is removed: an earlier file may come up again, but only in place of
\* the one that was shown.
Forget(b, k) ==
    /\ Open(b)
    /\ \E left \in Fewer(past[b][k]) :
        /\ \E now \in {{}} \cup {{f} : f \in left} :
            /\ \/ left = past[b][k] \/ shown[b][k] = past[b][k] \ left
               \/ now = shown[b][k]
            /\ shown' = [shown EXCEPT ![b][k] = now]
        /\ past' = [past EXCEPT ![b][k] = left]
        /\ Collect(past[b][k] \ left) \/ (MayLeave /\ UNCHANGED fate)
    /\ UNCHANGED <<state, locked>>

\* A version is dropped by an import: nothing comes up, and the file is kept.
Drop(b, k) ==
    /\ Writable(b)
    /\ \E left \in Fewer(past[b][k]), now \in {shown[b][k], {}} :
        /\ now \subseteq left
        /\ shown' = [shown EXCEPT ![b][k] = now]
        /\ past' = [past EXCEPT ![b][k] = left]
    /\ UNCHANGED <<state, locked, fate>>

\* The same under key j, and a new file under k.
Replace(b, j, k, f) ==
    /\ Writable(b) /\ Store(f)
    /\ \E left \in Fewer(past[b][j]), now \in {shown[b][j], {}} :
        /\ now \subseteq left
        /\ shown' = [shown EXCEPT ![b][j] = now, ![b][k] = {f}]
        /\ past' = [past EXCEPT ![b] = [i \in Keys |->
                        (IF i = j THEN left ELSE past[b][i]) \cup {g \in {f} : i = k}]]
    /\ UNCHANGED <<state, locked>>

Restore(b, k) ==
    /\ Writable(b)
    /\ \E f \in past[b][k] : shown' = [shown EXCEPT ![b][k] = {f}]
    /\ UNCHANGED <<state, locked, past, fate>>

Snapshot(b, c, lock) ==
    /\ state[b] = "live" /\ state[c] = "none"
    /\ state' = [state EXCEPT ![c] = "live"]
    /\ locked' = [locked EXCEPT ![c] = lock \/ locked[b]]
    /\ shown' = [shown EXCEPT ![c] = shown[b]]
    /\ past' = [past EXCEPT ![c] = shown[b]]
    /\ UNCHANGED fate

\* What b shows, c shows; the other keys of c are emptied, all of them or those
\* not in spared.
Sync(b, c, extras) ==
    /\ b # c /\ state[b] = "live" /\ Open(c)
    /\ \E spared \in SUBSET Keys :
        /\ extras => spared = {}
        /\ shown' = [shown EXCEPT ![c] =
                        [k \in Keys |-> IF shown[b][k] = {} /\ k \in spared
                                        THEN shown[c][k] ELSE shown[b][k]]]
    /\ past' = [past EXCEPT ![c] = [k \in Keys |-> past[c][k] \cup shown[b][k]]]
    /\ UNCHANGED <<state, locked, fate>>

Mark(b) ==
    /\ state[b] = "live"
    /\ state' = [state EXCEPT ![b] = "deleted"]
    /\ UNCHANGED <<locked, shown, past, fate>>

Clear(b) ==
    /\ state[b] = "live"
    /\ state' = [state EXCEPT ![b] = "removed"]
    /\ locked' = [locked EXCEPT ![b] = FALSE]
    /\ shown' = [shown EXCEPT ![b] = Empty]
    /\ past' = [past EXCEPT ![b] = Empty]

Remove(b) == Clear(b) /\ UNCHANGED fate

\* The bucket and what it alone remembers.
Cancel(b) == ~locked[b] /\ Clear(b) /\ Collect(UNION {past[b][k] : k \in Keys})

Next ==
    \/ \E b \in Buckets : Create(b) \/ Mark(b) \/ Remove(b) \/ Cancel(b)
    \/ \E b \in Buckets, k \in Keys :
        \/ Hide(b, k) \/ Forget(b, k) \/ Drop(b, k) \/ Restore(b, k)
        \/ \E f \in Files : Put(b, k, f) \/ \E j \in Keys : Replace(b, j, k, f)
    \/ \E b, c \in Buckets, on \in BOOLEAN : Snapshot(b, c, on) \/ Sync(b, c, on)

Spec == Init /\ [][Next]_vars
=============================================================================
