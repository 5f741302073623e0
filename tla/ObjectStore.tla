----------------------------- MODULE ObjectStore -----------------------------
(***************************************************************************)
(* The buckets of invenio-files-rest: the tables files_bucket (bucket),    *)
(* files_object (versions) and files_files (file). One action is one       *)
(* request or one call of the library made by WEKO's modules, committed as *)
(* a whole; StoreRequests.tla interleaves them, and then a file may stay   *)
(* when its last row goes (MayLeave).                                      *)
(*                                                                         *)
(* A version's stamp stands for its version_id and its creation time, and  *)
(* orders the rows of one key. File instances are the members of Files,    *)
(* each of a fixed size; NoFile is the null file_id of a delete marker.    *)
(***************************************************************************)
EXTENDS Integers, FiniteSets, FiniteSetsExt

CONSTANTS Buckets, Keys, Files, NoFile,
          FileSize,     \* FileSize[f]: bytes of file instance f
          Quota,        \* quota_size of every bucket
          MayLeave,     \* whether a file may stay behind its last row
          MaxStamp,     \* bound: how far the stamps of one key go
          MaxRows       \* bound: object versions at any one time

ASSUME StoreAssumption ==
    /\ NoFile \notin Files
    /\ FileSize \in [Files -> Nat \ {0}]
    /\ MayLeave \in BOOLEAN
    /\ Quota \in Nat \ {0} /\ MaxStamp \in Nat \ {0} /\ MaxRows \in Nat

VARIABLES bucket,       \* Buckets -> the row, or what is left of it
          versions,     \* the rows of files_object
          file          \* Files -> "unused", "stored" or "deleted"

storeVars == <<bucket, versions, file>>

\* state: "none" before it is created, "live", "deleted" (marked) or "removed".
NoBucket == [state |-> "none", locked |-> FALSE, size |-> 0]

Version == [bucket: Buckets, key: Keys, stamp: 1 .. MaxStamp,
            file: Files \cup {NoFile}, head: BOOLEAN]

Live(b) == bucket[b].state = "live"
InBucket(b) == {v \in versions : v.bucket = b}
OfKey(V, b, k) == {v \in V : v.bucket = b /\ v.key = k}
Linked(V, f) == \E v \in V : v.file = f

\* Bucket.size of a set of rows; markers weigh nothing.
SizeOf(V) ==
    MapThenSumSet(LAMBDA v : FileSize[v.file], {v \in V : v.file # NoFile})

\* ObjectVersion.get without a version: the head, unless it is a marker.
Visible(b) == {v \in InBucket(b) : v.head /\ v.file # NoFile}

\* A stamp later than every row of the key among V has.
IsLater(V, b, k, n) == \A v \in OfKey(V, b, k) : v.stamp < n
Later(V, b, k) == CHOOSE n \in 1 .. MaxStamp : IsLater(V, b, k, n)
Room(V, b, k) == \E n \in 1 .. MaxStamp : IsLater(V, b, k, n)

NewVersion(b, k, f) ==
    [bucket |-> b, key |-> k, stamp |-> Later(versions, b, k), file |-> f, head |-> TRUE]

\* A fault: the head does not step back.
WithTwoHeads(V, new) == V \cup new

\* ObjectVersion.create for each of the new rows: the head of its key steps
\* back and the new row takes its place.
WithHeads(V, new) ==
    {[v EXCEPT !.head = v.head /\ OfKey(new, v.bucket, v.key) = {}] : v \in V}
        \cup new

\* New rows of bucket b, given as pairs of a key and a file, in one transaction.
Create(b, pairs) ==
    /\ \A p \in pairs : Room(versions, b, p[1])
    /\ Cardinality(versions) + Cardinality(pairs) <= MaxRows
    /\ LET new == {NewVersion(b, p[1], p[2]) : p \in pairs}
       IN /\ versions' = WithHeads(versions, new)
          /\ bucket' = [bucket EXCEPT ![b].size = @ + SizeOf(new)]

\* A fault: the rows that link a file are not looked at.
CollectLinked(fs) ==
    file' = [f \in Files |-> IF f \in fs THEN "deleted" ELSE file[f]]

\* delete_file_instance for every file in fs: the ones no row links are gone.
Collect(fs) ==
    file' = [f \in Files |->
                IF f \in fs /\ ~Linked(versions', f) THEN "deleted" ELSE file[f]]

Init ==
    /\ bucket = [b \in Buckets |-> NoBucket]
    /\ versions = {}
    /\ file = [f \in Files |-> "unused"]

-----------------------------------------------------------------------------
CreateBucket(b) ==
    /\ bucket[b] = NoBucket
    /\ bucket' = [bucket EXCEPT ![b].state = "live"]
    /\ UNCHANGED <<versions, file>>

\* quota_left bounds the size a single request may add.
FitsQuota(b, f) == FileSize[f] <= Quota - bucket[b].size

\* create_object
PutObject(b, k, f) ==
    /\ Live(b) /\ ~bucket[b].locked
    /\ file[f] = "unused" /\ FitsQuota(b, f)
    /\ file' = [file EXCEPT ![f] = "stored"]
    /\ Create(b, {<<k, f>>})

\* delete_object without a version: a marker on top of a visible head.
DeleteObject(b, k) ==
    /\ Live(b) /\ ~bucket[b].locked
    /\ \E v \in Visible(b) : v.key = k
    /\ Create(b, {<<k, NoFile>>})
    /\ UNCHANGED file

\* Faults: the oldest row, or none, is the heir of a removed head.
OldestInstead(V) == {v \in V : \A u \in V : v.stamp <= u.stamp}
NoHeir(V) == {}

Newest(V) == {v \in V : \A u \in V : u.stamp <= v.stamp}

\* delete_object with a version: the newest row left becomes the head, and
\* the file goes with its last row, unless the look-up, made before the commit,
\* still saw a row that has gone since or is going.
RemoveVersion(v) ==
    /\ v \in versions /\ Live(v.bucket) /\ ~bucket[v.bucket].locked
    /\ bucket' = [bucket EXCEPT ![v.bucket].size = @ - SizeOf({v})]
    /\ LET rest == versions \ {v}
           heirs == IF v.head THEN Newest(OfKey(rest, v.bucket, v.key)) ELSE {}
       IN versions' = (rest \ heirs) \cup {[u EXCEPT !.head = TRUE] : u \in heirs}
    /\ Collect({v.file}) \/ (MayLeave /\ UNCHANGED file)

\* The import of an item drops the rows of the files it no longer names, and
\* those that are no heads: no heir is looked for and the file stays.
DropObject(v) ==
    /\ v \in versions /\ ~bucket[v.bucket].locked
    /\ versions' = versions \ {v}
    /\ bucket' = [bucket EXCEPT ![v.bucket].size = @ - SizeOf({v})]
    /\ UNCHANGED file

\* It replaces a row by a new object under the name of the imported file.
ReplaceObject(v, k, f) ==
    /\ v \in versions /\ ~bucket[v.bucket].locked
    /\ file[f] = "unused" /\ Room(versions, v.bucket, k)
    /\ FileSize[f] <= Quota - (bucket[v.bucket].size - SizeOf({v}))
    /\ LET new == {NewVersion(v.bucket, k, f)}
       IN /\ versions' = WithHeads(versions \ {v}, new)
          /\ bucket' = [bucket EXCEPT ![v.bucket].size =
                                        @ - SizeOf({v}) + SizeOf(new)]
    /\ file' = [file EXCEPT ![f] = "stored"]

\* ObjectVersion.restore: a copy of an earlier version becomes the head.
Restore(v) ==
    /\ v \in versions /\ ~v.head /\ v.file # NoFile
    /\ ~bucket[v.bucket].locked
    /\ Create(v.bucket, {<<v.key, v.file>>})
    /\ UNCHANGED file

\* A fault: the size of the source is copied with its objects.
SnapshotCopiesSize(b, c, lock) ==
    /\ Live(b) /\ bucket[c] = NoBucket
    /\ versions' = versions \cup {[v EXCEPT !.bucket = c, !.stamp = 1] : v \in Visible(b)}
    /\ bucket' = [bucket EXCEPT ![c] = [state |-> "live", size |-> bucket[b].size,
                                        locked |-> lock \/ bucket[b].locked]]
    /\ UNCHANGED file

\* Bucket.snapshot: the visible heads of b, copied into a new bucket c.
Snapshot(b, c, lock) ==
    /\ Live(b) /\ bucket[c] = NoBucket
    /\ Cardinality(versions) + Cardinality(Visible(b)) <= MaxRows
    /\ LET copies == {[v EXCEPT !.bucket = c, !.stamp = 1] : v \in Visible(b)}
       IN /\ versions' = versions \cup copies
          /\ bucket' = [bucket EXCEPT ![c] =
                          [state |-> "live", size |-> SizeOf(copies),
                           locked |-> lock \/ bucket[b].locked]]
    /\ UNCHANGED file

HeadsOf(b) == {v \in InBucket(b) : v.head}

Shown(b, k) == {v.file : v \in {u \in Visible(b) : u.key = k}}
Known(b, k) == \E v \in HeadsOf(b) : v.key = k

\* A fault: delete_extras deletes nothing more.
ReplacementsKeepExtras(b, c, extras) ==
    {p \in Keys \X (Files \cup {NoFile}) :
        \/ p[2] \in Shown(b, p[1]) \ Shown(c, p[1])
        \/ /\ p[2] = NoFile /\ Shown(b, p[1]) = {} /\ Shown(c, p[1]) # {}
           /\ Known(b, p[1])}

\* Bucket.sync: the heads of c that must be replaced, as pairs of a key and a
\* file: a copy where the source shows another file, a marker where it shows
\* none.
Replacements(b, c, extras) ==
    {p \in Keys \X (Files \cup {NoFile}) :
        \/ p[2] \in Shown(b, p[1]) \ Shown(c, p[1])
        \/ /\ p[2] = NoFile /\ Shown(b, p[1]) = {} /\ Shown(c, p[1]) # {}
           /\ Known(b, p[1]) \/ extras}

\* A fault: the lock of the destination is not looked at.
SyncLocked(b, c, extras) ==
    /\ b # c /\ Live(b) /\ Live(c)
    /\ Replacements(b, c, extras) # {}
    /\ Create(c, Replacements(b, c, extras))
    /\ UNCHANGED file

Sync(b, c, extras) ==
    /\ b # c /\ Live(b) /\ Live(c) /\ ~bucket[c].locked
    /\ Replacements(b, c, extras) # {}
    /\ Create(c, Replacements(b, c, extras))
    /\ UNCHANGED file

\* Bucket.delete marks the bucket; nothing else changes.
DeleteBucket(b) ==
    /\ Live(b)
    /\ bucket' = [bucket EXCEPT ![b].state = "deleted"]
    /\ UNCHANGED <<versions, file>>

Gone == [state |-> "removed", locked |-> FALSE, size |-> 0]

\* A fault: the rows stay when the bucket goes.
RemoveBucketOnly(b) ==
    /\ bucket[b].state \in {"live", "deleted"}
    /\ bucket' = [bucket EXCEPT ![b] = Gone]
    /\ UNCHANGED versions

\* Bucket.remove: the rows of the bucket and the bucket itself.
RemoveRows(b) ==
    /\ bucket[b].state \in {"live", "deleted"}
    /\ versions' = versions \ InBucket(b)
    /\ bucket' = [bucket EXCEPT ![b] = Gone]

\* delete_bucket of weko-workflow, WekoDeposit.delete: unlocked first.
DropBucket(b) == Live(b) /\ RemoveRows(b) /\ UNCHANGED file

\* remove_file_cancel_action: the bucket, then every file it alone linked. A
\* file linked twice in the bucket is looked up again once deleted: the call
\* raises and the transaction is rolled back.
CancelBucket(b) ==
    /\ Live(b) /\ ~bucket[b].locked
    /\ \A u, v \in InBucket(b) :
        u.file = v.file /\ u # v /\ u.file # NoFile =>
            Linked(versions \ InBucket(b), u.file)
    /\ RemoveRows(b)
    /\ Collect({v.file : v \in InBucket(b)})

Next ==
    \/ \E b \in Buckets :
        CreateBucket(b) \/ DeleteBucket(b) \/ DropBucket(b) \/ CancelBucket(b)
    \/ \E b \in Buckets, k \in Keys :
        DeleteObject(b, k) \/ \E f \in Files : PutObject(b, k, f)
    \/ \E v \in versions :
        RemoveVersion(v) \/ Restore(v) \/ DropObject(v) \/ \E k \in Keys, f \in Files : ReplaceObject(v, k, f)
    \/ \E b, c \in Buckets, on \in BOOLEAN : Snapshot(b, c, on) \/ Sync(b, c, on)

Spec == Init /\ [][Next]_storeVars

-----------------------------------------------------------------------------
(* Properties                                                              *)

\* Every row holds values of its columns (files_bucket, files_object).
StoreTypeOK ==
    /\ bucket \in [Buckets -> [state: {"none", "live", "deleted", "removed"},
                               locked: BOOLEAN, size: Int]]
    /\ versions \in SUBSET Version
    /\ file \in [Files -> {"unused", "stored", "deleted"}]

\* A key of a bucket has at most one head: create() and get() look for it
\* with one_or_none(), and every later request on the key fails when there
\* are two.
AtMostOneHead ==
    \A u, v \in versions :
        u.bucket = v.bucket /\ u.key = v.key /\ u.head /\ v.head => u = v

\* is_head marks the latest version: no row of the key is newer.
HeadIsNewest ==
    \A u, v \in versions :
        u.bucket = v.bucket /\ u.key = v.key /\ u.head => v.stamp <= u.stamp

\* The size of a bucket is the size of all its objects, versions included.
SizeIsSum == \A b \in Buckets : bucket[b].size = SizeOf(InBucket(b))

\* No row links a file instance that has been deleted or never stored.
LinkedIsStored ==
    \A v \in versions : v.file # NoFile => file[v.file] = "stored"

\* Rows live in buckets that exist.
RowsInBuckets ==
    \A v \in versions : bucket[v.bucket].state \in {"live", "deleted"}

\* The rows of a locked bucket change only by dropping the bucket.
LockedUnchanged ==
    [][\A b \in Buckets : bucket[b].locked =>
        {v \in versions' : v.bucket = b} = InBucket(b) \/ bucket'[b] = Gone]_storeVars

Content(V, b) == {<<v.key, v.file>> : v \in {u \in V : u.bucket = b /\ u.head /\ u.file # NoFile}}

\* Bucket.sync with delete_extras leaves in the destination what is visible
\* in the source, and nothing else.
SyncMirrors ==
    [][\A b, c \in Buckets :
        Sync(b, c, TRUE) => Content(versions', c) = Content(versions, b)]_storeVars

\* What Shelves sees of the buckets and of a set of rows.
StatesIn(B) == [b \in Buckets |-> B[b].state]
LocksIn(B) == [b \in Buckets |-> B[b].locked]
ShownIn(V) ==
    [b \in Buckets |-> [k \in Keys |->
        {v.file : v \in {u \in OfKey(V, b, k) : u.head /\ u.file # NoFile}}]]
PastIn(V) ==
    [b \in Buckets |-> [k \in Keys |-> {v.file : v \in OfKey(V, b, k)} \ {NoFile}]]

Shelf == INSTANCE Shelves WITH
            state <- StatesIn(bucket), locked <- LocksIn(bucket),
            shown <- ShownIn(versions), past <- PastIn(versions), fate <- file

\* The rows and their heads show what Shelves promises: under each key one file
\* or none, after a removal none but an earlier one of this key, and in a locked
\* bucket always the same; no file goes while a row links it.
ImplementsShelves == Shelf!Spec
=============================================================================
