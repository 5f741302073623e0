-------------------------- MODULE ObjectStoreProofs --------------------------
(***************************************************************************)
(* Theorems about ObjectStore: its rows and the sizes of its buckets, for  *)
(* any buckets, keys, files and stamps.                                    *)
(***************************************************************************)
EXTENDS ObjectStore, SumLemmas, TLAPS

-----------------------------------------------------------------------------
(* Facts about a set V of rows.                                            *)

SameKey(u, v) == u.bucket = v.bucket /\ u.key = v.key

\* The rows of a key have different stamps, one head at most, and that one is
\* the newest.
WellKept(V) ==
    /\ V \subseteq Version
    /\ \A u, v \in V : SameKey(u, v) /\ u.stamp = v.stamp => u = v
    /\ \A u, v \in V : SameKey(u, v) /\ u.head /\ v.head => u = v
    /\ \A u, v \in V : SameKey(u, v) /\ u.head => v.stamp <= u.stamp

\* Rows that can be added to V: one for a key, later than those it has.
CanFollow(V, new) ==
    /\ new \subseteq Version
    /\ \A n \in new : n.head /\ IsLater(V, n.bucket, n.key, n.stamp)
    /\ \A m, n \in new : SameKey(m, n) => m = n

LEMMA LaterIsLater ==
    ASSUME NEW V, NEW b, NEW k, Room(V, b, k)
    PROVE  /\ Later(V, b, k) \in 1 .. MaxStamp
           /\ IsLater(V, b, k, Later(V, b, k))
BY DEF Room, Later

\* The row v once the new rows have taken the heads of their keys.
Stepped(v, new) == [v EXCEPT !.head = v.head /\ OfKey(new, v.bucket, v.key) = {}]

LEMMA SteppedRow ==
    ASSUME NEW new, NEW v \in Version
    PROVE  /\ Stepped(v, new) \in Version
           /\ Stepped(v, new).bucket = v.bucket /\ Stepped(v, new).key = v.key
           /\ Stepped(v, new).stamp = v.stamp /\ Stepped(v, new).file = v.file
           /\ Stepped(v, new).head => v.head /\ OfKey(new, v.bucket, v.key) = {}
<1> DEFINE h == v.head /\ OfKey(new, v.bucket, v.key) = {}
<1>1. h \in BOOLEAN
  OBVIOUS
<1>2. h => v.head /\ OfKey(new, v.bucket, v.key) = {}
  OBVIOUS
<1>3. Stepped(v, new) = [v EXCEPT !.head = h]
  BY DEF Stepped
<1> HIDE DEF h
<1> QED
  BY <1>1, <1>2, <1>3 DEF Version

LEMMA WithHeadsRows ==
    ASSUME NEW V, NEW new
    PROVE  WithHeads(V, new) = {Stepped(v, new) : v \in V} \cup new
BY DEF WithHeads, Stepped

\* ObjectVersion.create keeps the rows well.
LEMMA WithHeadsKept ==
    ASSUME NEW V, NEW new, WellKept(V), CanFollow(V, new)
    PROVE  WellKept(WithHeads(V, new))
<1> DEFINE W == WithHeads(V, new)
<1>1. ASSUME NEW x \in W
      PROVE  x \in new \/ \E v \in V : x = Stepped(v, new)
  BY WithHeadsRows
<1>2. W \subseteq Version
  BY <1>1, SteppedRow DEF WellKept, CanFollow
<1>3. ASSUME NEW x \in W, NEW y \in W, SameKey(x, y)
      PROVE  /\ x.stamp = y.stamp => x = y
             /\ x.head /\ y.head => x = y
             /\ x.head => y.stamp <= x.stamp
  <2>1. CASE x \in new /\ y \in new
    <3>1. x = y /\ x.stamp \in 1 .. MaxStamp
      BY <1>3, <2>1 DEF CanFollow, Version
    <3> QED
      BY <3>1, StoreAssumption
  <2>2. ASSUME NEW n \in new, NEW v \in V, SameKey(n, v)
        PROVE  v.stamp < n.stamp /\ OfKey(new, v.bucket, v.key) # {}
    BY <2>2 DEF CanFollow, IsLater, OfKey, SameKey
  <2>3. \A v \in V : v \in Version /\ v.stamp \in Int
    BY StoreAssumption DEF WellKept, Version
  <2>4. \A n \in new : n \in Version /\ n.stamp \in Int
    BY StoreAssumption DEF CanFollow, Version
  <2>5. ASSUME x \in new, NEW v \in V, y = Stepped(v, new)
        PROVE  y.stamp < x.stamp /\ ~y.head
    <3>1. SameKey(x, v)
      BY <1>3, <2>3, <2>5, SteppedRow DEF SameKey
    <3> QED
      BY <2>2, <2>3, <2>5, <3>1, SteppedRow
  <2>6. ASSUME y \in new, NEW v \in V, x = Stepped(v, new)
        PROVE  x.stamp < y.stamp /\ ~x.head
    <3>1. SameKey(y, v)
      BY <1>3, <2>3, <2>6, SteppedRow DEF SameKey
    <3> QED
      BY <2>2, <2>3, <2>6, <3>1, SteppedRow
  <2>7. ASSUME NEW v \in V, x = Stepped(v, new), NEW u \in V, y = Stepped(u, new)
        PROVE  /\ x.stamp = y.stamp => x = y
               /\ x.head /\ y.head => x = y
               /\ x.head => y.stamp <= x.stamp
    <3>1. SameKey(v, u) /\ x.stamp = v.stamp /\ y.stamp = u.stamp
      BY <1>3, <2>3, <2>7, SteppedRow DEF SameKey
    <3>2. (x.head => v.head) /\ (y.head => u.head)
      BY <2>3, <2>7, SteppedRow
    <3> QED
      BY <2>7, <3>1, <3>2 DEF WellKept, SameKey
  <2>8. x.stamp \in Int /\ y.stamp \in Int
    BY <1>2, StoreAssumption DEF Version
  <2> HIDE DEF W
  <2> QED
    BY <1>1, <2>1, <2>5, <2>6, <2>7, <2>8
<1> QED
  BY <1>2, <1>3 DEF WellKept

\* Taking rows away that leave a key without a newer row than its head.
LEMMA SubsetKept ==
    ASSUME NEW V, NEW W, WellKept(V), W \subseteq V
    PROVE  WellKept(W)
BY DEF WellKept

\* The rows of other buckets are the same.
LEMMA WithHeadsOthers ==
    ASSUME NEW V, NEW new, V \subseteq Version, NEW b, \A n \in new : n.bucket = b,
           NEW d, d # b
    PROVE  {v \in WithHeads(V, new) : v.bucket = d} = {v \in V : v.bucket = d}
<1>1. ASSUME NEW v \in V, v.bucket = d
      PROVE  Stepped(v, new) = v
  <2>1. OfKey(new, v.bucket, v.key) = {}
    BY <1>1 DEF OfKey
  <2>2. Stepped(v, new) = [v EXCEPT !.head = v.head]
    <3>1. v.head /\ OfKey(new, v.bucket, v.key) = {} <=> v.head
      BY <2>1
    <3>2. v.head \in BOOLEAN
      BY DEF Version
    <3>3. (v.head /\ OfKey(new, v.bucket, v.key) = {}) = v.head
      BY <3>1, <3>2
    <3> QED
      BY <3>3 DEF Stepped
  <2> QED
    BY <2>2 DEF Version
<1>2. ASSUME NEW v \in V
      PROVE  Stepped(v, new).bucket = v.bucket
  BY <1>2, SteppedRow
<1> QED
  BY <1>1, <1>2, WithHeadsRows

-----------------------------------------------------------------------------
(* The invariant.                                                          *)

BucketRow(S) ==
    [state: {"none", "live", "deleted", "removed"}, locked: BOOLEAN, size: S]

BucketsTyped == \E S : bucket \in [Buckets -> BucketRow(S)]

FilesTyped == file \in [Files -> {"unused", "stored", "deleted"}]

Rows ==
    /\ BucketsTyped /\ FilesTyped
    /\ WellKept(versions)
    /\ RowsInBuckets /\ LinkedIsStored

\* A size changes and nothing else of a bucket.
LEMMA Resized ==
    ASSUME BucketsTyped, NEW b \in Buckets, NEW STATE x, bucket' = [bucket EXCEPT ![b].size = x]
    PROVE  /\ BucketsTyped'
           /\ \A c \in Buckets : /\ bucket'[c].state = bucket[c].state
                                 /\ bucket'[c].locked = bucket[c].locked
<1>1. PICK S : bucket \in [Buckets -> BucketRow(S)]
  BY DEF BucketsTyped
<1>2. bucket' \in [Buckets -> BucketRow(S \cup {x})]
  BY <1>1 DEF BucketRow
<1>3. \A c \in Buckets : /\ bucket'[c].state = bucket[c].state
                         /\ bucket'[c].locked = bucket[c].locked
  BY <1>1 DEF BucketRow
<1> QED
  BY <1>2, <1>3 DEF BucketsTyped

\* A bucket gets another row.
LEMMA Rewritten ==
    ASSUME BucketsTyped, NEW b \in Buckets, NEW STATE row, NEW S, row \in BucketRow(S),
           bucket' = [bucket EXCEPT ![b] = row]
    PROVE  /\ BucketsTyped'
           /\ bucket'[b] = row
           /\ \A c \in Buckets : c # b => bucket'[c] = bucket[c]
<1>1. PICK T : bucket \in [Buckets -> BucketRow(T)]
  BY DEF BucketsTyped
<1>2. bucket' \in [Buckets -> BucketRow(S \cup T)]
  BY <1>1 DEF BucketRow
<1> QED
  BY <1>1, <1>2 DEF BucketsTyped

OnePerKey(pairs) == \A p, q \in pairs : p[1] = q[1] => p = q

NewRows(b, pairs) == {NewVersion(b, p[1], p[2]) : p \in pairs}

\* The rows Create adds follow those there are.
LEMMA CreateFollows ==
    ASSUME NEW b \in Buckets, NEW STATE pairs, pairs \subseteq Keys \X (Files \cup {NoFile}),
           OnePerKey(pairs), Create(b, pairs)
    PROVE  /\ CanFollow(versions, NewRows(b, pairs))
           /\ \A n \in NewRows(b, pairs) : n.bucket = b /\ \E p \in pairs : n.file = p[2]
           /\ versions' = WithHeads(versions, NewRows(b, pairs))
           /\ bucket' = [bucket EXCEPT ![b].size =
                            bucket[b].size + SizeOf(NewRows(b, pairs))]
<1> DEFINE new == NewRows(b, pairs)
<1>1. /\ versions' = WithHeads(versions, new)
      /\ bucket' = [bucket EXCEPT ![b].size = bucket[b].size + SizeOf(new)]
  BY DEF Create, NewRows
<1>2. ASSUME NEW p \in pairs
      PROVE  /\ NewVersion(b, p[1], p[2]) \in Version
             /\ NewVersion(b, p[1], p[2]).head
             /\ NewVersion(b, p[1], p[2]).bucket = b
             /\ NewVersion(b, p[1], p[2]).key = p[1]
             /\ NewVersion(b, p[1], p[2]).file = p[2]
             /\ IsLater(versions, b, p[1], NewVersion(b, p[1], p[2]).stamp)
  <2>1. Room(versions, b, p[1]) /\ p[1] \in Keys /\ p[2] \in Files \cup {NoFile}
    BY DEF Create
  <2>2. /\ Later(versions, b, p[1]) \in 1 .. MaxStamp
        /\ IsLater(versions, b, p[1], Later(versions, b, p[1]))
    BY <2>1, LaterIsLater
  <2> QED
    BY <2>1, <2>2 DEF NewVersion, Version
<1>3. CanFollow(versions, new)
  <2>1. ASSUME NEW m \in new, NEW n \in new, SameKey(m, n)
        PROVE  m = n
    <3>1. PICK p \in pairs, q \in pairs : /\ m = NewVersion(b, p[1], p[2])
                                          /\ n = NewVersion(b, q[1], q[2])
      BY DEF NewRows
    <3>2. p[1] = q[1]
      BY <1>2, <2>1, <3>1 DEF SameKey
    <3>3. p = q
      BY <3>2 DEF OnePerKey
    <3> QED
      BY <3>1, <3>3
  <2> QED
    BY <1>2, <2>1 DEF CanFollow, NewRows
<1>4. \A n \in new : n.bucket = b /\ \E p \in pairs : n.file = p[2]
  BY <1>2 DEF NewRows
<1> QED
  BY <1>1, <1>3, <1>4

\* What Create does to the rows.
LEMMA CreateRows ==
    ASSUME Rows, NEW b \in Buckets, NEW STATE pairs, pairs \subseteq Keys \X (Files \cup {NoFile}),
           OnePerKey(pairs), Create(b, pairs)
    PROVE  /\ BucketsTyped' /\ WellKept(versions')
           /\ \A c \in Buckets : bucket'[c].state = bucket[c].state
           /\ \A c \in Buckets : bucket'[c].locked = bucket[c].locked
           /\ \A x \in versions' :
                \/ x.bucket = b /\ \E p \in pairs : x.file = p[2]
                \/ \E v \in versions : x.bucket = v.bucket /\ x.file = v.file
           /\ \A d : d # b => {v \in versions' : v.bucket = d} = InBucket(d)
<1> DEFINE new == NewRows(b, pairs)
<1>1. /\ versions' = WithHeads(versions, new)
      /\ bucket' = [bucket EXCEPT ![b].size = bucket[b].size + SizeOf(new)]
      /\ CanFollow(versions, new)
  BY CreateFollows
<1>4. \A n \in new : n.bucket = b /\ \E p \in pairs : n.file = p[2]
  BY CreateFollows
<1> HIDE DEF new
<1>5. WellKept(versions')
  BY <1>1, WithHeadsKept DEF Rows
<1>6. /\ BucketsTyped'
      /\ \A c \in Buckets : bucket'[c].state = bucket[c].state
      /\ \A c \in Buckets : bucket'[c].locked = bucket[c].locked
  BY <1>1, Resized DEF Rows
<1>7. ASSUME NEW x \in versions'
      PROVE  \/ x.bucket = b /\ \E p \in pairs : x.file = p[2]
             \/ \E v \in versions : x.bucket = v.bucket /\ x.file = v.file
  <2>1. x \in new \/ \E v \in versions : x = Stepped(v, new)
    BY <1>1, WithHeadsRows
  <2> QED
    BY <1>4, <2>1, SteppedRow DEF Rows, WellKept
<1>8. \A d : d # b => {v \in versions' : v.bucket = d} = InBucket(d)
  BY <1>1, <1>4, WithHeadsOthers DEF InBucket, Rows, WellKept
<1> QED
  BY <1>5, <1>6, <1>7, <1>8

LockedKept ==
    \A b \in Buckets : bucket[b].locked =>
        {v \in versions' : v.bucket = b} = InBucket(b) \/ bucket'[b] = Gone

LEMMA RowFacts ==
    ASSUME Rows, NEW v \in versions
    PROVE  /\ v \in Version /\ v.bucket \in Buckets /\ v.key \in Keys
           /\ v.file \in Files \cup {NoFile} /\ v.head \in BOOLEAN
           /\ bucket[v.bucket].state \in {"live", "deleted"}
           /\ v.file # NoFile => file[v.file] = "stored"
BY DEF Rows, WellKept, Version, RowsInBuckets, LinkedIsStored

\* New rows in a bucket that exists and is not locked.
LEMMA CreateKept ==
    ASSUME Rows, NEW b \in Buckets, NEW STATE pairs, pairs \subseteq Keys \X (Files \cup {NoFile}),
           OnePerKey(pairs), Create(b, pairs),
           bucket[b].state \in {"live", "deleted"}, ~bucket[b].locked, FilesTyped',
           \A p \in pairs : p[2] # NoFile => file'[p[2]] = "stored",
           \A f \in Files : file[f] = "stored" => file'[f] = "stored"
    PROVE  Rows' /\ LockedKept
<1>1. ASSUME NEW x \in versions'
      PROVE  /\ bucket'[x.bucket].state \in {"live", "deleted"}
             /\ x.file # NoFile => file'[x.file] = "stored"
  <2>1. CASE x.bucket = b /\ \E p \in pairs : x.file = p[2]
    BY <2>1, CreateRows
  <2>2. ASSUME NEW v \in versions, x.bucket = v.bucket, x.file = v.file
        PROVE  /\ bucket'[x.bucket].state \in {"live", "deleted"}
               /\ x.file # NoFile => file'[x.file] = "stored"
    BY <2>2, CreateRows, RowFacts
  <2> QED
    BY <2>1, <2>2, CreateRows
<1>2. Rows'
  BY <1>1, CreateRows DEF Rows, RowsInBuckets, LinkedIsStored
<1>3. LockedKept
  BY CreateRows DEF LockedKept
<1> QED
  BY <1>2, <1>3

LEMMA PutKept ==
    ASSUME Rows, NEW b \in Buckets, NEW k \in Keys, NEW f \in Files, PutObject(b, k, f)
    PROVE  Rows' /\ LockedKept
<1>1. FilesTyped' /\ file'[f] = "stored" /\ \A g \in Files : g # f => file'[g] = file[g]
  BY DEF PutObject, Rows, FilesTyped
<1>2. Create(b, {<<k, f>>}) /\ bucket[b].state = "live" /\ ~bucket[b].locked
  BY DEF PutObject, Live
<1>3. {<<k, f>>} \subseteq Keys \X (Files \cup {NoFile}) /\ OnePerKey({<<k, f>>})
  BY DEF OnePerKey
<1> QED
  BY <1>1, <1>2, <1>3, CreateKept

LEMMA DeleteKept ==
    ASSUME Rows, NEW b \in Buckets, NEW k \in Keys, DeleteObject(b, k)
    PROVE  Rows' /\ LockedKept
<1>1. FilesTyped' /\ file' = file
  BY DEF DeleteObject, Rows, FilesTyped
<1>2. Create(b, {<<k, NoFile>>}) /\ bucket[b].state = "live" /\ ~bucket[b].locked
  BY DEF DeleteObject, Live
<1>3. {<<k, NoFile>>} \subseteq Keys \X (Files \cup {NoFile}) /\ OnePerKey({<<k, NoFile>>})
  BY DEF OnePerKey
<1> QED
  BY <1>1, <1>2, <1>3, CreateKept

LEMMA RestoreKept ==
    ASSUME Rows, NEW v \in versions, Restore(v)
    PROVE  Rows' /\ LockedKept
<1>1. FilesTyped' /\ file' = file
  BY DEF Restore, Rows, FilesTyped
<1>2. Create(v.bucket, {<<v.key, v.file>>}) /\ ~bucket[v.bucket].locked
  BY DEF Restore
<1>3. /\ {<<v.key, v.file>>} \subseteq Keys \X (Files \cup {NoFile})
      /\ OnePerKey({<<v.key, v.file>>})
  BY RowFacts DEF OnePerKey
<1> QED
  BY <1>1, <1>2, <1>3, CreateKept, RowFacts

\* A synchronisation replaces each key of the destination at most once.
LEMMA SyncPairs ==
    ASSUME Rows, NEW b \in Buckets, NEW c \in Buckets, NEW on \in BOOLEAN
    PROVE  /\ Replacements(b, c, on) \subseteq Keys \X (Files \cup {NoFile})
           /\ OnePerKey(Replacements(b, c, on))
           /\ \A p \in Replacements(b, c, on) : p[2] # NoFile => file[p[2]] = "stored"
<1> DEFINE pairs == Replacements(b, c, on)
<1>1. \A k \in Keys : \A f \in Shown(b, k) : f # NoFile /\ file[f] = "stored"
  BY RowFacts DEF Shown, Visible, InBucket
<1>2. \A k \in Keys : \A f, g \in Shown(b, k) : f = g
  <2> SUFFICES ASSUME NEW k \in Keys, NEW f \in Shown(b, k), NEW g \in Shown(b, k)
               PROVE  f = g
    OBVIOUS
  <2>1. PICK u \in versions : u.bucket = b /\ u.key = k /\ u.head /\ u.file = f
    BY DEF Shown, Visible, InBucket
  <2>2. PICK v \in versions : v.bucket = b /\ v.key = k /\ v.head /\ v.file = g
    BY DEF Shown, Visible, InBucket
  <2>3. u = v
    BY <2>1, <2>2 DEF Rows, WellKept, SameKey
  <2> QED
    BY <2>1, <2>2, <2>3
<1>3. /\ pairs \subseteq Keys \X (Files \cup {NoFile})
      /\ \A p \in pairs : \/ p[2] \in Shown(b, p[1])
                          \/ p[2] = NoFile /\ Shown(b, p[1]) = {}
  BY DEF Replacements
<1> HIDE DEF pairs
<1>4. OnePerKey(pairs)
  <2> SUFFICES ASSUME NEW p \in pairs, NEW q \in pairs, p[1] = q[1]
               PROVE  p = q
    BY DEF OnePerKey
  <2>1. p[2] = q[2]
    BY <1>2, <1>3
  <2> QED
    BY <1>3, <2>1
<1>5. \A p \in pairs : p[2] # NoFile => file[p[2]] = "stored"
  BY <1>1, <1>3
<1> QED
  BY <1>3, <1>4, <1>5 DEF pairs

LEMMA SyncKept ==
    ASSUME Rows, NEW b \in Buckets, NEW c \in Buckets, NEW on \in BOOLEAN, Sync(b, c, on)
    PROVE  Rows' /\ LockedKept
<1> DEFINE pairs == Replacements(b, c, on)
<1>1. FilesTyped' /\ file' = file
  BY DEF Sync, Rows, FilesTyped
<1>2. Create(c, pairs) /\ bucket[c].state = "live" /\ ~bucket[c].locked
  BY DEF Sync, Live
<1>3. /\ pairs \subseteq Keys \X (Files \cup {NoFile}) /\ OnePerKey(pairs)
      /\ \A p \in pairs : p[2] # NoFile => file'[p[2]] = "stored"
  BY <1>1, SyncPairs
<1> HIDE DEF pairs
<1> QED
  BY <1>1, <1>2, <1>3, CreateKept

\* Rows go, and perhaps one of those left is made a head; the rows of a bucket
\* that is locked or not in the request are the same.
LEMMA FewerKept ==
    ASSUME Rows, NEW b \in Buckets, ~bucket[b].locked, BucketsTyped',
           \A c \in Buckets : /\ bucket'[c].state = bucket[c].state
                              /\ bucket'[c].locked = bucket[c].locked,
           WellKept(versions'), FilesTyped',
           \A u \in versions' : \E w \in versions : /\ u.bucket = w.bucket
                                                    /\ u.file = w.file,
           \A f \in Files : file[f] = "stored" =>
                file'[f] = "stored" \/ ~Linked(versions', f),
           \A d \in Buckets : d # b => {u \in versions' : u.bucket = d} = InBucket(d)
    PROVE  Rows' /\ LockedKept
<1>1. ASSUME NEW u \in versions'
      PROVE  /\ bucket'[u.bucket].state \in {"live", "deleted"}
             /\ u.file # NoFile => file'[u.file] = "stored"
  <2>1. PICK w \in versions : u.bucket = w.bucket /\ u.file = w.file
    OBVIOUS
  <2>2. Linked(versions', u.file)
    BY DEF Linked
  <2> QED
    BY <2>1, <2>2, RowFacts
<1>2. Rows'
  BY <1>1 DEF Rows, RowsInBuckets, LinkedIsStored
<1>3. LockedKept
  BY DEF LockedKept
<1> QED
  BY <1>2, <1>3

\* What Collect does to the files.
LEMMA CollectKept ==
    ASSUME FilesTyped, NEW STATE fs, Collect(fs)
    PROVE  /\ FilesTyped'
           /\ \A f \in Files : file[f] = "stored" =>
                file'[f] = "stored" \/ ~Linked(versions', f)
<1>1. file' = [f \in Files |->
                IF f \in fs /\ ~Linked(versions', f) THEN "deleted" ELSE file[f]]
  BY DEF Collect
<1> DEFINE L == {f \in Files : Linked(versions', f)}
<1>2. file' = [f \in Files |-> IF f \in fs /\ f \notin L THEN "deleted" ELSE file[f]]
  BY <1>1
<1>3. \A f \in Files : f \in L <=> Linked(versions', f)
  OBVIOUS
<1> HIDE DEF L
<1> QED
  BY <1>2, <1>3 DEF FilesTyped

\* The heir of a removed head is the newest row left, so the rows stay well.
LEMMA RemoveKept ==
    ASSUME Rows, NEW v \in versions, RemoveVersion(v)
    PROVE  Rows' /\ LockedKept
<1> DEFINE rest == versions \ {v}
           heirs == IF v.head THEN Newest(OfKey(rest, v.bucket, v.key)) ELSE {}
           Raised(u) == [u EXCEPT !.head = TRUE]
<1>1. versions' = (rest \ heirs) \cup {Raised(u) : u \in heirs}
  BY DEF RemoveVersion
<1>2. \A u \in heirs : /\ u \in rest /\ SameKey(u, v) /\ v.head
                       /\ \A w \in rest : SameKey(w, v) => w.stamp <= u.stamp
  BY DEF Newest, OfKey, SameKey
<1>3. \A u \in versions : /\ u \in Version /\ u.stamp \in Int
                          /\ Raised(u) \in Version /\ Raised(u).head
                          /\ Raised(u).bucket = u.bucket /\ Raised(u).key = u.key
                          /\ Raised(u).stamp = u.stamp /\ Raised(u).file = u.file
  <2> SUFFICES ASSUME NEW u \in versions
               PROVE  /\ u \in Version /\ u.stamp \in Int
                      /\ Raised(u) \in Version /\ Raised(u).head
                      /\ Raised(u).bucket = u.bucket /\ Raised(u).key = u.key
                      /\ Raised(u).stamp = u.stamp /\ Raised(u).file = u.file
    OBVIOUS
  <2>1. u \in Version
    BY RowFacts
  <2>2. u.stamp \in Int
    BY <2>1, StoreAssumption DEF Version
  <2> QED
    BY <2>1, <2>2 DEF Version
<1> HIDE DEF Raised, heirs
<1>4. ASSUME NEW x \in versions'
      PROVE  \E u \in rest : \/ x = u /\ u \notin heirs
                             \/ x = Raised(u) /\ u \in heirs
  BY <1>1, <1>2
<1>5. WellKept(versions')
  <2>1. versions' \subseteq Version
    BY <1>3, <1>4
  <2>2. ASSUME NEW x \in versions', NEW y \in versions', SameKey(x, y)
        PROVE  /\ x.stamp = y.stamp => x = y
               /\ x.head /\ y.head => x = y
               /\ x.head => y.stamp <= x.stamp
    <3>1. PICK u \in rest : \/ x = u /\ u \notin heirs
                            \/ x = Raised(u) /\ u \in heirs
      BY <1>4
    <3>2. PICK w \in rest : \/ y = w /\ w \notin heirs
                            \/ y = Raised(w) /\ w \in heirs
      BY <1>4
    <3>3. /\ SameKey(u, w) /\ x.stamp = u.stamp /\ y.stamp = w.stamp
          /\ u.stamp \in Int /\ w.stamp \in Int
      BY <1>3, <2>2, <3>1, <3>2 DEF SameKey
    <3>4. u.stamp = w.stamp => u = w
      BY <3>3 DEF Rows, WellKept
    <3>5. x.stamp = y.stamp => x = y
      BY <3>1, <3>2, <3>3, <3>4
    <3>6. CASE u \in heirs
      <4>1. w.stamp <= u.stamp
        BY <1>2, <3>3, <3>6 DEF SameKey
      <4>2. CASE w \in heirs
        BY <1>2, <3>3, <3>4, <3>5, <3>6, <4>1, <4>2 DEF SameKey
      <4>3. CASE w \notin heirs
        <5>1. ~w.head
          BY <1>2, <3>3, <3>6 DEF Rows, WellKept, SameKey
        <5> QED
          BY <3>2, <3>3, <3>5, <4>1, <4>3, <5>1
      <4> QED
        BY <4>2, <4>3
    <3>7. CASE u \notin heirs
      <4>1. x = u
        BY <3>1, <3>7
      <4>2. x.head => w.stamp <= u.stamp
        BY <3>3, <4>1 DEF Rows, WellKept
      <4>3. CASE w \in heirs
        <5>1. ~u.head
          BY <1>2, <3>3, <4>3 DEF Rows, WellKept, SameKey
        <5> QED
          BY <3>3, <3>5, <4>1, <5>1
      <4>4. CASE w \notin heirs
        BY <3>2, <3>3, <3>5, <4>1, <4>2, <4>4 DEF Rows, WellKept
      <4> QED
        BY <4>3, <4>4
    <3> QED
      BY <3>6, <3>7
  <2> QED
    BY <2>1, <2>2 DEF WellKept
<1>6. ASSUME NEW d \in Buckets, d # v.bucket
      PROVE  {u \in versions' : u.bucket = d} = InBucket(d)
  <2>1. \A u \in versions : u.bucket = d => u \in rest /\ u \notin heirs
    BY <1>2, <1>6 DEF SameKey
  <2>2. \A u \in heirs : Raised(u).bucket # d
    BY <1>2, <1>3, <1>6 DEF SameKey
  <2> QED
    BY <1>1, <2>1, <2>2 DEF InBucket
<1>7. \A u \in versions' : \E w \in versions : u.bucket = w.bucket /\ u.file = w.file
  BY <1>3, <1>4
<1>8. /\ FilesTyped'
      /\ \A f \in Files : file[f] = "stored" =>
            file'[f] = "stored" \/ ~Linked(versions', f)
  <2>1. FilesTyped /\ (Collect({v.file}) \/ UNCHANGED file)
    BY DEF RemoveVersion, Rows
  <2>2. CASE UNCHANGED file
    BY <2>1, <2>2 DEF FilesTyped
  <2> QED
    BY <2>1, <2>2, CollectKept
<1>9. /\ BucketsTyped'
      /\ \A c \in Buckets : /\ bucket'[c].state = bucket[c].state
                            /\ bucket'[c].locked = bucket[c].locked
  <2>1. bucket' = [bucket EXCEPT ![v.bucket].size =
                                    bucket[v.bucket].size - SizeOf({v})]
    BY DEF RemoveVersion
  <2> QED
    BY <2>1, Resized, RowFacts DEF Rows
<1>10. v.bucket \in Buckets /\ ~bucket[v.bucket].locked
  BY RowFacts DEF RemoveVersion
<1> QED
  BY <1>5, <1>6, <1>7, <1>8, <1>9, <1>10, FewerKept
LEMMA DropKept ==
    ASSUME Rows, NEW v \in versions, DropObject(v)
    PROVE  Rows' /\ LockedKept
<1>1. /\ BucketsTyped'
      /\ \A c \in Buckets : /\ bucket'[c].state = bucket[c].state
                            /\ bucket'[c].locked = bucket[c].locked
  <2>1. bucket' = [bucket EXCEPT ![v.bucket].size =
                                    bucket[v.bucket].size - SizeOf({v})]
    BY DEF DropObject
  <2> QED
    BY <2>1, Resized, RowFacts DEF Rows
<1>2. /\ v.bucket \in Buckets /\ ~bucket[v.bucket].locked
      /\ versions' = versions \ {v} /\ file' = file
  BY RowFacts DEF DropObject
<1>3. WellKept(versions')
  BY <1>2, SubsetKept DEF Rows
<1>4. FilesTyped'
  BY <1>2 DEF Rows, FilesTyped
<1>5. \A d \in Buckets : d # v.bucket =>
        {u \in versions' : u.bucket = d} = InBucket(d)
  BY <1>2 DEF InBucket
<1> QED
  BY <1>1, <1>2, <1>3, <1>4, <1>5, FewerKept

LEMMA ReplaceKept ==
    ASSUME Rows, NEW v \in versions, NEW k \in Keys, NEW f \in Files, ReplaceObject(v, k, f)
    PROVE  Rows' /\ LockedKept
<1> DEFINE n == NewVersion(v.bucket, k, f)
           rest == versions \ {v}
<1>1. /\ ~bucket[v.bucket].locked /\ Room(versions, v.bucket, k)
      /\ versions' = WithHeads(rest, {n})
      /\ bucket' = [bucket EXCEPT ![v.bucket].size =
                        bucket[v.bucket].size - SizeOf({v}) + SizeOf({n})]
      /\ file' = [file EXCEPT ![f] = "stored"]
  BY DEF ReplaceObject
<1>2. /\ n \in Version /\ n.head /\ n.bucket = v.bucket /\ n.key = k /\ n.file = f
      /\ IsLater(rest, v.bucket, k, n.stamp)
  <2>1. /\ Later(versions, v.bucket, k) \in 1 .. MaxStamp
        /\ IsLater(versions, v.bucket, k, Later(versions, v.bucket, k))
    BY <1>1, LaterIsLater
  <2>2. v.bucket \in Buckets
    BY RowFacts
  <2> QED
    BY <2>1, <2>2 DEF NewVersion, Version, IsLater, OfKey
<1>3. /\ FilesTyped' /\ file'[f] = "stored"
      /\ \A g \in Files : file[g] = "stored" => file'[g] = "stored"
  BY <1>1 DEF Rows, FilesTyped
<1>4. /\ BucketsTyped'
      /\ \A c \in Buckets : /\ bucket'[c].state = bucket[c].state
                            /\ bucket'[c].locked = bucket[c].locked
  BY <1>1, Resized, RowFacts DEF Rows
<1> HIDE DEF n
<1>5. WellKept(rest)
  BY SubsetKept DEF Rows
<1>6. WellKept(versions')
  <2>1. CanFollow(rest, {n})
    BY <1>2 DEF CanFollow
  <2> QED
    BY <1>1, <1>5, <2>1, WithHeadsKept
<1>7. ASSUME NEW x \in versions'
      PROVE  /\ bucket'[x.bucket].state \in {"live", "deleted"}
             /\ x.file # NoFile => file'[x.file] = "stored"
  <2>1. CASE x = n
    BY <1>2, <1>3, <1>4, <2>1, RowFacts
  <2>2. ASSUME NEW w \in versions, x = Stepped(w, {n})
        PROVE  /\ bucket'[x.bucket].state \in {"live", "deleted"}
               /\ x.file # NoFile => file'[x.file] = "stored"
    BY <1>3, <1>4, <2>2, SteppedRow, RowFacts
  <2> QED
    BY <1>1, <2>1, <2>2, WithHeadsRows
<1>8. Rows'
  BY <1>3, <1>4, <1>6, <1>7 DEF Rows, RowsInBuckets, LinkedIsStored
<1>9. ASSUME NEW d \in Buckets, d # v.bucket
      PROVE  {u \in versions' : u.bucket = d} = InBucket(d)
  <2>1. {u \in versions' : u.bucket = d} = {u \in rest : u.bucket = d}
    BY <1>1, <1>2, <1>5, <1>9, WithHeadsOthers DEF WellKept
  <2> QED
    BY <1>9, <2>1 DEF InBucket
<1>10. LockedKept
  BY <1>1, <1>9 DEF LockedKept
<1> QED
  BY <1>8, <1>10

\* A new bucket has no rows before, and one for a key after.
LEMMA SnapshotKept ==
    ASSUME Rows, NEW b \in Buckets, NEW c \in Buckets, NEW on \in BOOLEAN, Snapshot(b, c, on)
    PROVE  Rows' /\ LockedKept
<1>0. bucket[c].state = "none" /\ ~bucket[c].locked
  <2>1. bucket[c] = NoBucket
    BY DEF Snapshot
  <2> QED
    BY <2>1 DEF NoBucket
<1> DEFINE Copy(v) == [v EXCEPT !.bucket = c, !.stamp = 1]
           copies == {Copy(v) : v \in Visible(b)}
<1>1. /\ bucket[b].state = "live" /\ bucket[c] = NoBucket
      /\ versions' = versions \cup copies /\ file' = file
      /\ bucket' = [bucket EXCEPT ![c] =
                      [state |-> "live", locked |-> on \/ bucket[b].locked,
                       size |-> SizeOf(copies)]]
  BY DEF Snapshot, Live
<1>2. \A u \in versions : u.bucket # c
  <2>1. \A u \in versions : bucket[u.bucket].state # "none"
    BY RowFacts
  <2> QED
    BY <1>0, <2>1
<1>3. ASSUME NEW v \in Visible(b)
      PROVE  /\ v \in versions /\ v.bucket = b /\ v.head
             /\ Copy(v) \in Version /\ Copy(v).bucket = c /\ Copy(v).key = v.key
             /\ Copy(v).file = v.file /\ Copy(v).stamp = 1
  <2>1. v \in versions /\ v.bucket = b /\ v.head
    BY DEF Visible, InBucket
  <2>2. v \in Version
    BY <2>1, RowFacts
  <2>3. 1 \in 1 .. MaxStamp
    BY StoreAssumption
  <2> QED
    BY <2>1, <2>2, <2>3 DEF Version
<1> HIDE DEF Copy
<1>4. /\ BucketsTyped' /\ bucket'[c].state = "live"
      /\ \A d \in Buckets : d # c => bucket'[d] = bucket[d]
  <2> DEFINE row == [state |-> "live", size |-> SizeOf(copies),
                     locked |-> on \/ bucket[b].locked]
             S == {SizeOf(copies)}
  <2>1. row \in BucketRow(S) /\ row.state = "live"
    <3>1. (on \/ bucket[b].locked) \in BOOLEAN
      OBVIOUS
    <3> HIDE DEF copies
    <3> QED
      BY <3>1 DEF BucketRow
  <2>2. bucket' = [bucket EXCEPT ![c] = row]
    BY <1>1
  <2>3. BucketsTyped
    BY DEF Rows
  <2> HIDE DEF row, S
  <2> QED
    BY <2>1, <2>2, <2>3, Rewritten
<1>5. \A u, v \in Visible(b) : u.key = v.key => u = v
  <2> SUFFICES ASSUME NEW u \in Visible(b), NEW v \in Visible(b), u.key = v.key
               PROVE  u = v
    OBVIOUS
  <2> QED
    BY <1>3 DEF Rows, WellKept, SameKey
<1>6. WellKept(versions')
  <2>1. versions' \subseteq Version
    BY <1>1, <1>3 DEF Rows, WellKept
  <2>2. ASSUME NEW x \in versions', NEW y \in versions', SameKey(x, y)
        PROVE  /\ x.stamp = y.stamp => x = y
               /\ x.head /\ y.head => x = y
               /\ x.head => y.stamp <= x.stamp
    <3>1. CASE x \in versions /\ y \in versions
      BY <2>2, <3>1 DEF Rows, WellKept
    <3>2. CASE x \in copies /\ y \in copies
      <4>1. PICK u \in Visible(b), v \in Visible(b) : x = Copy(u) /\ y = Copy(v)
        BY <3>2
      <4>2. u = v
        BY <1>3, <1>5, <2>2, <4>1 DEF SameKey
      <4> QED
        BY <1>3, <4>1, <4>2
    <3>3. \A u \in copies : u.bucket = c
      BY <1>3
    <3> QED
      BY <1>1, <1>2, <2>2, <3>1, <3>2, <3>3 DEF SameKey
  <2> QED
    BY <2>1, <2>2 DEF WellKept
<1>7. ASSUME NEW x \in versions'
      PROVE  /\ bucket'[x.bucket].state \in {"live", "deleted"}
             /\ x.file # NoFile => file'[x.file] = "stored"
  <2>1. CASE x \in versions
    BY <1>1, <1>2, <1>4, <2>1, RowFacts
  <2>2. CASE x \in copies
    <3>1. PICK v \in Visible(b) : x = Copy(v)
      BY <2>2
    <3>2. x.bucket = c /\ x.file = v.file /\ v \in versions
      BY <1>3, <3>1
    <3> QED
      BY <1>1, <1>4, <3>2, RowFacts
  <2> QED
    BY <1>1, <2>1, <2>2
<1>8. Rows'
  <2>1. FilesTyped'
    BY <1>1 DEF Rows, FilesTyped
  <2> QED
    BY <1>4, <1>6, <1>7, <2>1 DEF Rows, RowsInBuckets, LinkedIsStored
<1>9. LockedKept
  <2>1. ASSUME NEW d \in Buckets, d # c
        PROVE  {u \in versions' : u.bucket = d} = InBucket(d)
    <3>1. \A u \in copies : u.bucket # d
      BY <1>3, <2>1
    <3> QED
      BY <1>1, <3>1 DEF InBucket
  <2> QED
    BY <1>0, <2>1 DEF LockedKept
<1> QED
  BY <1>8, <1>9
\* A bucket is created or marked as deleted; its rows are untouched.
LEMMA MarkKept ==
    ASSUME Rows, NEW b \in Buckets, CreateBucket(b) \/ DeleteBucket(b)
    PROVE  Rows' /\ LockedKept
<1>1. PICK st \in {"live", "deleted"} : bucket' = [bucket EXCEPT ![b].state = st]
  BY DEF CreateBucket, DeleteBucket
<1>2. versions' = versions /\ file' = file
  BY DEF CreateBucket, DeleteBucket
<1>3. BucketsTyped' /\ \A c \in Buckets : \/ bucket'[c] = bucket[c]
                                          \/ bucket'[c].state = st
  <2>1. PICK S : bucket \in [Buckets -> BucketRow(S)]
    BY DEF Rows, BucketsTyped
  <2>2. bucket' \in [Buckets -> BucketRow(S)]
    BY <1>1, <2>1 DEF BucketRow
  <2>3. \A c \in Buckets : bucket'[c] = bucket[c] \/ bucket'[c].state = st
    BY <1>1, <2>1 DEF BucketRow
  <2> QED
    BY <2>2, <2>3 DEF BucketsTyped
<1>4. Rows'
  BY <1>2, <1>3 DEF Rows, FilesTyped, WellKept, RowsInBuckets, LinkedIsStored, Version
<1>5. LockedKept
  BY <1>2 DEF LockedKept, InBucket
<1> QED
  BY <1>4, <1>5

\* The rows of a bucket go with it.
LEMMA RowsGone ==
    ASSUME Rows, NEW b \in Buckets, RemoveRows(b), FilesTyped',
           \A f \in Files : file[f] = "stored" =>
                file'[f] = "stored" \/ ~Linked(versions', f)
    PROVE  Rows' /\ LockedKept
<1>1. versions' = versions \ InBucket(b) /\ bucket' = [bucket EXCEPT ![b] = Gone]
  BY DEF RemoveRows
<1>2. /\ BucketsTyped' /\ bucket'[b] = Gone
      /\ \A c \in Buckets : c # b => bucket'[c] = bucket[c]
  <2>1. Gone \in BucketRow({0})
    BY DEF Gone, BucketRow
  <2> QED
    BY <1>1, <2>1, Rewritten DEF Rows
<1>3. WellKept(versions')
  BY <1>1, SubsetKept DEF Rows
<1>4. ASSUME NEW x \in versions'
      PROVE  /\ bucket'[x.bucket].state \in {"live", "deleted"}
             /\ x.file # NoFile => file'[x.file] = "stored"
  <2>1. x \in versions /\ x.bucket # b
    BY <1>1 DEF InBucket
  <2>2. Linked(versions', x.file)
    BY DEF Linked
  <2> QED
    BY <1>2, <2>1, <2>2, RowFacts
<1>5. Rows'
  BY <1>2, <1>3, <1>4 DEF Rows, RowsInBuckets, LinkedIsStored
<1>6. LockedKept
  BY <1>1, <1>2 DEF LockedKept, InBucket
<1> QED
  BY <1>5, <1>6

LEMMA GoneKept ==
    ASSUME Rows, NEW b \in Buckets, DropBucket(b) \/ CancelBucket(b)
    PROVE  Rows' /\ LockedKept
<1>1. CASE DropBucket(b)
  <2>1. RemoveRows(b) /\ file' = file
    BY <1>1 DEF DropBucket
  <2>2. FilesTyped'
    BY <2>1 DEF Rows, FilesTyped
  <2> QED
    BY <2>1, <2>2, RowsGone
<1>2. CASE CancelBucket(b)
  <2>1. RemoveRows(b) /\ Collect({v.file : v \in InBucket(b)})
    BY <1>2 DEF CancelBucket
  <2> DEFINE fs == {v.file : v \in InBucket(b)}
  <2>2. Collect(fs)
    BY <2>1
  <2> HIDE DEF fs
  <2>3. /\ FilesTyped'
        /\ \A f \in Files : file[f] = "stored" =>
              file'[f] = "stored" \/ ~Linked(versions', f)
    BY <2>2, CollectKept DEF Rows
  <2> QED
    BY <2>1, <2>3, RowsGone
<1> QED
  BY <1>1, <1>2

LEMMA InitRows == Init => Rows
<1> SUFFICES ASSUME Init PROVE Rows
  OBVIOUS
<1>1. bucket \in [Buckets -> BucketRow({0})]
  BY DEF Init, NoBucket, BucketRow
<1> QED
  BY <1>1 DEF Init, Rows, BucketsTyped, FilesTyped, WellKept, RowsInBuckets, LinkedIsStored

LEMMA StepRows == Rows /\ [Next]_storeVars => Rows' /\ LockedKept
<1> SUFFICES ASSUME Rows, [Next]_storeVars
             PROVE  Rows' /\ LockedKept
  OBVIOUS
<1>1. ASSUME NEW b \in Buckets,
             CreateBucket(b) \/ DeleteBucket(b) \/ DropBucket(b) \/ CancelBucket(b)
      PROVE  Rows' /\ LockedKept
  BY <1>1, MarkKept, GoneKept
<1>2. ASSUME NEW b \in Buckets, NEW k \in Keys,
             DeleteObject(b, k) \/ \E f \in Files : PutObject(b, k, f)
      PROVE  Rows' /\ LockedKept
  BY <1>2, DeleteKept, PutKept
<1>3. ASSUME NEW v \in versions,
             \/ RemoveVersion(v) \/ Restore(v) \/ DropObject(v)
             \/ \E k \in Keys, f \in Files : ReplaceObject(v, k, f)
      PROVE  Rows' /\ LockedKept
  BY <1>3, RemoveKept, RestoreKept, DropKept, ReplaceKept
<1>4. ASSUME NEW b \in Buckets, NEW c \in Buckets, NEW on \in BOOLEAN,
             Snapshot(b, c, on) \/ Sync(b, c, on)
      PROVE  Rows' /\ LockedKept
  BY <1>4, SnapshotKept, SyncKept
<1>5. ASSUME UNCHANGED storeVars
      PROVE  Rows' /\ LockedKept
  <2>1. bucket' = bucket /\ versions' = versions /\ file' = file
    BY <1>5 DEF storeVars
  <2>2. LockedKept
    BY <2>1 DEF LockedKept, InBucket
  <2>3. Rows'
    BY <2>1 DEF Rows, BucketsTyped, FilesTyped, WellKept, RowsInBuckets, LinkedIsStored,
                BucketRow, Version
  <2> QED
    BY <2>2, <2>3
<1> QED
  BY <1>1, <1>2, <1>3, <1>4, <1>5 DEF Next

-----------------------------------------------------------------------------
(* Theorems.                                                               *)

\* However requests that are committed one by one create, restore, replace,
\* copy and remove versions, the rows keep what later requests rely on.
THEOREM RowsAlways == Spec => []Rows
<1>1. Rows /\ [Next]_storeVars => Rows'
  BY StepRows
<1> QED
  BY InitRows, <1>1, PTL DEF Spec

\* The query for the head of a key never meets two rows (ObjectVersion.create
\* and ObjectVersion.get use one_or_none).
THEOREM OneHead == Spec => []AtMostOneHead
<1>1. Rows => AtMostOneHead
  BY DEF Rows, WellKept, SameKey, AtMostOneHead
<1> QED
  BY <1>1, RowsAlways, PTL

\* is_head is set on the newest version of a key, if on any.
THEOREM NewestHead == Spec => []HeadIsNewest
<1>1. Rows => HeadIsNewest
  BY DEF Rows, WellKept, SameKey, HeadIsNewest
<1> QED
  BY <1>1, RowsAlways, PTL

\* delete_file_instance never takes a file that a version still names.
THEOREM FilesStay == Spec => []LinkedIsStored
<1>1. Rows => LinkedIsStored
  BY DEF Rows
<1> QED
  BY <1>1, RowsAlways, PTL

\* Removing a bucket leaves none of its versions behind.
THEOREM BucketsStay == Spec => []RowsInBuckets
<1>1. Rows => RowsInBuckets
  BY DEF Rows
<1> QED
  BY <1>1, RowsAlways, PTL

\* No request changes the versions of a locked bucket, except by removing the
\* bucket.
THEOREM LockedStays == Spec => LockedUnchanged
<1> DEFINE A == \A b \in Buckets : bucket[b].locked =>
                {v \in versions' : v.bucket = b} = InBucket(b) \/ bucket'[b] = Gone
<1>1. Rows /\ [Next]_storeVars => [A]_storeVars
  BY StepRows DEF LockedKept
<1> QED
  BY <1>1, RowsAlways, PTL DEF Spec, LockedUnchanged

-----------------------------------------------------------------------------
(* Synchronization.                                                        *)

LEMMA ContentShown ==
    ASSUME NEW b, NEW k, NEW f
    PROVE  <<k, f>> \in Content(versions, b) <=> f \in Shown(b, k)
BY DEF Content, Shown, Visible, InBucket

LEMMA OneShown ==
    ASSUME Rows, NEW b, NEW k, NEW f \in Shown(b, k), NEW g \in Shown(b, k)
    PROVE  f = g /\ k \in Keys /\ f \in Files
<1>1. PICK u \in versions : u.bucket = b /\ u.key = k /\ u.head /\ u.file = f /\ f # NoFile
  BY DEF Shown, Visible, InBucket
<1>2. PICK v \in versions : v.bucket = b /\ v.key = k /\ v.head /\ v.file = g
  BY DEF Shown, Visible, InBucket
<1>3. u = v
  BY <1>1, <1>2 DEF Rows, WellKept, SameKey
<1> QED
  BY <1>1, <1>2, <1>3, RowFacts

\* The destination shows f for key k when the source does: where it shows
\* something else, or the source shows nothing, a new row has taken the head.
LEMMA SyncShows ==
    ASSUME Rows, NEW b \in Buckets, NEW c \in Buckets, Sync(b, c, TRUE), NEW k, NEW f
    PROVE  <<k, f>> \in Content(versions', c) <=> f \in Shown(b, k)
<1> DEFINE pairs == Replacements(b, c, TRUE)
           new == NewRows(c, pairs)
<1>1. pairs \subseteq Keys \X (Files \cup {NoFile}) /\ OnePerKey(pairs) /\ Create(c, pairs)
  BY SyncPairs DEF Sync
<1>2. versions' = {Stepped(v, new) : v \in versions} \cup new
  <2> HIDE DEF pairs
  <2> QED
    BY <1>1, CreateFollows, WithHeadsRows
<1>3. \A h, g : <<h, g>> \in pairs <=>
            /\ <<h, g>> \in Keys \X (Files \cup {NoFile})
            /\ \/ g \in Shown(b, h) \ Shown(c, h)
               \/ g = NoFile /\ Shown(b, h) = {} /\ Shown(c, h) # {}
  BY DEF Replacements
<1>4. /\ \A h, g : <<h, g>> \in pairs => \E n \in new : /\ n.bucket = c /\ n.key = h
                                                        /\ n.file = g /\ n.head
      /\ \A n \in new : n.bucket = c /\ n.head /\ <<n.key, n.file>> \in pairs
  <2>1. \A p \in pairs : p = <<p[1], p[2]>>
    <3> HIDE DEF pairs
    <3> QED
      BY <1>1
  <2> HIDE DEF pairs
  <2>2. \A h, g : LET n == NewVersion(c, h, g)
                 IN n.bucket = c /\ n.key = h /\ n.file = g /\ n.head
    BY DEF NewVersion
  <2>3. \A h, g : <<h, g>> \in pairs => NewVersion(c, h, g) \in new
    BY DEF NewRows
  <2>4. ASSUME NEW n \in new
        PROVE  n.bucket = c /\ n.head /\ <<n.key, n.file>> \in pairs
    <3>1. PICK p \in pairs : n = NewVersion(c, p[1], p[2])
      BY DEF NewRows
    <3> QED
      BY <2>1, <2>2, <3>1
  <2> HIDE DEF new
  <2> QED
    BY <2>2, <2>3, <2>4
<1> HIDE DEF pairs, new
<1>5. \A v \in versions :
            /\ Stepped(v, new).bucket = v.bucket /\ Stepped(v, new).key = v.key
            /\ Stepped(v, new).file = v.file
            /\ Stepped(v, new).head <=> v.head /\ OfKey(new, v.bucket, v.key) = {}
  BY DEF Stepped, Rows, WellKept, Version
<1>6. ASSUME <<k, f>> \in Content(versions', c)
      PROVE  f \in Shown(b, k)
  <2>1. PICK x \in versions' : x.bucket = c /\ x.head /\ x.file # NoFile /\ x.key = k /\ x.file = f
    BY <1>6 DEF Content
  <2>2. CASE x \in new
    BY <1>3, <1>4, <2>1, <2>2
  <2>3. CASE x \notin new
    <3>1. PICK v \in versions : x = Stepped(v, new)
      BY <1>2, <2>3
    <3>2. /\ v.bucket = c /\ v.key = k /\ v.file = f /\ v.head /\ f # NoFile
          /\ OfKey(new, c, k) = {}
      BY <1>5, <2>1, <3>1
    <3>3. f \in Shown(c, k)
      BY <3>2 DEF Shown, Visible, InBucket
    <3>4. k \in Keys /\ \A g : <<k, g>> \notin pairs
      BY <1>4, <3>2, <3>3, OneShown DEF OfKey
    <3>5. PICK g \in Shown(b, k) : TRUE
      BY <1>3, <3>3, <3>4
    <3>6. g \in Shown(c, k)
      BY <1>3, <3>4, <3>5, OneShown
    <3> QED
      BY <3>3, <3>5, <3>6, OneShown
  <2> QED
    BY <2>2, <2>3
<1>7. ASSUME f \in Shown(b, k)
      PROVE  <<k, f>> \in Content(versions', c)
  <2>1. k \in Keys /\ f \in Files /\ f # NoFile
    BY <1>7, OneShown, StoreAssumption
  <2>2. CASE f \notin Shown(c, k)
    <3>1. <<k, f>> \in pairs
      BY <1>3, <1>7, <2>1, <2>2
    <3> QED
      BY <1>2, <1>4, <2>1, <3>1 DEF Content
  <2>3. CASE f \in Shown(c, k)
    <3>1. PICK v \in versions : v.bucket = c /\ v.key = k /\ v.head /\ v.file = f
      BY <2>3 DEF Shown, Visible, InBucket
    <3>2. \A g : <<k, g>> \notin pairs
      BY <1>3, <1>7, <2>3, OneShown
    <3>3. OfKey(new, c, k) = {}
      BY <1>4, <3>2 DEF OfKey
    <3>4. Stepped(v, new) \in versions' /\ Stepped(v, new).head
      BY <1>2, <1>5, <3>1, <3>3
    <3> QED
      BY <1>5, <2>1, <3>1, <3>4 DEF Content
  <2> QED
    BY <2>2, <2>3
<1> QED
  BY <1>6, <1>7

\* Bucket.sync with delete_extras makes the destination show what the source
\* shows.
THEOREM MirrorsSource == Spec => SyncMirrors
<1> DEFINE A == \A b, c \in Buckets :
                    Sync(b, c, TRUE) => Content(versions', c) = Content(versions, b)
<1>1. Rows => A
  <2> SUFFICES ASSUME Rows, NEW b \in Buckets, NEW c \in Buckets, Sync(b, c, TRUE)
               PROVE  Content(versions', c) = Content(versions, b)
    OBVIOUS
  <2>1. \A k, f : <<k, f>> \in Content(versions', c) <=> <<k, f>> \in Content(versions, b)
    BY SyncShows, ContentShown
  <2>2. \A V, d : \A p \in Content(V, d) : \E k, f : p = <<k, f>>
    BY DEF Content
  <2> QED
    BY <2>1, <2>2
<1> QED
  BY <1>1, RowsAlways, PTL DEF Spec, SyncMirrors

-----------------------------------------------------------------------------
(* Sizes. A set of rows weighs what the files it links weigh.              *)

Weight == [v \in Version |-> FileSize[v.file]]
Linking(V) == {v \in V : v.file # NoFile}

LEMMA SizeIs ==
    ASSUME NEW V, V \subseteq Version
    PROVE  SizeOf(V) = SumOver(Weight, Linking(V))
<1> DEFINE S == Linking(V)
           FileRecurs(g) ==
               g = [s \in SUBSET S |->
                       IF s = {} THEN 0
                       ELSE FileSize[(CHOOSE x \in s : TRUE).file]
                            + g[s \ {CHOOSE x \in s : TRUE}]]
<1>1. SizeOf(V) = (CHOOSE g : FileRecurs(g))[S]
  BY Zenon DEF SizeOf, MapThenSumSet, MapThenFoldSet, Linking
<1>2. \A s \in SUBSET S : s # {} => Weight[Some(s)] = FileSize[Some(s).file]
  BY SomeIn DEF Weight, Linking
<1> HIDE DEF S
<1>3. ASSUME NEW g
      PROVE  FileRecurs(g) <=> Computes(Weight, S, g)
  BY <1>2 DEF Computes, Recurs, Some
<1>4. (CHOOSE g : FileRecurs(g)) = (CHOOSE g : Computes(Weight, S, g))
  <2> HIDE DEF FileRecurs
  <2> QED
    BY <1>3, Zenon
<1> HIDE DEF FileRecurs
<1>5. SumOver(Weight, S) = (CHOOSE g : Computes(Weight, S, g))[S]
  BY SumIs
<1> QED
  BY <1>1, <1>4, <1>5 DEF S

LEMMA WeightInt ==
    ASSUME NEW V, V \subseteq Version, IsFiniteSet(V)
    PROVE  /\ IsFiniteSet(Linking(V))
           /\ \A v \in Linking(V) : /\ v \in Version /\ Weight[v] = FileSize[v.file]
                                    /\ Weight[v] \in Int
<1>1. IsFiniteSet(Linking(V))
  <2>1. Linking(V) \in SUBSET V
    BY DEF Linking
  <2> QED
    BY <2>1, FS_Subset
<1>2. ASSUME NEW v \in Linking(V)
      PROVE  v \in Version /\ Weight[v] = FileSize[v.file] /\ Weight[v] \in Int
  <2>1. v \in Version /\ v.file \in Files
    BY DEF Linking, Version
  <2>2. FileSize[v.file] \in Nat
    BY <2>1, StoreAssumption
  <2> QED
    BY <2>1, <2>2 DEF Weight
<1> QED
  BY <1>1, <1>2

LEMMA SizeEmpty == SizeOf({}) = 0
<1>1. Linking({}) = {}
  BY DEF Linking
<1>2. SizeOf({}) = SumOver(Weight, Linking({}))
  BY SizeIs
<1> QED
  BY <1>1, <1>2, SumEmpty

LEMMA SizeInt ==
    ASSUME NEW V, V \subseteq Version, IsFiniteSet(V)
    PROVE  SizeOf(V) \in Int
BY SizeIs, WeightInt, SumInt

LEMMA SizeUnion ==
    ASSUME NEW V, V \subseteq Version, IsFiniteSet(V),
           NEW W, W \subseteq Version, IsFiniteSet(W), V \cap W = {}
    PROVE  SizeOf(V \cup W) = SizeOf(V) + SizeOf(W)
<1>1. V \cup W \subseteq Version
  OBVIOUS
<1>2. Linking(V \cup W) = Linking(V) \cup Linking(W) /\ Linking(V) \cap Linking(W) = {}
  BY DEF Linking
<1>3. \A x \in Linking(V) \cup Linking(W) : Weight[x] \in Int
  BY WeightInt
<1>4. SumOver(Weight, Linking(V) \cup Linking(W)) =
        SumOver(Weight, Linking(V)) + SumOver(Weight, Linking(W))
  BY <1>2, <1>3, WeightInt, SumUnion
<1>5. SizeOf(V \cup W) = SumOver(Weight, Linking(V \cup W))
  BY <1>1, SizeIs
<1> QED
  BY <1>2, <1>4, <1>5, SizeIs, Zenon

LEMMA SizeWithout ==
    ASSUME NEW V, V \subseteq Version, IsFiniteSet(V), NEW v \in V
    PROVE  SizeOf(V \ {v}) = SizeOf(V) - SizeOf({v})
<1> DEFINE W == V \ {v}
<1>1. W \subseteq Version /\ IsFiniteSet(W) /\ W \cap {v} = {} /\ V = W \cup {v}
  BY FS_RemoveElement
<1>2. {v} \subseteq Version /\ IsFiniteSet({v})
  BY FS_Singleton
<1> HIDE DEF W
<1>3. SizeOf(W \cup {v}) = SizeOf(W) + SizeOf({v})
  BY <1>1, <1>2, SizeUnion
<1>4. SizeOf(W) \in Int /\ SizeOf({v}) \in Int
  BY <1>1, <1>2, SizeInt
<1>5. SizeOf(V) = SizeOf(W) + SizeOf({v})
  BY <1>1, <1>3, Zenon
<1> QED
  BY <1>4, <1>5 DEF W

LEMMA SizeOne ==
    ASSUME NEW v \in Version
    PROVE  SizeOf({v}) = IF v.file = NoFile THEN 0 ELSE FileSize[v.file]
<1>1. {v} \subseteq Version /\ IsFiniteSet({v})
  BY FS_Singleton
<1>2. SizeOf({v}) = SumOver(Weight, Linking({v}))
  BY <1>1, SizeIs
<1>3. CASE v.file = NoFile
  <2>1. Linking({v}) = {}
    BY <1>3 DEF Linking
  <2> QED
    BY <1>2, <1>3, <2>1, SumEmpty
<1>4. CASE v.file # NoFile
  <2>1. Linking({v}) = {v} /\ {v} \ {v} = {}
    BY <1>4 DEF Linking
  <2>2. Weight[v] = FileSize[v.file] /\ Weight[v] \in Int
    BY <1>1, <2>1, WeightInt
  <2>3. SumOver(Weight, {v}) = Weight[v] + SumOver(Weight, {v} \ {v})
    BY <1>1, <2>2, SumWithout
  <2>4. SumOver(Weight, {v}) = Weight[v]
    BY <2>1, <2>2, <2>3, SumEmpty
  <2> QED
    BY <1>2, <1>4, <2>1, <2>2, <2>4
<1> QED
  BY <1>3, <1>4

\* Rows that change and keep their keys, stamps and files weigh the same.
LEMMA SizeRenamed ==
    ASSUME NEW V, IsFiniteSet(V), WellKept(V), NEW h,
           \A v \in V : /\ h[v] \in Version /\ SameKey(h[v], v)
                        /\ h[v].stamp = v.stamp /\ h[v].file = v.file
    PROVE  IsFiniteSet(Image(h, V)) /\ SizeOf(Image(h, V)) = SizeOf(V)
<1> DEFINE W == Image(h, V)
<1>1. V \subseteq Version /\ W \subseteq Version
  BY DEF WellKept, Image
<1>2. \A u, v \in V : h[u] = h[v] => u = v
  BY DEF WellKept, SameKey
<1>3. IsFiniteSet(W)
  <2>1. [v \in V |-> h[v]] \in Surjection(V, W)
    BY DEF Surjection, Image
  <2> HIDE DEF W
  <2> QED
    BY <2>1, FS_Surjection
<1>4. Linking(W) = Image(h, Linking(V))
  BY DEF Linking, Image
<1>5. \A v \in Linking(V) : Weight[v] \in Int /\ Weight[h[v]] = Weight[v]
  <2> SUFFICES ASSUME NEW v \in Linking(V)
               PROVE  Weight[v] \in Int /\ Weight[h[v]] = Weight[v]
    OBVIOUS
  <2>1. v \in V /\ h[v] \in Linking(W)
    BY <1>4 DEF Linking, Image
  <2> HIDE DEF W
  <2> QED
    BY <1>1, <1>3, <2>1, WeightInt
<1>6. \A u, v \in Linking(V) : h[u] = h[v] => u = v
  BY <1>2 DEF Linking
<1> HIDE DEF W
<1>7. SumOver(Weight, Image(h, Linking(V))) = SumOver(Weight, Linking(V))
  <2> DEFINE L == Linking(V)
  <2>1. IsFiniteSet(L)
    BY <1>1, WeightInt
  <2>2. \A v \in L : Weight[v] \in Int /\ Weight[h[v]] = Weight[v]
    BY <1>5
  <2>3. \A u, v \in L : h[u] = h[v] => u = v
    BY <1>6
  <2> HIDE DEF L
  <2>4. SumOver(Weight, Image(h, L)) = SumOver(Weight, L)
    BY <2>1, <2>2, <2>3, SumRenamed
  <2> QED
    BY <2>4 DEF L
<1>8. SizeOf(W) = SizeOf(V)
  BY <1>1, <1>4, <1>7, SizeIs
<1> QED
  BY <1>3, <1>8 DEF W

-----------------------------------------------------------------------------
(* The size of a bucket is that of its rows.                               *)

Sized == Rows /\ IsFiniteSet(versions) /\ SizeIsSum

\* The rows of one bucket among V.
Of(V, b) == {v \in V : v.bucket = b}

LEMMA OfFinite ==
    ASSUME NEW V, IsFiniteSet(V), NEW b
    PROVE  IsFiniteSet(Of(V, b)) /\ Of(V, b) \subseteq V
<1>1. Of(V, b) \in SUBSET V
  BY DEF Of
<1> QED
  BY <1>1, FS_Subset

\* What ObjectVersion.create adds to a bucket.
LEMMA WithHeadsSize ==
    ASSUME NEW V, IsFiniteSet(V), WellKept(V), NEW new, IsFiniteSet(new), CanFollow(V, new),
           NEW b, \A n \in new : n.bucket = b
    PROVE  /\ IsFiniteSet(WithHeads(V, new))
           /\ SizeOf(Of(WithHeads(V, new), b)) = SizeOf(Of(V, b)) + SizeOf(new)
<1> DEFINE h == [v \in V |-> Stepped(v, new)]
           A == Of(V, b)
           stepped == Image(h, A)
<1>1. \A v \in V : /\ h[v] \in Version /\ SameKey(h[v], v)
                   /\ h[v].stamp = v.stamp /\ h[v].file = v.file
  BY SteppedRow DEF WellKept, SameKey
<1>2. Image(h, V) = {Stepped(v, new) : v \in V}
  BY DEF Image
<1>3. Of(WithHeads(V, new), b) = stepped \cup new
  <2>1. \A v \in V : h[v].bucket = v.bucket
    BY <1>1 DEF SameKey
  <2>2. WithHeads(V, new) = Image(h, V) \cup new
    BY <1>2, WithHeadsRows
  <2> HIDE DEF h
  <2> QED
    BY <2>1, <2>2 DEF Of, Image
<1>4. stepped \cap new = {}
  <2> SUFFICES ASSUME NEW v \in A, h[v] \in new
               PROVE  FALSE
    BY DEF Image
  <2>1. v \in V
    BY DEF Of
  <2>2. v.stamp < h[v].stamp
    BY <1>1, <2>1 DEF CanFollow, IsLater, OfKey, SameKey
  <2>3. h[v].stamp = v.stamp /\ v.stamp \in Int
    BY <1>1, <2>1, StoreAssumption DEF WellKept, Version
  <2> QED
    BY <2>2, <2>3
<1>5. IsFiniteSet(A) /\ WellKept(A)
  BY OfFinite, SubsetKept
<1>6. A \subseteq V
  BY OfFinite
<1> HIDE DEF h, A
<1>7. IsFiniteSet(stepped) /\ SizeOf(stepped) = SizeOf(A)
  BY <1>1, <1>5, <1>6, SizeRenamed
<1>8. IsFiniteSet(WithHeads(V, new))
  <2> DEFINE all == Image(h, V)
  <2>1. IsFiniteSet(all)
    BY <1>1, SizeRenamed
  <2>2. WithHeads(V, new) = all \cup new
    BY <1>2, WithHeadsRows, Zenon
  <2> HIDE DEF all
  <2> QED
    BY <2>1, <2>2, FS_Union
<1>9. stepped \subseteq Version /\ new \subseteq Version
  BY <1>1, <1>6 DEF CanFollow, Image
<1> HIDE DEF stepped
<1>10. SizeOf(stepped \cup new) = SizeOf(stepped) + SizeOf(new)
  BY <1>4, <1>7, <1>9, SizeUnion
<1>11. SizeOf(Of(WithHeads(V, new), b)) = SizeOf(A) + SizeOf(new)
  BY <1>3, <1>7, <1>10, Zenon
<1> QED
  BY <1>8, <1>11 DEF A

\* The size of one bucket is written, with the rows of no other changed.
LEMMA SizedAt ==
    ASSUME Sized, NEW b \in Buckets, NEW STATE x, bucket' = [bucket EXCEPT ![b].size = x],
           \A d : d # b => {v \in versions' : v.bucket = d} = InBucket(d),
           Rows', IsFiniteSet(versions)', x = SizeOf(Of(versions', b))
    PROVE  Sized'
<1>1. /\ bucket'[b].size = x
      /\ \A d \in Buckets : d # b => bucket'[d].size = bucket[d].size
  BY DEF Sized, Rows, BucketsTyped, BucketRow
<1>2. ASSUME NEW d \in Buckets
      PROVE  bucket'[d].size = SizeOf(InBucket(d)')
  <2>1. CASE d = b
    BY <1>1, <2>1 DEF Of, InBucket
  <2>2. CASE d # b
    <3>1. InBucket(d)' = InBucket(d)
      BY <2>2 DEF InBucket
    <3>2. bucket'[d].size = SizeOf(InBucket(d))
      BY <1>1, <2>2 DEF Sized, SizeIsSum
    <3> QED
      BY <3>1, <3>2, Zenon
  <2> QED
    BY <2>1, <2>2
<1>3. SizeIsSum'
  BY <1>2 DEF SizeIsSum
<1> QED
  BY <1>3 DEF Sized

LEMMA SizedFacts ==
    ASSUME Sized, NEW b \in Buckets
    PROVE  /\ Of(versions, b) = InBucket(b)
           /\ bucket[b].size = SizeOf(Of(versions, b))
           /\ bucket[b].size \in Int
<1>1. Of(versions, b) = InBucket(b)
  BY DEF Of, InBucket
<1>2. bucket[b].size = SizeOf(Of(versions, b))
  BY <1>1 DEF Sized, SizeIsSum
<1>3. SizeOf(Of(versions, b)) \in Int
  <2>1. Of(versions, b) \subseteq Version /\ IsFiniteSet(Of(versions, b))
    BY OfFinite DEF Sized, Rows, WellKept
  <2> QED
    BY <2>1, SizeInt
<1> QED
  BY <1>1, <1>2, <1>3

LEMMA CreateSized ==
    ASSUME Sized, NEW b \in Buckets, NEW STATE pairs, pairs \subseteq Keys \X (Files \cup {NoFile}),
           OnePerKey(pairs), IsFiniteSet(pairs), Create(b, pairs), Rows'
    PROVE  Sized'
<1> DEFINE new == NewRows(b, pairs)
           x == bucket[b].size + SizeOf(new)
<1>1. Rows /\ WellKept(versions) /\ IsFiniteSet(versions)
  BY DEF Sized, Rows
<1>2. /\ versions' = WithHeads(versions, new)
      /\ bucket' = [bucket EXCEPT ![b].size = x]
      /\ CanFollow(versions, new)
      /\ \A n \in new : n.bucket = b
  BY CreateFollows
<1>3. IsFiniteSet(new)
  <2> DEFINE h == [p \in pairs |-> NewVersion(b, p[1], p[2])]
  <2>1. h \in Surjection(pairs, new)
    BY DEF NewRows, Surjection
  <2> HIDE DEF h, new
  <2> QED
    BY <2>1, FS_Surjection
<1> HIDE DEF new
<1>4. /\ IsFiniteSet(WithHeads(versions, new))
      /\ SizeOf(Of(WithHeads(versions, new), b)) = SizeOf(Of(versions, b)) + SizeOf(new)
  BY <1>1, <1>2, <1>3, WithHeadsSize
<1>5. x = SizeOf(Of(versions', b)) /\ IsFiniteSet(versions')
  BY <1>2, <1>4, SizedFacts
<1>6. \A d : d # b => {v \in versions' : v.bucket = d} = InBucket(d)
  BY <1>1, CreateRows
<1> HIDE DEF x
<1> QED
  BY <1>2, <1>5, <1>6, SizedAt

LEMMA PairSized ==
    ASSUME Sized, NEW b \in Buckets, NEW k \in Keys, NEW f \in Files \cup {NoFile},
           Create(b, {<<k, f>>}), Rows'
    PROVE  Sized'
<1>1. {<<k, f>>} \subseteq Keys \X (Files \cup {NoFile}) /\ OnePerKey({<<k, f>>})
  BY DEF OnePerKey
<1>2. IsFiniteSet({<<k, f>>})
  BY FS_Singleton
<1> QED
  BY <1>1, <1>2, CreateSized

LEMMA SyncSized ==
    ASSUME Sized, NEW b \in Buckets, NEW c \in Buckets, NEW on \in BOOLEAN, Sync(b, c, on), Rows'
    PROVE  Sized'
<1> DEFINE pairs == Replacements(b, c, on)
           h == [v \in versions |-> <<v.key, v.file>>]
           m == [v \in versions |-> <<v.key, NoFile>>]
<1>1. Rows
  BY DEF Sized
<1>2. Create(c, pairs)
  BY DEF Sync
<1>3. pairs \subseteq Keys \X (Files \cup {NoFile}) /\ OnePerKey(pairs)
  BY <1>1, SyncPairs
<1>4. IsFiniteSet(pairs)
  <2>1. IsFiniteSet(Image(h, versions)) /\ IsFiniteSet(Image(m, versions))
    <3>1. h \in Surjection(versions, Image(h, versions))
      BY DEF Surjection, Image
    <3>2. m \in Surjection(versions, Image(m, versions))
      BY DEF Surjection, Image
    <3> HIDE DEF h, m
    <3> QED
      BY <3>1, <3>2, FS_Surjection DEF Sized
  <2>2. ASSUME NEW p \in pairs
        PROVE  p \in Image(h, versions) \cup Image(m, versions)
    <3>0. p = <<p[1], p[2]>>
      BY <1>3
    <3>1. CASE p[2] \in Shown(b, p[1])
      <4>1. PICK v \in versions : v.key = p[1] /\ v.file = p[2]
        BY <3>1 DEF Shown, Visible, InBucket
      <4>2. p = h[v]
        BY <3>0, <4>1
      <4> QED
        BY <4>2 DEF Image
    <3>2. CASE p[2] = NoFile /\ Shown(c, p[1]) # {}
      <4>1. PICK v \in versions : v.key = p[1]
        BY <3>2 DEF Shown, Visible, InBucket
      <4>2. p = m[v]
        BY <3>0, <3>2, <4>1
      <4> QED
        BY <4>2 DEF Image
    <3> QED
      BY <3>1, <3>2 DEF Replacements
  <2> HIDE DEF pairs, h, m
  <2>3. IsFiniteSet(Image(h, versions) \cup Image(m, versions))
    BY <2>1, FS_Union
  <2>4. pairs \in SUBSET (Image(h, versions) \cup Image(m, versions))
    BY <2>2
  <2> QED
    BY <2>3, <2>4, FS_Subset
<1> HIDE DEF pairs
<1> QED
  BY <1>2, <1>3, <1>4, CreateSized

\* The size goes down by a row that goes.
LEMMA DropSized ==
    ASSUME Sized, NEW v \in versions, DropObject(v), Rows'
    PROVE  Sized'
<1> DEFINE b == v.bucket
           x == bucket[b].size - SizeOf({v})
<1>1. /\ versions' = versions \ {v}
      /\ bucket' = [bucket EXCEPT ![b].size = x]
  BY DEF DropObject
<1>2. Rows /\ IsFiniteSet(versions) /\ b \in Buckets /\ versions \subseteq Version
  BY RowFacts DEF Sized, Rows, WellKept
<1>3. /\ v \in Of(versions, b) /\ Of(versions', b) = Of(versions, b) \ {v}
      /\ Of(versions, b) \subseteq Version
  BY <1>1, <1>2 DEF Of
<1>4. IsFiniteSet(Of(versions, b)) /\ IsFiniteSet(versions')
  BY <1>1, <1>2, OfFinite, FS_RemoveElement
<1>5. \A d : d # b => {u \in versions' : u.bucket = d} = InBucket(d)
  BY <1>1 DEF InBucket
<1> HIDE DEF b
<1>6. x = SizeOf(Of(versions', b))
  BY <1>2, <1>3, <1>4, SizeWithout, SizedFacts
<1> HIDE DEF x
<1> QED
  BY <1>1, <1>2, <1>4, <1>5, <1>6, SizedAt

\* The heir of a removed head weighs what it did.
LEMMA RemoveSized ==
    ASSUME Sized, NEW v \in versions, RemoveVersion(v), Rows'
    PROVE  Sized'
<1> DEFINE b == v.bucket
           x == bucket[b].size - SizeOf({v})
           rest == versions \ {v}
           heirs == IF v.head THEN Newest(OfKey(rest, v.bucket, v.key)) ELSE {}
           h == [u \in rest |-> IF u \in heirs THEN [u EXCEPT !.head = TRUE] ELSE u]
           A == Of(rest, b)
<1>1. /\ versions' = (rest \ heirs) \cup {[u EXCEPT !.head = TRUE] : u \in heirs}
      /\ bucket' = [bucket EXCEPT ![b].size = x]
  BY DEF RemoveVersion
<1>2. /\ Rows /\ IsFiniteSet(versions) /\ WellKept(versions)
      /\ b \in Buckets /\ versions \subseteq Version
  BY RowFacts DEF Sized, Rows, WellKept
<1>3. \A u \in heirs : u \in rest /\ u.bucket = b
  BY DEF Newest, OfKey
<1> HIDE DEF heirs, b
<1>4. versions' = Image(h, rest)
  <2>1. ASSUME NEW u \in rest PROVE h[u] \in versions'
    BY <1>1
  <2>2. ASSUME NEW y \in versions' PROVE \E u \in rest : y = h[u]
    BY <1>1, <1>3
  <2> HIDE DEF h
  <2> QED
    BY <2>1, <2>2 DEF Image
<1>5. ASSUME NEW u \in rest
      PROVE  /\ h[u] \in Version /\ SameKey(h[u], u)
             /\ h[u].stamp = u.stamp /\ h[u].file = u.file
  <2>1. u \in Version
    BY <1>2
  <2> QED
    BY <2>1 DEF Version, SameKey
<1>6. \A u \in rest : u.bucket # b => h[u] = u
  BY <1>3
<1> HIDE DEF h
<1>7. IsFiniteSet(rest) /\ WellKept(rest) /\ WellKept(A) /\ IsFiniteSet(A) /\ A \subseteq rest
  BY <1>2, FS_RemoveElement, SubsetKept, OfFinite
<1>8. Of(versions', b) = Image(h, A)
  BY <1>4, <1>5 DEF Of, Image, SameKey
<1>9. \A d : d # b => {u \in versions' : u.bucket = d} = InBucket(d)
  <2> SUFFICES ASSUME NEW d, d # b
               PROVE  {u \in versions' : u.bucket = d} = InBucket(d)
    OBVIOUS
  <2>1. v.bucket = b
    BY DEF b
  <2> QED
    BY <1>4, <1>5, <1>6, <2>1 DEF Image, InBucket, SameKey
<1>10. IsFiniteSet(versions')
  BY <1>4, <1>5, <1>7, SizeRenamed
<1>11. SizeOf(Of(versions', b)) = SizeOf(A)
  <2> HIDE DEF A
  <2> QED
    BY <1>5, <1>7, <1>8, SizeRenamed
<1>12. SizeOf(A) = SizeOf(Of(versions, b)) - SizeOf({v})
  <2>1. /\ v \in Of(versions, b) /\ A = Of(versions, b) \ {v}
        /\ Of(versions, b) \subseteq Version
    BY <1>2 DEF Of, b
  <2>2. IsFiniteSet(Of(versions, b))
    BY <1>2, OfFinite
  <2> HIDE DEF A
  <2> QED
    BY <2>1, <2>2, SizeWithout
<1>13. x = SizeOf(Of(versions', b))
  BY <1>2, <1>11, <1>12, SizedFacts
<1> HIDE DEF x
<1> QED
  BY <1>1, <1>2, <1>9, <1>10, <1>13, SizedAt

LEMMA ReplaceSized ==
    ASSUME Sized, NEW v \in versions, NEW k \in Keys, NEW f \in Files, ReplaceObject(v, k, f),
           Rows'
    PROVE  Sized'
<1> DEFINE b == v.bucket
           n == NewVersion(b, k, f)
           rest == versions \ {v}
           x == bucket[b].size - SizeOf({v}) + SizeOf({n})
<1>1. /\ Room(versions, b, k) /\ versions' = WithHeads(rest, {n})
      /\ bucket' = [bucket EXCEPT ![b].size = x]
  BY DEF ReplaceObject
<1>2. /\ Rows /\ IsFiniteSet(versions) /\ WellKept(versions)
      /\ b \in Buckets /\ versions \subseteq Version
  BY RowFacts DEF Sized, Rows, WellKept
<1>3. n \in Version /\ n.head /\ n.bucket = b /\ IsLater(rest, b, n.key, n.stamp)
  <2>1. /\ Later(versions, b, k) \in 1 .. MaxStamp
        /\ IsLater(versions, b, k, Later(versions, b, k))
    BY <1>1, LaterIsLater
  <2> QED
    BY <1>2, <2>1 DEF NewVersion, Version, IsLater, OfKey
<1> HIDE DEF n
<1>4. IsFiniteSet(rest) /\ WellKept(rest)
  BY <1>2, FS_RemoveElement, SubsetKept
<1>5. CanFollow(rest, {n}) /\ IsFiniteSet({n}) /\ \A m \in {n} : m.bucket = b
  BY <1>3, FS_Singleton DEF CanFollow
<1> HIDE DEF rest, b
<1>6. /\ IsFiniteSet(WithHeads(rest, {n}))
      /\ SizeOf(Of(WithHeads(rest, {n}), b)) = SizeOf(Of(rest, b)) + SizeOf({n})
  BY <1>4, <1>5, WithHeadsSize
<1>7. SizeOf(Of(rest, b)) = SizeOf(Of(versions, b)) - SizeOf({v})
  <2> DEFINE A == Of(rest, b)
  <2>1. /\ v \in Of(versions, b) /\ A = Of(versions, b) \ {v}
        /\ Of(versions, b) \subseteq Version
    BY <1>2 DEF Of, b, rest
  <2>2. IsFiniteSet(Of(versions, b))
    BY <1>2, OfFinite
  <2> HIDE DEF A
  <2>3. SizeOf(A) = SizeOf(Of(versions, b)) - SizeOf({v})
    BY <2>1, <2>2, SizeWithout
  <2> QED
    BY <2>3 DEF A
<1>8. x = SizeOf(Of(versions', b)) /\ IsFiniteSet(versions')
  BY <1>1, <1>2, <1>6, <1>7, SizedFacts
<1>9. ASSUME NEW d, d # b
      PROVE  {u \in versions' : u.bucket = d} = InBucket(d)
  <2>1. rest \subseteq Version /\ \A m \in {n} : m.bucket = b
    BY <1>2, <1>5 DEF rest
  <2>2. {u \in versions' : u.bucket = d} = {u \in rest : u.bucket = d}
    BY <1>1, <1>9, <2>1, WithHeadsOthers
  <2> QED
    BY <1>9, <2>2 DEF InBucket, rest, b
<1> HIDE DEF x
<1> QED
  BY <1>1, <1>2, <1>8, <1>9, SizedAt

\* The copy starts with the size of what is copied.
LEMMA SnapshotSized ==
    ASSUME Sized, NEW b \in Buckets, NEW c \in Buckets, NEW on \in BOOLEAN, Snapshot(b, c, on),
           Rows'
    PROVE  Sized'
<1> DEFINE h == [v \in Visible(b) |-> [v EXCEPT !.bucket = c, !.stamp = 1]]
           copies == {[v EXCEPT !.bucket = c, !.stamp = 1] : v \in Visible(b)}
           row == [state |-> "live", size |-> SizeOf(copies), locked |-> on \/ bucket[b].locked]
<1>1. /\ bucket[c] = NoBucket /\ versions' = versions \cup copies
      /\ bucket' = [bucket EXCEPT ![c] = row]
  BY DEF Snapshot
<1>2. Rows /\ IsFiniteSet(versions) /\ versions \subseteq Version
  BY DEF Sized, Rows, WellKept
<1>3. \A u \in versions : u.bucket # c
  <2>1. \A u \in versions : bucket[u.bucket].state # "none"
    BY <1>2, RowFacts
  <2>2. bucket[c].state = "none"
    <3>1. bucket[c] = NoBucket
      BY <1>1
    <3> HIDE DEF h, copies, row
    <3> QED
      BY <3>1 DEF NoBucket
  <2> HIDE DEF h, copies, row
  <2> QED
    BY <2>1, <2>2
<1>4. \A w \in copies : w.bucket = c
  <2> SUFFICES ASSUME NEW v \in Visible(b)
               PROVE  [v EXCEPT !.bucket = c, !.stamp = 1].bucket = c
    OBVIOUS
  <2>1. v \in Version
    BY <1>2 DEF Visible, InBucket
  <2> QED
    BY <2>1 DEF Version
<1>5. IsFiniteSet(copies)
  <2>1. h \in Surjection(Visible(b), copies)
    BY DEF Surjection
  <2>2. Visible(b) \in SUBSET versions
    BY DEF Visible, InBucket
  <2>3. IsFiniteSet(Visible(b))
    BY <1>2, <2>2, FS_Subset
  <2> HIDE DEF h, copies
  <2> QED
    BY <2>1, <2>3, FS_Surjection
<1>6. bucket'[c].size = SizeOf(copies) /\ \A d \in Buckets : d # c => bucket'[d] = bucket[d]
  <2>1. row.size = SizeOf(copies)
    OBVIOUS
  <2> HIDE DEF row, copies
  <2> QED
    BY <1>1, <1>2, <2>1 DEF Rows, BucketsTyped
<1> HIDE DEF copies, row
<1>7. IsFiniteSet(versions')
  BY <1>1, <1>2, <1>5, FS_Union
<1>8. ASSUME NEW d \in Buckets
      PROVE  bucket'[d].size = SizeOf(InBucket(d)')
  <2>1. CASE d = c
    <3>1. InBucket(c)' = copies
      BY <1>1, <1>3, <1>4 DEF InBucket
    <3> QED
      BY <1>6, <2>1, <3>1, Zenon
  <2>2. CASE d # c
    <3>1. InBucket(d)' = InBucket(d)
      BY <1>1, <1>4, <2>2 DEF InBucket
    <3>2. bucket'[d].size = SizeOf(InBucket(d))
      BY <1>6, <2>2 DEF Sized, SizeIsSum
    <3> QED
      BY <3>1, <3>2, Zenon
  <2> QED
    BY <2>1, <2>2
<1>9. SizeIsSum'
  BY <1>8 DEF SizeIsSum
<1> QED
  BY <1>7, <1>9 DEF Sized

\* A bucket that is created or marked keeps its size and its rows.
LEMMA MarkSized ==
    ASSUME Sized, NEW b \in Buckets, CreateBucket(b) \/ DeleteBucket(b), Rows'
    PROVE  Sized'
<1>1. PICK st \in {"live", "deleted"} : bucket' = [bucket EXCEPT ![b].state = st]
  BY DEF CreateBucket, DeleteBucket
<1>2. versions' = versions
  BY DEF CreateBucket, DeleteBucket
<1>3. \A d \in Buckets : bucket'[d].size = bucket[d].size
  BY <1>1 DEF Sized, Rows, BucketsTyped, BucketRow
<1>4. \A d \in Buckets : InBucket(d)' = InBucket(d)
  BY <1>2 DEF InBucket
<1>5. SizeIsSum'
  BY <1>3, <1>4 DEF Sized, SizeIsSum
<1> QED
  BY <1>2, <1>5 DEF Sized

\* A bucket that goes leaves no row and no size.
LEMMA GoneSized ==
    ASSUME Sized, NEW b \in Buckets, RemoveRows(b), Rows'
    PROVE  Sized'
<1>1. versions' = versions \ InBucket(b) /\ bucket' = [bucket EXCEPT ![b] = Gone]
  BY DEF RemoveRows
<1>2. IsFiniteSet(versions')
  <2>1. versions' \in SUBSET versions
    BY <1>1
  <2> QED
    BY <2>1, FS_Subset DEF Sized
<1>3. bucket'[b].size = 0 /\ \A d \in Buckets : d # b => bucket'[d] = bucket[d]
  BY <1>1 DEF Gone, Sized, Rows, BucketsTyped
<1>4. ASSUME NEW d \in Buckets
      PROVE  bucket'[d].size = SizeOf(InBucket(d)')
  <2>1. CASE d = b
    <3>1. InBucket(b)' = {}
      BY <1>1 DEF InBucket
    <3> QED
      BY <1>3, <2>1, <3>1, SizeEmpty, Zenon
  <2>2. CASE d # b
    <3>1. InBucket(d)' = InBucket(d)
      BY <1>1, <2>2 DEF InBucket
    <3>2. bucket'[d].size = SizeOf(InBucket(d))
      BY <1>3, <2>2 DEF Sized, SizeIsSum
    <3> QED
      BY <3>1, <3>2, Zenon
  <2> QED
    BY <2>1, <2>2
<1>5. SizeIsSum'
  BY <1>4 DEF SizeIsSum
<1> QED
  BY <1>2, <1>5 DEF Sized

LEMMA InitSized == Init => Sized
<1> SUFFICES ASSUME Init PROVE Sized
  OBVIOUS
<1>1. \A b \in Buckets : bucket[b].size = 0 /\ InBucket(b) = {}
  BY DEF Init, NoBucket, InBucket
<1>2. SizeIsSum
  BY <1>1, SizeEmpty DEF SizeIsSum
<1> QED
  BY <1>2, InitRows, FS_EmptySet DEF Sized, Init

LEMMA StepSized == Sized /\ [Next]_storeVars => Sized'
<1> SUFFICES ASSUME Sized, [Next]_storeVars
             PROVE  Sized'
  OBVIOUS
<1>0. Rows /\ Rows'
  BY StepRows DEF Sized
<1>1. ASSUME NEW b \in Buckets,
             CreateBucket(b) \/ DeleteBucket(b) \/ DropBucket(b) \/ CancelBucket(b)
      PROVE  Sized'
  BY <1>0, <1>1, MarkSized, GoneSized DEF DropBucket, CancelBucket
<1>2. ASSUME NEW b \in Buckets, NEW k \in Keys,
             DeleteObject(b, k) \/ \E f \in Files : PutObject(b, k, f)
      PROVE  Sized'
  <2>1. PICK f \in Files \cup {NoFile} : Create(b, {<<k, f>>})
    BY <1>2 DEF DeleteObject, PutObject
  <2> QED
    BY <1>0, <2>1, PairSized
<1>3. ASSUME NEW v \in versions, Restore(v)
      PROVE  Sized'
  <2>1. /\ v.bucket \in Buckets /\ v.key \in Keys /\ v.file \in Files \cup {NoFile}
        /\ Create(v.bucket, {<<v.key, v.file>>})
    BY <1>0, <1>3, RowFacts DEF Restore
  <2> QED
    BY <1>0, <2>1, PairSized
<1>4. ASSUME NEW v \in versions,
             \/ RemoveVersion(v) \/ DropObject(v)
             \/ \E k \in Keys, f \in Files : ReplaceObject(v, k, f)
      PROVE  Sized'
  BY <1>0, <1>4, RemoveSized, DropSized, ReplaceSized
<1>5. ASSUME NEW b \in Buckets, NEW c \in Buckets, NEW on \in BOOLEAN,
             Snapshot(b, c, on) \/ Sync(b, c, on)
      PROVE  Sized'
  BY <1>0, <1>5, SnapshotSized, SyncSized
<1>6. ASSUME UNCHANGED storeVars
      PROVE  Sized'
  <2>1. bucket' = bucket /\ versions' = versions
    BY <1>6 DEF storeVars
  <2>2. SizeIsSum'
    BY <2>1 DEF Sized, SizeIsSum, InBucket
  <2> QED
    BY <1>0, <2>1, <2>2 DEF Sized
<1> QED
  BY <1>1, <1>2, <1>3, <1>4, <1>5, <1>6 DEF Next

\* Whatever is created, restored, replaced, copied and removed, the size of a
\* bucket is that of its versions (Bucket.size is only ever counted up and down).
THEOREM SizesAdd == Spec => []SizeIsSum
<1>1. Sized => SizeIsSum
  BY DEF Sized
<1> QED
  BY InitSized, StepSized, <1>1, PTL DEF Spec

\* Every row holds values of its columns, and sizes are whole numbers.
THEOREM StoreTyped == Spec => []StoreTypeOK
<1>1. Sized => StoreTypeOK
  <2> SUFFICES ASSUME Sized PROVE StoreTypeOK
    OBVIOUS
  <2>1. \A b \in Buckets : bucket[b].size \in Int
    BY SizedFacts
  <2>2. \A b \in Buckets : bucket[b] = [state |-> bucket[b].state, locked |-> bucket[b].locked,
                                      size |-> bucket[b].size]
    BY DEF Sized, Rows, BucketsTyped, BucketRow
  <2>3. bucket \in [Buckets -> BucketRow(Int)]
    BY <2>1, <2>2 DEF Sized, Rows, BucketsTyped, BucketRow
  <2> QED
    BY <2>3 DEF StoreTypeOK, Sized, Rows, WellKept, FilesTyped, BucketRow
<1> QED
  BY InitSized, StepSized, <1>1, PTL DEF Spec

-----------------------------------------------------------------------------
(* The shelves: what rows show and remember under each key of a bucket.    *)

\* v is a row of key k of bucket b and links f.
Holds(v, b, k, f) == v.bucket = b /\ v.key = k /\ v.file = f /\ f # NoFile

\* The file a new row shows, if it is no marker.
OrNone(f) == {f} \ {NoFile}

\* Of two shelves the second has x under key k of bucket b and is else the first.
Reshelved(S, T, b, k, x) == T = [S EXCEPT ![b][k] = x]

\* v is a row of key k of bucket b.
IsAt(v, b, k) == v.bucket = b /\ v.key = k

\* x stands for v once the new rows are there.
StandsFor(x, v, new) ==
    /\ SameKey(x, v) /\ x.file = v.file
    /\ x.head <=> v.head /\ \A n \in new : ~SameKey(n, v)

\* W is V with new rows, and V without one.
More(V, new, W) ==
    /\ WellKept(V) /\ WellKept(W)
    /\ \A n \in new : n \in W /\ n.head
    /\ \A m, n \in new : SameKey(m, n) => m = n
    /\ \A x \in W : x \in new \/ \E v \in V : StandsFor(x, v, new)
    /\ \A v \in V : \E x \in W : StandsFor(x, v, new)
Less(V, v, W) == v \in V /\ W = V \ {v}

LEMMA ShelfFacts ==
    ASSUME NEW V, V \subseteq Version
    PROVE  /\ ShownIn(V) \in [Buckets -> [Keys -> SUBSET Files]]
           /\ PastIn(V) \in [Buckets -> [Keys -> SUBSET Files]]
           /\ \A b \in Buckets, k \in Keys : \A f :
                /\ f \in ShownIn(V)[b][k] <=> \E v \in V : v.head /\ Holds(v, b, k, f)
                /\ f \in PastIn(V)[b][k] <=> \E v \in V : Holds(v, b, k, f)
<1>1. \A b \in Buckets, k \in Keys : \A f :
        /\ f \in ShownIn(V)[b][k] <=> \E v \in V : v.head /\ Holds(v, b, k, f)
        /\ f \in PastIn(V)[b][k] <=> \E v \in V : Holds(v, b, k, f)
  BY DEF ShownIn, PastIn, OfKey, Holds
<1>2. \A v \in V : v.file \in Files \cup {NoFile}
  BY DEF Version
<1>3. \A b \in Buckets, k \in Keys :
        ShownIn(V)[b][k] \subseteq Files /\ PastIn(V)[b][k] \subseteq Files
  BY <1>1, <1>2 DEF Holds
<1>4. /\ ShownIn(V) = [b \in Buckets |-> [k \in Keys |-> ShownIn(V)[b][k]]]
      /\ PastIn(V) = [b \in Buckets |-> [k \in Keys |-> PastIn(V)[b][k]]]
  BY DEF ShownIn, PastIn
<1> QED
  BY <1>1, <1>3, <1>4

\* Two shelves that agree on every key are the same.
LEMMA SameShelves ==
    ASSUME NEW S, NEW T, S \in [Buckets -> [Keys -> SUBSET Files]],
           T \in [Buckets -> [Keys -> SUBSET Files]],
           \A b \in Buckets, k \in Keys : S[b][k] = T[b][k]
    PROVE  S = T
<1>1. \A b \in Buckets : S[b] = T[b]
  <2> SUFFICES ASSUME NEW b \in Buckets PROVE S[b] = T[b]
    OBVIOUS
  <2>1. S[b] \in [Keys -> SUBSET Files] /\ T[b] \in [Keys -> SUBSET Files]
    OBVIOUS
  <2> QED
    BY <2>1
<1> QED
  BY <1>1

\* Under one key of one bucket a shelf is changed.
LEMMA ShelfSet ==
    ASSUME NEW S, NEW T, S \in [Buckets -> [Keys -> SUBSET Files]],
           T \in [Buckets -> [Keys -> SUBSET Files]],
           NEW b \in Buckets, NEW k \in Keys, NEW x, T[b][k] = x,
           \A c \in Buckets, j \in Keys : c # b \/ j # k => T[c][j] = S[c][j]
    PROVE  Reshelved(S, T, b, k, x)
<1> DEFINE U == [S EXCEPT ![b][k] = x]
<1>1. x \in SUBSET Files
  <2>1. T[b] \in [Keys -> SUBSET Files]
    OBVIOUS
  <2> QED
    BY <2>1
<1>2. S[b] \in [Keys -> SUBSET Files]
  OBVIOUS
<1>3. [S[b] EXCEPT ![k] = x] \in [Keys -> SUBSET Files]
  BY <1>1, <1>2
<1>4. U \in [Buckets -> [Keys -> SUBSET Files]]
  BY <1>3
<1>5. \A c \in Buckets, j \in Keys : U[c][j] = T[c][j]
  <2> SUFFICES ASSUME NEW c \in Buckets, NEW j \in Keys
               PROVE  U[c][j] = T[c][j]
    OBVIOUS
  <2>1. CASE c = b
    <3>1. U[c] = [S[b] EXCEPT ![k] = x]
      BY <2>1
    <3>2. U[c][j] = IF j = k THEN x ELSE S[b][j]
      BY <1>2, <3>1
    <3> QED
      BY <2>1, <3>2
  <2>2. CASE c # b
    BY <2>2
  <2> QED
    BY <2>1, <2>2
<1> HIDE DEF U
<1> QED
  BY <1>4, <1>5, SameShelves DEF U, Reshelved

\* The rows there are with new rows among them.
LEMMA MoreRows ==
    ASSUME NEW V, NEW new, WellKept(V), CanFollow(V, new), NEW W, W = WithHeads(V, new)
    PROVE  More(V, new, W)
<1>1. /\ \A x \in W : x \in new \/ \E v \in V : x = Stepped(v, new)
      /\ \A v \in V : Stepped(v, new) \in W
      /\ \A n \in new : n \in W
  BY WithHeadsRows
<1>2. WellKept(W)
  BY WithHeadsKept
<1>3. /\ \A n \in new : n.head
      /\ \A m, n \in new : SameKey(m, n) => m = n
  BY DEF CanFollow
<1>4. ASSUME NEW v \in V
      PROVE  StandsFor(Stepped(v, new), v, new)
  <2>1. v \in Version
    BY DEF WellKept
  <2>2. /\ Stepped(v, new).bucket = v.bucket /\ Stepped(v, new).key = v.key
        /\ Stepped(v, new).file = v.file
        /\ Stepped(v, new).head <=> v.head /\ OfKey(new, v.bucket, v.key) = {}
    BY <2>1, SteppedRow DEF Stepped, Version
  <2>3. OfKey(new, v.bucket, v.key) = {} <=> \A n \in new : ~SameKey(n, v)
    BY DEF OfKey, SameKey
  <2> QED
    BY <2>2, <2>3 DEF StandsFor, SameKey
<1> QED
  BY <1>1, <1>2, <1>3, <1>4 DEF More

\* Under the key of a new row its file is shown, or none; it is remembered with
\* the earlier ones.
LEMMA HeadsShelved ==
    ASSUME NEW V, NEW new, NEW W, More(V, new, W), NEW n \in new,
           NEW b \in Buckets, NEW k \in Keys, IsAt(n, b, k)
    PROVE  /\ ShownIn(W)[b][k] = OrNone(n.file)
           /\ PastIn(W)[b][k] = PastIn(V)[b][k] \cup OrNone(n.file)
<1>1. V \subseteq Version /\ W \subseteq Version
  BY DEF More, WellKept
<1>2. /\ \A f : f \in ShownIn(W)[b][k] <=> \E x \in W : x.head /\ Holds(x, b, k, f)
      /\ \A f : f \in PastIn(W)[b][k] <=> \E x \in W : Holds(x, b, k, f)
      /\ \A f : f \in PastIn(V)[b][k] <=> \E x \in V : Holds(x, b, k, f)
  BY <1>1, ShelfFacts
<1>3. /\ n \in W /\ n.head
      /\ \A m \in new : IsAt(m, b, k) => m = n
  BY DEF More, SameKey, IsAt
<1>4. \A x \in W : x.head /\ IsAt(x, b, k) => x = n
  BY <1>3 DEF More, WellKept, SameKey, IsAt
<1>5. \A f : f \in ShownIn(W)[b][k] <=> f \in OrNone(n.file)
  BY <1>2, <1>3, <1>4 DEF Holds, OrNone, IsAt
<1>6. /\ \A x \in W : IsAt(x, b, k) =>
            x = n \/ \E v \in V : IsAt(v, b, k) /\ x.file = v.file
      /\ \A v \in V : IsAt(v, b, k) => \E x \in W : IsAt(x, b, k) /\ x.file = v.file
  BY <1>3 DEF More, StandsFor, SameKey, IsAt
<1>7. \A f : f \in PastIn(W)[b][k] <=> f \in PastIn(V)[b][k] \cup OrNone(n.file)
  BY <1>2, <1>3, <1>6 DEF Holds, OrNone, IsAt
<1> QED
  BY <1>5, <1>7

\* Under the other keys nothing changes.
LEMMA OthersShelved ==
    ASSUME NEW V, NEW new, NEW W, More(V, new, W),
           NEW b \in Buckets, NEW k \in Keys, \A n \in new : ~IsAt(n, b, k)
    PROVE  ShownIn(W)[b][k] = ShownIn(V)[b][k] /\ PastIn(W)[b][k] = PastIn(V)[b][k]
<1>1. V \subseteq Version /\ W \subseteq Version
  BY DEF More, WellKept
<1>2. /\ \A f : f \in ShownIn(W)[b][k] <=> \E x \in W : x.head /\ Holds(x, b, k, f)
      /\ \A f : f \in PastIn(W)[b][k] <=> \E x \in W : Holds(x, b, k, f)
      /\ \A f : f \in ShownIn(V)[b][k] <=> \E x \in V : x.head /\ Holds(x, b, k, f)
      /\ \A f : f \in PastIn(V)[b][k] <=> \E x \in V : Holds(x, b, k, f)
  BY <1>1, ShelfFacts
<1>3. /\ \A x \in W : IsAt(x, b, k) =>
            \E v \in V : IsAt(v, b, k) /\ x.file = v.file /\ (x.head <=> v.head)
      /\ \A v \in V : IsAt(v, b, k) =>
            \E x \in W : IsAt(x, b, k) /\ x.file = v.file /\ (x.head <=> v.head)
  BY DEF More, StandsFor, SameKey, IsAt
<1>4. \A f : f \in ShownIn(W)[b][k] <=> f \in ShownIn(V)[b][k]
  BY <1>2, <1>3 DEF Holds, IsAt
<1>5. \A f : f \in PastIn(W)[b][k] <=> f \in PastIn(V)[b][k]
  BY <1>2, <1>3 DEF Holds, IsAt
<1> QED
  BY <1>4, <1>5

\* A head is the only row its key shows.
LEMMA HeadShown ==
    ASSUME NEW V, WellKept(V), NEW v \in V, v.head,
           NEW b \in Buckets, NEW k \in Keys, IsAt(v, b, k)
    PROVE  ShownIn(V)[b][k] = OrNone(v.file)
<1>1. V \subseteq Version
  BY DEF WellKept
<1>2. \A f : f \in ShownIn(V)[b][k] <=> \E u \in V : u.head /\ Holds(u, b, k, f)
  BY <1>1, ShelfFacts
<1>3. \A u \in V : u.head /\ IsAt(u, b, k) => u = v
  BY DEF WellKept, SameKey, IsAt
<1>4. \A f : f \in ShownIn(V)[b][k] <=> f \in OrNone(v.file)
  BY <1>2, <1>3 DEF Holds, OrNone, IsAt
<1> QED
  BY <1>4

\* What a key shows it remembers, and it is one file or none.
LEMMA ShownOne ==
    ASSUME NEW V, WellKept(V), NEW b \in Buckets, NEW k \in Keys
    PROVE  /\ ShownIn(V)[b][k] \subseteq PastIn(V)[b][k]
           /\ ShownIn(V)[b][k] = {} \/ \E f \in PastIn(V)[b][k] : ShownIn(V)[b][k] = {f}
           /\ PastIn(V)[b][k] \subseteq Files
<1>1. V \subseteq Version
  BY DEF WellKept
<1>2. /\ \A f : f \in ShownIn(V)[b][k] <=> \E u \in V : u.head /\ Holds(u, b, k, f)
      /\ \A f : f \in PastIn(V)[b][k] <=> \E u \in V : Holds(u, b, k, f)
      /\ PastIn(V)[b][k] \subseteq Files
  BY <1>1, ShelfFacts
<1>3. \A f, g \in ShownIn(V)[b][k] : f = g
  BY <1>2 DEF WellKept, SameKey, Holds
<1> QED
  BY <1>2, <1>3

\* A row goes: its key remembers the same files or one fewer, and shows what it
\* did, or nothing when the row was the head.
LEMMA RowLess ==
    ASSUME NEW V, WellKept(V), NEW v \in V, NEW W, Less(V, v, W),
           NEW b \in Buckets, NEW k \in Keys, IsAt(v, b, k)
    PROVE  /\ \A c \in Buckets, j \in Keys : c # b \/ j # k =>
                ShownIn(W)[c][j] = ShownIn(V)[c][j] /\ PastIn(W)[c][j] = PastIn(V)[c][j]
           /\ \/ PastIn(W)[b][k] = PastIn(V)[b][k]
              \/ PastIn(W)[b][k] = PastIn(V)[b][k] \ {v.file} /\ v.file \in PastIn(V)[b][k]
           /\ ShownIn(W)[b][k] = IF v.head THEN {} ELSE ShownIn(V)[b][k]
<1>1. V \subseteq Version /\ W \subseteq Version
  BY DEF WellKept, Less
<1>2. \A c \in Buckets, j \in Keys :
        /\ \A f : f \in ShownIn(W)[c][j] <=> \E x \in W : x.head /\ Holds(x, c, j, f)
        /\ \A f : f \in PastIn(W)[c][j] <=> \E x \in W : Holds(x, c, j, f)
        /\ \A f : f \in ShownIn(V)[c][j] <=> \E x \in V : x.head /\ Holds(x, c, j, f)
        /\ \A f : f \in PastIn(V)[c][j] <=> \E x \in V : Holds(x, c, j, f)
  BY <1>1, ShelfFacts
<1>w. \A x : x \in W <=> x \in V /\ x # v
  BY DEF Less
<1>k. v.bucket = b /\ v.key = k
  BY DEF IsAt
<1>3. ASSUME NEW c \in Buckets, NEW j \in Keys, c # b \/ j # k
      PROVE  /\ ShownIn(W)[c][j] = ShownIn(V)[c][j]
             /\ PastIn(W)[c][j] = PastIn(V)[c][j]
  <2>1. \A f : f \in ShownIn(W)[c][j] <=> f \in ShownIn(V)[c][j]
    BY <1>2, <1>3, <1>k, <1>w DEF Holds
  <2>2. \A f : f \in PastIn(W)[c][j] <=> f \in PastIn(V)[c][j]
    BY <1>2, <1>3, <1>k, <1>w DEF Holds
  <2> QED
    BY <2>1, <2>2
<1>4. \/ PastIn(W)[b][k] = PastIn(V)[b][k]
      \/ PastIn(W)[b][k] = PastIn(V)[b][k] \ {v.file} /\ v.file \in PastIn(V)[b][k]
  <2>1. \A f : f # v.file => (f \in PastIn(W)[b][k] <=> f \in PastIn(V)[b][k])
    BY <1>1, <1>2, <1>k, <1>w DEF Holds
  <2>2. v.file \in PastIn(W)[b][k] => v.file \in PastIn(V)[b][k]
    BY <1>1, <1>2, <1>w
  <2>3. CASE v.file \in PastIn(V)[b][k] /\ v.file \notin PastIn(W)[b][k]
    <3>1. \A f : f \in PastIn(W)[b][k] <=> f \in PastIn(V)[b][k] \ {v.file}
      BY <2>1, <2>3
    <3> QED
      BY <2>3, <3>1
  <2>4. CASE ~(v.file \in PastIn(V)[b][k] /\ v.file \notin PastIn(W)[b][k])
    <3>1. \A f : f \in PastIn(W)[b][k] <=> f \in PastIn(V)[b][k]
      BY <2>1, <2>2, <2>4
    <3> QED
      BY <3>1
  <2> QED
    BY <2>3, <2>4
<1>5. ShownIn(W)[b][k] = IF v.head THEN {} ELSE ShownIn(V)[b][k]
  <2>1. v.head => \A x \in W : ~(x.head /\ x.bucket = b /\ x.key = k)
    BY <1>k, <1>w DEF WellKept, SameKey
  <2>2. \A f : f \in ShownIn(W)[b][k] <=>
                 f \in (IF v.head THEN {} ELSE ShownIn(V)[b][k])
    BY <1>1, <1>2, <1>k, <1>w, <2>1 DEF Holds
  <2> QED
    BY <2>2
<1> QED
  BY <1>3, <1>4, <1>5

\* The rows of one state keep their types into the next.
LEMMA ShelvesTyped ==
    ASSUME NEW V, WellKept(V)
    PROVE  /\ ShownIn(V) \in [Buckets -> [Keys -> SUBSET Files]]
           /\ PastIn(V) \in [Buckets -> [Keys -> SUBSET Files]]
BY ShelfFacts DEF WellKept

\* Where no bucket is created, marked, locked or removed.
LEMMA BucketsSame ==
    ASSUME \A c \in Buckets : /\ bucket'[c].state = bucket[c].state
                              /\ bucket'[c].locked = bucket[c].locked
    PROVE  StatesIn(bucket') = StatesIn(bucket) /\ LocksIn(bucket') = LocksIn(bucket)
BY DEF StatesIn, LocksIn

\* The shelves of the next state.
LEMMA ShelvesNext ==
    /\ StatesIn(bucket)' = StatesIn(bucket') /\ LocksIn(bucket)' = LocksIn(bucket')
    /\ ShownIn(versions)' = ShownIn(versions') /\ PastIn(versions)' = PastIn(versions')
BY DEF StatesIn, LocksIn, ShownIn, PastIn, OfKey

\* A new row under one key.
LEMMA RowShelved ==
    ASSUME NEW V, NEW new, NEW n \in new, \A m \in new : m = n,
           NEW W, More(V, new, W),
           NEW b \in Buckets, NEW k \in Keys, IsAt(n, b, k), NEW f, f = n.file
    PROVE  /\ Reshelved(ShownIn(V), ShownIn(W), b, k, OrNone(f))
           /\ Reshelved(PastIn(V), PastIn(W), b, k, PastIn(V)[b][k] \cup OrNone(f))
<1>2. WellKept(W) /\ WellKept(V)
  BY DEF More
<1>3. ShownIn(W)[b][k] = OrNone(f) /\ PastIn(W)[b][k] = PastIn(V)[b][k] \cup OrNone(f)
  <2>1. /\ ShownIn(W)[b][k] = OrNone(n.file)
        /\ PastIn(W)[b][k] = PastIn(V)[b][k] \cup OrNone(n.file)
    BY HeadsShelved
  <2> QED
    BY <2>1
<1>4. ASSUME NEW c \in Buckets, NEW j \in Keys, c # b \/ j # k
      PROVE  ShownIn(W)[c][j] = ShownIn(V)[c][j] /\ PastIn(W)[c][j] = PastIn(V)[c][j]
  <2>1. \A m \in new : ~IsAt(m, c, j)
    BY <1>4 DEF IsAt
  <2> QED
    BY <2>1, OthersShelved
<1>5. Reshelved(ShownIn(V), ShownIn(W), b, k, OrNone(f))
  BY <1>2, <1>3, <1>4, ShelvesTyped, ShelfSet
<1>6. Reshelved(PastIn(V), PastIn(W), b, k, PastIn(V)[b][k] \cup OrNone(f))
  <2> DEFINE x == PastIn(V)[b][k] \cup OrNone(f)
             S == PastIn(V)
             T == PastIn(W)
  <2>1. S \in [Buckets -> [Keys -> SUBSET Files]] /\ T \in [Buckets -> [Keys -> SUBSET Files]]
    BY <1>2, ShelvesTyped
  <2>2. T[b][k] = x /\ \A c \in Buckets, j \in Keys : c # b \/ j # k => T[c][j] = S[c][j]
    BY <1>3, <1>4
  <2> HIDE DEF x, S, T
  <2>3. Reshelved(S, T, b, k, x)
    BY <2>1, <2>2, ShelfSet
  <2> QED
    BY <2>3 DEF x, S, T
<1> QED
  BY <1>5, <1>6

LEMMA CreateShelved ==
    ASSUME Rows, NEW b \in Buckets, NEW k \in Keys, NEW f \in Files \cup {NoFile},
           Create(b, {<<k, f>>})
    PROVE  /\ StatesIn(bucket') = StatesIn(bucket) /\ LocksIn(bucket') = LocksIn(bucket)
           /\ Reshelved(ShownIn(versions), ShownIn(versions'), b, k, OrNone(f))
           /\ Reshelved(PastIn(versions), PastIn(versions'), b, k,
                        PastIn(versions)[b][k] \cup OrNone(f))
<1> DEFINE pairs == {<<k, f>>}
           new == NewRows(b, pairs)
           n == NewVersion(b, k, f)
<1>1. pairs \subseteq Keys \X (Files \cup {NoFile}) /\ OnePerKey(pairs)
  BY DEF OnePerKey
<1>2. Create(b, pairs)
  OBVIOUS
<1>3. new = {n} /\ n.bucket = b /\ n.key = k /\ n.file = f
  BY DEF NewRows, NewVersion
<1> HIDE DEF pairs, n
<1>4. /\ CanFollow(versions, new) /\ versions' = WithHeads(versions, new)
      /\ \A c \in Buckets : /\ bucket'[c].state = bucket[c].state
                            /\ bucket'[c].locked = bucket[c].locked
  BY <1>1, <1>2, CreateFollows, CreateRows
<1> HIDE DEF new
<1>5. WellKept(versions)
  BY DEF Rows
<1>6. /\ Reshelved(ShownIn(versions), ShownIn(versions'), b, k, OrNone(f))
      /\ Reshelved(PastIn(versions), PastIn(versions'), b, k,
                   PastIn(versions)[b][k] \cup OrNone(f))
  <2>1. n \in new /\ (\A m \in new : m = n) /\ IsAt(n, b, k) /\ f = n.file
    BY <1>3 DEF IsAt
  <2>2. More(versions, new, versions')
    BY <1>4, <1>5, MoreRows
  <2> QED
    BY <2>1, <2>2, RowShelved
<1> QED
  BY <1>4, <1>6, BucketsSame

\* A bucket as Shelves sees it.
LEMMA BucketSeen ==
    ASSUME NEW b \in Buckets
    PROVE  StatesIn(bucket)[b] = bucket[b].state /\ LocksIn(bucket)[b] = bucket[b].locked
BY DEF StatesIn, LocksIn

LEMMA PutShelved ==
    ASSUME Rows, NEW b \in Buckets, NEW k \in Keys, NEW f \in Files, PutObject(b, k, f)
    PROVE  Shelf!Put(b, k, f)
<1>1. /\ Live(b) /\ ~bucket[b].locked /\ file[f] = "unused"
      /\ file' = [file EXCEPT ![f] = "stored"] /\ Create(b, {<<k, f>>})
  BY DEF PutObject
<1>2. OrNone(f) = {f}
  BY StoreAssumption DEF OrNone
<1>3. /\ StatesIn(bucket') = StatesIn(bucket) /\ LocksIn(bucket') = LocksIn(bucket)
      /\ Reshelved(ShownIn(versions), ShownIn(versions'), b, k, {f})
      /\ Reshelved(PastIn(versions), PastIn(versions'), b, k, PastIn(versions)[b][k] \cup {f})
  BY <1>1, <1>2, CreateShelved
<1> QED
  BY <1>1, <1>3, BucketSeen, ShelvesNext
     DEF Shelf!Put, Shelf!Open, Shelf!Store, Live, Reshelved

\* Nothing more is remembered.
LEMMA SameRemembered ==
    ASSUME NEW V, WellKept(V), NEW T, NEW b \in Buckets, NEW k \in Keys,
           NEW x, x = PastIn(V)[b][k], Reshelved(PastIn(V), T, b, k, x)
    PROVE  T = PastIn(V)
<1>1. PastIn(V) \in [Buckets -> [Keys -> SUBSET Files]]
  BY ShelvesTyped
<1>2. Reshelved(PastIn(V), PastIn(V), b, k, x)
  BY <1>1, ShelfSet
<1> QED
  BY <1>2 DEF Reshelved

\* A marker shows nothing and forgets nothing.
LEMMA HideShelved ==
    ASSUME Rows, NEW b \in Buckets, NEW k \in Keys, DeleteObject(b, k)
    PROVE  Shelf!Hide(b, k)
<1>1. /\ Live(b) /\ ~bucket[b].locked /\ file' = file /\ Create(b, {<<k, NoFile>>})
      /\ \E v \in Visible(b) : v.key = k
  BY DEF DeleteObject
<1>2. OrNone(NoFile) = {}
  BY DEF OrNone
<1>3. PastIn(versions)[b][k] \cup {} = PastIn(versions)[b][k]
  OBVIOUS
<1>4. /\ StatesIn(bucket') = StatesIn(bucket) /\ LocksIn(bucket') = LocksIn(bucket)
      /\ Reshelved(ShownIn(versions), ShownIn(versions'), b, k, {})
      /\ Reshelved(PastIn(versions), PastIn(versions'), b, k, PastIn(versions)[b][k])
  BY <1>1, <1>2, <1>3, CreateShelved
<1>5. PastIn(versions') = PastIn(versions)
  BY <1>4, SameRemembered DEF Rows
<1>6. ShownIn(versions)[b][k] # {}
  <2>1. PICK v \in versions : v.bucket = b /\ v.key = k /\ v.head /\ v.file # NoFile
    BY <1>1 DEF Visible, InBucket
  <2>2. v.file \in ShownIn(versions)[b][k]
    BY <2>1, ShelfFacts DEF Rows, WellKept, Holds
  <2> QED
    BY <2>2
<1> QED
  BY <1>1, <1>4, <1>5, <1>6, BucketSeen, ShelvesNext
     DEF Shelf!Hide, Shelf!Open, Live, Reshelved

\* The copy of an earlier version shows its file again.
LEMMA RestoreShelved ==
    ASSUME Rows, NEW v \in versions, Restore(v)
    PROVE  Shelf!Restore(v.bucket, v.key)
<1> DEFINE b == v.bucket
           k == v.key
           f == v.file
<1>1. /\ f # NoFile /\ ~bucket[b].locked /\ file' = file /\ Create(b, {<<k, f>>})
  BY DEF Restore
<1>2. /\ b \in Buckets /\ k \in Keys /\ f \in Files \cup {NoFile}
      /\ bucket[b].state \in {"live", "deleted"}
  BY RowFacts
<1>3. f \in PastIn(versions)[b][k]
  BY <1>1, <1>2, ShelfFacts DEF Rows, WellKept, Holds
<1> HIDE DEF b, k, f
<1>4. OrNone(f) = {f} /\ PastIn(versions)[b][k] \cup OrNone(f) = PastIn(versions)[b][k]
  BY <1>1, <1>3 DEF OrNone
<1>5. /\ StatesIn(bucket') = StatesIn(bucket) /\ LocksIn(bucket') = LocksIn(bucket)
      /\ Reshelved(ShownIn(versions), ShownIn(versions'), b, k, {f})
      /\ Reshelved(PastIn(versions), PastIn(versions'), b, k, PastIn(versions)[b][k])
  BY <1>1, <1>2, <1>4, CreateShelved
<1>6. PastIn(versions') = PastIn(versions)
  BY <1>2, <1>5, SameRemembered DEF Rows
<1>7. Shelf!Restore(b, k)
  BY <1>1, <1>2, <1>3, <1>5, <1>6, BucketSeen, ShelvesNext
     DEF Shelf!Restore, Shelf!Writable, Reshelved
<1> QED
  BY <1>7 DEF b, k

\* A row goes, as Shelves sees it.
LEMMA RowGone ==
    ASSUME NEW V, WellKept(V), NEW v \in V, NEW W, Less(V, v, W),
           NEW b \in Buckets, NEW k \in Keys, IsAt(v, b, k)
    PROVE  /\ PastIn(W)[b][k] \in Shelf!Fewer(PastIn(V)[b][k])
           /\ ShownIn(W)[b][k] \in {ShownIn(V)[b][k], {}}
           /\ ShownIn(W)[b][k] \subseteq PastIn(W)[b][k]
           /\ Reshelved(ShownIn(V), ShownIn(W), b, k, ShownIn(W)[b][k])
           /\ Reshelved(PastIn(V), PastIn(W), b, k, PastIn(W)[b][k])
<1>2. WellKept(W)
  BY SubsetKept DEF Less
<1>3. /\ \A c \in Buckets, j \in Keys : c # b \/ j # k =>
            ShownIn(W)[c][j] = ShownIn(V)[c][j] /\ PastIn(W)[c][j] = PastIn(V)[c][j]
      /\ \/ PastIn(W)[b][k] = PastIn(V)[b][k]
         \/ PastIn(W)[b][k] = PastIn(V)[b][k] \ {v.file} /\ v.file \in PastIn(V)[b][k]
      /\ ShownIn(W)[b][k] = IF v.head THEN {} ELSE ShownIn(V)[b][k]
  BY RowLess
<1>4. PastIn(W)[b][k] \in Shelf!Fewer(PastIn(V)[b][k])
  BY <1>3 DEF Shelf!Fewer
<1>5. ShownIn(W)[b][k] \in {ShownIn(V)[b][k], {}}
  BY <1>3
<1>6. ShownIn(W)[b][k] \subseteq PastIn(W)[b][k]
  BY <1>2, ShownOne
<1>7. Reshelved(ShownIn(V), ShownIn(W), b, k, ShownIn(W)[b][k])
  BY <1>2, <1>3, ShelvesTyped, ShelfSet
<1>8. Reshelved(PastIn(V), PastIn(W), b, k, PastIn(W)[b][k])
  BY <1>2, <1>3, ShelvesTyped, ShelfSet
<1> QED
  BY <1>4, <1>5, <1>6, <1>7, <1>8

LEMMA DropShelved ==
    ASSUME Rows, NEW v \in versions, DropObject(v)
    PROVE  Shelf!Drop(v.bucket, v.key)
<1> DEFINE b == v.bucket
           k == v.key
           W == versions \ {v}
           left == PastIn(W)[b][k]
           now == ShownIn(W)[b][k]
<1>1. /\ ~bucket[b].locked /\ versions' = W /\ file' = file
      /\ bucket' = [bucket EXCEPT ![b].size = bucket[b].size - SizeOf({v})]
  BY DEF DropObject
<1>2. WellKept(versions) /\ BucketsTyped /\ bucket[b].state \in {"live", "deleted"}
  BY RowFacts DEF Rows
<1>b. b \in Buckets /\ k \in Keys
  BY RowFacts
<1>3. /\ left \in Shelf!Fewer(PastIn(versions)[b][k])
      /\ now \in {ShownIn(versions)[b][k], {}} /\ now \subseteq left
      /\ Reshelved(ShownIn(versions), ShownIn(W), b, k, now)
      /\ Reshelved(PastIn(versions), PastIn(W), b, k, left)
  <2> HIDE DEF W
  <2>1. Less(versions, v, W) /\ IsAt(v, b, k)
    BY DEF W, Less, IsAt
  <2> QED
    BY <1>2, <1>b, <2>1, RowGone
<1> HIDE DEF b, k, W, left, now
<1>4. StatesIn(bucket') = StatesIn(bucket) /\ LocksIn(bucket') = LocksIn(bucket)
  <2>1. \A c \in Buckets : /\ bucket'[c].state = bucket[c].state
                           /\ bucket'[c].locked = bucket[c].locked
    BY <1>1, <1>2, <1>b, Resized
  <2> QED
    BY <2>1, BucketsSame
<1>5. /\ ShownIn(versions)' = [ShownIn(versions) EXCEPT ![b][k] = now]
      /\ PastIn(versions)' = [PastIn(versions) EXCEPT ![b][k] = left]
  BY <1>1, <1>3, ShelvesNext DEF Reshelved
<1>6. /\ StatesIn(bucket)[b] \in {"live", "deleted"} /\ ~LocksIn(bucket)[b]
      /\ StatesIn(bucket)' = StatesIn(bucket) /\ LocksIn(bucket)' = LocksIn(bucket)
  BY <1>1, <1>2, <1>b, <1>4, BucketSeen, ShelvesNext
<1>7. Shelf!Drop(b, k)
  BY <1>1, <1>3, <1>5, <1>6 DEF Shelf!Drop, Shelf!Writable
<1> QED
  BY <1>7 DEF b, k

\* The row that is replaced goes first, then the new one comes.
LEMMA ReplaceShelved ==
    ASSUME Rows, NEW v \in versions, NEW k \in Keys, NEW f \in Files, ReplaceObject(v, k, f)
    PROVE  Shelf!Replace(v.bucket, v.key, k, f)
<1> DEFINE b == v.bucket
           j == v.key
           n == NewVersion(b, k, f)
           new == {n}
           W == versions \ {v}
           left == PastIn(W)[b][j]
           now == ShownIn(W)[b][j]
<1>1. /\ ~bucket[b].locked /\ Room(versions, b, k) /\ file[f] = "unused"
      /\ versions' = WithHeads(W, new)
      /\ bucket' = [bucket EXCEPT ![b].size = bucket[b].size - SizeOf({v}) + SizeOf({n})]
      /\ file' = [file EXCEPT ![f] = "stored"]
  BY DEF ReplaceObject
<1>2. WellKept(versions) /\ BucketsTyped /\ bucket[b].state \in {"live", "deleted"}
  BY RowFacts DEF Rows
<1>b. b \in Buckets /\ j \in Keys
  BY RowFacts
<1>3. /\ left \in Shelf!Fewer(PastIn(versions)[b][j])
      /\ now \in {ShownIn(versions)[b][j], {}} /\ now \subseteq left
      /\ Reshelved(ShownIn(versions), ShownIn(W), b, j, now)
      /\ Reshelved(PastIn(versions), PastIn(W), b, j, left)
  <2> HIDE DEF W
  <2>1. Less(versions, v, W) /\ IsAt(v, b, j)
    BY DEF W, Less, IsAt
  <2> QED
    BY <1>2, <1>b, <2>1, RowGone
<1>4. /\ n \in Version /\ n.head /\ n.bucket = b /\ n.key = k /\ n.file = f
      /\ IsLater(W, b, k, n.stamp)
  <2>1. /\ Later(versions, b, k) \in 1 .. MaxStamp
        /\ IsLater(versions, b, k, Later(versions, b, k))
    BY <1>1, LaterIsLater
  <2> QED
    BY <1>b, <2>1 DEF NewVersion, Version, IsLater, OfKey
<1> HIDE DEF n
<1>5. CanFollow(W, new) /\ new = {n}
  BY <1>4 DEF CanFollow
<1>6. WellKept(W)
  BY <1>2, SubsetKept
<1> HIDE DEF b, j, W, new, left, now
<1>7. OrNone(f) = {f}
  BY StoreAssumption DEF OrNone
<1>8. /\ Reshelved(ShownIn(W), ShownIn(versions'), b, k, {f})
      /\ Reshelved(PastIn(W), PastIn(versions'), b, k, PastIn(W)[b][k] \cup {f})
  <2>1. n \in new /\ (\A m \in new : m = n) /\ IsAt(n, b, k) /\ f = n.file
    BY <1>4, <1>5 DEF IsAt
  <2>2. More(W, new, versions')
    BY <1>1, <1>5, <1>6, MoreRows
  <2>3. /\ Reshelved(ShownIn(W), ShownIn(versions'), b, k, OrNone(f))
        /\ Reshelved(PastIn(W), PastIn(versions'), b, k, PastIn(W)[b][k] \cup OrNone(f))
    BY <1>b, <2>1, <2>2, RowShelved
  <2> QED
    BY <1>7, <2>3
<1>9. ShownIn(versions)' = [ShownIn(versions) EXCEPT ![b][j] = now, ![b][k] = {f}]
  <2>1. ShownIn(W) = [ShownIn(versions) EXCEPT ![b][j] = now]
    BY <1>3 DEF Reshelved
  <2>2. ShownIn(versions)' = [ShownIn(W) EXCEPT ![b][k] = {f}]
    BY <1>8, ShelvesNext DEF Reshelved
  <2> QED
    BY <2>1, <2>2
<1>13. PastIn(versions)' =
            [PastIn(versions) EXCEPT ![b] = [i \in Keys |->
                (IF i = j THEN left ELSE PastIn(versions)[b][i]) \cup {g \in {f} : i = k}]]
  <2> DEFINE S == PastIn(versions)
             T == PastIn(W)
             U == PastIn(versions')
             row == [i \in Keys |-> (IF i = j THEN left ELSE S[b][i]) \cup {g \in {f} : i = k}]
  <2>1. S \in [Buckets -> [Keys -> SUBSET Files]]
    BY <1>2, ShelvesTyped
  <2>2. T = [S EXCEPT ![b][j] = left] /\ U = [T EXCEPT ![b][k] = T[b][k] \cup {f}]
    BY <1>3, <1>8 DEF Reshelved
  <2>3. U = [S EXCEPT ![b] = row]
    <3> HIDE DEF S, T, U
    <3>1. T = [S EXCEPT ![b] = [S[b] EXCEPT ![j] = left]]
      BY <2>2
    <3>2. U = [T EXCEPT ![b] = [T[b] EXCEPT ![k] = T[b][k] \cup {f}]]
      BY <2>2
    <3>3. S[b] \in [Keys -> SUBSET Files]
      BY <1>b, <2>1
    <3>4. T[b] = [S[b] EXCEPT ![j] = left] /\ T[b] = [i \in Keys |-> IF i = j THEN left ELSE S[b][i]]
      BY <1>b, <2>1, <3>1, <3>3
    <3>5. [T[b] EXCEPT ![k] = T[b][k] \cup {f}] = row
      <4>1. ASSUME NEW i \in Keys
            PROVE  row[i] = IF i = k THEN T[b][i] \cup {f} ELSE T[b][i]
        <5>1. row[i] = T[b][i] \cup {g \in {f} : i = k}
          BY <3>4
        <5>2. CASE i = k
          BY <5>1, <5>2
        <5>3. CASE i # k
          BY <5>1, <5>3
        <5> QED
          BY <5>2, <5>3
      <4> QED
        BY <3>4, <4>1
    <3> HIDE DEF row
    <3> QED
      BY <1>b, <2>1, <3>1, <3>2, <3>5
  <2> QED
    BY <2>3, ShelvesNext
<1>10. StatesIn(bucket') = StatesIn(bucket) /\ LocksIn(bucket') = LocksIn(bucket)
  <2>1. \A c \in Buckets : /\ bucket'[c].state = bucket[c].state
                           /\ bucket'[c].locked = bucket[c].locked
    BY <1>1, <1>2, <1>b, Resized
  <2> QED
    BY <2>1, BucketsSame
<1>11. /\ StatesIn(bucket)[b] \in {"live", "deleted"} /\ ~LocksIn(bucket)[b]
       /\ StatesIn(bucket)' = StatesIn(bucket) /\ LocksIn(bucket)' = LocksIn(bucket)
  BY <1>1, <1>2, <1>b, <1>10, BucketSeen, ShelvesNext
<1>12. Shelf!Replace(b, j, k, f)
  BY <1>1, <1>3, <1>9, <1>13, <1>11 DEF Shelf!Replace, Shelf!Writable, Shelf!Store
<1> QED
  BY <1>12 DEF b, j

\* A file is linked when some key remembers it.
LEMMA LinkedPast ==
    ASSUME NEW V, V \subseteq Version, NEW f \in Files
    PROVE  Linked(V, f) <=> \E b \in Buckets, k \in Keys : f \in PastIn(V)[b][k]
<1>1. \A b \in Buckets, k \in Keys : f \in PastIn(V)[b][k] <=> \E v \in V : Holds(v, b, k, f)
  BY ShelfFacts
<1>2. \A v \in V : v.bucket \in Buckets /\ v.key \in Keys
  BY DEF Version
<1>3. f # NoFile
  BY StoreAssumption
<1> QED
  BY <1>1, <1>2, <1>3 DEF Linked, Holds

\* What is taken of fs is what Shelves takes of gs.
LEMMA CollectShelved ==
    ASSUME WellKept(versions'), NEW STATE fs, Collect(fs), NEW STATE gs,
           \A f \in Files : ~Linked(versions', f) => (f \in fs <=> f \in gs)
    PROVE  Shelf!Collect(gs)
<1>1. file' = [f \in Files |->
                IF f \in fs /\ ~Linked(versions', f) THEN "deleted" ELSE file[f]]
  BY DEF Collect
<1>2. \A f \in Files : ~Linked(versions', f) <=>
                        \A b \in Buckets, k \in Keys : f \notin PastIn(versions')[b][k]
  BY LinkedPast DEF WellKept
<1> DEFINE L == {f \in Files : f \in fs /\ ~Linked(versions', f)}
           G == {f \in Files : f \in gs /\ \A b \in Buckets, k \in Keys :
                                             f \notin PastIn(versions')[b][k]}
<1>3. L = G
  BY <1>2
<1>4. file' = [f \in Files |-> IF f \in L THEN "deleted" ELSE file[f]]
  BY <1>1
<1>5. [f \in Files |-> IF f \in G THEN "deleted" ELSE file[f]] =
      [f \in Files |-> IF f \in gs /\ \A b \in Buckets, k \in Keys :
                                            f \notin PastIn(versions')[b][k]
                       THEN "deleted" ELSE file[f]]
  OBVIOUS
<1> HIDE DEF L, G
<1> QED
  BY <1>3, <1>4, <1>5, ShelvesNext DEF Shelf!Collect

\* Of the rows that are left the heirs, of one key, become heads.
Raise(rest, heirs, b, k, W) ==
    /\ WellKept(rest) /\ WellKept(W)
    /\ heirs \subseteq rest /\ \A u \in heirs : IsAt(u, b, k)
    /\ W = (rest \ heirs) \cup {[u EXCEPT !.head = TRUE] : u \in heirs}

\* One of the rows left may become the head of its key.
LEMMA RaisedShelved ==
    ASSUME NEW rest, NEW heirs, NEW b, NEW k, NEW W, Raise(rest, heirs, b, k, W)
    PROVE  /\ PastIn(W) = PastIn(rest)
           /\ \A c \in Buckets, j \in Keys : c # b \/ j # k =>
                ShownIn(W)[c][j] = ShownIn(rest)[c][j]
<1> DEFINE Raised(u) == [u EXCEPT !.head = TRUE]
<1>1. \A u \in rest : /\ Raised(u).bucket = u.bucket /\ Raised(u).key = u.key
                      /\ Raised(u).file = u.file
  BY DEF WellKept, Version, Raise
<1>2. W = (rest \ heirs) \cup {Raised(u) : u \in heirs}
  BY DEF Raise
<1> HIDE DEF Raised
<1>3. rest \subseteq Version /\ W \subseteq Version
  BY DEF WellKept, Raise
<1>4. /\ \A x \in W : x \in rest \/ \E u \in rest : x = Raised(u) /\ IsAt(u, b, k)
      /\ \A u \in rest : u \in W \/ (Raised(u) \in W /\ IsAt(u, b, k))
  BY <1>2 DEF Raise
<1>5. ASSUME NEW c \in Buckets, NEW j \in Keys
      PROVE  /\ PastIn(W)[c][j] = PastIn(rest)[c][j]
             /\ c # b \/ j # k => ShownIn(W)[c][j] = ShownIn(rest)[c][j]
  <2>1. /\ \A f : f \in ShownIn(W)[c][j] <=> \E x \in W : x.head /\ Holds(x, c, j, f)
        /\ \A f : f \in PastIn(W)[c][j] <=> \E x \in W : Holds(x, c, j, f)
        /\ \A f : f \in ShownIn(rest)[c][j] <=> \E x \in rest : x.head /\ Holds(x, c, j, f)
        /\ \A f : f \in PastIn(rest)[c][j] <=> \E x \in rest : Holds(x, c, j, f)
    BY <1>3, ShelfFacts
  <2>2. \A f : f \in PastIn(W)[c][j] <=> f \in PastIn(rest)[c][j]
    BY <1>1, <1>4, <2>1 DEF Holds
  <2>3. c # b \/ j # k => \A f : f \in ShownIn(W)[c][j] <=> f \in ShownIn(rest)[c][j]
    BY <1>1, <1>4, <2>1 DEF Holds, IsAt
  <2> QED
    BY <2>2, <2>3
<1>6. PastIn(W) = PastIn(rest)
  <2>1. \A c \in Buckets, j \in Keys : PastIn(W)[c][j] = PastIn(rest)[c][j]
    BY <1>5
  <2>2. /\ PastIn(W) \in [Buckets -> [Keys -> SUBSET Files]]
        /\ PastIn(rest) \in [Buckets -> [Keys -> SUBSET Files]]
    BY ShelvesTyped DEF Raise
  <2> QED
    BY <2>1, <2>2, SameShelves
<1> QED
  BY <1>5, <1>6

\* The heir of a removed head is an earlier version of its key.
LEMMA ForgetShelved ==
    ASSUME Rows, NEW v \in versions, RemoveVersion(v)
    PROVE  Shelf!Forget(v.bucket, v.key)
<1> DEFINE b == v.bucket
           k == v.key
           rest == versions \ {v}
           heirs == IF v.head THEN Newest(OfKey(rest, v.bucket, v.key)) ELSE {}
           left == PastIn(versions')[b][k]
           now == ShownIn(versions')[b][k]
           fs == {v.file}
<1>1. /\ bucket[b].state = "live" /\ ~bucket[b].locked
      /\ Collect(fs) \/ (MayLeave /\ UNCHANGED file)
      /\ bucket' = [bucket EXCEPT ![b].size = bucket[b].size - SizeOf({v})]
      /\ versions' = (rest \ heirs) \cup {[u EXCEPT !.head = TRUE] : u \in heirs}
  BY DEF RemoveVersion, Live
<1>2. /\ WellKept(versions) /\ BucketsTyped /\ WellKept(versions') /\ FilesTyped
      /\ b \in Buckets /\ k \in Keys /\ v.file \in Files \cup {NoFile}
  BY RemoveKept, RowFacts DEF Rows
<1>3. /\ heirs \subseteq rest /\ (\A u \in heirs : IsAt(u, b, k))
      /\ v.head \/ heirs = {}
  BY DEF Newest, OfKey, IsAt
<1>4. Less(versions, v, rest) /\ IsAt(v, b, k) /\ WellKept(rest)
  BY <1>2, SubsetKept DEF Less, IsAt
<1> HIDE DEF b, k, rest, heirs, fs
<1>5. /\ PastIn(versions') = PastIn(rest)
      /\ \A c \in Buckets, j \in Keys : c # b \/ j # k =>
            ShownIn(versions')[c][j] = ShownIn(rest)[c][j]
  <2>1. Raise(rest, heirs, b, k, versions')
    BY <1>1, <1>2, <1>3, <1>4 DEF Raise
  <2> QED
    BY <2>1, RaisedShelved
<1>6. /\ \A c \in Buckets, j \in Keys : c # b \/ j # k =>
            ShownIn(rest)[c][j] = ShownIn(versions)[c][j]
      /\ \/ PastIn(rest)[b][k] = PastIn(versions)[b][k]
         \/ /\ PastIn(rest)[b][k] = PastIn(versions)[b][k] \ {v.file}
            /\ v.file \in PastIn(versions)[b][k]
      /\ ShownIn(rest)[b][k] = IF v.head THEN {} ELSE ShownIn(versions)[b][k]
  BY <1>2, <1>4, RowLess
<1>7. Reshelved(PastIn(versions), PastIn(versions'), b, k, left)
  BY <1>2, <1>4, <1>5, RowGone
<1> HIDE DEF now, left
<1>8. Reshelved(ShownIn(versions), ShownIn(versions'), b, k, now)
  <2>1. now = ShownIn(versions')[b][k]
    BY DEF now
  <2>2. \A c \in Buckets, j \in Keys : c # b \/ j # k =>
            ShownIn(versions')[c][j] = ShownIn(versions)[c][j]
    BY <1>5, <1>6
  <2>3. /\ ShownIn(versions) \in [Buckets -> [Keys -> SUBSET Files]]
        /\ ShownIn(versions') \in [Buckets -> [Keys -> SUBSET Files]]
    BY <1>2, ShelvesTyped
  <2> QED
    BY <1>2, <2>1, <2>2, <2>3, ShelfSet
<1>9. /\ left \in Shelf!Fewer(PastIn(versions)[b][k])
      /\ \/ left = PastIn(versions)[b][k]
         \/ left = PastIn(versions)[b][k] \ {v.file} /\ v.file \in PastIn(versions)[b][k]
  BY <1>5, <1>6 DEF left, Shelf!Fewer
<1>10. now \in {{}} \cup {{f} : f \in left}
  BY <1>2, ShownOne DEF now, left
<1>11. \/ left = PastIn(versions)[b][k]
       \/ ShownIn(versions)[b][k] = PastIn(versions)[b][k] \ left
       \/ now = ShownIn(versions)[b][k]
  <2>1. CASE v.head
    <3>1. ShownIn(versions)[b][k] = OrNone(v.file)
      BY <1>2, <1>4, <2>1, HeadShown
    <3>2. v.file \in PastIn(versions)[b][k] => OrNone(v.file) = {v.file}
      <4>1. PastIn(versions)[b][k] \subseteq Files
        BY <1>2, ShownOne
      <4> QED
        BY <4>1, StoreAssumption DEF OrNone
    <3> QED
      BY <1>9, <3>1, <3>2
  <2>2. CASE ~v.head
    <3>1. heirs = {}
      BY <1>3, <2>2
    <3>2. versions' = rest
      BY <1>1, <3>1
    <3> QED
      BY <1>6, <2>2, <3>2 DEF now
  <2> QED
    BY <2>1, <2>2
<1>12. Shelf!Collect(PastIn(versions)[b][k] \ left) \/ (MayLeave /\ UNCHANGED file)
  <2>0. CASE MayLeave /\ UNCHANGED file
    BY <2>0
  <2> DEFINE gs == PastIn(versions)[b][k] \ left
  <2>1. ASSUME NEW f \in Files, ~Linked(versions', f)
        PROVE  f \in fs <=> f \in gs
    <3>1. f \notin left
      BY <1>2, <2>1, LinkedPast DEF left, WellKept
    <3>2. f = v.file => f \in PastIn(versions)[b][k]
      <4>1. f # NoFile
        BY StoreAssumption
      <4>2. f = v.file => Holds(v, b, k, f)
        BY <1>4, <4>1 DEF Holds, IsAt
      <4> QED
        BY <1>2, <4>2, ShelfFacts DEF WellKept
    <3>3. f \in gs => f = v.file
      BY <1>9
    <3> QED
      BY <3>1, <3>2, <3>3 DEF fs
  <2> HIDE DEF gs
  <2>2. CASE Collect(fs)
    <3>1. Shelf!Collect(gs)
      BY <1>2, <2>1, <2>2, CollectShelved
    <3> QED
      BY <3>1 DEF gs
  <2> QED
    BY <1>1, <2>0, <2>2
<1>13. /\ StatesIn(bucket)[b] = "live" /\ ~LocksIn(bucket)[b]
       /\ StatesIn(bucket)' = StatesIn(bucket) /\ LocksIn(bucket)' = LocksIn(bucket)
  <2>1. \A c \in Buckets : /\ bucket'[c].state = bucket[c].state
                           /\ bucket'[c].locked = bucket[c].locked
    BY <1>1, <1>2, Resized
  <2> QED
    BY <1>1, <1>2, <2>1, BucketsSame, BucketSeen, ShelvesNext
<1>14. /\ ShownIn(versions)' = [ShownIn(versions) EXCEPT ![b][k] = now]
       /\ PastIn(versions)' = [PastIn(versions) EXCEPT ![b][k] = left]
  BY <1>7, <1>8, ShelvesNext DEF Reshelved
<1>15. Shelf!Forget(b, k)
  BY <1>9, <1>10, <1>11, <1>12, <1>13, <1>14 DEF Shelf!Forget, Shelf!Open
<1> QED
  BY <1>15 DEF b, k

\* Of two shelves the second has x in bucket b and is else the first.
Refilled(S, T, b, x) == T = [S EXCEPT ![b] = x]

LEMMA ShelfFilled ==
    ASSUME NEW S, NEW T, S \in [Buckets -> [Keys -> SUBSET Files]],
           T \in [Buckets -> [Keys -> SUBSET Files]],
           NEW b \in Buckets, NEW x \in [Keys -> SUBSET Files],
           \A j \in Keys : T[b][j] = x[j],
           \A c \in Buckets, j \in Keys : c # b => T[c][j] = S[c][j]
    PROVE  Refilled(S, T, b, x)
<1> DEFINE U == [S EXCEPT ![b] = x]
<1>1. U \in [Buckets -> [Keys -> SUBSET Files]]
  OBVIOUS
<1>2. \A c \in Buckets : U[c] = IF c = b THEN x ELSE S[c]
  OBVIOUS
<1> HIDE DEF U
<1>3. \A c \in Buckets, j \in Keys : T[c][j] = U[c][j]
  BY <1>2
<1> QED
  BY <1>1, <1>3, SameShelves DEF U, Refilled

\* The copy shows and remembers what the source shows.
LEMMA SnapshotShelved ==
    ASSUME Rows, NEW b \in Buckets, NEW c \in Buckets, NEW on \in BOOLEAN, Snapshot(b, c, on)
    PROVE  Shelf!Snapshot(b, c, on)
<1> DEFINE V == versions
           W == versions'
           Copy(v) == [v EXCEPT !.bucket = c, !.stamp = 1]
           copies == {Copy(v) : v \in Visible(b)}
           row == [state |-> "live", size |-> SizeOf(copies), locked |-> on \/ bucket[b].locked]
<1>1. /\ bucket[b].state = "live" /\ bucket[c] = NoBucket /\ file' = file
      /\ W = V \cup copies /\ bucket' = [bucket EXCEPT ![c] = row]
  BY DEF Snapshot, Live
<1>2. WellKept(V) /\ WellKept(W) /\ BucketsTyped
  BY SnapshotKept DEF Rows
<1>3. bucket[c].state = "none"
  <2>1. bucket[c] = NoBucket
    BY <1>1
  <2> QED
    BY <2>1 DEF NoBucket
<1>4. \A u \in V : u.bucket # c
  <2>1. \A u \in V : bucket[u.bucket].state # "none"
    BY RowFacts
  <2> QED
    BY <1>3, <2>1
<1>5. ASSUME NEW v \in Visible(b)
      PROVE  /\ v \in V /\ v.bucket = b /\ v.head /\ v.file # NoFile
             /\ Copy(v).bucket = c /\ Copy(v).key = v.key
             /\ Copy(v).file = v.file /\ Copy(v).head
  <2>1. v \in V /\ v.bucket = b /\ v.head /\ v.file # NoFile
    BY DEF Visible, InBucket
  <2>2. v \in Version
    BY <2>1, RowFacts
  <2> QED
    BY <2>1, <2>2 DEF Version
<1>6. /\ StatesIn(bucket') = [StatesIn(bucket) EXCEPT ![c] = "live"]
      /\ LocksIn(bucket') = [LocksIn(bucket) EXCEPT ![c] = on \/ bucket[b].locked]
  <2>1. row.state = "live" /\ row.locked = (on \/ bucket[b].locked)
    OBVIOUS
  <2> HIDE DEF row, copies
  <2>2. bucket'[c] = row /\ \A d \in Buckets : d # c => bucket'[d] = bucket[d]
    BY <1>1, <1>2 DEF BucketsTyped
  <2> QED
    BY <2>1, <2>2 DEF StatesIn, LocksIn
<1>7. \A v \in V : v.bucket = b /\ v.head /\ v.file # NoFile => v \in Visible(b)
  BY DEF Visible, InBucket
<1> HIDE DEF Copy, row
<1>8. /\ \A x \in W : x \in V \/ \E v \in Visible(b) : x = Copy(v)
      /\ \A v \in V : v \in W
      /\ \A v \in Visible(b) : Copy(v) \in W
  BY <1>1
<1>9. V \subseteq Version /\ W \subseteq Version
  BY <1>2 DEF WellKept
<1> HIDE DEF copies, V, W
<1>10. ASSUME NEW d \in Buckets, NEW j \in Keys, d # c
       PROVE  /\ ShownIn(W)[d][j] = ShownIn(V)[d][j]
              /\ PastIn(W)[d][j] = PastIn(V)[d][j]
  <2>1. /\ \A f : f \in ShownIn(W)[d][j] <=> \E x \in W : x.head /\ Holds(x, d, j, f)
        /\ \A f : f \in PastIn(W)[d][j] <=> \E x \in W : Holds(x, d, j, f)
        /\ \A f : f \in ShownIn(V)[d][j] <=> \E x \in V : x.head /\ Holds(x, d, j, f)
        /\ \A f : f \in PastIn(V)[d][j] <=> \E x \in V : Holds(x, d, j, f)
    BY <1>9, ShelfFacts
  <2>2. \A f : f \in ShownIn(W)[d][j] <=> f \in ShownIn(V)[d][j]
    BY <1>5, <1>8, <1>10, <2>1 DEF Holds
  <2>3. \A f : f \in PastIn(W)[d][j] <=> f \in PastIn(V)[d][j]
    BY <1>5, <1>8, <1>10, <2>1 DEF Holds
  <2> QED
    BY <2>2, <2>3
<1>11. ASSUME NEW j \in Keys
       PROVE  /\ ShownIn(W)[c][j] = ShownIn(V)[b][j]
              /\ PastIn(W)[c][j] = ShownIn(V)[b][j]
  <2>1. /\ \A f : f \in ShownIn(W)[c][j] <=> \E x \in W : x.head /\ Holds(x, c, j, f)
        /\ \A f : f \in PastIn(W)[c][j] <=> \E x \in W : Holds(x, c, j, f)
        /\ \A f : f \in ShownIn(V)[b][j] <=> \E x \in V : x.head /\ Holds(x, b, j, f)
    BY <1>9, ShelfFacts
  <2>2. \A f : f \in ShownIn(V)[b][j] => f \in ShownIn(W)[c][j] /\ f \in PastIn(W)[c][j]
    BY <1>5, <1>7, <1>8, <2>1 DEF Holds
  <2>3. \A x \in W : x.bucket = c => \E v \in Visible(b) : x = Copy(v)
    BY <1>4, <1>8
  <2>4. \A f : f \in PastIn(W)[c][j] => f \in ShownIn(V)[b][j]
    BY <1>5, <2>1, <2>3 DEF Holds
  <2>5. \A f : f \in ShownIn(W)[c][j] => f \in ShownIn(V)[b][j]
    BY <2>1, <2>4
  <2> QED
    BY <2>2, <2>4, <2>5
<1>12. /\ ShownIn(V) \in [Buckets -> [Keys -> SUBSET Files]]
       /\ ShownIn(W) \in [Buckets -> [Keys -> SUBSET Files]]
       /\ PastIn(V) \in [Buckets -> [Keys -> SUBSET Files]]
       /\ PastIn(W) \in [Buckets -> [Keys -> SUBSET Files]]
  BY <1>2, ShelvesTyped
<1>13. ShownIn(V)[b] \in [Keys -> SUBSET Files]
  BY <1>12
<1>14. Refilled(ShownIn(V), ShownIn(W), c, ShownIn(V)[b])
  BY <1>10, <1>11, <1>12, <1>13, ShelfFilled
<1>15. Refilled(PastIn(V), PastIn(W), c, ShownIn(V)[b])
  BY <1>10, <1>11, <1>12, <1>13, ShelfFilled
<1> QED
  BY <1>1, <1>3, <1>6, <1>14, <1>15, BucketSeen, ShelvesNext
     DEF Shelf!Snapshot, Refilled, V, W

\* A key the synchronisation does not replace shows the same on both sides, or
\* it is spared.
LEMMA SyncShelved ==
    ASSUME Rows, NEW b \in Buckets, NEW c \in Buckets, NEW on \in BOOLEAN, Sync(b, c, on)
    PROVE  Shelf!Sync(b, c, on)
<1> DEFINE pairs == Replacements(b, c, on)
           new == NewRows(c, pairs)
           V == versions
           W == versions'
           spared == {k \in Keys : ~(Known(b, k) \/ on)}
<1>1. /\ b # c /\ bucket[b].state = "live" /\ bucket[c].state = "live" /\ ~bucket[c].locked
      /\ Create(c, pairs) /\ file' = file
  BY DEF Sync, Live
<1>2. pairs \subseteq Keys \X (Files \cup {NoFile}) /\ OnePerKey(pairs)
  BY SyncPairs
<1>3. \A k \in Keys : Shown(b, k) = ShownIn(V)[b][k] /\ Shown(c, k) = ShownIn(V)[c][k]
  <2> SUFFICES ASSUME NEW d \in Buckets, NEW k \in Keys
               PROVE  Shown(d, k) = ShownIn(V)[d][k]
    OBVIOUS
  <2>1. \A f : f \in ShownIn(V)[d][k] <=> \E v \in V : v.head /\ Holds(v, d, k, f)
    BY ShelfFacts DEF Rows, WellKept
  <2>2. \A f : f \in Shown(d, k) <=> \E v \in V : v.head /\ Holds(v, d, k, f)
    BY DEF Shown, Visible, InBucket, Holds
  <2> QED
    BY <2>1, <2>2
<1>4. \A k \in Keys : \A f : <<k, f>> \in pairs <=>
            \/ f \in ShownIn(V)[b][k] \ ShownIn(V)[c][k]
            \/ /\ f = NoFile /\ ShownIn(V)[b][k] = {} /\ ShownIn(V)[c][k] # {}
               /\ k \notin spared
  <2>1. \A k \in Keys : ShownIn(V)[b][k] \subseteq Files
    BY ShownOne DEF Rows
  <2> QED
    BY <1>3, <2>1 DEF Replacements
<1>5. on => spared = {}
  OBVIOUS
<1> HIDE DEF pairs, spared
<1>6. /\ \A k \in Keys : \A f : <<k, f>> \in pairs => \E n \in new : IsAt(n, c, k) /\ n.file = f
      /\ \A n \in new : n.bucket = c /\ <<n.key, n.file>> \in pairs
  <2>1. \A p \in pairs : p = <<p[1], p[2]>>
    BY <1>2
  <2>2. \A h, g : LET n == NewVersion(c, h, g)
                 IN n.bucket = c /\ n.key = h /\ n.file = g
    BY DEF NewVersion
  <2>3. \A h, g : <<h, g>> \in pairs => NewVersion(c, h, g) \in new
    BY DEF NewRows
  <2>4. ASSUME NEW n \in new
        PROVE  n.bucket = c /\ <<n.key, n.file>> \in pairs
    <3>1. PICK p \in pairs : n = NewVersion(c, p[1], p[2])
      BY DEF NewRows
    <3> QED
      BY <2>1, <2>2, <3>1
  <2> HIDE DEF new
  <2> QED
    BY <2>2, <2>3, <2>4 DEF IsAt
<1>7. /\ CanFollow(V, new) /\ W = WithHeads(V, new)
      /\ \A d \in Buckets : /\ bucket'[d].state = bucket[d].state
                            /\ bucket'[d].locked = bucket[d].locked
  BY <1>1, <1>2, CreateFollows, CreateRows
<1>8. WellKept(V) /\ WellKept(W)
  BY SyncKept DEF Rows
<1> HIDE DEF V, W, new
<1>9. More(V, new, W)
  BY <1>7, <1>8, MoreRows
<1>10. ASSUME NEW d \in Buckets, NEW j \in Keys, d # c
       PROVE  ShownIn(W)[d][j] = ShownIn(V)[d][j] /\ PastIn(W)[d][j] = PastIn(V)[d][j]
  <2>1. \A n \in new : ~IsAt(n, d, j)
    BY <1>6, <1>10 DEF IsAt
  <2> QED
    BY <1>9, <2>1, OthersShelved
<1>11. ASSUME NEW k \in Keys
       PROVE  /\ ShownIn(W)[c][k] = IF ShownIn(V)[b][k] = {} /\ k \in spared
                                    THEN ShownIn(V)[c][k] ELSE ShownIn(V)[b][k]
              /\ PastIn(W)[c][k] = PastIn(V)[c][k] \cup ShownIn(V)[b][k]
  <2>0. /\ ShownIn(V)[b][k] = {} \/ \E f \in Files : ShownIn(V)[b][k] = {f}
        /\ ShownIn(V)[c][k] = {} \/ \E f \in Files : ShownIn(V)[c][k] = {f}
        /\ ShownIn(V)[c][k] \subseteq PastIn(V)[c][k]
    BY <1>8, ShownOne
  <2>1. CASE \E f : <<k, f>> \in pairs
    <3>1. PICK f : <<k, f>> \in pairs
      BY <2>1
    <3>2. PICK n \in new : IsAt(n, c, k) /\ n.file = f
      BY <1>6, <3>1
    <3>3. /\ ShownIn(W)[c][k] = OrNone(f)
          /\ PastIn(W)[c][k] = PastIn(V)[c][k] \cup OrNone(f)
      BY <1>9, <3>2, HeadsShelved
    <3>4. OrNone(f) = ShownIn(V)[b][k] /\ ~(ShownIn(V)[b][k] = {} /\ k \in spared)
      <4>1. CASE f \in ShownIn(V)[b][k]
        BY <2>0, <4>1, StoreAssumption DEF OrNone
      <4>2. CASE f = NoFile /\ ShownIn(V)[b][k] = {} /\ k \notin spared
        BY <4>2 DEF OrNone
      <4> QED
        BY <1>4, <3>1, <4>1, <4>2
    <3> QED
      BY <3>3, <3>4
  <2>2. CASE \A f : <<k, f>> \notin pairs
    <3>1. \A n \in new : ~IsAt(n, c, k)
      BY <1>6, <2>2 DEF IsAt
    <3>2. ShownIn(W)[c][k] = ShownIn(V)[c][k] /\ PastIn(W)[c][k] = PastIn(V)[c][k]
      BY <1>9, <3>1, OthersShelved
    <3>3. ShownIn(V)[b][k] \subseteq ShownIn(V)[c][k]
      BY <1>4, <2>2
    <3>4. ShownIn(V)[b][k] = {} => ShownIn(V)[c][k] = {} \/ k \in spared
      BY <1>4, <2>2
    <3>5. ShownIn(V)[b][k] # {} => ShownIn(V)[b][k] = ShownIn(V)[c][k]
      BY <2>0, <3>3
    <3> QED
      BY <2>0, <3>2, <3>3, <3>4, <3>5
  <2> QED
    BY <2>1, <2>2
<1> DEFINE row == [k \in Keys |-> IF ShownIn(V)[b][k] = {} /\ k \in spared
                                 THEN ShownIn(V)[c][k] ELSE ShownIn(V)[b][k]]
           ever == [k \in Keys |-> PastIn(V)[c][k] \cup ShownIn(V)[b][k]]
<1>12. /\ ShownIn(V) \in [Buckets -> [Keys -> SUBSET Files]]
       /\ ShownIn(W) \in [Buckets -> [Keys -> SUBSET Files]]
       /\ PastIn(V) \in [Buckets -> [Keys -> SUBSET Files]]
       /\ PastIn(W) \in [Buckets -> [Keys -> SUBSET Files]]
  BY <1>8, ShelvesTyped
<1>13. /\ row \in [Keys -> SUBSET Files] /\ ever \in [Keys -> SUBSET Files]
       /\ \A k \in Keys : ShownIn(W)[c][k] = row[k] /\ PastIn(W)[c][k] = ever[k]
  <2>1. \A k \in Keys : /\ ShownIn(V)[b][k] \subseteq Files /\ ShownIn(V)[c][k] \subseteq Files
                        /\ PastIn(V)[c][k] \subseteq Files
    BY <1>12
  <2>2. row \in [Keys -> SUBSET Files] /\ ever \in [Keys -> SUBSET Files]
    BY <2>1
  <2> QED
    BY <1>11, <2>2
<1> HIDE DEF row, ever
<1>14. Refilled(ShownIn(V), ShownIn(W), c, row)
  BY <1>10, <1>12, <1>13, ShelfFilled
<1>15. Refilled(PastIn(V), PastIn(W), c, ever)
  BY <1>10, <1>12, <1>13, ShelfFilled
<1>16. spared \in SUBSET Keys
  BY DEF spared
<1>17. /\ StatesIn(bucket)[b] = "live" /\ StatesIn(bucket)[c] = "live" /\ ~LocksIn(bucket)[c]
       /\ StatesIn(bucket)' = StatesIn(bucket) /\ LocksIn(bucket)' = LocksIn(bucket)
  BY <1>1, <1>7, BucketsSame, BucketSeen, ShelvesNext
<1>18. /\ ShownIn(versions)' = [ShownIn(versions) EXCEPT ![c] = row]
       /\ PastIn(versions)' = [PastIn(versions) EXCEPT ![c] = ever]
  BY <1>14, <1>15, ShelvesNext DEF Refilled, V, W
<1> QED
  BY <1>1, <1>5, <1>16, <1>17, <1>18 DEF Shelf!Sync, Shelf!Open, row, ever, V

LEMMA MarkShelved ==
    ASSUME Rows, NEW b \in Buckets
    PROVE  /\ CreateBucket(b) => Shelf!Create(b)
           /\ DeleteBucket(b) => Shelf!Mark(b)
<1>1. PICK S : bucket \in [Buckets -> BucketRow(S)]
  BY DEF Rows, BucketsTyped
<1>2. ASSUME NEW st \in {"live", "deleted"}, bucket' = [bucket EXCEPT ![b].state = st]
      PROVE  /\ StatesIn(bucket') = [StatesIn(bucket) EXCEPT ![b] = st]
             /\ LocksIn(bucket') = LocksIn(bucket)
  <2>1. bucket' = [c \in Buckets |-> IF c = b THEN [bucket[b] EXCEPT !.state = st] ELSE bucket[c]]
    BY <1>1, <1>2
  <2>2. \A c \in Buckets : /\ bucket'[c].state = IF c = b THEN st ELSE bucket[c].state
                           /\ bucket'[c].locked = bucket[c].locked
    BY <1>1, <2>1 DEF BucketRow
  <2> QED
    BY <2>2 DEF StatesIn, LocksIn
<1>3. ASSUME CreateBucket(b)
      PROVE  Shelf!Create(b)
  <2>1. /\ bucket[b] = NoBucket /\ bucket' = [bucket EXCEPT ![b].state = "live"]
        /\ versions' = versions /\ file' = file
    BY <1>3 DEF CreateBucket
  <2>2. bucket[b].state = "none"
    BY <2>1 DEF NoBucket
  <2> QED
    BY <1>2, <2>1, <2>2, BucketSeen, ShelvesNext DEF Shelf!Create
<1>4. ASSUME DeleteBucket(b)
      PROVE  Shelf!Mark(b)
  <2>1. /\ bucket[b].state = "live" /\ bucket' = [bucket EXCEPT ![b].state = "deleted"]
        /\ versions' = versions /\ file' = file
    BY <1>4 DEF DeleteBucket, Live
  <2> QED
    BY <1>2, <2>1, BucketSeen, ShelvesNext DEF Shelf!Mark
<1> QED
  BY <1>3, <1>4

\* With its rows a bucket forgets everything.
LEMMA ClearShelved ==
    ASSUME Rows, Rows', NEW b \in Buckets, bucket[b].state = "live", RemoveRows(b)
    PROVE  Shelf!Clear(b)
<1> DEFINE V == versions
           W == versions'
<1>1. W = V \ InBucket(b) /\ bucket' = [bucket EXCEPT ![b] = Gone]
  BY DEF RemoveRows
<1>2. WellKept(V) /\ WellKept(W) /\ BucketsTyped
  BY DEF Rows
<1>3. /\ StatesIn(bucket') = [StatesIn(bucket) EXCEPT ![b] = "removed"]
      /\ LocksIn(bucket') = [LocksIn(bucket) EXCEPT ![b] = FALSE]
  <2>1. Gone.state = "removed" /\ Gone.locked = FALSE
    BY DEF Gone
  <2>2. bucket'[b] = Gone /\ \A d \in Buckets : d # b => bucket'[d] = bucket[d]
    BY <1>1, <1>2 DEF BucketsTyped
  <2> QED
    BY <2>1, <2>2 DEF StatesIn, LocksIn
<1>4. \A x : x \in W <=> x \in V /\ x.bucket # b
  BY <1>1 DEF InBucket
<1> HIDE DEF V, W
<1>5. ASSUME NEW d \in Buckets, NEW j \in Keys
      PROVE  /\ d # b => /\ ShownIn(W)[d][j] = ShownIn(V)[d][j]
                         /\ PastIn(W)[d][j] = PastIn(V)[d][j]
             /\ d = b => ShownIn(W)[d][j] = {} /\ PastIn(W)[d][j] = {}
  <2>1. /\ \A f : f \in ShownIn(W)[d][j] <=> \E x \in W : x.head /\ Holds(x, d, j, f)
        /\ \A f : f \in PastIn(W)[d][j] <=> \E x \in W : Holds(x, d, j, f)
        /\ \A f : f \in ShownIn(V)[d][j] <=> \E x \in V : x.head /\ Holds(x, d, j, f)
        /\ \A f : f \in PastIn(V)[d][j] <=> \E x \in V : Holds(x, d, j, f)
    BY <1>2, ShelfFacts DEF WellKept
  <2>2. CASE d # b
    <3>1. \A f : f \in ShownIn(W)[d][j] <=> f \in ShownIn(V)[d][j]
      BY <1>4, <2>1, <2>2 DEF Holds
    <3>2. \A f : f \in PastIn(W)[d][j] <=> f \in PastIn(V)[d][j]
      BY <1>4, <2>1, <2>2 DEF Holds
    <3> QED
      BY <2>2, <3>1, <3>2
  <2>3. CASE d = b
    <3>1. \A f : f \notin ShownIn(W)[d][j] /\ f \notin PastIn(W)[d][j]
      BY <1>4, <2>1, <2>3 DEF Holds
    <3> QED
      BY <2>3, <3>1
  <2> QED
    BY <2>2, <2>3
<1>6. /\ ShownIn(V) \in [Buckets -> [Keys -> SUBSET Files]]
      /\ ShownIn(W) \in [Buckets -> [Keys -> SUBSET Files]]
      /\ PastIn(V) \in [Buckets -> [Keys -> SUBSET Files]]
      /\ PastIn(W) \in [Buckets -> [Keys -> SUBSET Files]]
  BY <1>2, ShelvesTyped
<1>7. Shelf!Empty \in [Keys -> SUBSET Files] /\ \A j \in Keys : Shelf!Empty[j] = {}
  BY DEF Shelf!Empty
<1>8. Refilled(ShownIn(V), ShownIn(W), b, Shelf!Empty)
  BY <1>5, <1>6, <1>7, ShelfFilled
<1>9. Refilled(PastIn(V), PastIn(W), b, Shelf!Empty)
  BY <1>5, <1>6, <1>7, ShelfFilled
<1> QED
  BY <1>3, <1>8, <1>9, BucketSeen, ShelvesNext DEF Shelf!Clear, Refilled, V, W

LEMMA GoneShelved ==
    ASSUME Rows, NEW b \in Buckets
    PROVE  /\ DropBucket(b) => Shelf!Remove(b)
           /\ CancelBucket(b) => Shelf!Cancel(b)
<1>1. ASSUME DropBucket(b)
      PROVE  Shelf!Remove(b)
  <2>1. bucket[b].state = "live" /\ RemoveRows(b) /\ file' = file /\ Rows'
    BY <1>1, GoneKept DEF DropBucket, Live
  <2> QED
    BY <2>1, ClearShelved DEF Shelf!Remove
<1>2. ASSUME CancelBucket(b)
      PROVE  Shelf!Cancel(b)
  <2> DEFINE fs == {v.file : v \in InBucket(b)}
             gs == UNION {PastIn(versions)[b][k] : k \in Keys}
  <2>1. bucket[b].state = "live" /\ ~bucket[b].locked /\ RemoveRows(b) /\ Collect(fs) /\ Rows'
    BY <1>2, GoneKept DEF CancelBucket, Live
  <2>2. \A f \in Files : f \in fs <=> f \in gs
    <3> SUFFICES ASSUME NEW f \in Files
                 PROVE  f \in fs <=> f \in gs
      OBVIOUS
    <3>1. \A k \in Keys : f \in PastIn(versions)[b][k] <=>
                            \E v \in versions : Holds(v, b, k, f)
      BY ShelfFacts DEF Rows, WellKept
    <3>2. f \in gs <=> \E k \in Keys : f \in PastIn(versions)[b][k]
      OBVIOUS
    <3>3. f \in fs <=> \E v \in versions : v.bucket = b /\ v.file = f
      BY DEF InBucket
    <3> HIDE DEF fs, gs
    <3>4. f # NoFile /\ \A v \in versions : v.key \in Keys
      BY RowFacts, StoreAssumption
    <3> QED
      BY <3>1, <3>2, <3>3, <3>4 DEF Holds
  <2>3. Shelf!Clear(b)
    BY <2>1, ClearShelved
  <2> HIDE DEF fs, gs
  <2>4. Shelf!Collect(gs)
    BY <2>1, <2>2, CollectShelved DEF Rows
  <2>5. ~LocksIn(bucket)[b]
    BY <2>1, BucketSeen
  <2> QED
    BY <2>3, <2>4, <2>5 DEF Shelf!Cancel, gs
<1> QED
  BY <1>1, <1>2

LEMMA InitShelved == Init => Shelf!Init
<1> SUFFICES ASSUME Init PROVE Shelf!Init
  OBVIOUS
<1>1. bucket = [b \in Buckets |-> NoBucket] /\ versions = {}
      /\ file = [f \in Files |-> "unused"]
  BY DEF Init
<1>2. /\ StatesIn(bucket) = [b \in Buckets |-> "none"]
      /\ LocksIn(bucket) = [b \in Buckets |-> FALSE]
  BY <1>1 DEF StatesIn, LocksIn, NoBucket
<1>3. \A b \in Buckets, k \in Keys : ShownIn({})[b][k] = {} /\ PastIn({})[b][k] = {}
  BY DEF ShownIn, PastIn, OfKey
<1>4. /\ ShownIn({}) = [b \in Buckets |-> [k \in Keys |-> ShownIn({})[b][k]]]
      /\ PastIn({}) = [b \in Buckets |-> [k \in Keys |-> PastIn({})[b][k]]]
  BY DEF ShownIn, PastIn
<1>5. /\ ShownIn(versions) = [b \in Buckets |-> Shelf!Empty]
      /\ PastIn(versions) = [b \in Buckets |-> Shelf!Empty]
  BY <1>1, <1>3, <1>4 DEF Shelf!Empty
<1> QED
  BY <1>1, <1>2, <1>5 DEF Shelf!Init

LEMMA StepShelved == Rows /\ [Next]_storeVars => [Shelf!Next]_(Shelf!vars)
<1> SUFFICES ASSUME Rows, [Next]_storeVars
             PROVE  [Shelf!Next]_(Shelf!vars)
  OBVIOUS
<1>1. ASSUME NEW b \in Buckets,
             CreateBucket(b) \/ DeleteBucket(b) \/ DropBucket(b) \/ CancelBucket(b)
      PROVE  Shelf!Next
  BY <1>1, MarkShelved, GoneShelved DEF Shelf!Next
<1>2. ASSUME NEW b \in Buckets, NEW k \in Keys,
             DeleteObject(b, k) \/ \E f \in Files : PutObject(b, k, f)
      PROVE  Shelf!Next
  BY <1>2, HideShelved, PutShelved DEF Shelf!Next
<1>3. ASSUME NEW v \in versions,
             \/ RemoveVersion(v) \/ Restore(v) \/ DropObject(v)
             \/ \E k \in Keys, f \in Files : ReplaceObject(v, k, f)
      PROVE  Shelf!Next
  <2>1. v.bucket \in Buckets /\ v.key \in Keys
    BY RowFacts
  <2> QED
    BY <1>3, <2>1, ForgetShelved, RestoreShelved, DropShelved, ReplaceShelved DEF Shelf!Next
<1>4. ASSUME NEW b \in Buckets, NEW c \in Buckets, NEW on \in BOOLEAN,
             Snapshot(b, c, on) \/ Sync(b, c, on)
      PROVE  Shelf!Next
  BY <1>4, SnapshotShelved, SyncShelved DEF Shelf!Next
<1>5. ASSUME UNCHANGED storeVars
      PROVE  UNCHANGED Shelf!vars
  BY <1>5, ShelvesNext DEF storeVars, Shelf!vars
<1> QED
  BY <1>1, <1>2, <1>3, <1>4, <1>5 DEF Next

\* Rows, heads and stamps keep the promise made of buckets and keys: what a key
\* shows, what it remembers, what may come up when a version is removed, and
\* when a file is taken (the methods of ObjectVersion and Bucket).
THEOREM StoreShelves == Spec => ImplementsShelves
<1>1. Rows /\ [Next]_storeVars => [Shelf!Next]_(Shelf!vars)
  BY StepShelved
<1> QED
  BY InitShelved, <1>1, RowsAlways, PTL DEF Spec, ImplementsShelves, Shelf!Spec
=============================================================================
