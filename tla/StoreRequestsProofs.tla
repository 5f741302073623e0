------------------------ MODULE StoreRequestsProofs ------------------------
(***************************************************************************)
(* While requests on one bucket come one at a time, interleaving them with *)
(* requests on other buckets implements ObjectStore: each commit is one of *)
(* its operations, although it works from what was read before, but a file *)
(* may stay behind its last row (MayLeave, which says no more than which   *)
(* ObjectStore is meant). When they do not, rows keep their bytes and      *)
(* their buckets, and nothing more.                                        *)
(***************************************************************************)
EXTENDS StoreRequests, ObjectStoreProofs

\* The bound on the rows is one no behaviour meets: there is a row for every
\* stamp of every key.
Ample ==
    /\ IsFiniteSet(Buckets) /\ IsFiniteSet(Keys)
    /\ (Cardinality(Buckets) * Cardinality(Keys)) * MaxStamp <= MaxRows

Requests == [pc: {"create", "commit", "remove", "drop", "leave"}, bucket: Buckets,
             key: Keys, file: Files \cup {NoFile}, seen: SUBSET Version,
             heirs: SUBSET Version, size: Int, stamp: 0 .. MaxStamp]

\* A request that is to store file s.file.
Storing(s) == s.pc \in {"create", "commit"} /\ s.file # NoFile

\* The rows, of those of the key of v, that take its place as head.
HeirsOf(V, v) == IF v.head THEN Newest(V \ {v}) ELSE {}

\* What request s has read still holds of buckets B, rows V and files F.
Fresh(s, B, V, F) ==
    /\ B[s.bucket].state = "live" /\ ~B[s.bucket].locked
    /\ s.size = B[s.bucket].size
    /\ Storing(s) => F[s.file] = "unused" /\ FileSize[s.file] <= Quota - s.size
    /\ s.pc \in {"create", "commit"} /\ s.file = NoFile =>
        \E v \in OfKey(V, s.bucket, s.key) : v.head /\ v.file # NoFile
    /\ s.pc = "create" => s.stamp = 0
    /\ s.pc = "commit" =>
        /\ s.seen = {v \in OfKey(V, s.bucket, s.key) : v.head}
        /\ s.stamp \in 1 .. MaxStamp
        /\ IsLater(V, s.bucket, s.key, s.stamp)
        /\ s.stamp = Later(V, s.bucket, s.key)
    /\ s.pc = "remove" \/ Removing(s) =>
        \E v \in OfKey(V, s.bucket, s.key) :
            /\ s.seen = {v} /\ v.file = s.file
            /\ Removing(s) => s.heirs = HeirsOf(OfKey(V, s.bucket, s.key), v)

\* Two requests under way are on different buckets and store different files.
Asunder(s, r) ==
    /\ s.bucket # r.bucket
    /\ Storing(s) /\ Storing(r) => s.file # r.file

Apart ==
    /\ session \in [Workers -> {Idle} \cup Requests]
    /\ \A w \in Workers : Busy(w) => Fresh(session[w], bucket, versions, file)
    /\ \A w, x \in Workers : Busy(w) /\ Busy(x) /\ w # x => Asunder(session[w], session[x])

LEMMA IdleIs == Idle \notin Requests
BY DEF Idle, Requests

-----------------------------------------------------------------------------
(* What holds however the requests interleave, on one bucket too: what      *)
(* they read may be out of date by the time they commit, and heads and      *)
(* sizes go wrong, but no row is left without its bytes or its bucket.      *)

Tables == IsFiniteSet(versions) /\ StoreTypeOK /\ RowsInBuckets /\ LinkedIsStored

\* Request s has its row's stamp when it commits, and its file is unused for as
\* long as s is to store it.
Claim(s, F) ==
    /\ s.pc = "commit" => s.stamp \in 1 .. MaxStamp
    /\ s.file \in Files => (F[s.file] = "unused" <=> Storing(s))

\* The file a removal has decided to remove has no row of V but the removed one.
Sole(s, V) ==
    s.pc = "drop" =>
        /\ s.file \in Files
        /\ \A v \in V : v.file = s.file => SameRow(v, Doomed(s))

Claims ==
    /\ session \in [Workers -> {Idle} \cup Requests]
    /\ \A w \in Workers : Busy(w) => Claim(session[w], file) /\ Sole(session[w], versions)
    /\ \A w, x \in Workers :
        Busy(w) /\ Busy(x) /\ w # x /\ Storing(session[w]) /\ Storing(session[x]) =>
            session[w].file # session[x].file

Standing == Tables /\ Claims

\* A file of F is unused exactly where it was.
SameUse(f) == file'[f] = "unused" <=> file[f] = "unused"

\* Its rows are among those that there were.
SameLinks(f) ==
    \A x \in versions' : x.file = f => \E u \in versions : SameRow(x, u) /\ u.file = f

LEMMA SoleStays ==
    ASSUME NEW s, Sole(s, versions), s.file \in Files => SameLinks(s.file)
    PROVE  Sole(s, versions')
BY DEF Sole, SameLinks, SameRow

LEMMA ClaimsStay ==
    ASSUME Claims, NEW w \in Workers, NEW STATE r, r \in {Idle} \cup Requests,
           session' = [session EXCEPT ![w] = r],
           r # Idle => Claim(r, file') /\ Sole(r, versions'),
           r # Idle /\ Storing(r) => \A x \in Workers :
                x # w /\ Busy(x) /\ Storing(session[x]) => session[x].file # r.file,
           \A x \in Workers : x # w /\ Busy(x) /\ session[x].file \in Files =>
                SameUse(session[x].file) /\ SameLinks(session[x].file)
    PROVE  Claims'
<1>1. session' \in [Workers -> {Idle} \cup Requests]
  BY DEF Claims
<1>2. session'[w] = r /\ \A x \in Workers : x # w => session'[x] = session[x]
  BY DEF Claims
<1>3. \A x \in Workers : Busy(x)' <=> session'[x] # Idle
  BY DEF Busy
<1>4. ASSUME NEW x \in Workers, session'[x] # Idle
      PROVE  Claim(session'[x], file') /\ Sole(session'[x], versions')
  <2>1. CASE x = w
    BY <1>2, <1>4, <2>1
  <2>2. CASE x # w
    <3>1. /\ session'[x] = session[x] /\ Busy(x)
          /\ Claim(session[x], file) /\ Sole(session[x], versions)
      BY <1>2, <1>4, <2>2 DEF Claims, Busy
    <3>2. Sole(session[x], versions')
      BY <2>2, <3>1, SoleStays
    <3> QED
      BY <2>2, <3>1, <3>2 DEF Claim, SameUse
  <2> QED
    BY <2>1, <2>2
<1>5. ASSUME NEW x \in Workers, NEW y \in Workers, session'[x] # Idle, session'[y] # Idle,
             x # y, Storing(session'[x]), Storing(session'[y])
      PROVE  session'[x].file # session'[y].file
  BY <1>2, <1>5 DEF Claims, Busy
<1> QED
  BY <1>1, <1>3, <1>4, <1>5 DEF Claims

LEMMA LoadStanding ==
    ASSUME Standing, NEW w \in Workers, NEW STATE r, r \in Requests,
           session' = [session EXCEPT ![w] = r], UNCHANGED storeVars,
           Claim(r, file), Sole(r, versions),
           Storing(r) => \A x \in Workers :
                x # w /\ Busy(x) /\ Storing(session[x]) => session[x].file # r.file
    PROVE  Standing'
<1>1. bucket' = bucket /\ versions' = versions /\ file' = file
  BY DEF storeVars
<1>2. Tables'
  BY <1>1 DEF Standing, Tables, StoreTypeOK, RowsInBuckets, LinkedIsStored
<1>3. Claim(r, file') /\ Sole(r, versions') /\ \A f : SameUse(f) /\ SameLinks(f)
  BY <1>1 DEF SameUse, SameLinks, SameRow
<1>4. Claims'
  BY <1>3, ClaimsStay DEF Standing
<1> QED
  BY <1>2, <1>4 DEF Standing

LEMMA LoadsStanding ==
    ASSUME Standing, NEW w \in Workers, NEW b \in Buckets, NEW k \in Keys,
           LoadDelete(w, b, k) \/ \E f \in Files : LoadPut(w, b, k, f)
    PROVE  Standing'
<1>1. PICK f \in Files \cup {NoFile} :
        /\ Begin(w, "create", b, k, f, {}) /\ UNCHANGED storeVars
        /\ f # NoFile => /\ file[f] = "unused"
                         /\ \A x \in Workers : Busy(x) => session[x].file # f
  BY StoreAssumption DEF LoadDelete, LoadPut
<1> DEFINE r == [pc |-> "create", bucket |-> b, key |-> k, file |-> f, seen |-> {},
                 heirs |-> {}, size |-> bucket[b].size, stamp |-> 0]
<1>2. bucket[b].size \in Int
  BY DEF Standing, Tables, StoreTypeOK
<1>3. r \in Requests
  BY <1>2, StoreAssumption DEF Requests
<1>4. Claim(r, file) /\ Sole(r, versions)
  BY <1>1, StoreAssumption DEF Claim, Storing, Sole
<1>5. session' = [session EXCEPT ![w] = r]
  BY <1>1 DEF Begin
<1>6. Storing(r) => \A x \in Workers : Busy(x) => session[x].file # r.file
  BY <1>1 DEF Storing
<1> HIDE DEF r
<1> QED
  BY <1>1, <1>3, <1>4, <1>5, <1>6, LoadStanding

LEMMA LoadRemoveStanding ==
    ASSUME Standing, NEW w \in Workers, NEW v \in versions, LoadRemove(w, v)
    PROVE  Standing'
<1> DEFINE r == [pc |-> "remove", bucket |-> v.bucket, key |-> v.key, file |-> v.file,
                 seen |-> {v}, heirs |-> {}, size |-> bucket[v.bucket].size, stamp |-> 0]
<1>1. v \in Version /\ v.bucket \in Buckets /\ v.key \in Keys /\ v.file \in Files \cup {NoFile}
  BY DEF Standing, Tables, StoreTypeOK, Version
<1>2. bucket[v.bucket].size \in Int
  BY <1>1 DEF Standing, Tables, StoreTypeOK
<1>3. r \in Requests
  BY <1>1, <1>2, StoreAssumption DEF Requests
<1>4. v.file \in Files => file[v.file] = "stored"
  BY StoreAssumption DEF Standing, Tables, LinkedIsStored
<1>5. Claim(r, file) /\ Sole(r, versions) /\ ~Storing(r)
  BY <1>4 DEF Claim, Storing, Sole
<1>6. session' = [session EXCEPT ![w] = r] /\ UNCHANGED storeVars
  BY DEF LoadRemove, Begin
<1> HIDE DEF r
<1> QED
  BY <1>3, <1>5, <1>6, LoadStanding

LEMMA FindHeadStanding ==
    ASSUME Standing, NEW w \in Workers, FindHead(w)
    PROVE  Standing'
<1> DEFINE s == session[w]
           heads == {v \in OfKey(versions, s.bucket, s.key) : v.head}
           next == NextStamp(s.bucket, s.key)
           r == [s EXCEPT !.pc = "commit", !.seen = heads, !.stamp = next]
<1>1. Busy(w) /\ s \in Requests /\ s.pc = "create" /\ UNCHANGED storeVars
  BY DEF FindHead, Standing, Claims, Busy
<1>2. Claim(s, file)
  BY <1>1 DEF Standing, Claims
<1>3. CASE Cardinality(heads) > 1
  <2>1. session' = [session EXCEPT ![w] = Idle]
    BY <1>3 DEF FindHead, Answer
  <2>2. bucket' = bucket /\ versions' = versions /\ file' = file
    BY <1>1 DEF storeVars
  <2>3. Tables' /\ \A f : SameUse(f) /\ SameLinks(f)
    BY <2>2 DEF Standing, Tables, StoreTypeOK, RowsInBuckets, LinkedIsStored,
                SameUse, SameLinks, SameRow
  <2> QED
    BY <2>1, <2>3, ClaimsStay DEF Standing
<1>4. CASE ~(Cardinality(heads) > 1)
  <2>1. /\ \E n \in 1 .. MaxStamp : IsLatest(s.bucket, s.key, n)
        /\ session' = [session EXCEPT ![w] = r]
    BY <1>4 DEF FindHead
  <2>2. next \in 1 .. MaxStamp
    BY <2>1 DEF NextStamp
  <2>3. heads \in SUBSET Version /\ next \in 0 .. MaxStamp
    BY <2>2, StoreAssumption DEF OfKey, Standing, Tables, StoreTypeOK
  <2> HIDE DEF heads, next
  <2>4. /\ r \in Requests
        /\ r.pc = "commit" /\ r.file = s.file /\ r.stamp = next
    <3> HIDE DEF s
    <3> QED
      BY <1>1, <2>3 DEF Requests
  <2> HIDE DEF r
  <2>5. Storing(r) <=> Storing(s)
    BY <1>1, <2>4 DEF Storing
  <2>6. Claim(r, file) /\ Sole(r, versions)
    BY <1>2, <2>2, <2>4, <2>5 DEF Claim, Sole
  <2>7. Storing(r) => \A x \in Workers :
            x # w /\ Busy(x) /\ Storing(session[x]) => session[x].file # r.file
    BY <1>1, <2>4, <2>5 DEF Standing, Claims
  <2> QED
    BY <1>1, <2>1, <2>4, <2>6, <2>7, LoadStanding
<1> QED
  BY <1>3, <1>4

\* A bucket whose state, lock and size are written has the columns of one.
LEMMA BucketWritten ==
    ASSUME StoreTypeOK, NEW b \in Buckets, NEW STATE row, row \in BucketRow(Int),
           bucket' = [bucket EXCEPT ![b] = row]
    PROVE  /\ bucket' \in [Buckets -> BucketRow(Int)]
           /\ bucket'[b] = row
           /\ \A c \in Buckets : c # b => bucket'[c] = bucket[c]
BY DEF StoreTypeOK, BucketRow

LEMMA SizeWritten ==
    ASSUME StoreTypeOK, NEW b \in Buckets, NEW n \in Int,
           bucket' = [bucket EXCEPT ![b].size = n]
    PROVE  /\ bucket' \in [Buckets -> BucketRow(Int)]
           /\ \A c \in Buckets : bucket'[c].state = bucket[c].state
<1>1. bucket \in [Buckets -> BucketRow(Int)]
  BY DEF StoreTypeOK, BucketRow
<1> QED
  BY <1>1 DEF BucketRow

LEMMA CommitCreateStanding ==
    ASSUME Standing, NEW w \in Workers, CommitCreate(w)
    PROVE  Standing'
<1> DEFINE s == session[w]
           new == [bucket |-> s.bucket, key |-> s.key, stamp |-> s.stamp,
                   file |-> s.file, head |-> TRUE]
           Kept(u) == [u EXCEPT !.head = u.head /\ \A v \in s.seen : ~SameRow(u, v)]
<1>1. /\ Busy(w) /\ s \in Requests /\ s.pc = "commit" /\ Claim(s, file)
      /\ session' = [session EXCEPT ![w] = Idle]
  BY DEF CommitCreate, Answer, Standing, Claims, Busy
<1>2. /\ s.bucket \in Buckets /\ s.key \in Keys /\ s.file \in Files \cup {NoFile}
      /\ s.stamp \in 1 .. MaxStamp /\ s.size \in Int
  BY <1>1 DEF Requests, Claim
<1>3. CASE ~StillThere(s)
  <2>1. bucket' = bucket /\ versions' = versions /\ file' = file
    BY <1>3 DEF CommitCreate, storeVars
  <2>2. Tables' /\ \A f : SameUse(f) /\ SameLinks(f)
    BY <2>1 DEF Standing, Tables, StoreTypeOK, RowsInBuckets, LinkedIsStored,
                SameUse, SameLinks, SameRow
  <2> QED
    BY <1>1, <2>2, ClaimsStay DEF Standing
<1>4. CASE StillThere(s)
  <2>1. /\ versions' = {new} \cup {Kept(u) : u \in versions}
        /\ s.file = NoFile => UNCHANGED <<bucket, file>>
        /\ s.file # NoFile =>
            /\ bucket' = [bucket EXCEPT ![s.bucket].size = s.size + FileSize[s.file]]
            /\ file' = [file EXCEPT ![s.file] = "stored"]
        /\ bucket[s.bucket].state \in {"live", "deleted"}
    BY <1>4 DEF CommitCreate, StillThere
  <2>2. new \in Version /\ new.bucket = s.bucket /\ new.file = s.file
    BY <1>2 DEF Version
  <2>3. \A u \in versions : /\ Kept(u) \in Version
                            /\ Kept(u).bucket = u.bucket /\ Kept(u).file = u.file
                            /\ SameRow(Kept(u), u)
    <3> SUFFICES ASSUME NEW u \in versions
                 PROVE  /\ Kept(u) \in Version
                        /\ Kept(u).bucket = u.bucket /\ Kept(u).file = u.file
                        /\ SameRow(Kept(u), u)
      OBVIOUS
    <3>1. u \in Version
      BY DEF Standing, Tables, StoreTypeOK
    <3> DEFINE h == u.head /\ \A v \in s.seen : ~SameRow(u, v)
    <3>2. h \in BOOLEAN /\ Kept(u) = [u EXCEPT !.head = h]
      OBVIOUS
    <3> HIDE DEF h, Kept
    <3> QED
      BY <3>1, <3>2 DEF Version, SameRow
  <2>4. IsFiniteSet(versions')
    <3>1. [u \in versions |-> Kept(u)] \in Surjection(versions, {Kept(u) : u \in versions})
      BY DEF Surjection
    <3> HIDE DEF Kept, new
    <3>2. IsFiniteSet({Kept(u) : u \in versions})
      BY <3>1, FS_Surjection DEF Standing, Tables
    <3> QED
      BY <2>1, <3>2, FS_Singleton, FS_Union
  <2> HIDE DEF Kept, new
  <2>5. /\ bucket' \in [Buckets -> BucketRow(Int)]
        /\ \A c \in Buckets : bucket'[c].state = bucket[c].state
    <3>1. CASE s.file = NoFile
      BY <2>1, <3>1 DEF Standing, Tables, StoreTypeOK, BucketRow
    <3>2. CASE s.file # NoFile
      <4>1. s.size + FileSize[s.file] \in Int
        BY <1>2, <3>2, StoreAssumption
      <4> QED
        BY <1>2, <2>1, <3>2, <4>1, SizeWritten DEF Standing, Tables
    <3> QED
      BY <3>1, <3>2
  <2>6. /\ file' \in [Files -> {"unused", "stored", "deleted"}]
        /\ \A f \in Files : f # s.file => file'[f] = file[f]
        /\ s.file # NoFile => file'[s.file] = "stored"
    BY <1>2, <2>1 DEF Standing, Tables, StoreTypeOK
  <2>7. StoreTypeOK'
    <3>1. versions' \subseteq Version
      BY <2>1, <2>2, <2>3
    <3> QED
      BY <2>5, <2>6, <3>1 DEF StoreTypeOK, BucketRow
  <2>8. ASSUME NEW x \in versions'
        PROVE  /\ bucket'[x.bucket].state \in {"live", "deleted"}
               /\ x.file # NoFile => file'[x.file] = "stored"
    <3>1. CASE x = new
      BY <1>2, <2>1, <2>2, <2>5, <2>6, <3>1
    <3>2. CASE x # new
      <4>1. PICK u \in versions : x = Kept(u)
        BY <2>1, <3>2
      <4>2. /\ u.bucket \in Buckets /\ u.file \in Files \cup {NoFile}
            /\ bucket[u.bucket].state \in {"live", "deleted"}
            /\ u.file # NoFile => file[u.file] = "stored"
        BY DEF Standing, Tables, StoreTypeOK, Version, RowsInBuckets, LinkedIsStored
      <4> QED
        BY <2>3, <2>5, <2>6, <4>1, <4>2
    <3> QED
      BY <3>1, <3>2
  <2>9. Tables'
    BY <2>4, <2>7, <2>8 DEF Tables, RowsInBuckets, LinkedIsStored
  <2>10. ASSUME NEW x \in Workers, x # w, Busy(x), session[x].file \in Files
         PROVE  SameUse(session[x].file) /\ SameLinks(session[x].file)
    <3>1. CASE session[x].file # s.file
      BY <2>1, <2>2, <2>3, <2>6, <2>10, <3>1 DEF SameUse, SameLinks
    <3>2. CASE session[x].file = s.file
      <4>1. Storing(s) /\ ~Storing(session[x])
        BY <1>1, <2>10, <3>2, StoreAssumption DEF Storing, Standing, Claims
      <4>2. file[s.file] = "unused" /\ file[s.file] # "unused"
        BY <1>1, <2>10, <3>2, <4>1 DEF Claim, Standing, Claims
      <4> QED
        BY <4>2
    <3> QED
      BY <3>1, <3>2
  <2>11. Claims'
    BY <1>1, <2>10, ClaimsStay DEF Standing
  <2> QED
    BY <2>9, <2>11 DEF Standing
<1> QED
  BY <1>3, <1>4

LEMMA FindLinksStanding ==
    ASSUME Standing, NEW w \in Workers, FindLinks(w)
    PROVE  Standing'
<1> DEFINE s == session[w]
           heirs == IF Doomed(s).head THEN Newest(OfKey(Rest(s), s.bucket, s.key)) ELSE {}
           r == [s EXCEPT !.pc = Fate(s), !.heirs = heirs]
<1>1. /\ Busy(w) /\ s \in Requests /\ s.pc = "remove" /\ UNCHANGED storeVars
      /\ Claim(s, file)
  BY DEF FindLinks, Standing, Claims, Busy
<1>2. CASE session' = [session EXCEPT ![w] = Idle]
  <2>1. bucket' = bucket /\ versions' = versions /\ file' = file
    BY <1>1 DEF storeVars
  <2>2. Tables' /\ \A f : SameUse(f) /\ SameLinks(f)
    BY <2>1 DEF Standing, Tables, StoreTypeOK, RowsInBuckets, LinkedIsStored,
                SameUse, SameLinks, SameRow
  <2> QED
    BY <1>2, <2>2, ClaimsStay DEF Standing
<1>3. CASE session' = [session EXCEPT ![w] = r]
  <2>1. heirs \in SUBSET Version
    BY DEF Newest, OfKey, Rest, Standing, Tables, StoreTypeOK
  <2>2. Fate(s) \in {"drop", "leave"}
    BY DEF Fate
  <2> HIDE DEF heirs
  <2>3. /\ r \in Requests /\ r.pc = Fate(s) /\ r.file = s.file /\ r.seen = s.seen
        /\ r.stamp = s.stamp
    <3> DEFINE p == Fate(s)
    <3>1. p \in {"drop", "leave"}
      BY <2>2
    <3> HIDE DEF s, p
    <3>2. [s EXCEPT !.pc = p, !.heirs = heirs] \in Requests
      BY <1>1, <2>1, <3>1 DEF Requests
    <3>3. /\ [s EXCEPT !.pc = p, !.heirs = heirs].pc = p
          /\ [s EXCEPT !.pc = p, !.heirs = heirs].file = s.file
          /\ [s EXCEPT !.pc = p, !.heirs = heirs].seen = s.seen
          /\ [s EXCEPT !.pc = p, !.heirs = heirs].stamp = s.stamp
      BY <1>1 DEF Requests
    <3> QED
      BY <3>2, <3>3 DEF p
  <2> HIDE DEF r
  <2>4. ~Storing(r) /\ ~Storing(s)
    BY <1>1, <2>2, <2>3 DEF Storing
  <2>5. Claim(r, file)
    BY <1>1, <2>2, <2>3, <2>4 DEF Claim
  <2>6. Sole(r, versions)
    <3>1. SUFFICES ASSUME Fate(s) = "drop"
                   PROVE  /\ s.file \in Files
                          /\ \A v \in versions : v.file = s.file => SameRow(v, Doomed(s))
      BY <2>3 DEF Sole, Doomed
    <3>2. s.file # NoFile /\ ~Linked(Rest(s), s.file)
      BY <3>1 DEF Fate
    <3> QED
      BY <1>1, <3>2 DEF Requests, Linked, Rest
  <2> QED
    BY <1>1, <1>3, <2>3, <2>4, <2>5, <2>6, LoadStanding
<1> QED
  BY <1>2, <1>3 DEF FindLinks, Answer

LEMMA CommitRemoveStanding ==
    ASSUME Standing, NEW w \in Workers, CommitRemove(w)
    PROVE  Standing'
<1> DEFINE s == session[w]
           raised(u) == u.head \/ \E h \in s.heirs : SameRow(u, h)
           Kept(u) == [u EXCEPT !.head = raised(u)]
<1>1. /\ Busy(w) /\ s \in Requests /\ Removing(s) /\ Claim(s, file) /\ Sole(s, versions)
      /\ session' = [session EXCEPT ![w] = Idle]
  BY DEF CommitRemove, Answer, Standing, Claims, Busy
<1>2. s.bucket \in Buckets /\ s.file \in Files \cup {NoFile} /\ s.size \in Int
  BY <1>1 DEF Requests
<1>3. /\ versions' = {Kept(u) : u \in Rest(s)}
      /\ bucket' = [bucket EXCEPT ![s.bucket].size =
                       IF s.file = NoFile THEN @ ELSE s.size - FileSize[s.file]]
      /\ file' = [f \in Files |->
                     IF s.pc = "drop" /\ f = s.file THEN "deleted" ELSE file[f]]
  BY DEF CommitRemove
<1>4. Rest(s) \subseteq versions /\ \A u \in Rest(s) : ~SameRow(u, Doomed(s))
  BY DEF Rest
<1>5. \A u \in versions : /\ Kept(u) \in Version
                          /\ Kept(u).bucket = u.bucket /\ Kept(u).file = u.file
                          /\ SameRow(Kept(u), u)
  <2> SUFFICES ASSUME NEW u \in versions
               PROVE  /\ Kept(u) \in Version
                      /\ Kept(u).bucket = u.bucket /\ Kept(u).file = u.file
                      /\ SameRow(Kept(u), u)
    OBVIOUS
  <2>1. u \in Version
    BY DEF Standing, Tables, StoreTypeOK
  <2> DEFINE h == raised(u)
  <2>2. h \in BOOLEAN /\ Kept(u) = [u EXCEPT !.head = h]
    BY <2>1 DEF Version
  <2> HIDE DEF h, Kept
  <2> QED
    BY <2>1, <2>2 DEF Version, SameRow
<1>6. IsFiniteSet(versions')
  <2>1. IsFiniteSet(Rest(s))
    BY <1>4, FS_Subset DEF Standing, Tables
  <2>2. [u \in Rest(s) |-> Kept(u)] \in Surjection(Rest(s), {Kept(u) : u \in Rest(s)})
    BY DEF Surjection
  <2> HIDE DEF Kept
  <2> QED
    BY <1>3, <2>1, <2>2, FS_Surjection
<1> HIDE DEF Kept
<1>7. \A x \in versions' : /\ x \in Version
                           /\ \E u \in Rest(s) : /\ u \in versions /\ SameRow(x, u)
                                                /\ x.bucket = u.bucket /\ x.file = u.file
  BY <1>3, <1>4, <1>5
<1>8. /\ bucket' \in [Buckets -> BucketRow(Int)]
      /\ \A c \in Buckets : bucket'[c].state = bucket[c].state
  <2> DEFINE n == IF s.file = NoFile THEN bucket[s.bucket].size
                                     ELSE s.size - FileSize[s.file]
  <2>1. n \in Int
    BY <1>2, StoreAssumption DEF Standing, Tables, StoreTypeOK
  <2>2. bucket' = [bucket EXCEPT ![s.bucket].size = n]
    BY <1>3
  <2> HIDE DEF n
  <2> QED
    BY <1>2, <2>1, <2>2, SizeWritten DEF Standing, Tables
<1>9. StoreTypeOK'
  <2>1. file' \in [Files -> {"unused", "stored", "deleted"}]
    BY <1>3 DEF Standing, Tables, StoreTypeOK
  <2> QED
    BY <1>7, <1>8, <2>1 DEF StoreTypeOK, BucketRow
<1>10. ASSUME NEW x \in versions'
       PROVE  /\ bucket'[x.bucket].state \in {"live", "deleted"}
              /\ x.file # NoFile => file'[x.file] = "stored"
  <2>1. PICK u \in Rest(s) : u \in versions /\ x.bucket = u.bucket /\ x.file = u.file
    BY <1>7
  <2>2. /\ u.bucket \in Buckets /\ u.file \in Files \cup {NoFile}
        /\ bucket[u.bucket].state \in {"live", "deleted"}
        /\ u.file # NoFile => file[u.file] = "stored"
    BY <2>1 DEF Standing, Tables, StoreTypeOK, Version, RowsInBuckets, LinkedIsStored
  <2>3. s.pc = "drop" => u.file # s.file
    BY <1>1, <1>4, <2>1 DEF Sole
  <2> QED
    BY <1>3, <1>8, <2>1, <2>2, <2>3
<1>11. Tables'
  BY <1>6, <1>9, <1>10 DEF Tables, RowsInBuckets, LinkedIsStored
<1>12. ASSUME NEW x \in Workers, x # w, Busy(x), session[x].file \in Files
       PROVE  SameUse(session[x].file) /\ SameLinks(session[x].file)
  <2>1. s.file \in Files => file[s.file] # "unused"
    BY <1>1 DEF Claim, Storing, Removing
  <2>2. SameUse(session[x].file)
    BY <1>3, <1>12, <2>1 DEF SameUse
  <2>3. SameLinks(session[x].file)
    BY <1>7 DEF SameLinks
  <2> QED
    BY <2>2, <2>3
<1>13. Claims'
  BY <1>1, <1>12, ClaimsStay DEF Standing
<1> QED
  BY <1>11, <1>13 DEF Standing

\* A bucket is created, dropped or copied while requests are under way.
LEMMA AroundTables ==
    ASSUME Standing, Around
    PROVE  /\ Tables' /\ session' = session /\ file' = file
           /\ \A w \in Workers : session[w].pc = "drop" => SameLinks(session[w].file)
<1>1. session' = session
  BY DEF Around
<1>2. ASSUME NEW b \in Buckets, CreateBucket(b)
      PROVE  Tables' /\ file' = file /\ \A f : SameLinks(f)
  <2>1. /\ bucket \in [Buckets -> BucketRow(Int)]
        /\ bucket' = [bucket EXCEPT ![b].state = "live"]
    BY <1>2 DEF CreateBucket, Standing, Tables, StoreTypeOK, BucketRow
  <2>2. versions' = versions /\ file' = file
    BY <1>2 DEF CreateBucket
  <2>3. /\ bucket' \in [Buckets -> BucketRow(Int)]
        /\ bucket'[b].state = "live" /\ \A c \in Buckets : c # b => bucket'[c] = bucket[c]
    BY <2>1 DEF BucketRow
  <2>4. \A v \in versions : v.bucket \in Buckets
    BY DEF Standing, Tables, StoreTypeOK, Version
  <2>5. \A f : SameLinks(f)
    BY <2>2 DEF SameLinks, SameRow
  <2> QED
    BY <2>2, <2>3, <2>4, <2>5
    DEF Standing, Tables, StoreTypeOK, BucketRow, RowsInBuckets, LinkedIsStored
<1>3. ASSUME NEW b \in Buckets, DropBucket(b)
      PROVE  Tables' /\ file' = file /\ \A f : SameLinks(f)
  <2>1. /\ versions' = versions \ InBucket(b) /\ bucket' = [bucket EXCEPT ![b] = Gone]
        /\ file' = file
    BY <1>3 DEF DropBucket, RemoveRows
  <2>2. /\ bucket' \in [Buckets -> BucketRow(Int)]
        /\ \A c \in Buckets : c # b => bucket'[c] = bucket[c]
    <3>1. Gone \in BucketRow(Int)
      BY DEF Gone, BucketRow
    <3> QED
      BY <2>1, <3>1, BucketWritten DEF Standing, Tables
  <2>3. \A v \in versions' : v \in versions /\ v.bucket # b /\ v.bucket \in Buckets
    BY <2>1 DEF InBucket, Standing, Tables, StoreTypeOK, Version
  <2>4. IsFiniteSet(versions')
    BY <2>1, FS_Subset DEF Standing, Tables
  <2>5. \A f : SameLinks(f)
    BY <2>3 DEF SameLinks, SameRow
  <2> QED
    BY <2>1, <2>2, <2>3, <2>4, <2>5
    DEF Standing, Tables, StoreTypeOK, BucketRow, RowsInBuckets, LinkedIsStored
<1>4. ASSUME NEW b \in Buckets, NEW c \in Buckets, NEW lock \in BOOLEAN,
             Snapshot(b, c, lock), Lasting(b)
      PROVE  /\ Tables' /\ file' = file
             /\ \A w \in Workers : session[w].pc = "drop" => SameLinks(session[w].file)
  <2> DEFINE Copy(v) == [v EXCEPT !.bucket = c, !.stamp = 1]
             copies == {Copy(v) : v \in Visible(b)}
             row == [state |-> "live", size |-> SizeOf(copies), locked |-> lock \/ bucket[b].locked]
  <2>1. /\ versions' = versions \cup copies /\ bucket' = [bucket EXCEPT ![c] = row]
        /\ file' = file
    BY <1>4 DEF Snapshot
  <2>2. ASSUME NEW v \in Visible(b)
        PROVE  /\ v \in versions /\ Copy(v) \in Version
               /\ Copy(v).bucket = c /\ Copy(v).file = v.file
    <3>1. v \in versions /\ v \in Version /\ 1 \in 1 .. MaxStamp
      BY StoreAssumption DEF Visible, InBucket, Standing, Tables, StoreTypeOK
    <3> QED
      BY <3>1 DEF Version
  <2>3. IsFiniteSet(copies)
    <3>1. IsFiniteSet(Visible(b))
      <4>1. Visible(b) \in SUBSET versions
        BY <2>2
      <4> QED
        BY <4>1, FS_Subset DEF Standing, Tables
    <3>2. [v \in Visible(b) |-> Copy(v)] \in Surjection(Visible(b), copies)
      BY DEF Surjection
    <3> HIDE DEF Copy, copies
    <3> QED
      BY <3>1, <3>2, FS_Surjection
  <2> HIDE DEF Copy
  <2>4. copies \subseteq Version
    BY <2>2
  <2>5. \A x \in copies : /\ x.bucket = c
                          /\ \E v \in Visible(b) : v \in versions /\ x.file = v.file
    BY <2>2
  <2> HIDE DEF copies
  <2>6. row \in BucketRow(Int) /\ row.state = "live"
    <3>1. (lock \/ bucket[b].locked) \in BOOLEAN
      OBVIOUS
    <3>2. SizeOf(copies) \in Int
      BY <2>3, <2>4, SizeInt
    <3> QED
      BY <3>1, <3>2 DEF BucketRow
  <2> HIDE DEF row
  <2>7. /\ bucket' \in [Buckets -> BucketRow(Int)] /\ bucket'[c].state = "live"
        /\ \A d \in Buckets : d # c => bucket'[d] = bucket[d]
    BY <2>1, <2>6, BucketWritten DEF Standing, Tables
  <2>8. StoreTypeOK'
    BY <2>1, <2>4, <2>7 DEF Standing, Tables, StoreTypeOK, BucketRow
  <2>9. IsFiniteSet(versions')
    BY <2>1, <2>3, FS_Union DEF Standing, Tables
  <2>10. \A v \in versions : v.bucket \in Buckets
    BY DEF Standing, Tables, StoreTypeOK, Version
  <2>11. ASSUME NEW w \in Workers, session[w].pc = "drop"
         PROVE  SameLinks(session[w].file)
    <3>1. \A x \in copies : x.file # session[w].file
      BY <1>4, <2>5, <2>11 DEF Lasting
    <3> QED
      BY <2>1, <3>1 DEF SameLinks, SameRow
  <2> QED
    BY <2>1, <2>5, <2>7, <2>8, <2>9, <2>10, <2>11
    DEF Standing, Tables, RowsInBuckets, LinkedIsStored
<1> QED
  BY <1>1, <1>2, <1>3, <1>4 DEF Around

LEMMA StepStanding == Standing /\ [ReqNext]_vars => Standing'
<1> SUFFICES ASSUME Standing, [ReqNext]_vars PROVE Standing'
  OBVIOUS
<1>1. CASE UNCHANGED vars
  BY <1>1 DEF vars, Standing, Tables, StoreTypeOK, RowsInBuckets, LinkedIsStored, Claims, Busy
<1>2. ASSUME NEW w \in Workers, NEW b \in Buckets, NEW k \in Keys,
             LoadDelete(w, b, k) \/ \E f \in Files : LoadPut(w, b, k, f)
      PROVE  Standing'
  BY <1>2, LoadsStanding
<1>3. ASSUME NEW w \in Workers, NEW v \in versions, LoadRemove(w, v)
      PROVE  Standing'
  BY <1>3, LoadRemoveStanding
<1>4. ASSUME NEW w \in Workers,
             FindHead(w) \/ CommitCreate(w) \/ FindLinks(w) \/ CommitRemove(w)
      PROVE  Standing'
  BY <1>4, FindHeadStanding, CommitCreateStanding, FindLinksStanding, CommitRemoveStanding
<1>5. CASE Around
  <2>1. /\ Tables' /\ session' = session /\ file' = file
        /\ \A w \in Workers : session[w].pc = "drop" => SameLinks(session[w].file)
    BY <1>5, AroundTables
  <2>2. \A w \in Workers : Busy(w) => Sole(session[w], versions')
    <3> SUFFICES ASSUME NEW w \in Workers, Busy(w) PROVE Sole(session[w], versions')
      OBVIOUS
    <3>1. Sole(session[w], versions)
      BY DEF Standing, Claims
    <3>2. CASE session[w].pc = "drop"
      BY <2>1, <3>1, <3>2, SoleStays
    <3>3. CASE session[w].pc # "drop"
      BY <3>3 DEF Sole
    <3> QED
      BY <3>2, <3>3
  <2>3. Claims'
    BY <2>1, <2>2 DEF Standing, Claims, Busy
  <2> QED
    BY <2>1, <2>3 DEF Standing
<1>6. CASE ReqNext
  BY <1>2, <1>3, <1>4, <1>5, <1>6 DEF ReqNext
<1> QED
  BY <1>1, <1>6

LEMMA InitStanding == ReqInit => Standing
<1> SUFFICES ASSUME ReqInit PROVE Standing
  OBVIOUS
<1>1. Tables
  BY FS_EmptySet
  DEF ReqInit, Init, NoBucket, Tables, StoreTypeOK, RowsInBuckets, LinkedIsStored
<1>2. Claims
  BY DEF ReqInit, Claims, Busy
<1> QED
  BY <1>1, <1>2 DEF Standing

LEMMA StandingAlways == ReqSpec => []Standing
BY InitStanding, StepStanding, PTL DEF ReqSpec

\* Transactions and tables hold values of their columns, however the requests
\* interleave.
THEOREM RequestsTyped == ReqSpec => []RequestsTypeOK
<1>1. Standing => RequestsTypeOK
  BY DEF Standing, Tables, Claims, Requests, RequestsTypeOK
<1> QED
  BY <1>1, StandingAlways, PTL

\* Requests on one bucket at a time or at once, with stale rows and stale sizes:
\* a row that is left always finds its bytes, and its bucket.
THEOREM BytesSurvive == ReqSpec => [](LinkedIsStored /\ RowsInBuckets)
<1>1. Standing => LinkedIsStored /\ RowsInBuckets
  BY DEF Standing, Tables
<1> QED
  BY <1>1, StandingAlways, PTL

-----------------------------------------------------------------------------
(* There is always room for a row.                                         *)

LEMMA RowsBounded ==
    ASSUME Ample, Rows, IsFiniteSet(versions), NEW b \in Buckets, NEW k \in Keys,
           Room(versions, b, k)
    PROVE  Cardinality(versions) + 1 <= MaxRows
<1> DEFINE Stamps == 1 .. MaxStamp
           Places == (Buckets \X Keys) \X Stamps
           free == <<<<b, k>>, Later(versions, b, k)>>
           place == [v \in versions |-> <<<<v.bucket, v.key>>, v.stamp>>]
<1>1. /\ Cardinality(Buckets) \in Nat /\ Cardinality(Keys) \in Nat
      /\ IsFiniteSet(Buckets \X Keys)
      /\ Cardinality(Buckets \X Keys) = Cardinality(Buckets) * Cardinality(Keys)
  BY FS_CardinalityType, FS_Product DEF Ample
<1>2. IsFiniteSet(Stamps) /\ Cardinality(Stamps) = MaxStamp
  BY FS_Interval, StoreAssumption
<1>3. IsFiniteSet(Places) /\ Cardinality(Places) <= MaxRows
  <2> HIDE DEF Stamps
  <2>1. /\ IsFiniteSet(Places)
        /\ Cardinality(Places) = Cardinality(Buckets \X Keys) * Cardinality(Stamps)
    BY <1>1, <1>2, FS_Product
  <2> QED
    BY <1>1, <1>2, <2>1 DEF Ample
<1>4. free \in Places
  BY LaterIsLater
<1>5. \A v \in versions : v \in Version /\ v.stamp \in Int
  BY StoreAssumption DEF Rows, WellKept, Version
<1>6. \A v \in versions : place[v] \in Places
  BY <1>5 DEF Version
<1>7. \A v \in versions : place[v] # free
  <2> SUFFICES ASSUME NEW v \in versions, v.bucket = b, v.key = k,
                      v.stamp = Later(versions, b, k)
               PROVE  FALSE
    OBVIOUS
  <2>1. v.stamp < Later(versions, b, k)
    BY LaterIsLater DEF IsLater, OfKey
  <2> QED
    BY <1>5, <2>1
<1>8. \A u, v \in versions : place[u] = place[v] => u = v
  BY DEF Rows, WellKept, SameKey
<1> DEFINE Taken == Places \ {free}
<1>9. IsFiniteSet(Taken) /\ Cardinality(Taken) = Cardinality(Places) - 1
  <2> HIDE DEF Places, free
  <2> QED
    BY <1>3, <1>4, FS_RemoveElement
<1>10. place \in Injection(versions, Taken)
  <2>1. place \in [versions -> Taken]
    BY <1>6, <1>7
  <2> HIDE DEF place, Taken
  <2> QED
    BY <1>8, <2>1 DEF Injection, IsInjective
<1>11. Cardinality(versions) <= Cardinality(Taken)
  <2> HIDE DEF place, Taken
  <2> QED
    BY <1>9, <1>10, FS_Injection
<1>12. Cardinality(versions) \in Nat /\ Cardinality(Places) \in Nat
  BY <1>3, FS_CardinalityType
<1> HIDE DEF Taken, Places
<1> QED
  BY <1>3, <1>9, <1>11, <1>12, StoreAssumption

-----------------------------------------------------------------------------
(* What a request has read stays true while its bucket is left alone.      *)

LEMMA FreshStays ==
    ASSUME NEW s \in Requests, NEW B, NEW V, NEW F, Fresh(s, B, V, F),
           NEW B2, NEW V2, NEW F2, B2[s.bucket] = B[s.bucket],
           Of(V2, s.bucket) = Of(V, s.bucket),
           Storing(s) => F2[s.file] = F[s.file]
    PROVE  Fresh(s, B2, V2, F2)
<1>1. OfKey(V2, s.bucket, s.key) = OfKey(V, s.bucket, s.key)
  BY DEF Of, OfKey
<1>2. \A n : IsLater(V2, s.bucket, s.key, n) <=> IsLater(V, s.bucket, s.key, n)
  BY <1>1 DEF IsLater
<1>3. Later(V2, s.bucket, s.key) = Later(V, s.bucket, s.key)
  BY <1>2 DEF Later
<1> QED
  BY <1>1, <1>2, <1>3 DEF Fresh

\* The bucket of a request under way, and the file it is to store, are as they
\* were.
Left(s) ==
    /\ bucket'[s.bucket] = bucket[s.bucket]
    /\ Of(versions', s.bucket) = Of(versions, s.bucket)
    /\ Storing(s) => file'[s.file] = file[s.file]

LEMMA OthersApart ==
    ASSUME Apart, NEW w \in Workers, NEW STATE r, r \in {Idle} \cup Requests,
           session' = [session EXCEPT ![w] = r],
           r # Idle => Fresh(r, bucket', versions', file'),
           r # Idle => \A x \in Workers : x # w /\ Busy(x) => Asunder(session[x], r),
           \A x \in Workers : x # w /\ Busy(x) => Left(session[x])
    PROVE  Apart'
<1>1. session \in [Workers -> {Idle} \cup Requests]
  BY DEF Apart
<1>2. session' \in [Workers -> {Idle} \cup Requests]
  BY <1>1
<1>3. session'[w] = r /\ \A x \in Workers : x # w => session'[x] = session[x]
  BY <1>1
<1>4. \A x \in Workers : Busy(x)' <=> session'[x] # Idle
  BY DEF Busy
<1>5. ASSUME NEW x \in Workers, session'[x] # Idle
      PROVE  Fresh(session'[x], bucket', versions', file')
  <2>1. CASE x = w
    BY <1>3, <1>5, <2>1
  <2>2. CASE x # w
    <3>1. session'[x] = session[x] /\ Busy(x) /\ session[x] \in Requests
      BY <1>1, <1>3, <1>5, <2>2 DEF Busy
    <3>2. Fresh(session[x], bucket, versions, file) /\ Left(session[x])
      BY <2>2, <3>1 DEF Apart
    <3> QED
      BY <3>1, <3>2, FreshStays DEF Left
  <2> QED
    BY <2>1, <2>2
<1>6. ASSUME NEW x \in Workers, NEW y \in Workers, session'[x] # Idle, session'[y] # Idle,
             x # y
      PROVE  Asunder(session'[x], session'[y])
  <2>1. CASE x # w /\ y # w
    BY <1>3, <1>6, <2>1 DEF Apart, Busy
  <2>2. CASE x = w
    <3>1. Asunder(session[y], r)
      BY <1>3, <1>6, <2>2 DEF Busy
    <3> QED
      BY <1>3, <1>6, <2>2, <3>1 DEF Asunder
  <2>3. CASE y = w
    BY <1>3, <1>6, <2>3 DEF Busy
  <2> QED
    BY <2>1, <2>2, <2>3
<1> QED
  BY <1>2, <1>4, <1>5, <1>6 DEF Apart

\* A step that leaves every request under way as it is.
LEMMA AllApart ==
    ASSUME Apart, session' = session, \A x \in Workers : Busy(x) => Left(session[x])
    PROVE  Apart'
<1>1. \A x \in Workers : Busy(x)' <=> Busy(x)
  BY DEF Busy
<1>2. ASSUME NEW x \in Workers, Busy(x)
      PROVE  Fresh(session'[x], bucket', versions', file')
  <2>1. session[x] \in Requests /\ Fresh(session[x], bucket, versions, file) /\ Left(session[x])
    BY <1>2 DEF Apart, Busy
  <2> QED
    BY <2>1, FreshStays DEF Left
<1> QED
  BY <1>1, <1>2 DEF Apart

-----------------------------------------------------------------------------
(* What the operations of the store leave alone.                           *)

\* The operations requests come down to, each on one bucket b.
OnBucket(b) ==
    \/ CreateBucket(b) \/ DropBucket(b)
    \/ \E a \in Buckets, on \in BOOLEAN : Snapshot(a, b, on)
    \/ \E k \in Keys : DeleteObject(b, k) \/ \E f \in Files : PutObject(b, k, f)
    \/ \E v \in versions : v.bucket = b /\ RemoveVersion(v)

LEMMA OnBucketNext ==
    ASSUME NEW b \in Buckets, OnBucket(b)
    PROVE  Next
BY DEF OnBucket, Next

LEMMA CreateElsewhere ==
    ASSUME Rows, NEW b \in Buckets, NEW k \in Keys, NEW f \in Files \cup {NoFile},
           Create(b, {<<k, f>>}), NEW d \in Buckets, d # b
    PROVE  bucket'[d] = bucket[d] /\ Of(versions', d) = Of(versions, d)
<1>1. {<<k, f>>} \subseteq Keys \X (Files \cup {NoFile}) /\ OnePerKey({<<k, f>>})
  BY DEF OnePerKey
<1>2. Of(versions', d) = Of(versions, d)
  BY <1>1, CreateRows DEF Of, InBucket
<1>3. bucket' = [bucket EXCEPT ![b].size = bucket[b].size + SizeOf(NewRows(b, {<<k, f>>}))]
  BY <1>1, CreateFollows
<1> QED
  BY <1>2, <1>3 DEF Rows, BucketsTyped

LEMMA RemoveElsewhere ==
    ASSUME Rows, NEW v \in versions, RemoveVersion(v), NEW d \in Buckets, d # v.bucket
    PROVE  bucket'[d] = bucket[d] /\ Of(versions', d) = Of(versions, d)
<1> DEFINE rest == versions \ {v}
           heirs == IF v.head THEN Newest(OfKey(rest, v.bucket, v.key)) ELSE {}
           Raised(u) == [u EXCEPT !.head = TRUE]
<1>1. versions' = (rest \ heirs) \cup {Raised(u) : u \in heirs}
  BY DEF RemoveVersion
<1>2. \A u \in heirs : u \in rest /\ u.bucket = v.bucket
  BY DEF Newest, OfKey
<1>3. \A u \in heirs : Raised(u).bucket = v.bucket
  BY <1>2 DEF Rows, WellKept, Version
<1> HIDE DEF heirs, Raised
<1>4. Of(versions', d) = Of(versions, d)
  BY <1>1, <1>2, <1>3 DEF Of
<1>5. bucket' = [bucket EXCEPT ![v.bucket].size = bucket[v.bucket].size - SizeOf({v})]
  BY DEF RemoveVersion
<1> QED
  BY <1>4, <1>5 DEF Rows, BucketsTyped

LEMMA Elsewhere ==
    ASSUME Rows, NEW b \in Buckets, OnBucket(b), NEW d \in Buckets, d # b
    PROVE  bucket'[d] = bucket[d] /\ Of(versions', d) = Of(versions, d)
<1>1. CASE CreateBucket(b)
  BY <1>1 DEF CreateBucket, Rows, BucketsTyped
<1>2. CASE DropBucket(b)
  <2>1. versions' = versions \ InBucket(b) /\ bucket' = [bucket EXCEPT ![b] = Gone]
    BY <1>2 DEF DropBucket, RemoveRows
  <2> QED
    BY <2>1 DEF Rows, BucketsTyped, Of, InBucket
<1>3. ASSUME NEW a \in Buckets, NEW on \in BOOLEAN, Snapshot(a, b, on)
      PROVE  bucket'[d] = bucket[d] /\ Of(versions', d) = Of(versions, d)
  <2> DEFINE Copy(v) == [v EXCEPT !.bucket = b, !.stamp = 1]
             row == [state |-> "live", size |-> SizeOf({Copy(v) : v \in Visible(a)}),
                     locked |-> on \/ bucket[a].locked]
  <2>1. /\ versions' = versions \cup {Copy(v) : v \in Visible(a)}
        /\ bucket' = [bucket EXCEPT ![b] = row]
    BY <1>3 DEF Snapshot
  <2>2. \A v \in Visible(a) : Copy(v).bucket = b
    BY DEF Visible, InBucket, Rows, WellKept, Version
  <2> HIDE DEF Copy, row
  <2> QED
    BY <2>1, <2>2 DEF Of, Rows, BucketsTyped
<1>4. ASSUME NEW k \in Keys, DeleteObject(b, k) \/ \E f \in Files : PutObject(b, k, f)
      PROVE  bucket'[d] = bucket[d] /\ Of(versions', d) = Of(versions, d)
  <2>1. PICK f \in Files \cup {NoFile} : Create(b, {<<k, f>>})
    BY <1>4 DEF DeleteObject, PutObject
  <2> QED
    BY <2>1, CreateElsewhere
<1>5. ASSUME NEW v \in versions, v.bucket = b, RemoveVersion(v)
      PROVE  bucket'[d] = bucket[d] /\ Of(versions', d) = Of(versions, d)
  BY <1>5, RemoveElsewhere
<1> QED
  BY <1>1, <1>2, <1>3, <1>4, <1>5 DEF OnBucket

-----------------------------------------------------------------------------
(* The commits.                                                            *)

Serving == Sized /\ Apart

LEMMA OneSeen ==
    ASSUME NEW v, NEW S, S = {v}
    PROVE  (CHOOSE x \in S : TRUE) = v
OBVIOUS

\* The row CommitCreate adds is the one ObjectVersion.create adds to what is
\* there, and takes the head of its key.
LEMMA CommitRows ==
    ASSUME Serving, NEW w \in Workers, CommitCreate(w), StillThere(session[w])
    PROVE  LET s == session[w]
               row == NewVersion(s.bucket, s.key, s.file)
           IN /\ s \in Requests /\ Room(versions, s.bucket, s.key)
              /\ row \in Version
              /\ versions' = WithHeads(versions, {row})
<1> DEFINE s == session[w]
           row == NewVersion(s.bucket, s.key, s.file)
           keeps(u) == u.head /\ \A v \in s.seen : ~SameRow(u, v)
           new == [bucket |-> s.bucket, key |-> s.key, stamp |-> s.stamp,
                   file |-> s.file, head |-> TRUE]
<1>1. Busy(w) /\ s \in Requests /\ s.pc = "commit"
  BY DEF CommitCreate, Serving, Apart, Busy
<1>2. /\ s.seen = {v \in OfKey(versions, s.bucket, s.key) : v.head}
      /\ s.stamp \in 1 .. MaxStamp
      /\ IsLater(versions, s.bucket, s.key, s.stamp)
      /\ s.stamp = Later(versions, s.bucket, s.key)
  BY <1>1 DEF Serving, Apart, Fresh
<1>3. new = row
  BY <1>2 DEF NewVersion
<1>4. versions' = {new} \cup {[u EXCEPT !.head = keeps(u)] : u \in versions}
  BY <1>1 DEF CommitCreate
<1>5. row \in Version
  <2>1. s.bucket \in Buckets /\ s.key \in Keys /\ s.file \in Files \cup {NoFile}
    BY <1>1 DEF Requests
  <2>2. new \in Version
    BY <1>2, <2>1 DEF Version
  <2> QED
    BY <1>3, <2>2
<1>6. Room(versions, s.bucket, s.key)
  BY <1>2 DEF Room
<1>7. \A u \in versions : u \in Version /\ u.head \in BOOLEAN
  BY DEF Serving, Sized, Rows, WellKept, Version
<1>8. row.bucket = s.bucket /\ row.key = s.key
  BY DEF NewVersion
<1> HIDE DEF row, new
<1>9. ASSUME NEW u \in versions
      PROVE  [u EXCEPT !.head = keeps(u)] = Stepped(u, {row})
  <2>1. keeps(u) <=> u.head /\ OfKey({row}, u.bucket, u.key) = {}
    <3>1. OfKey({row}, u.bucket, u.key) = {} <=> ~(u.bucket = s.bucket /\ u.key = s.key)
      BY <1>8 DEF OfKey
    <3>2. (\A v \in s.seen : ~SameRow(u, v)) \/ (u.bucket = s.bucket /\ u.key = s.key)
      BY <1>2 DEF SameRow, OfKey
    <3>3. u.head /\ u.bucket = s.bucket /\ u.key = s.key => u \in s.seen /\ SameRow(u, u)
      BY <1>2 DEF SameRow, OfKey
    <3> QED
      BY <3>1, <3>2, <3>3
  <2>2. keeps(u) \in BOOLEAN /\ (u.head /\ OfKey({row}, u.bucket, u.key) = {}) \in BOOLEAN
    BY <1>7
  <2> DEFINE a == keeps(u)
             b == u.head /\ OfKey({row}, u.bucket, u.key) = {}
  <2>3. a = b
    BY <2>1, <2>2
  <2>4. Stepped(u, {row}) = [u EXCEPT !.head = b]
    BY DEF Stepped
  <2> HIDE DEF a, b
  <2>5. [u EXCEPT !.head = a] = Stepped(u, {row})
    BY <2>3, <2>4
  <2> QED
    BY <2>5 DEF a
<1>10. {[u EXCEPT !.head = keeps(u)] : u \in versions} = {Stepped(u, {row}) : u \in versions}
  BY <1>9
<1>11. WithHeads(versions, {row}) = {Stepped(u, {row}) : u \in versions} \cup {row}
  BY WithHeadsRows
<1>12. versions' = WithHeads(versions, {row})
  <2> HIDE DEF keeps
  <2> QED
    BY <1>3, <1>4, <1>10, <1>11
<1> QED
  BY <1>1, <1>5, <1>6, <1>12 DEF row

\* CommitCreate is create_object or the marker of delete_object.
LEMMA CommitCreates ==
    ASSUME Ample, Serving, NEW w \in Workers, CommitCreate(w), StillThere(session[w])
    PROVE  OnBucket(session[w].bucket)
<1> DEFINE s == session[w]
           row == NewVersion(s.bucket, s.key, s.file)
<1>1. /\ s \in Requests /\ Room(versions, s.bucket, s.key) /\ row \in Version
      /\ versions' = WithHeads(versions, {row})
  BY CommitRows
<1>2. Busy(w) /\ s.pc = "commit" /\ Fresh(s, bucket, versions, file)
  BY DEF CommitCreate, Serving, Apart
<1>3. /\ s.bucket \in Buckets /\ s.key \in Keys /\ s.file \in Files \cup {NoFile}
      /\ s.size = bucket[s.bucket].size /\ s.size \in Int
      /\ Live(s.bucket) /\ ~bucket[s.bucket].locked
  BY <1>1, <1>2 DEF Fresh, Requests, Live
<1>4. Cardinality(versions) + Cardinality({<<s.key, s.file>>}) <= MaxRows
  <2>1. Cardinality(versions) + 1 <= MaxRows
    BY <1>1, <1>3, RowsBounded DEF Serving, Sized
  <2>2. Cardinality({<<s.key, s.file>>}) = 1
    BY FS_Singleton
  <2> QED
    BY <2>1, <2>2
<1>5. {NewVersion(s.bucket, p[1], p[2]) : p \in {<<s.key, s.file>>}} = {row}
  OBVIOUS
<1>6. row.file = s.file
  BY DEF NewVersion
<1>7. SizeOf({row}) = IF s.file = NoFile THEN 0 ELSE FileSize[s.file]
  BY <1>1, <1>6, SizeOne
<1>8. bucket' = [bucket EXCEPT ![s.bucket].size = @ + SizeOf({row})]
  <2>1. CASE s.file = NoFile
    <3>1. bucket' = bucket /\ SizeOf({row}) = 0
      BY <1>2, <1>7, <2>1 DEF CommitCreate
    <3>2. bucket[s.bucket].size + 0 = bucket[s.bucket].size
      BY <1>3
    <3>3. bucket = [bucket EXCEPT ![s.bucket].size = @ + 0]
      BY <1>3, <3>2 DEF Serving, Sized, Rows, BucketsTyped, BucketRow
    <3> QED
      BY <3>1, <3>3
  <2>2. CASE s.file # NoFile
    <3>1. bucket' = [bucket EXCEPT ![s.bucket].size = s.size + FileSize[s.file]]
      BY <1>2, <2>2 DEF CommitCreate
    <3>2. SizeOf({row}) = FileSize[s.file]
      BY <1>7, <2>2
    <3> QED
      BY <1>3, <3>1, <3>2
  <2> QED
    BY <2>1, <2>2
<1> HIDE DEF row
<1>9. Create(s.bucket, {<<s.key, s.file>>})
  <2>1. \A p \in {<<s.key, s.file>>} : Room(versions, s.bucket, p[1])
    BY <1>1
  <2> QED
    BY <1>1, <1>4, <1>5, <1>8, <2>1 DEF Create
<1>10. CASE s.file = NoFile
  <2>1. \E v \in Visible(s.bucket) : v.key = s.key
    BY <1>2, <1>10 DEF Fresh, Visible, InBucket, OfKey
  <2>2. UNCHANGED file
    BY <1>2, <1>10 DEF CommitCreate
  <2>3. DeleteObject(s.bucket, s.key)
    BY <1>3, <1>9, <1>10, <2>1, <2>2 DEF DeleteObject
  <2> QED
    BY <1>3, <2>3 DEF OnBucket
<1>11. CASE s.file # NoFile
  <2>1. file[s.file] = "unused" /\ FitsQuota(s.bucket, s.file)
    BY <1>2, <1>3, <1>11 DEF Fresh, Storing, FitsQuota
  <2>2. file' = [file EXCEPT ![s.file] = "stored"]
    BY <1>2, <1>11 DEF CommitCreate
  <2>3. PutObject(s.bucket, s.key, s.file)
    BY <1>3, <1>9, <2>1, <2>2 DEF PutObject
  <2> QED
    BY <1>3, <1>11, <2>3 DEF OnBucket
<1> QED
  BY <1>10, <1>11

\* The row a removal has loaded is there, and what is left is the rest.
LEMMA DoomedRow ==
    ASSUME Serving, NEW w \in Workers, Busy(w),
           session[w].pc = "remove" \/ Removing(session[w])
    PROVE  LET s == session[w]
               v == Doomed(s)
           IN /\ s \in Requests /\ s.seen = {v} /\ v.file = s.file
              /\ v \in versions /\ v.bucket = s.bucket /\ v.key = s.key /\ v \in Version
              /\ Rest(s) = versions \ {v}
              /\ OfKey(Rest(s), s.bucket, s.key) = OfKey(versions, s.bucket, s.key) \ {v}
              /\ Removing(s) => s.heirs = HeirsOf(OfKey(versions, s.bucket, s.key), v)
<1> DEFINE s == session[w]
<1>1. s \in Requests /\ Fresh(s, bucket, versions, file)
  BY DEF Serving, Apart, Busy
<1>2. PICK v \in OfKey(versions, s.bucket, s.key) :
        /\ s.seen = {v} /\ v.file = s.file
        /\ Removing(s) => s.heirs = HeirsOf(OfKey(versions, s.bucket, s.key), v)
  BY <1>1 DEF Fresh
<1>3. v \in versions /\ v.bucket = s.bucket /\ v.key = s.key /\ v \in Version
  BY DEF OfKey, Serving, Sized, Rows, WellKept
<1>4. Doomed(s) = v
  BY <1>2, OneSeen DEF Doomed
<1>5. Rest(s) = versions \ {v}
  BY <1>3, <1>4 DEF Rest, SameRow, Serving, Sized, Rows, WellKept, SameKey
<1>6. OfKey(Rest(s), s.bucket, s.key) = OfKey(versions, s.bucket, s.key) \ {v}
  BY <1>5 DEF OfKey
<1> QED
  BY <1>1, <1>2, <1>3, <1>4, <1>5, <1>6

\* CommitRemove is delete_object with a version, and its file goes or stays.
LEMMA CommitRemoves ==
    ASSUME Serving, Standing, MayLeave, NEW w \in Workers, CommitRemove(w)
    PROVE  OnBucket(session[w].bucket)
<1> DEFINE s == session[w]
           v == Doomed(s)
           rest == versions \ {v}
           heirs == IF v.head THEN Newest(OfKey(rest, v.bucket, v.key)) ELSE {}
           Raised(u) == [u EXCEPT !.head = TRUE]
           raised(u) == u.head \/ \E h \in s.heirs : SameRow(u, h)
           Kept(u) == [u EXCEPT !.head = raised(u)]
<1>1. /\ Busy(w) /\ Removing(s) /\ Fresh(s, bucket, versions, file) /\ Sole(s, versions)
  BY DEF CommitRemove, Serving, Standing, Apart, Claims, Busy
<1>2. /\ s \in Requests /\ v.file = s.file /\ v \in Version
      /\ v \in versions /\ v.bucket = s.bucket /\ v.key = s.key
      /\ Rest(s) = rest /\ s.heirs = heirs
      /\ OfKey(rest, v.bucket, v.key) = OfKey(versions, v.bucket, v.key) \ {v}
  BY <1>1, DoomedRow DEF HeirsOf
<1>3. /\ versions' = {Kept(u) : u \in rest}
      /\ bucket' = [bucket EXCEPT ![s.bucket].size =
                       IF s.file = NoFile THEN @ ELSE s.size - FileSize[s.file]]
      /\ file' = [f \in Files |->
                     IF s.pc = "drop" /\ f = s.file THEN "deleted" ELSE file[f]]
  BY <1>2 DEF CommitRemove
<1>4. SizeOf({v}) = IF s.file = NoFile THEN 0 ELSE FileSize[s.file]
  BY <1>2, SizeOne
<1>5. Live(s.bucket) /\ ~bucket[s.bucket].locked /\ s.size = bucket[s.bucket].size
      /\ s.size \in Int
  BY <1>1, <1>2 DEF Fresh, Live, Requests
<1>6. bucket' = [bucket EXCEPT ![v.bucket].size = @ - SizeOf({v})]
  <2>1. (IF s.file = NoFile THEN bucket[s.bucket].size ELSE s.size - FileSize[s.file])
          = bucket[s.bucket].size - SizeOf({v})
    <3>1. CASE s.file = NoFile
      BY <1>4, <1>5, <3>1
    <3>2. CASE s.file # NoFile
      BY <1>4, <1>5, <3>2
    <3> QED
      BY <3>1, <3>2
  <2> QED
    BY <1>2, <1>3, <2>1
<1>7. heirs \subseteq rest /\ rest \subseteq versions
  BY DEF Newest, OfKey
<1>8. ASSUME NEW u \in rest
      PROVE  Kept(u) = IF u \in heirs THEN Raised(u) ELSE u
  <2>1. u \in Version /\ u.head \in BOOLEAN
    BY DEF Serving, Sized, Rows, WellKept, Version
  <2>2. (\E h \in heirs : SameRow(u, h)) <=> u \in heirs
    BY <1>7 DEF SameRow, Serving, Sized, Rows, WellKept, SameKey
  <2> DEFINE t == raised(u)
  <2>3. t = IF u \in heirs THEN TRUE ELSE u.head
    BY <1>2, <2>1, <2>2
  <2>4. Kept(u) = [u EXCEPT !.head = t]
    OBVIOUS
  <2> HIDE DEF t, Kept, heirs
  <2>5. u.head = t => [u EXCEPT !.head = t] = u
    BY <2>1 DEF Version
  <2> QED
    BY <2>3, <2>4, <2>5
<1> HIDE DEF heirs, Kept
<1>9. versions' = (rest \ heirs) \cup {Raised(u) : u \in heirs}
  <2> HIDE DEF Raised, rest
  <2> QED
    BY <1>3, <1>7, <1>8
<1>10. Collect({v.file}) \/ UNCHANGED file
  <2>1. file \in [Files -> {"unused", "stored", "deleted"}]
    BY DEF Standing, Tables, StoreTypeOK
  <2>2. CASE s.pc # "drop"
    <3>1. file' = [f \in Files |-> file[f]]
      BY <1>3, <2>2
    <3> QED
      BY <2>1, <3>1
  <2>3. CASE s.pc = "drop"
    <3>1. \A x \in rest : x.file # s.file
      BY <1>1, <1>2, <2>3 DEF Sole, Rest
    <3>2. \A u \in versions : Raised(u).file = u.file
      BY DEF Standing, Tables, StoreTypeOK, Version
    <3>3. ~Linked(versions', s.file)
      <4> HIDE DEF Raised, rest
      <4> QED
        BY <1>7, <1>9, <3>1, <3>2 DEF Linked
    <3> QED
      BY <1>2, <1>3, <2>3, <3>3 DEF Collect
  <2> QED
    BY <2>2, <2>3
<1>11. RemoveVersion(v)
  <2> HIDE DEF v
  <2>1. versions' = LET rst == versions \ {v}
                        hrs == IF v.head THEN Newest(OfKey(rst, v.bucket, v.key)) ELSE {}
                    IN  (rst \ hrs) \cup {[u EXCEPT !.head = TRUE] : u \in hrs}
    BY <1>9 DEF heirs
  <2> QED
    BY <1>2, <1>5, <1>6, <1>10, <2>1 DEF RemoveVersion
<1> QED
  BY <1>2, <1>11 DEF OnBucket

-----------------------------------------------------------------------------
(* Requests stay apart.                                                    *)

\* A request that begins on a bucket of its own has read what holds.
LEMMA BeginsApart ==
    ASSUME Serving, NEW w \in Workers, ~Busy(w), NEW STATE r, r \in Requests,
           session' = [session EXCEPT ![w] = r], UNCHANGED storeVars,
           Fresh(r, bucket, versions, file),
           \A x \in Workers : Busy(x) => session[x].bucket # r.bucket,
           Storing(r) => \A x \in Workers : Busy(x) => session[x].file # r.file
    PROVE  Apart'
<1>1. Fresh(r, bucket', versions', file')
  BY DEF storeVars
<1>2. \A x \in Workers : x # w /\ Busy(x) => Asunder(session[x], r)
  BY DEF Asunder
<1>3. \A x \in Workers : Left(session[x])
  BY DEF storeVars, Left
<1>4. Apart
  BY DEF Serving
<1> QED
  BY <1>1, <1>2, <1>3, <1>4, OthersApart

LEMMA LoadPutApart ==
    ASSUME Serving, OnePerBucket, NEW w \in Workers, NEW b \in Buckets, NEW k \in Keys,
           NEW f \in Files, LoadPut(w, b, k, f)
    PROVE  Apart'
<1> DEFINE r == [pc |-> "create", bucket |-> b, key |-> k, file |-> f, seen |-> {},
                 heirs |-> {}, size |-> bucket[b].size, stamp |-> 0]
<1>1. r \in Requests
  BY SizedFacts, StoreAssumption DEF Requests, Serving
<1>2. Fresh(r, bucket, versions, file)
  BY StoreAssumption DEF LoadPut, Loadable, Live, FitsQuota, Fresh, Storing, Removing
<1>3. \A x \in Workers : Busy(x) => session[x].bucket # b /\ session[x].file # f
  BY DEF LoadPut, Loadable, Free
<1>4. /\ ~Busy(w) /\ UNCHANGED storeVars
      /\ session' = [session EXCEPT ![w] = r]
  BY DEF LoadPut, Begin
<1>5. r.bucket = b /\ r.file = f
  OBVIOUS
<1> HIDE DEF r
<1> QED
  BY <1>1, <1>2, <1>3, <1>4, <1>5, BeginsApart

LEMMA LoadDeleteApart ==
    ASSUME Serving, OnePerBucket, NEW w \in Workers, NEW b \in Buckets, NEW k \in Keys,
           LoadDelete(w, b, k)
    PROVE  Apart'
<1> DEFINE r == [pc |-> "create", bucket |-> b, key |-> k, file |-> NoFile, seen |-> {},
                 heirs |-> {}, size |-> bucket[b].size, stamp |-> 0]
<1>1. r \in Requests
  BY SizedFacts, StoreAssumption DEF Requests, Serving
<1>2. Fresh(r, bucket, versions, file) /\ ~Storing(r)
  BY DEF LoadDelete, Loadable, Live, Fresh, Storing, Removing, Visible, InBucket, OfKey
<1>3. \A x \in Workers : Busy(x) => session[x].bucket # b
  BY DEF LoadDelete, Loadable, Free
<1>4. /\ ~Busy(w) /\ UNCHANGED storeVars
      /\ session' = [session EXCEPT ![w] = r]
  BY DEF LoadDelete, Begin
<1>5. r.bucket = b
  OBVIOUS
<1> HIDE DEF r
<1> QED
  BY <1>1, <1>2, <1>3, <1>4, <1>5, BeginsApart

LEMMA LoadRemoveApart ==
    ASSUME Serving, OnePerBucket, NEW w \in Workers, NEW v \in versions, LoadRemove(w, v)
    PROVE  Apart'
<1> DEFINE r == [pc |-> "remove", bucket |-> v.bucket, key |-> v.key, file |-> v.file,
                 seen |-> {v}, heirs |-> {}, size |-> bucket[v.bucket].size, stamp |-> 0]
<1>0. v \in Version /\ v.bucket \in Buckets /\ v.key \in Keys /\ v.file \in Files \cup {NoFile}
  BY RowFacts DEF Serving, Sized
<1>1. r \in Requests
  BY <1>0, SizedFacts, StoreAssumption DEF Requests, Serving
<1>2. Fresh(r, bucket, versions, file) /\ ~Storing(r)
  BY DEF LoadRemove, Loadable, Live, Fresh, Storing, Removing, OfKey
<1>3. \A x \in Workers : Busy(x) => session[x].bucket # v.bucket
  BY DEF LoadRemove, Loadable, Free
<1>4. /\ ~Busy(w) /\ UNCHANGED storeVars
      /\ session' = [session EXCEPT ![w] = r]
  BY DEF LoadRemove, Begin
<1>5. r.bucket = v.bucket
  OBVIOUS
<1> HIDE DEF r
<1> QED
  BY <1>1, <1>2, <1>3, <1>4, <1>5, BeginsApart

LEMMA FindHeadApart ==
    ASSUME Serving, NEW w \in Workers, FindHead(w)
    PROVE  Apart'
<1> DEFINE s == session[w]
           heads == {v \in OfKey(versions, s.bucket, s.key) : v.head}
           next == NextStamp(s.bucket, s.key)
           r == [s EXCEPT !.pc = "commit", !.seen = heads, !.stamp = next]
<1>1. /\ Busy(w) /\ s \in Requests /\ s.pc = "create" /\ Fresh(s, bucket, versions, file)
      /\ UNCHANGED storeVars /\ Apart
  BY DEF FindHead, Serving, Apart, Busy
<1>2. \A x \in Workers : Left(session[x])
  BY <1>1 DEF storeVars, Left
<1>3. CASE Cardinality(heads) > 1
  <2>1. session' = [session EXCEPT ![w] = Idle]
    BY <1>3 DEF FindHead, Answer
  <2> QED
    BY <1>1, <1>2, <2>1, OthersApart
<1>4. CASE ~(Cardinality(heads) > 1)
  <2>1. /\ \E n \in 1 .. MaxStamp : IsLatest(s.bucket, s.key, n)
        /\ session' = [session EXCEPT ![w] = r]
    BY <1>4 DEF FindHead
  <2>2. \A m \in Pending(s.bucket, s.key) : m = 0
    BY <1>1 DEF Pending, Apart, Asunder, Fresh
  <2>3. \A n \in 1 .. MaxStamp :
            IsLatest(s.bucket, s.key, n) <=> IsLater(versions, s.bucket, s.key, n)
    BY <2>2 DEF IsLatest
  <2>4. next = Later(versions, s.bucket, s.key)
    BY <2>3 DEF NextStamp, Later
  <2>5. Room(versions, s.bucket, s.key)
    BY <2>1, <2>3 DEF Room
  <2>6. next \in 1 .. MaxStamp /\ IsLater(versions, s.bucket, s.key, next)
    BY <2>4, <2>5, LaterIsLater
  <2>7. heads \in SUBSET Version
    BY DEF OfKey, Serving, Sized, Rows, WellKept
  <2> HIDE DEF heads, next
  <2>8. /\ r \in Requests
        /\ r.pc = "commit" /\ r.bucket = s.bucket /\ r.key = s.key /\ r.file = s.file
        /\ r.size = s.size /\ r.seen = heads /\ r.stamp = next
    <3>1. next \in 0 .. MaxStamp
      BY <2>6, StoreAssumption
    <3> HIDE DEF s
    <3>2. r \in Requests
      BY <1>1, <2>7, <3>1 DEF Requests
    <3>3. /\ r.pc = "commit" /\ r.bucket = s.bucket /\ r.key = s.key /\ r.file = s.file
          /\ r.size = s.size /\ r.seen = heads /\ r.stamp = next
      BY <1>1 DEF Requests
    <3> QED
      BY <3>2, <3>3
  <2> HIDE DEF r
  <2>9. Storing(r) <=> Storing(s)
    BY <1>1, <2>8 DEF Storing
  <2>10. Fresh(r, bucket, versions, file)
    <3>1. r.seen = {v \in OfKey(versions, r.bucket, r.key) : v.head}
      BY <2>8 DEF heads
    <3>2. /\ r.stamp \in 1 .. MaxStamp
          /\ IsLater(versions, r.bucket, r.key, r.stamp)
          /\ r.stamp = Later(versions, r.bucket, r.key)
      BY <2>4, <2>6, <2>8
    <3> QED
      BY <1>1, <2>8, <2>9, <3>1, <3>2 DEF Fresh, Removing
  <2>11. Fresh(r, bucket', versions', file')
    BY <1>1, <2>10 DEF storeVars
  <2>12. \A x \in Workers : x # w /\ Busy(x) => Asunder(session[x], r)
    BY <1>1, <2>8, <2>9 DEF Apart, Asunder
  <2> QED
    BY <1>1, <1>2, <2>1, <2>8, <2>11, <2>12, OthersApart
<1> QED
  BY <1>3, <1>4

\* A removal that has looked up what links its file still has its row to remove.
LEMMA FindLinksApart ==
    ASSUME Serving, NEW w \in Workers, FindLinks(w)
    PROVE  Apart'
<1> DEFINE s == session[w]
           v == Doomed(s)
           heirs == IF v.head THEN Newest(OfKey(Rest(s), s.bucket, s.key)) ELSE {}
           p == Fate(s)
           r == [s EXCEPT !.pc = p, !.heirs = heirs]
<1>1. /\ Busy(w) /\ s.pc = "remove" /\ Fresh(s, bucket, versions, file)
      /\ UNCHANGED storeVars /\ Apart
  BY DEF FindLinks, Serving, Apart, Busy
<1>2. /\ s \in Requests /\ s.seen = {v} /\ v.file = s.file
      /\ v \in OfKey(versions, s.bucket, s.key) /\ v \in Version
      /\ heirs = HeirsOf(OfKey(versions, s.bucket, s.key), v)
  BY <1>1, DoomedRow DEF HeirsOf, OfKey
<1>3. \A x \in Workers : Left(session[x])
  BY <1>1 DEF storeVars, Left
<1>4. CASE session' = [session EXCEPT ![w] = Idle]
  BY <1>1, <1>3, <1>4, OthersApart
<1>5. CASE session' = [session EXCEPT ![w] = r]
  <2>1. p \in {"drop", "leave"}
    BY DEF Fate
  <2>2. heirs \in SUBSET Version
    BY DEF Newest, OfKey, Rest, Serving, Sized, Rows, WellKept
  <2> HIDE DEF p, v, heirs
  <2>3. /\ r \in Requests
        /\ r.pc = p /\ r.bucket = s.bucket /\ r.key = s.key /\ r.file = s.file
        /\ r.size = s.size /\ r.seen = s.seen /\ r.heirs = heirs
    <3> HIDE DEF s
    <3>1. r \in Requests
      BY <1>2, <2>1, <2>2 DEF Requests
    <3>2. /\ r.pc = p /\ r.bucket = s.bucket /\ r.key = s.key /\ r.file = s.file
          /\ r.size = s.size /\ r.seen = s.seen /\ r.heirs = heirs
      BY <1>2 DEF Requests
    <3> QED
      BY <3>1, <3>2
  <2> HIDE DEF r
  <2>4. ~Storing(r)
    BY <2>1, <2>3 DEF Storing
  <2>5. Fresh(r, bucket, versions, file)
    BY <1>1, <1>2, <2>1, <2>3, <2>4 DEF Fresh
  <2>6. Fresh(r, bucket', versions', file')
    BY <1>1, <2>5 DEF storeVars
  <2>7. \A x \in Workers : x # w /\ Busy(x) => Asunder(session[x], r)
    BY <1>1, <2>3, <2>4 DEF Apart, Asunder
  <2> QED
    BY <1>1, <1>3, <1>5, <2>3, <2>6, <2>7, OthersApart
<1> QED
  BY <1>4, <1>5 DEF FindLinks, Answer

\* A commit is answered and leaves the requests on other buckets as they are.
LEMMA CommitsApart ==
    ASSUME Serving, NEW w \in Workers, Busy(w), session' = [session EXCEPT ![w] = Idle],
           UNCHANGED storeVars \/ OnBucket(session[w].bucket),
           \A x \in Workers : x # w /\ Busy(x) /\ Storing(session[x]) =>
                file'[session[x].file] = file[session[x].file]
    PROVE  Apart'
<1>1. ASSUME NEW x \in Workers, x # w, Busy(x)
      PROVE  Left(session[x])
  <2>1. /\ session[x] \in Requests /\ session[w] \in Requests
        /\ Asunder(session[x], session[w])
    BY <1>1 DEF Serving, Apart, Busy
  <2>2. /\ session[x].bucket \in Buckets /\ session[w].bucket \in Buckets
        /\ session[x].bucket # session[w].bucket
    BY <2>1 DEF Requests, Asunder
  <2>3. CASE UNCHANGED storeVars
    BY <2>3 DEF storeVars, Left
  <2>4. CASE OnBucket(session[w].bucket)
    BY <1>1, <2>2, <2>4, Elsewhere DEF Left, Serving, Sized
  <2> QED
    BY <2>3, <2>4
<1>2. Apart
  BY DEF Serving
<1> QED
  BY <1>1, <1>2, OthersApart

LEMMA CommitCreateApart ==
    ASSUME Serving, Ample, NEW w \in Workers, CommitCreate(w)
    PROVE  /\ Apart'
           /\ UNCHANGED storeVars \/ OnBucket(session[w].bucket)
<1> DEFINE s == session[w]
<1>1. /\ Busy(w) /\ s.pc = "commit" /\ session' = [session EXCEPT ![w] = Idle]
  BY DEF CommitCreate, Answer
<1>2. UNCHANGED storeVars \/ OnBucket(s.bucket)
  <2>1. CASE StillThere(s)
    BY <2>1, CommitCreates
  <2>2. CASE ~StillThere(s)
    BY <2>2 DEF CommitCreate
  <2> QED
    BY <2>1, <2>2
<1>3. ASSUME NEW x \in Workers, x # w, Busy(x), Storing(session[x])
      PROVE  file'[session[x].file] = file[session[x].file]
  <2>1. Storing(s) => session[x].file # s.file
    BY <1>1, <1>3 DEF Serving, Apart, Asunder
  <2>2. file' = file \/ (Storing(s) /\ file' = [file EXCEPT ![s.file] = "stored"])
    BY <1>1 DEF CommitCreate, storeVars, Storing
  <2>3. session[x].file \in Files /\ s.file \in Files \cup {NoFile}
    BY <1>1, <1>3 DEF Serving, Apart, Busy, Requests, Storing
  <2> QED
    BY <2>1, <2>2, <2>3 DEF Serving, Sized, Rows, FilesTyped
<1> QED
  BY <1>1, <1>2, <1>3, CommitsApart

LEMMA CommitRemoveApart ==
    ASSUME Serving, Standing, MayLeave, NEW w \in Workers, CommitRemove(w)
    PROVE  Apart' /\ OnBucket(session[w].bucket)
<1> DEFINE s == session[w]
<1>1. /\ Busy(w) /\ Removing(s) /\ session' = [session EXCEPT ![w] = Idle]
  BY DEF CommitRemove, Answer
<1>2. OnBucket(s.bucket)
  BY CommitRemoves
<1>3. ASSUME NEW x \in Workers, x # w, Busy(x), Storing(session[x])
      PROVE  file'[session[x].file] = file[session[x].file]
  <2>1. session[x].file \in Files /\ file[session[x].file] = "unused"
    BY <1>3 DEF Serving, Apart, Busy, Requests, Storing, Fresh
  <2>2. Doomed(s) \in versions /\ Doomed(s).file = s.file
    BY <1>1, DoomedRow
  <2>3. session[x].file # s.file
    BY <2>1, <2>2, StoreAssumption DEF Serving, Sized, Rows, LinkedIsStored
  <2> QED
    BY <2>1, <2>3 DEF CommitRemove
<1> QED
  BY <1>1, <1>2, <1>3, CommitsApart

LEMMA AroundApart ==
    ASSUME Serving, OnePerBucket, Around
    PROVE  Apart' /\ \E b \in Buckets : OnBucket(b)
<1>1. PICK b \in Buckets : /\ OnBucket(b) /\ UNCHANGED file
                           /\ \A x \in Workers : Busy(x) => session[x].bucket # b
  <2>1. CASE \E b \in Buckets : Free(b) /\ (CreateBucket(b) \/ DropBucket(b))
    BY <2>1 DEF OnBucket, Free, CreateBucket, DropBucket
  <2>2. CASE \E b, c \in Buckets, lock \in BOOLEAN :
                Free(b) /\ Free(c) /\ Snapshot(b, c, lock)
    BY <2>2 DEF OnBucket, Free, Snapshot
  <2> QED
    BY <2>1, <2>2 DEF Around
<1>2. ASSUME NEW x \in Workers, Busy(x)
      PROVE  Left(session[x])
  <2>1. session[x] \in Requests /\ session[x].bucket # b
    BY <1>1, <1>2 DEF Serving, Apart, Busy
  <2>2. session[x].bucket \in Buckets
    BY <2>1 DEF Requests
  <2> QED
    BY <1>1, <2>1, <2>2, Elsewhere DEF Left, Serving, Sized
<1>3. Apart /\ session' = session
  BY DEF Around, Serving
<1> QED
  BY <1>1, <1>2, <1>3, AllApart

\* A step of the requests is one of the store on one bucket, or changes no
\* table.
LEMMA StepApart ==
    ASSUME OnePerBucket, Ample, MayLeave, Serving, Standing, [ReqNext]_vars
    PROVE  /\ Apart'
           /\ UNCHANGED storeVars \/ \E b \in Buckets : OnBucket(b)
<1>1. CASE UNCHANGED vars
  <2>1. \A x \in Workers : Left(session[x])
    BY <1>1 DEF vars, Left
  <2>2. Apart /\ session' = session
    BY <1>1 DEF vars, Serving
  <2> QED
    BY <1>1, <2>1, <2>2, AllApart DEF vars, storeVars
<1>2. ASSUME NEW w \in Workers, NEW b \in Buckets, NEW k \in Keys, LoadDelete(w, b, k)
      PROVE  Apart' /\ UNCHANGED storeVars
  BY <1>2, LoadDeleteApart DEF LoadDelete
<1>3. ASSUME NEW w \in Workers, NEW b \in Buckets, NEW k \in Keys, NEW f \in Files,
             LoadPut(w, b, k, f)
      PROVE  Apart' /\ UNCHANGED storeVars
  BY <1>3, LoadPutApart DEF LoadPut
<1>4. ASSUME NEW w \in Workers, NEW v \in versions, LoadRemove(w, v)
      PROVE  Apart' /\ UNCHANGED storeVars
  BY <1>4, LoadRemoveApart DEF LoadRemove
<1>5. ASSUME NEW w \in Workers, FindHead(w) \/ FindLinks(w)
      PROVE  Apart' /\ UNCHANGED storeVars
  BY <1>5, FindHeadApart, FindLinksApart DEF FindHead, FindLinks
<1>6. ASSUME NEW w \in Workers, CommitCreate(w) \/ CommitRemove(w)
      PROVE  /\ Apart'
             /\ UNCHANGED storeVars \/ \E b \in Buckets : OnBucket(b)
  <2>1. Busy(w) /\ session[w] \in Requests
    BY <1>6 DEF CommitCreate, CommitRemove, Serving, Apart, Busy
  <2>2. session[w].bucket \in Buckets
    BY <2>1 DEF Requests
  <2> QED
    BY <1>6, <2>2, CommitCreateApart, CommitRemoveApart
<1>7. CASE Around
  BY <1>7, AroundApart
<1>8. CASE ReqNext
  BY <1>2, <1>3, <1>4, <1>5, <1>6, <1>7, <1>8 DEF ReqNext
<1> QED
  BY <1>1, <1>8

LEMMA InitServing == ReqInit => Serving
<1> SUFFICES ASSUME ReqInit PROVE Serving
  OBVIOUS
<1>1. Sized
  BY InitSized DEF ReqInit
<1>2. \A w \in Workers : ~Busy(w)
  BY DEF ReqInit, Busy
<1> QED
  BY <1>1, <1>2 DEF ReqInit, Serving, Apart

LEMMA StepServing ==
    ASSUME OnePerBucket, Ample, MayLeave, Serving, Standing, [ReqNext]_vars
    PROVE  Serving' /\ [Next]_storeVars
<1>1. /\ Apart'
      /\ UNCHANGED storeVars \/ \E b \in Buckets : OnBucket(b)
  BY StepApart
<1>2. [Next]_storeVars
  BY <1>1, OnBucketNext
<1>3. Sized'
  BY <1>2, StepSized DEF Serving
<1> QED
  BY <1>1, <1>2, <1>3 DEF Serving

LEMMA ServingAlways ==
    ASSUME OnePerBucket, Ample, MayLeave
    PROVE  ReqSpec => []Serving
<1>1. Serving /\ Standing /\ [ReqNext]_vars => Serving'
  BY StepServing
<1> QED
  BY <1>1, InitServing, StandingAlways, PTL DEF ReqSpec

\* Requests interleaved over several buckets change the tables as the
\* operations of ObjectStore do, one after the other: a removal that has looked
\* up the links of its file and commits later removes the file only if no row
\* links it by then, and leaves it at worst.
THEOREM RequestsImplementStore ==
    ASSUME OnePerBucket, Ample, MayLeave
    PROVE  ReqSpec => ImplementsStore
<1>1. ReqInit => Init
  BY DEF ReqInit
<1>2. Serving /\ Standing /\ [ReqNext]_vars => [Next]_storeVars
  BY StepServing
<1> QED
  BY <1>1, <1>2, ServingAlways, StandingAlways, PTL DEF ReqSpec, ImplementsStore, Spec

\* So what is proved of the store is true of its requests too: one head to a
\* key, and sizes that are the sums of the rows'.
THEOREM RequestsKeepStore ==
    ASSUME OnePerBucket, Ample, MayLeave
    PROVE  ReqSpec => [](AtMostOneHead /\ SizeIsSum)
BY RequestsImplementStore, OneHead, SizesAdd, PTL DEF ImplementsStore

\* And so is the promise made of buckets and keys.
THEOREM RequestsShelve ==
    ASSUME OnePerBucket, Ample, MayLeave
    PROVE  ReqSpec => ImplementsShelves
BY RequestsImplementStore, StoreShelves, PTL DEF ImplementsStore

-----------------------------------------------------------------------------
(* Every key with rows has a head.                                         *)

LEMMA NewestExists ==
    ASSUME NEW V, V \subseteq Version, V # {}
    PROVE  Newest(V) # {}
<1> DEFINE short == {MaxStamp - v.stamp : v \in V}
<1>1. \A v \in V : v.stamp \in 1 .. MaxStamp
  BY DEF Version
<1>2. short \in SUBSET Nat /\ short # {}
  BY <1>1, StoreAssumption
<1>3. PICK m \in short : \A n \in short : m <= n
  BY <1>2, LeastNatural
<1>4. PICK v \in V : m = MaxStamp - v.stamp
  BY <1>3
<1>5. \A u \in V : MaxStamp - v.stamp <= MaxStamp - u.stamp
  BY <1>3, <1>4
<1>6. \A u \in V : u.stamp <= v.stamp
  BY <1>1, <1>5, StoreAssumption
<1> QED
  BY <1>6 DEF Newest

\* Row v has a head among the rows V.
Headed(V, v) == \E u \in V : u.bucket = v.bucket /\ u.key = v.key /\ u.head

LEMMA CreateHeaded ==
    ASSUME Rows, KeyHasHead, NEW b \in Buckets, NEW k \in Keys, NEW f \in Files \cup {NoFile},
           Create(b, {<<k, f>>})
    PROVE  KeyHasHead'
<1> DEFINE new == NewRows(b, {<<k, f>>})
<1>1. {<<k, f>>} \subseteq Keys \X (Files \cup {NoFile}) /\ OnePerKey({<<k, f>>})
  BY DEF OnePerKey
<1>2. versions' = WithHeads(versions, new) /\ \A n \in new : n.head
  BY <1>1, CreateFollows DEF CanFollow
<1> HIDE DEF new
<1>3. versions' = {Stepped(v, new) : v \in versions} \cup new
  BY <1>2, WithHeadsRows
<1>4. ASSUME NEW v \in versions, OfKey(new, v.bucket, v.key) # {}
      PROVE  Headed(versions', v)
  BY <1>2, <1>3, <1>4 DEF OfKey, Headed
<1>5. ASSUME NEW v \in versions, OfKey(new, v.bucket, v.key) = {}
      PROVE  Headed(versions', v)
  <2>1. PICK u \in versions : u.bucket = v.bucket /\ u.key = v.key /\ u.head
    BY DEF KeyHasHead
  <2>2. u \in Version /\ OfKey(new, u.bucket, u.key) = {}
    BY <1>5, <2>1 DEF Rows, WellKept
  <2>3. Stepped(u, new).bucket = u.bucket /\ Stepped(u, new).key = u.key
    BY <2>2, SteppedRow
  <2>4. Stepped(u, new).head
    BY <2>1, <2>2 DEF Stepped, Version
  <2>5. Stepped(u, new) \in versions'
    BY <1>3
  <2> QED
    BY <2>1, <2>3, <2>4, <2>5 DEF Headed
<1>6. ASSUME NEW v \in versions
      PROVE  Headed(versions', Stepped(v, new))
  <2>1. Stepped(v, new).bucket = v.bucket /\ Stepped(v, new).key = v.key
    BY SteppedRow DEF Rows, WellKept
  <2> QED
    BY <1>4, <1>5, <2>1 DEF Headed
<1>7. \A x \in versions' : Headed(versions', x)
  BY <1>2, <1>3, <1>6 DEF Headed
<1> QED
  BY <1>7 DEF KeyHasHead, Headed

LEMMA RemoveHeaded ==
    ASSUME Rows, KeyHasHead, NEW v \in versions, RemoveVersion(v)
    PROVE  KeyHasHead'
<1> DEFINE rest == versions \ {v}
           heirs == IF v.head THEN Newest(OfKey(rest, v.bucket, v.key)) ELSE {}
           Raised(u) == [u EXCEPT !.head = TRUE]
<1>1. versions' = (rest \ heirs) \cup {Raised(u) : u \in heirs}
  BY DEF RemoveVersion
<1>2. \A u \in versions : /\ Raised(u).bucket = u.bucket /\ Raised(u).key = u.key
                          /\ Raised(u).head
  BY DEF Rows, WellKept, Version
<1>3. \A u \in heirs : u \in versions /\ u.bucket = v.bucket /\ u.key = v.key
  BY DEF Newest, OfKey
<1>4. ASSUME NEW y \in rest
      PROVE  Headed(versions', y)
  <2>1. CASE v.head /\ SameKey(y, v)
    <3>1. OfKey(rest, v.bucket, v.key) \subseteq Version /\ OfKey(rest, v.bucket, v.key) # {}
      BY <2>1 DEF Rows, WellKept, OfKey, SameKey
    <3>2. heirs # {}
      BY <2>1, <3>1, NewestExists
    <3> HIDE DEF heirs, Raised
    <3>3. PICK h \in heirs : Raised(h) \in versions'
      BY <1>1, <3>2
    <3> QED
      BY <1>2, <1>3, <2>1, <3>3 DEF Headed, SameKey
  <2>2. CASE ~(v.head /\ SameKey(y, v))
    <3>1. PICK u \in versions : u.bucket = y.bucket /\ u.key = y.key /\ u.head
      BY DEF KeyHasHead
    <3>2. u \in rest
      BY <2>2, <3>1 DEF SameKey
    <3> HIDE DEF heirs, Raised, rest
    <3>3. u \in versions' \/ Raised(u) \in versions'
      BY <1>1, <3>2
    <3> QED
      BY <1>2, <3>1, <3>3 DEF Headed
  <2> QED
    BY <2>1, <2>2
<1>5. \A u \in heirs : u \in rest
  BY DEF Newest, OfKey
<1> HIDE DEF heirs, Raised
<1>6. ASSUME NEW x \in versions'
      PROVE  Headed(versions', x)
  <2>1. CASE x \in rest
    BY <1>4, <2>1
  <2>2. CASE x \notin rest
    <3>1. PICK u \in heirs : x = Raised(u)
      BY <1>1, <2>2
    <3>2. Headed(versions', u) /\ x.bucket = u.bucket /\ x.key = u.key
      BY <1>2, <1>4, <1>5, <3>1
    <3> QED
      BY <3>2 DEF Headed
  <2> QED
    BY <2>1, <2>2
<1> QED
  BY <1>6 DEF KeyHasHead, Headed

LEMMA StepHeaded ==
    ASSUME Rows, KeyHasHead, NEW b \in Buckets, OnBucket(b)
    PROVE  KeyHasHead'
<1>1. CASE CreateBucket(b)
  BY <1>1 DEF CreateBucket, KeyHasHead
<1>2. CASE DropBucket(b)
  <2>1. versions' = versions \ InBucket(b)
    BY <1>2 DEF DropBucket, RemoveRows
  <2> QED
    BY <2>1 DEF InBucket, KeyHasHead
<1>3. ASSUME NEW a \in Buckets, NEW on \in BOOLEAN, Snapshot(a, b, on)
      PROVE  KeyHasHead'
  <2> DEFINE Copy(v) == [v EXCEPT !.bucket = b, !.stamp = 1]
  <2>1. versions' = versions \cup {Copy(v) : v \in Visible(a)}
    BY <1>3 DEF Snapshot
  <2>2. \A v \in Visible(a) : Copy(v).head
    BY DEF Visible, InBucket, Rows, WellKept, Version
  <2> HIDE DEF Copy
  <2> QED
    BY <2>1, <2>2 DEF KeyHasHead
<1>4. ASSUME NEW k \in Keys, DeleteObject(b, k) \/ \E f \in Files : PutObject(b, k, f)
      PROVE  KeyHasHead'
  <2>1. PICK f \in Files \cup {NoFile} : Create(b, {<<k, f>>})
    BY <1>4 DEF DeleteObject, PutObject
  <2> QED
    BY <2>1, CreateHeaded
<1>5. ASSUME NEW v \in versions, RemoveVersion(v)
      PROVE  KeyHasHead'
  BY <1>5, RemoveHeaded
<1> QED
  BY <1>1, <1>2, <1>3, <1>4, <1>5 DEF OnBucket

\* A deleted object is a marker, and the removal of a head makes an heir: no
\* key with rows is left without an answer.
THEOREM HeadsRemain ==
    ASSUME OnePerBucket, Ample, MayLeave
    PROVE  ReqSpec => []KeyHasHead
<1>1. ReqInit => KeyHasHead
  BY DEF ReqInit, Init, KeyHasHead
<1>2. Serving /\ Standing /\ KeyHasHead /\ [ReqNext]_vars => KeyHasHead'
  <2> SUFFICES ASSUME Serving, Standing, KeyHasHead, [ReqNext]_vars PROVE KeyHasHead'
    OBVIOUS
  <2>1. UNCHANGED storeVars \/ \E b \in Buckets : OnBucket(b)
    BY StepApart
  <2>2. CASE UNCHANGED storeVars
    BY <2>2 DEF storeVars, KeyHasHead
  <2>3. CASE \E b \in Buckets : OnBucket(b)
    BY <2>3, StepHeaded DEF Serving, Sized
  <2> QED
    BY <2>1, <2>2, <2>3
<1> QED
  BY <1>1, <1>2, ServingAlways, StandingAlways, PTL DEF ReqSpec
=============================================================================
