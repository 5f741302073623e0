---------------------------- MODULE StoreRequests ----------------------------
(***************************************************************************)
(* The requests of invenio-files-rest on ObjectResource, each a database   *)
(* transaction of its own under READ COMMITTED. pass_bucket loads the      *)
(* bucket row into the session; the handler works from that copy, and the  *)
(* attributes it changed are written when it commits: the new size is the  *)
(* copy's size plus a file's, whatever the row holds by then.              *)
(*                                                                         *)
(* The tables are those of ObjectStore.tla, which this module implements   *)
(* while no two requests work on one bucket at a time.                     *)
(***************************************************************************)
EXTENDS ObjectStore

CONSTANTS Workers,
          OnePerBucket  \* whether requests on one bucket come one at a time

ASSUME RequestsAssumption == OnePerBucket \in BOOLEAN

VARIABLE session        \* Workers -> the transaction of the request answered

vars == <<bucket, versions, file, session>>

Idle == [pc |-> "idle"]

Busy(w) == session[w] # Idle
\* No other request has the bucket, when they come one at a time.
Free(b) == OnePerBucket => \A u \in Workers : Busy(u) => session[u].bucket # b

\* seen: the rows the handler has loaded; heirs: the rows a removal makes heads;
\* size: Bucket.size as it was loaded; stamp: the creation time given to the row
\* it adds.
Begin(w, pc, b, k, f, seen) ==
    session' = [session EXCEPT ![w] =
        [pc |-> pc, bucket |-> b, key |-> k, file |-> f, seen |-> seen,
         heirs |-> {}, size |-> bucket[b].size, stamp |-> 0]]

Answer(w) == session' = [session EXCEPT ![w] = Idle]

ReqInit == Init /\ session = [w \in Workers |-> Idle]

-----------------------------------------------------------------------------
Loadable(b) == Live(b) /\ Free(b)

\* create_object, up to its size checks.
LoadPut(w, b, k, f) ==
    /\ ~Busy(w) /\ Loadable(b) /\ ~bucket[b].locked
    /\ FitsQuota(b, f) /\ file[f] = "unused"
    /\ \A u \in Workers : Busy(u) => session[u].file # f
    /\ Begin(w, "create", b, k, f, {})
    /\ UNCHANGED storeVars

\* delete_object without a version, once get_object has found the head.
LoadDelete(w, b, k) ==
    /\ ~Busy(w) /\ Loadable(b) /\ ~bucket[b].locked
    /\ \E v \in Visible(b) : v.key = k
    /\ Begin(w, "create", b, k, NoFile, {})
    /\ UNCHANGED storeVars

\* delete_object with a version.
LoadRemove(w, v) ==
    /\ ~Busy(w) /\ Loadable(v.bucket) /\ ~bucket[v.bucket].locked
    /\ Begin(w, "remove", v.bucket, v.key, v.file, {v})
    /\ UNCHANGED storeVars

\* The creation times other requests have given to rows of the key not yet
\* committed.
Pending(b, k) ==
    {session[u].stamp : u \in {x \in Workers :
        Busy(x) /\ session[x].bucket = b /\ session[x].key = k}}

IsLatest(b, k, n) == IsLater(versions, b, k, n) /\ \A m \in Pending(b, k) : m < n

\* A fault: the stamp is one too early.
NextStampByNone(b, k) == (CHOOSE n \in 1 .. MaxStamp : IsLatest(b, k, n)) - 1

NextStamp(b, k) == CHOOSE n \in 1 .. MaxStamp : IsLatest(b, k, n)

\* ObjectVersion.create: the head is looked up with one_or_none() and the new
\* row is stamped. Two heads: MultipleResultsFound, the request fails.
FindHead(w) ==
    LET s == session[w]
        heads == {v \in OfKey(versions, s.bucket, s.key) : v.head}
    IN /\ Busy(w) /\ s.pc = "create"
       /\ IF Cardinality(heads) > 1
          THEN Answer(w)
          ELSE /\ \E n \in 1 .. MaxStamp : IsLatest(s.bucket, s.key, n)
               /\ session' = [session EXCEPT ![w] =
                    [s EXCEPT !.pc = "commit", !.seen = heads,
                              !.stamp = NextStamp(s.bucket, s.key)]]
       /\ UNCHANGED storeVars

SameRow(u, v) == u.bucket = v.bucket /\ u.key = v.key /\ u.stamp = v.stamp

\* The rows a request has written are locked until it commits, and so is its
\* bucket once a removal has written the size. Has s what t must wait for, before
\* t writes these rows?
Removing(s) == s.pc \in {"drop", "leave"}
Locks(s, t, rows) ==
    \/ /\ s.pc = "commit" \/ Removing(s)
       /\ \E u \in s.seen \cup s.heirs, v \in rows : SameRow(u, v)
    \/ Removing(s) /\ s.bucket = t.bucket /\ s.file # NoFile /\ t.file # NoFile

\* Creations of the same key change its head one after the other, and none while
\* a removal has it.
HasRowLock(w) ==
    /\ \A u \in Workers :
        Busy(u) /\ session[u].pc = "commit" /\ session[u].seen # {}
        /\ session[u].seen = session[w].seen
            => session[w].stamp <= session[u].stamp
    /\ \A u \in Workers :
        Removing(session[u]) => ~Locks(session[u], session[w], session[w].seen)

\* A row the session loaded is still there to be updated: otherwise the
\* commit fails (StaleDataError; the foreign key for a missing bucket).
StillThere(s) ==
    /\ bucket[s.bucket].state \in {"live", "deleted"}
    /\ \A v \in s.seen : \E u \in versions : SameRow(u, v)

CommitCreate(w) ==
    LET s == session[w]
        new == [bucket |-> s.bucket, key |-> s.key, stamp |-> s.stamp,
                file |-> s.file, head |-> TRUE]
    IN /\ Busy(w) /\ s.pc = "commit" /\ HasRowLock(w)
       /\ IF ~StillThere(s) THEN UNCHANGED storeVars
          ELSE /\ versions' = {new} \cup
                    {[u EXCEPT !.head = u.head /\ \A v \in s.seen : ~SameRow(u, v)] :
                        u \in versions}
               /\ IF s.file = NoFile THEN UNCHANGED <<bucket, file>>
                  ELSE /\ bucket' = [bucket EXCEPT ![s.bucket].size =
                                                     s.size + FileSize[s.file]]
                       /\ file' = [file EXCEPT ![s.file] = "stored"]
       /\ Answer(w)

\* The row a removal has loaded, and what is left without it.
Doomed(s) == CHOOSE v \in s.seen : TRUE
Rest(s) == {u \in versions : ~SameRow(u, Doomed(s))}

\* A fault the runs must notice: the rows that link the file are not looked at.
FateByNone(s) == IF s.file = NoFile THEN "leave" ELSE "drop"

\* delete_file_instance: no other row that can be seen links the file. Rows that
\* others have removed and not yet committed can still be seen.
Fate(s) == IF s.file = NoFile \/ Linked(Rest(s), s.file) THEN "leave" ELSE "drop"

\* remove(), the heir of a removed head, the look-up of delete_file_instance and
\* the removal of the file's row, none of it committed. A file that another
\* request has already deleted is not found and the request fails.
FindLinks(w) ==
    LET s == session[w]
        heirs == IF Doomed(s).head THEN Newest(OfKey(Rest(s), s.bucket, s.key)) ELSE {}
    IN /\ Busy(w) /\ s.pc = "remove"
       /\ \A u \in Workers : ~Locks(session[u], s, s.seen \cup heirs)
       /\ IF \/ bucket[s.bucket].state \notin {"live", "deleted"}
             \/ Fate(s) = "drop" /\ file[s.file] # "stored"
          THEN Answer(w)
          ELSE session' = [session EXCEPT ![w] =
                    [s EXCEPT !.pc = Fate(s), !.heirs = heirs]]
       /\ UNCHANGED storeVars

\* What was removed, raised and decided takes effect.
CommitRemove(w) ==
    LET s == session[w]
    IN /\ Busy(w) /\ Removing(s)
       /\ versions' = {[u EXCEPT !.head = u.head \/ \E h \in s.heirs : SameRow(u, h)] :
                            u \in Rest(s)}
       /\ bucket' = [bucket EXCEPT ![s.bucket].size =
                         IF s.file = NoFile THEN @ ELSE s.size - FileSize[s.file]]
       /\ file' = [f \in Files |->
                       IF s.pc = "drop" /\ f = s.file THEN "deleted" ELSE file[f]]
       /\ Answer(w)

-----------------------------------------------------------------------------
\* A bucket waits to be dropped for the requests that have written to it, and
\* no row can be added for a file whose removal is not committed.
Unwritten(b) ==
    \A u \in Workers : Busy(u) /\ session[u].bucket = b =>
        session[u].pc \in {"create", "remove"}
Lasting(b) ==
    \A u \in Workers, v \in Visible(b) :
        session[u].pc = "drop" => v.file # session[u].file

\* What else happens to a bucket, each in one short transaction.
Around ==
    /\ \/ \E b \in Buckets :
            Free(b) /\ (CreateBucket(b) \/ (Unwritten(b) /\ DropBucket(b)))
       \/ \E b, c \in Buckets, lock \in BOOLEAN :
            Free(b) /\ Free(c) /\ Lasting(b) /\ Snapshot(b, c, lock)
    /\ UNCHANGED session

ReqNext ==
    \/ \E w \in Workers :
        \/ \E b \in Buckets, k \in Keys :
            LoadDelete(w, b, k) \/ \E f \in Files : LoadPut(w, b, k, f)
        \/ \E v \in versions : LoadRemove(w, v)
        \/ FindHead(w) \/ CommitCreate(w) \/ FindLinks(w) \/ CommitRemove(w)
    \/ Around

ReqSpec == ReqInit /\ [][ReqNext]_vars

-----------------------------------------------------------------------------
(* Properties                                                              *)

\* A transaction works on one bucket from rows of it.
RequestsTypeOK ==
    /\ StoreTypeOK
    /\ session \in [Workers -> {Idle} \cup
         [pc: {"create", "commit", "remove", "drop", "leave"}, bucket: Buckets,
          key: Keys, file: Files \cup {NoFile}, seen: SUBSET Version,
          heirs: SUBSET Version, size: Int, stamp: 0 .. MaxStamp]]

\* Requests on different buckets are as good as one after the other: the
\* tables change only as ObjectStore says. A file is left without a row when its
\* last two rows are removed together, each removal still seeing the other's
\* (MayLeave).
ImplementsStore == Spec

\* A key with rows keeps a head whatever the requests do, so that a deleted
\* object is a marker and never a key without an answer.
KeyHasHead ==
    \A v \in versions : \E u \in versions :
        u.bucket = v.bucket /\ u.key = v.key /\ u.head
=============================================================================
