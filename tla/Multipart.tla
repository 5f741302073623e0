------------------------------ MODULE Multipart ------------------------------
(***************************************************************************)
(* Uploads in parts of invenio-files-rest: the rows files_multipartobject  *)
(* (upload), files_multipartobject_part (parts), files_files (file), the   *)
(* bytes on disk (disk, data), and the tasks that end an upload: a         *)
(* completed one is merged into the bucket by merge_multipartobject, the   *)
(* file of an aborted one is removed by remove_file_data.                  *)
(*                                                                         *)
(* A request reads its upload, may wait on its client or on the disk, and  *)
(* commits; what it has read is in req. Every upload is of size 1, in one  *)
(* bucket of one location, whose size columns change as if by increments   *)
(* (StoreRequests.tla is about the increments that are lost).              *)
(***************************************************************************)
EXTENDS Integers, FiniteSets, FiniteSetsExt

CONSTANTS Uploads,
          LastPart,     \* MultipartObject.last_part_number
          Workers,
          Quota,        \* quota_size of the bucket, in uploads
          Overlap,      \* whether requests on one upload may overlap
          MaxFaults     \* bound: crashes and broken connections in a behaviour

ASSUME MultipartAssumption ==
    /\ IsFiniteSet(Uploads)
    /\ LastPart \in Nat /\ Quota \in Nat \ {0}
    /\ Overlap \in BOOLEAN /\ MaxFaults \in Nat

VARIABLES upload,       \* Uploads -> "none", "open", "completed" or "gone"
          parts,        \* Uploads -> the part numbers that have a row
          data,         \* Uploads -> part number -> "blank", "torn" or "whole"
          file,         \* Uploads -> "none", "writable", "readable" or "gone"
          disk,         \* the uploads whose file is on disk
          objects,      \* Uploads -> the object versions made of it
          bucketSize, locationSize,
          req,          \* Workers -> the request being answered
          tasks,        \* the tasks posted and not yet done
          faults

rows == <<upload, parts, file, objects>>
sizes == <<bucketSize, locationSize>>
vars == <<upload, parts, data, file, disk, objects, bucketSize, locationSize, req, tasks, faults>>

PartNumbers == 0 .. LastPart

Idle == [pc |-> "idle"]
Answer(w) == req' = [req EXCEPT ![w] = Idle]

Answering(u) == {x \in Workers : req[x] # Idle /\ req[x].upload = u}

\* A request on u can begin: at any time, or when no other is under way.
Free(w, u) == req[w] = Idle /\ (Overlap \/ Answering(u) = {})

\* The requests that have inserted a row of u's parts and not committed it.
Inserting(u) == {x \in Answering(u) : req[x].pc = "part" /\ req[x].new}

Begin(w, pc, u) == req' = [req EXCEPT ![w] = [pc |-> pc, upload |-> u, part |-> 0, new |-> FALSE]]

Task(kind, u, w) == [kind |-> kind, upload |-> u, by |-> w, pc |-> "queued"]
Done(t) == tasks' = tasks \ {t}
Goto(t, pc) == tasks' = (tasks \ {t}) \cup {[t EXCEPT !.pc = pc]}

\* The row of upload u, wherever it is a foreign key.
HasRow(u) == upload[u] \in {"open", "completed"}

Init ==
    /\ upload = [u \in Uploads |-> "none"]
    /\ parts = [u \in Uploads |-> {}]
    /\ data = [u \in Uploads |-> [p \in PartNumbers |-> "blank"]]
    /\ file = [u \in Uploads |-> "none"]
    /\ disk = {}
    /\ objects = [u \in Uploads |-> 0]
    /\ bucketSize = 0 /\ locationSize = 0
    /\ req = [w \in Workers |-> Idle]
    /\ tasks = {}
    /\ faults = 0

-----------------------------------------------------------------------------
(* multipart_init                                                          *)

\* MultipartObject.create, up to the file it truncates on disk.
InitContents(w, u) ==
    /\ Free(w, u) /\ upload[u] = "none" /\ u \notin disk
    /\ bucketSize < Quota
    /\ disk' = disk \cup {u}
    /\ Begin(w, "init", u)
    /\ UNCHANGED <<rows, data, sizes, tasks, faults>>

\* A fault the runs must notice: the size is not reserved.
InitCommitUnsized(w) ==
    LET u == req[w].upload
    IN /\ req[w].pc = "init"
       /\ upload' = [upload EXCEPT ![u] = "open"]
       /\ file' = [file EXCEPT ![u] = "writable"]
       /\ Answer(w)
       /\ UNCHANGED <<parts, data, disk, objects, sizes, tasks, faults>>

InitCommit(w) ==
    LET u == req[w].upload
    IN /\ req[w].pc = "init"
       /\ upload' = [upload EXCEPT ![u] = "open"]
       /\ file' = [file EXCEPT ![u] = "writable"]
       /\ bucketSize' = bucketSize + 1
       /\ Answer(w)
       /\ UNCHANGED <<parts, data, disk, objects, locationSize, tasks, faults>>

-----------------------------------------------------------------------------
(* multipart_uploadpart                                                    *)

\* A fault: a completed upload still takes parts.
PartBeginCompleted(w, u, p) ==
    /\ Free(w, u) /\ HasRow(u)
    /\ req' = [req EXCEPT ![w] =
                 [pc |-> "part", upload |-> u, part |-> p, new |-> p \notin parts[u]]]
    /\ data' = [data EXCEPT ![u][p] = "torn"]
    /\ UNCHANGED <<rows, disk, sizes, tasks, faults>>

\* Part.get_or_create, then the bytes begin to be written over the part's.
PartBegin(w, u, p) ==
    /\ Free(w, u) /\ upload[u] = "open"
    /\ p \notin {req[x].part : x \in Inserting(u)}      \* whose row is waited for
    /\ req' = [req EXCEPT ![w] =
                 [pc |-> "part", upload |-> u, part |-> p, new |-> p \notin parts[u]]]
    /\ data' = [data EXCEPT ![u][p] = "torn"]
    /\ UNCHANGED <<rows, disk, sizes, tasks, faults>>

\* A fault: the parts are counted from 1.
PartCommitFromOne(w) ==
    LET u == req[w].upload
        p == req[w].part
    IN /\ req[w].pc = "part"
       /\ data' = [data EXCEPT ![u][p] = "whole"]
       /\ parts' = [parts EXCEPT ![u] = @ \cup {p + 1}]
       /\ Answer(w)
       /\ UNCHANGED <<upload, file, disk, objects, sizes, tasks, faults>>

\* Nothing is looked at again. The row of a part aborted meanwhile is not
\* there to be updated and the request fails.
PartCommit(w) ==
    LET u == req[w].upload
        p == req[w].part
    IN /\ req[w].pc = "part"
       /\ data' = [data EXCEPT ![u][p] = "whole"]
       /\ parts' = [parts EXCEPT ![u] = IF req[w].new THEN @ \cup {p} ELSE @]
       /\ Answer(w)
       /\ UNCHANGED <<upload, file, disk, objects, sizes, tasks, faults>>

\* The client's connection breaks. The row of the part is deleted after the
\* rollback, and the exception raised again before any commit.
PartFails(w) ==
    /\ faults < MaxFaults /\ faults' = faults + 1
    /\ req[w].pc = "part"
    /\ Answer(w)
    /\ UNCHANGED <<rows, data, disk, sizes, tasks>>

-----------------------------------------------------------------------------
(* multipart_complete                                                      *)

\* Faults: one part may be missing; an upload is completed again.
CompleteLoadEarly(w, u) ==
    /\ Free(w, u) /\ upload[u] = "open"
    /\ Cardinality(parts[u]) >= LastPart
    /\ Begin(w, "complete", u)
    /\ UNCHANGED <<rows, data, disk, sizes, tasks, faults>>

CompleteLoadAgain(w, u) ==
    /\ Free(w, u) /\ HasRow(u)
    /\ parts[u] = PartNumbers
    /\ Begin(w, "complete", u)
    /\ UNCHANGED <<rows, data, disk, sizes, tasks, faults>>

CompleteLoad(w, u) ==
    /\ Free(w, u) /\ upload[u] = "open"
    /\ parts[u] = PartNumbers
    /\ Begin(w, "complete", u)
    /\ UNCHANGED <<rows, data, disk, sizes, tasks, faults>>

\* A fault: the file stays writable.
CompleteCommitWritable(w) ==
    LET u == req[w].upload
    IN /\ req[w].pc = "complete"
       /\ upload' = [upload EXCEPT ![u] = "completed"]
       /\ req' = [req EXCEPT ![w].pc = "post_merge"]
       /\ UNCHANGED <<parts, data, file, disk, objects, sizes, tasks, faults>>

\* The row updated is the one loaded, if it is still there. A part being
\* inserted holds a lock on it that does not conflict.
CompleteCommit(w) ==
    LET u == req[w].upload
    IN /\ req[w].pc = "complete"
       /\ IF HasRow(u)
          THEN /\ upload' = [upload EXCEPT ![u] = "completed"]
               /\ file' = [file EXCEPT ![u] = "readable"]
               /\ req' = [req EXCEPT ![w].pc = "post_merge"]
          ELSE UNCHANGED <<upload, file>> /\ Answer(w)
       /\ UNCHANGED <<parts, data, disk, objects, sizes, tasks, faults>>

PostMerge(w) ==
    /\ req[w].pc = "post_merge"
    /\ tasks' = tasks \cup {Task("merge", req[w].upload, w)}
    /\ Answer(w)
    /\ UNCHANGED <<rows, data, disk, sizes, faults>>

-----------------------------------------------------------------------------
(* multipart_delete                                                        *)

\* MultipartObject.delete
DeleteUpload(u) ==
    /\ upload' = [upload EXCEPT ![u] = "gone"]
    /\ parts' = [parts EXCEPT ![u] = {}]

AbortLoad(w, u) ==
    /\ Free(w, u) /\ upload[u] = "open"
    /\ Begin(w, "abort", u)
    /\ UNCHANGED <<rows, data, disk, sizes, tasks, faults>>

\* The size is taken off the bucket whether or not a row is deleted. The row
\* of a part being inserted is waited for, and then refers to the upload.
AbortCommit(w) ==
    LET u == req[w].upload
    IN /\ req[w].pc = "abort"
       /\ IF Inserting(u) # {}
          THEN UNCHANGED <<upload, parts, bucketSize>> /\ Answer(w)
          ELSE /\ DeleteUpload(u)
               /\ bucketSize' = bucketSize - 1
               /\ req' = [req EXCEPT ![w].pc = "post_remove"]
       /\ UNCHANGED <<data, file, disk, objects, locationSize, tasks, faults>>

\* A fault: the removal of the file is not posted.
PostRemoveForgotten(w) ==
    /\ req[w].pc = "post_remove"
    /\ Answer(w)
    /\ UNCHANGED <<rows, data, disk, sizes, tasks, faults>>

PostRemove(w) ==
    /\ req[w].pc = "post_remove"
    /\ tasks' = tasks \cup {Task("remove", req[w].upload, w)}
    /\ Answer(w)
    /\ UNCHANGED <<rows, data, disk, sizes, faults>>

-----------------------------------------------------------------------------
(* The tasks                                                               *)

\* merge_multipartobject looks the upload up, then reads the whole file for
\* its checksum.
MergeLoad(t) ==
    /\ t.kind = "merge" /\ t.pc = "queued"
    /\ IF upload[t.upload] = "completed" THEN Goto(t, "merging") ELSE Done(t)
    /\ UNCHANGED <<rows, data, disk, sizes, req, faults>>

\* merge_parts: the object takes over the size of the upload, whose rows are
\* deleted, if any is left.
MergeCommit(t) ==
    /\ t.kind = "merge" /\ t.pc = "merging"
    /\ IF file[t.upload] = "readable"
       THEN /\ objects' = [objects EXCEPT ![t.upload] = @ + 1]
            /\ DeleteUpload(t.upload)
       ELSE UNCHANGED <<objects, upload, parts>>
    /\ Done(t)
    /\ UNCHANGED <<data, file, disk, sizes, req, faults>>

\* A fault: the bytes go first, as in delete_file_instance.
RemoveDataFirst(t) ==
    /\ t.kind = "remove" /\ t.pc = "queued"
    /\ disk' = disk \ {t.upload}
    /\ Goto(t, "disk")
    /\ UNCHANGED <<rows, data, sizes, req, faults>>

\* remove_file_data: only a writable file that nothing refers to.
RemoveRow(t) ==
    LET u == t.upload
    IN /\ t.kind = "remove" /\ t.pc = "queued"
       /\ IF file[u] = "writable" /\ ~HasRow(u) /\ objects[u] = 0
          THEN /\ file' = [file EXCEPT ![u] = "gone"]
               /\ locationSize' = locationSize - 1
               /\ Goto(t, "disk")
          ELSE UNCHANGED <<file, locationSize>> /\ Done(t)
       /\ UNCHANGED <<upload, parts, objects, data, disk, bucketSize, req, faults>>

RemoveData(t) ==
    /\ t.kind = "remove" /\ t.pc = "disk"
    /\ disk' = disk \ {t.upload}
    /\ Done(t)
    /\ UNCHANGED <<rows, data, sizes, req, faults>>

\* remove_expired_multipartobjects: query_expired finds completed uploads,
\* their deletion is not committed, their files' removal is posted.
Expire ==
    LET expired == {u \in Uploads : upload[u] = "completed"}
        posted == {[Task("remove", u, "beat") EXCEPT !.pc = "queued"] : u \in expired}
    IN /\ expired # {} /\ ~(posted \subseteq tasks)
       /\ tasks' = tasks \cup posted
       /\ UNCHANGED <<rows, data, disk, sizes, req, faults>>

\* find_and_update_location_size: nothing is found for a location without files.
RecountLocation ==
    LET total == Cardinality({u \in Uploads : file[u] \in {"writable", "readable"}})
    IN /\ total > 0
       /\ locationSize' = total
       /\ UNCHANGED <<rows, data, disk, bucketSize, req, tasks, faults>>

-----------------------------------------------------------------------------
\* A process dies: what it has not committed or posted is lost.
Crash(w) ==
    /\ faults < MaxFaults /\ faults' = faults + 1
    /\ req[w] # Idle /\ req[w].pc # "part"
    /\ Answer(w)
    /\ UNCHANGED <<rows, data, disk, sizes, tasks>>

TaskLost(t) ==
    /\ faults < MaxFaults /\ faults' = faults + 1
    /\ Done(t)
    /\ UNCHANGED <<rows, data, disk, sizes, req>>

Starts(w) ==
    \E u \in Uploads :
        \/ InitContents(w, u) \/ CompleteLoad(w, u) \/ AbortLoad(w, u)
        \/ \E p \in PartNumbers : PartBegin(w, u, p)

Goes(w) ==
    \/ InitCommit(w) \/ PartCommit(w) \/ CompleteCommit(w) \/ PostMerge(w)
    \/ AbortCommit(w) \/ PostRemove(w)

Works(t) == MergeLoad(t) \/ MergeCommit(t) \/ RemoveRow(t) \/ RemoveData(t)

Next ==
    \/ \E w \in Workers : Starts(w) \/ Goes(w) \/ PartFails(w) \/ Crash(w)
    \/ \E t \in tasks : Works(t) \/ TaskLost(t)
    \/ Expire \/ RecountLocation

Spec == Init /\ [][Next]_vars

Serves(kind, u, w) ==
    \E t \in tasks : t.kind = kind /\ t.upload = u /\ t.by = w /\ Works(t)

\* A request once received is answered, every task posted is served and the
\* periodic task runs. No client has to begin a request.
FairSpec ==
    /\ Spec
    /\ \A w \in Workers : WF_vars(Goes(w))
    /\ \A u \in Uploads, w \in Workers \cup {"beat"}, kind \in {"merge", "remove"} :
        WF_vars(Serves(kind, u, w))
    /\ WF_vars(Expire)

-----------------------------------------------------------------------------
(* Properties                                                              *)

\* Every row, task and request holds the values the code gives it.
TypeOK ==
    /\ upload \in [Uploads -> {"none", "open", "completed", "gone"}]
    /\ parts \in [Uploads -> SUBSET PartNumbers]
    /\ data \in [Uploads -> [PartNumbers -> {"blank", "torn", "whole"}]]
    /\ file \in [Uploads -> {"none", "writable", "readable", "gone"}]
    /\ disk \subseteq Uploads
    /\ objects \in [Uploads -> Nat]
    /\ bucketSize \in Int /\ locationSize \in Int
    /\ req \in [Workers -> {Idle} \cup
         [pc: {"init", "part", "complete", "post_merge", "abort", "post_remove"},
          upload: Uploads, part: PartNumbers, new: BOOLEAN]]
    /\ tasks \subseteq
         [kind: {"merge", "remove"}, upload: Uploads, by: Workers \cup {"beat"},
          pc: {"queued", "merging", "disk"}]
    /\ faults \in Nat

\* An object version made of an upload has its file, row and bytes, whatever
\* abort, expiry and merge do at once.
ObjectKeepsFile == \A u \in Uploads : objects[u] > 0 => file[u] = "readable" /\ u \in disk

\* What is merged is whole: every part of a completed upload has been written
\* to its end.
CompletedIsWhole ==
    \A u \in Uploads : upload[u] = "completed" \/ objects[u] > 0 =>
        \A p \in PartNumbers : data[u][p] = "whole"

\* It is as long as no connection has broken and no process has died.
WholeWithoutFaults == faults = 0 => CompletedIsWhole

\* An upload gives the bucket one object version.
OneObject == \A u \in Uploads : objects[u] <= 1

\* The size of the bucket is that of its uploads and its objects.
BucketSizeIsSum ==
    bucketSize = MapThenSumSet(
        LAMBDA u : objects[u] + (IF HasRow(u) THEN 1 ELSE 0), Uploads)

\* Once completed, the bytes of an upload do not change.
CompletedUnchanged ==
    [][\A u \in Uploads : upload[u] = "completed" => UNCHANGED data[u]]_vars

\* The life of an upload: the object made of it outlives its row.
LifeOf(u) ==
    IF objects[u] > 0 THEN "object"
    ELSE IF upload[u] = "gone" THEN "aborted" ELSE upload[u]

Life == INSTANCE UploadLife WITH
            Contents <- [PartNumbers -> {"blank", "torn", "whole"}],
            Blank <- [p \in PartNumbers |-> "blank"],
            state <- [u \in Uploads |-> LifeOf(u)],
            bytes <- data, kept <- disk, weight <- bucketSize

\* The program, the requests on an upload one at a time, is the life of uploads
\* of UploadLife, whatever dies: nothing is written once it is completed, only an
\* open one is aborted, and only the bytes of an aborted one leave the disk.
ImplementsLife == Life!Spec

\* A completed upload becomes an object of the bucket, unless a process dies.
CompletedIsMerged ==
    \A u \in Uploads : upload[u] = "completed" ~> objects[u] = 1 \/ faults > 0

\* The file of an aborted upload leaves the disk, unless a process dies.
AbortedIsRemoved ==
    \A u \in Uploads :
        upload[u] = "gone" /\ objects[u] = 0 ~> u \notin disk \/ faults > 0

\* No upload stays open for ever: expired ones are removed.
OpenUploadsExpire == \A u \in Uploads : upload[u] = "open" ~> upload[u] # "open"
=============================================================================
