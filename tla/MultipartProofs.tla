--------------------------- MODULE MultipartProofs ---------------------------
(***************************************************************************)
(* Theorems about Multipart: any uploads, parts and workers, requests on   *)
(* one upload overlapping or not, any number of faults.                    *)
(***************************************************************************)
EXTENDS Multipart, SumLemmas, TLAPS

Requests == [pc: {"init", "part", "complete", "post_merge", "abort", "post_remove"},
             upload: Uploads, part: PartNumbers, new: BOOLEAN]

Tasks == [kind: {"merge", "remove"}, upload: Uploads, by: Workers \cup {"beat"},
          pc: {"queued", "merging", "disk"}]

LEMMA ZeroIsPart == 0 \in PartNumbers
BY MultipartAssumption DEF PartNumbers

LEMMA BusyTyped ==
    ASSUME TypeOK, NEW w \in Workers, req[w].pc # "idle"
    PROVE  req[w] \in Requests /\ req[w] # Idle
BY DEF TypeOK, Requests, Idle

LEMMA BeginTyped ==
    ASSUME TypeOK, NEW w \in Workers, NEW u \in Uploads,
           NEW pc \in {"init", "complete", "abort"}, Begin(w, pc, u)
    PROVE  /\ req' \in [Workers -> {Idle} \cup Requests]
           /\ req' = [req EXCEPT ![w] = [pc |-> pc, upload |-> u, part |-> 0, new |-> FALSE]]
           /\ [pc |-> pc, upload |-> u, part |-> 0, new |-> FALSE] \in Requests
BY ZeroIsPart DEF TypeOK, Begin, Requests

LEMMA PostTyped ==
    ASSUME TypeOK, NEW w \in Workers, req[w].pc # "idle", NEW pc \in {"post_merge", "post_remove"},
           req' = [req EXCEPT ![w].pc = pc]
    PROVE  /\ req' \in [Workers -> {Idle} \cup Requests]
           /\ req' = [req EXCEPT ![w] = [req[w] EXCEPT !.pc = pc]]
           /\ [req[w] EXCEPT !.pc = pc] \in Requests
<1>1. [req[w] EXCEPT !.pc = pc] \in Requests
  BY BusyTyped DEF Requests
<1>2. req' = [req EXCEPT ![w] = [req[w] EXCEPT !.pc = pc]]
  OBVIOUS
<1> QED
  BY <1>1, <1>2 DEF TypeOK, Requests

LEMMA AnswerTyped ==
    ASSUME TypeOK, NEW w \in Workers, Answer(w)
    PROVE  req' \in [Workers -> {Idle} \cup Requests]
BY DEF TypeOK, Answer, Requests

LEMMA TaskTyped ==
    ASSUME NEW kind \in {"merge", "remove"}, NEW STATE u, u \in Uploads,
           NEW w \in Workers \cup {"beat"}
    PROVE  Task(kind, u, w) \in Tasks
BY DEF Task, Tasks

LEMMA StartsTyped ==
    ASSUME TypeOK, NEW w \in Workers, Starts(w)
    PROVE  TypeOK'
<1>1. PICK u \in Uploads :
        \/ InitContents(w, u) \/ CompleteLoad(w, u) \/ AbortLoad(w, u)
        \/ \E p \in PartNumbers : PartBegin(w, u, p)
  BY DEF Starts
<1>2. CASE InitContents(w, u)
  BY <1>2, BeginTyped DEF InitContents, rows, sizes, TypeOK, Requests
<1>3. CASE CompleteLoad(w, u)
  BY <1>3, BeginTyped DEF CompleteLoad, rows, sizes, TypeOK, Requests
<1>4. CASE AbortLoad(w, u)
  BY <1>4, BeginTyped DEF AbortLoad, rows, sizes, TypeOK, Requests
<1>5. ASSUME NEW p \in PartNumbers, PartBegin(w, u, p) PROVE TypeOK'
  <2>1. [pc |-> "part", upload |-> u, part |-> p, new |-> p \notin parts[u]] \in Requests
    BY DEF Requests
  <2>2. req' \in [Workers -> {Idle} \cup Requests]
    BY <1>5, <2>1 DEF PartBegin, TypeOK, Requests
  <2>3. data' \in [Uploads -> [PartNumbers -> {"blank", "torn", "whole"}]]
    BY <1>5 DEF PartBegin, TypeOK
  <2> QED
    BY <1>5, <2>2, <2>3 DEF PartBegin, rows, sizes, TypeOK, Requests
<1> QED
  BY <1>1, <1>2, <1>3, <1>4, <1>5

LEMMA DeleteTyped ==
    ASSUME TypeOK, NEW STATE u, u \in Uploads, DeleteUpload(u)
    PROVE  /\ upload' \in [Uploads -> {"none", "open", "completed", "gone"}]
           /\ parts' \in [Uploads -> SUBSET PartNumbers]
BY DEF TypeOK, DeleteUpload

LEMMA GoesTyped ==
    ASSUME TypeOK, NEW w \in Workers, Goes(w)
    PROVE  TypeOK'
<1> DEFINE u == req[w].upload
<1>0. req[w] \in Requests /\ req[w] # Idle /\ u \in Uploads /\ req[w].pc # "idle"
  <2>1. req[w].pc # "idle"
    BY DEF Goes, InitCommit, PartCommit, CompleteCommit, PostMerge, AbortCommit, PostRemove
  <2> QED
    BY <2>1, BusyTyped DEF Requests
<1>1. CASE InitCommit(w)
  <2>1. /\ upload' \in [Uploads -> {"none", "open", "completed", "gone"}]
        /\ file' \in [Uploads -> {"none", "writable", "readable", "gone"}]
        /\ bucketSize' \in Int
    BY <1>0, <1>1 DEF InitCommit, TypeOK
  <2> QED
    BY <1>1, <2>1, AnswerTyped DEF InitCommit, TypeOK, Requests
<1>2. CASE PartCommit(w)
  <2>1. data' \in [Uploads -> [PartNumbers -> {"blank", "torn", "whole"}]]
    BY <1>0, <1>2 DEF PartCommit, TypeOK, Requests
  <2>2. parts' \in [Uploads -> SUBSET PartNumbers]
    BY <1>0, <1>2 DEF PartCommit, TypeOK, Requests
  <2> QED
    BY <1>2, <2>1, <2>2, AnswerTyped DEF PartCommit, sizes, TypeOK, Requests
<1>3. CASE CompleteCommit(w)
  <2>1. /\ upload' \in [Uploads -> {"none", "open", "completed", "gone"}]
        /\ file' \in [Uploads -> {"none", "writable", "readable", "gone"}]
    BY <1>0, <1>3 DEF CompleteCommit, TypeOK
  <2>2. req' \in [Workers -> {Idle} \cup Requests]
    BY <1>0, <1>3, AnswerTyped, PostTyped DEF CompleteCommit
  <2> QED
    BY <1>3, <2>1, <2>2 DEF CompleteCommit, sizes, TypeOK, Requests
<1>4. CASE PostMerge(w)
  <2>1. tasks' \subseteq Tasks
    BY <1>0, <1>4, TaskTyped DEF PostMerge, TypeOK, Tasks
  <2> QED
    BY <1>4, <2>1, AnswerTyped DEF PostMerge, rows, sizes, TypeOK, Requests, Tasks
<1>5. CASE AbortCommit(w)
  <2>1. /\ upload' \in [Uploads -> {"none", "open", "completed", "gone"}]
        /\ parts' \in [Uploads -> SUBSET PartNumbers]
        /\ bucketSize' \in Int
    BY <1>0, <1>5, DeleteTyped DEF AbortCommit, TypeOK
  <2>2. req' \in [Workers -> {Idle} \cup Requests]
    BY <1>0, <1>5, AnswerTyped, PostTyped DEF AbortCommit
  <2> QED
    BY <1>5, <2>1, <2>2 DEF AbortCommit, TypeOK, Requests
<1>6. CASE PostRemove(w)
  <2>1. tasks' \subseteq Tasks
    BY <1>0, <1>6, TaskTyped DEF PostRemove, TypeOK, Tasks
  <2> QED
    BY <1>6, <2>1, AnswerTyped DEF PostRemove, rows, sizes, TypeOK, Requests, Tasks
<1> QED
  BY <1>1, <1>2, <1>3, <1>4, <1>5, <1>6 DEF Goes

LEMMA WorksTyped ==
    ASSUME TypeOK, NEW t \in tasks, Works(t)
    PROVE  TypeOK'
<1>0. t \in Tasks /\ t.upload \in Uploads
  BY DEF TypeOK, Tasks
<1>1. \A pc \in {"queued", "merging", "disk"} : [t EXCEPT !.pc = pc] \in Tasks
  BY <1>0 DEF Tasks
<1>2. Done(t) => tasks' \subseteq Tasks
  BY DEF Done, TypeOK, Tasks
<1>3. \A pc \in {"queued", "merging", "disk"} : Goto(t, pc) => tasks' \subseteq Tasks
  BY <1>1 DEF Goto, TypeOK, Tasks
<1>4. CASE MergeLoad(t)
  BY <1>2, <1>3, <1>4 DEF MergeLoad, rows, sizes, TypeOK, Tasks
<1>5. CASE MergeCommit(t)
  <2>1. /\ upload' \in [Uploads -> {"none", "open", "completed", "gone"}]
        /\ parts' \in [Uploads -> SUBSET PartNumbers]
        /\ objects' \in [Uploads -> Nat]
    BY <1>0, <1>5, DeleteTyped, SMTT(30) DEF MergeCommit, TypeOK
  <2> QED
    BY <1>2, <1>5, <2>1, SMTT(30) DEF MergeCommit, sizes, TypeOK, Tasks
<1>6. CASE RemoveRow(t)
  <2>1. /\ file' \in [Uploads -> {"none", "writable", "readable", "gone"}]
        /\ locationSize' \in Int
    BY <1>0, <1>6 DEF RemoveRow, TypeOK
  <2> QED
    BY <1>2, <1>3, <1>6, <2>1 DEF RemoveRow, TypeOK, Tasks
<1>7. CASE RemoveData(t)
  <2>1. disk' \subseteq Uploads
    BY <1>7 DEF RemoveData, TypeOK
  <2> QED
    BY <1>2, <1>7, <2>1 DEF RemoveData, rows, sizes, TypeOK, Tasks
<1> QED
  BY <1>4, <1>5, <1>6, <1>7 DEF Works

LEMMA PeriodicTyped ==
    ASSUME TypeOK, Expire \/ RecountLocation
    PROVE  TypeOK'
<1>1. CASE Expire
  <2> DEFINE posted == {[Task("remove", u, "beat") EXCEPT !.pc = "queued"] :
                           u \in {v \in Uploads : upload[v] = "completed"}}
  <2>1. posted \subseteq Tasks
    BY DEF Task, Tasks
  <2>2. tasks' = tasks \cup posted
    BY <1>1 DEF Expire
  <2> HIDE DEF posted
  <2> QED
    BY <1>1, <2>1, <2>2 DEF Expire, rows, sizes, TypeOK, Tasks
<1>2. CASE RecountLocation
  <2> DEFINE kept == {u \in Uploads : file[u] \in {"writable", "readable"}}
  <2>1. IsFiniteSet(kept)
    BY MultipartAssumption, FS_Subset
  <2>2. Cardinality(kept) \in Nat
    BY <2>1, FS_CardinalityType
  <2>3. locationSize' = Cardinality(kept)
    BY <1>2 DEF RecountLocation
  <2> HIDE DEF kept
  <2> QED
    BY <1>2, <2>2, <2>3 DEF RecountLocation, rows, TypeOK
<1> QED
  BY <1>1, <1>2

LEMMA FaultTyped ==
    ASSUME TypeOK,
           \/ \E w \in Workers : PartFails(w) \/ Crash(w)
           \/ \E t \in tasks : TaskLost(t)
    PROVE  TypeOK'
BY AnswerTyped DEF PartFails, Crash, TaskLost, Done, rows, sizes, TypeOK, Requests

LEMMA StepTyped == TypeOK /\ [Next]_vars => TypeOK'
<1> SUFFICES ASSUME TypeOK, [Next]_vars PROVE TypeOK'
  OBVIOUS
<1>1. CASE UNCHANGED vars
  BY <1>1 DEF vars, TypeOK
<1>2. CASE Next
  BY <1>2, StartsTyped, GoesTyped, WorksTyped, PeriodicTyped, FaultTyped DEF Next
<1> QED
  BY <1>1, <1>2

LEMMA InitTyped == Init => TypeOK
BY DEF Init, TypeOK

\* Every row, request and task of the uploads holds the values the code gives
\* it, for any number of uploads, parts, workers and faults.
THEOREM TypeCorrect == Spec => []TypeOK
BY InitTyped, StepTyped, PTL DEF Spec

-----------------------------------------------------------------------------
(* An object keeps its file.                                               *)

\* The file of an upload, the row of the upload and the bytes on disk.
RowsAgree ==
    \A u \in Uploads :
        /\ file[u] = "none" <=> upload[u] = "none"
        /\ file[u] = "gone" => upload[u] = "gone"
        /\ file[u] \in {"writable", "readable"} => u \in disk
        /\ objects[u] > 0 => file[u] = "readable"

\* Only one request begins an upload; every other finds its row.
RequestsAgree ==
    \A w \in Workers : req[w].pc # "idle" =>
        IF req[w].pc = "init"
        THEN /\ upload[req[w].upload] = "none" /\ req[w].upload \in disk
             /\ \A x \in Workers :
                    req[x].pc = "init" /\ req[x].upload = req[w].upload => x = w
        ELSE upload[req[w].upload] # "none"

\* Bytes are removed after the row of their file.
RemovalsAgree ==
    \A t \in tasks : t.kind = "remove" /\ t.pc = "disk" => file[t.upload] = "gone"

Kept == TypeOK /\ RowsAgree /\ RequestsAgree /\ RemovalsAgree

LEMMA IdlePc == Idle.pc = "idle"
BY DEF Idle

\* A request that begins leaves the rows alone.
LEMMA StartsKept ==
    ASSUME Kept, NEW w \in Workers, Starts(w)
    PROVE  Kept'
<1>0. TypeOK /\ TypeOK'
  BY StartsTyped DEF Kept
<1>1. PICK u \in Uploads :
        \/ InitContents(w, u) \/ CompleteLoad(w, u) \/ AbortLoad(w, u)
        \/ \E p \in PartNumbers : PartBegin(w, u, p)
  BY DEF Starts
<1>2. UNCHANGED <<upload, file, objects, tasks>> /\ disk \subseteq disk'
  BY <1>1 DEF InitContents, CompleteLoad, AbortLoad, PartBegin, rows
<1>3. RowsAgree' /\ RemovalsAgree'
  BY <1>2 DEF Kept, RowsAgree, RemovalsAgree
<1>4. PICK pc \in {"init", "complete", "abort", "part"} :
        /\ req'[w].pc = pc /\ req'[w].upload = u
        /\ \A x \in Workers : x # w => req'[x] = req[x]
        /\ pc = "init" => upload[u] = "none" /\ u \notin disk /\ u \in disk'
        /\ pc # "init" => upload[u] # "none"
  <2>1. CASE InitContents(w, u)
    BY <1>0, <2>1 DEF InitContents, Begin, TypeOK
  <2>2. CASE CompleteLoad(w, u)
    BY <1>0, <2>2 DEF CompleteLoad, Begin, TypeOK
  <2>3. CASE AbortLoad(w, u)
    BY <1>0, <2>3 DEF AbortLoad, Begin, TypeOK
  <2>4. CASE \E p \in PartNumbers : PartBegin(w, u, p)
    BY <1>0, <2>4 DEF PartBegin, TypeOK
  <2> QED
    BY <1>1, <2>1, <2>2, <2>3, <2>4
<1>5. RequestsAgree'
  <2> SUFFICES ASSUME NEW x \in Workers, req'[x].pc # "idle"
               PROVE  IF req'[x].pc = "init"
                      THEN /\ upload'[req'[x].upload] = "none" /\ req'[x].upload \in disk'
                           /\ \A y \in Workers :
                                 req'[y].pc = "init" /\ req'[y].upload = req'[x].upload => y = x
                      ELSE upload'[req'[x].upload] # "none"
    BY DEF RequestsAgree
  <2>1. CASE x = w
    BY <1>2, <1>4, <2>1 DEF Kept, RequestsAgree
  <2>2. CASE x # w
    BY <1>2, <1>4, <2>2 DEF Kept, RequestsAgree
  <2> QED
    BY <2>1, <2>2
<1> QED
  BY <1>0, <1>3, <1>5 DEF Kept

\* A request that is answered, or goes on for the same upload.
LEMMA RequestsKept ==
    ASSUME Kept, NEW w \in Workers, req[w] # Idle,
           \/ req'[w] = Idle
           \/ /\ req'[w].upload = req[w].upload
              /\ req'[w].pc # "init" /\ upload'[req[w].upload] # "none",
           \A x \in Workers : x # w => req'[x] = req[x],
           \A u \in Uploads : upload[u] # "none" => upload'[u] # "none",
           \A u \in Uploads : upload[u] = "none" =>
                upload'[u] = "none" \/ (u = req[w].upload /\ req[w].pc = "init"),
           \A u \in Uploads : upload[u] = "none" /\ u \in disk => u \in disk'
    PROVE  RequestsAgree'
<1> SUFFICES ASSUME NEW x \in Workers, req'[x].pc # "idle"
             PROVE  IF req'[x].pc = "init"
                    THEN /\ upload'[req'[x].upload] = "none" /\ req'[x].upload \in disk'
                         /\ \A y \in Workers :
                               req'[y].pc = "init" /\ req'[y].upload = req'[x].upload => y = x
                    ELSE upload'[req'[x].upload] # "none"
  BY DEF RequestsAgree
<1>1. \A y \in Workers : req'[y].pc = "init" => req'[y] = req[y] /\ y # w
  BY IdlePc
<1>2. CASE x = w
  BY <1>1, <1>2, IdlePc
<1>3. CASE x # w
  <2>1. req'[x] = req[x] /\ req[x].upload \in Uploads
    BY <1>3, BusyTyped DEF Kept, Requests
  <2> QED
    BY <1>1, <1>3, <2>1 DEF Kept, RequestsAgree
<1> QED
  BY <1>2, <1>3

LEMMA AnswerKept ==
    ASSUME Kept, NEW w \in Workers, req[w] # Idle, Answer(w), UNCHANGED <<upload, disk>>
    PROVE  RequestsAgree'
<1>1. req'[w] = Idle /\ \A x \in Workers : x # w => req'[x] = req[x]
  BY DEF Kept, TypeOK, Answer
<1> QED
  BY <1>1, IdlePc DEF Kept, RequestsAgree

LEMMA GoesKept ==
    ASSUME Kept, NEW w \in Workers, Goes(w)
    PROVE  Kept'
<1> DEFINE u == req[w].upload
<1>0. TypeOK /\ TypeOK'
  BY GoesTyped DEF Kept
<1>1. req[w].pc # "idle"
  BY DEF Goes, InitCommit, PartCommit, CompleteCommit, PostMerge, AbortCommit, PostRemove
<1>2. req[w] # Idle /\ req[w] \in Requests /\ u \in Uploads
  BY <1>0, <1>1, BusyTyped DEF Requests
<1>3. req[w].pc # "init" => upload[u] # "none"
  BY <1>1 DEF Kept, RequestsAgree
<1>4. CASE InitCommit(w)
  <2>1. upload[u] = "none" /\ u \in disk /\ file[u] = "none"
    BY <1>2, <1>4 DEF InitCommit, Kept, RequestsAgree, RowsAgree
  <2>2. /\ upload' = [upload EXCEPT ![u] = "open"] /\ file' = [file EXCEPT ![u] = "writable"]
        /\ UNCHANGED <<objects, disk, tasks>> /\ Answer(w) /\ req[w].pc = "init"
    BY <1>4 DEF InitCommit
  <2>3. RowsAgree'
    BY <1>0, <1>2, <2>1, <2>2 DEF Kept, RowsAgree, TypeOK
  <2>4. RemovalsAgree'
    BY <1>0, <1>2, <2>1, <2>2 DEF Kept, RemovalsAgree, TypeOK
  <2>5. RequestsAgree'
    BY <1>0, <1>2, <2>2, RequestsKept DEF Answer, TypeOK
  <2> QED
    BY <1>0, <2>3, <2>4, <2>5 DEF Kept
<1>5. CASE PartCommit(w)
  <2>1. RequestsAgree'
    BY <1>2, <1>5, AnswerKept DEF PartCommit
  <2> QED
    BY <1>0, <1>5, <2>1 DEF PartCommit, Kept, RowsAgree, RemovalsAgree
<1>6. CASE CompleteCommit(w)
  <2>1. CASE HasRow(u)
    <3>1. file[u] \in {"writable", "readable"} /\ u \in disk
      BY <1>0, <1>2, <2>1 DEF Kept, RowsAgree, HasRow, TypeOK
    <3>2. /\ upload' = [upload EXCEPT ![u] = "completed"]
          /\ file' = [file EXCEPT ![u] = "readable"]
          /\ req' = [req EXCEPT ![w].pc = "post_merge"]
          /\ UNCHANGED <<objects, disk, tasks>>
          /\ req[w].pc = "complete"
      BY <1>6, <2>1 DEF CompleteCommit
    <3>3. upload[u] # "none"
      BY <1>3, <3>2
    <3>4. RowsAgree'
      BY <1>0, <1>2, <3>1, <3>2, <3>3 DEF Kept, RowsAgree, TypeOK
    <3>5. RemovalsAgree'
      BY <1>0, <1>2, <3>1, <3>2 DEF Kept, RemovalsAgree, TypeOK, Tasks
    <3>6. req'[w] = [req[w] EXCEPT !.pc = "post_merge"]
      BY <1>0, <3>2 DEF TypeOK
    <3>7. req'[w].pc = "post_merge" /\ req'[w].upload = u
      BY <1>2, <3>6 DEF Requests
    <3>8. /\ \A x \in Workers : x # w => req'[x] = req[x]
          /\ \A v \in Uploads : upload[v] = "none" <=> upload'[v] = "none"
      BY <1>0, <3>2, <3>3 DEF TypeOK
    <3>9. RequestsAgree'
      <4>1. /\ req'[w].upload = req[w].upload /\ req'[w].pc # "init"
            /\ upload'[req[w].upload] # "none"
        BY <1>2, <3>3, <3>7, <3>8
      <4>2. disk' = disk
        BY <3>2
      <4> QED
        BY <1>2, <3>8, <4>1, <4>2, RequestsKept
    <3> QED
      BY <1>0, <3>4, <3>5, <3>9 DEF Kept
  <2>2. CASE ~HasRow(u)
    <3>1. RequestsAgree'
      BY <1>2, <1>6, <2>2, AnswerKept DEF CompleteCommit
    <3> QED
      BY <1>0, <1>6, <2>2, <3>1 DEF CompleteCommit, Kept, RowsAgree, RemovalsAgree
  <2> QED
    BY <2>1, <2>2
<1>7. CASE PostMerge(w)
  <2>1. RemovalsAgree'
    BY <1>7 DEF PostMerge, Task, rows, Kept, RemovalsAgree
  <2>2. RequestsAgree'
    BY <1>2, <1>7, AnswerKept DEF PostMerge, rows
  <2> QED
    BY <1>0, <1>7, <2>1, <2>2 DEF PostMerge, rows, Kept, RowsAgree
<1>8. CASE AbortCommit(w)
  <2>1. CASE Inserting(u) # {}
    <3>1. RequestsAgree'
      BY <1>2, <1>8, <2>1, AnswerKept DEF AbortCommit
    <3> QED
      BY <1>0, <1>8, <2>1, <3>1 DEF AbortCommit, Kept, RowsAgree, RemovalsAgree
  <2>2. CASE Inserting(u) = {}
    <3>1. /\ upload' = [upload EXCEPT ![u] = "gone"]
          /\ req' = [req EXCEPT ![w].pc = "post_remove"]
          /\ UNCHANGED <<file, objects, disk, tasks>>
          /\ req[w].pc = "abort"
      BY <1>8, <2>2 DEF AbortCommit, DeleteUpload
    <3>2. upload[u] # "none"
      BY <1>3, <3>1
    <3>3. RowsAgree' /\ RemovalsAgree'
      BY <1>0, <1>2, <3>1, <3>2 DEF Kept, RowsAgree, RemovalsAgree, TypeOK
    <3>4. req'[w] = [req[w] EXCEPT !.pc = "post_remove"]
      BY <1>0, <3>1 DEF TypeOK
    <3>5. req'[w].pc = "post_remove" /\ req'[w].upload = u
      BY <1>2, <3>4 DEF Requests
    <3>6. /\ \A x \in Workers : x # w => req'[x] = req[x]
          /\ \A v \in Uploads : upload[v] = "none" <=> upload'[v] = "none"
      BY <1>0, <3>1, <3>2 DEF TypeOK
    <3>7. RequestsAgree'
      <4>1. /\ req'[w].upload = req[w].upload /\ req'[w].pc # "init"
            /\ upload'[req[w].upload] # "none"
        BY <1>2, <3>2, <3>5, <3>6
      <4>2. disk' = disk
        BY <3>1
      <4> QED
        BY <1>2, <3>6, <4>1, <4>2, RequestsKept
    <3> QED
      BY <1>0, <3>3, <3>7 DEF Kept
  <2> QED
    BY <2>1, <2>2
<1>9. CASE PostRemove(w)
  <2>1. RemovalsAgree'
    BY <1>9 DEF PostRemove, Task, rows, Kept, RemovalsAgree
  <2>2. RequestsAgree'
    BY <1>2, <1>9, AnswerKept DEF PostRemove, rows
  <2> QED
    BY <1>0, <1>9, <2>1, <2>2 DEF PostRemove, rows, Kept, RowsAgree
<1> QED
  BY <1>4, <1>5, <1>6, <1>7, <1>8, <1>9 DEF Goes

LEMMA WorksKept ==
    ASSUME Kept, NEW t \in tasks, Works(t)
    PROVE  Kept'
<1> DEFINE u == t.upload
<1>0. TypeOK /\ TypeOK' /\ t \in Tasks /\ u \in Uploads
  BY WorksTyped DEF Kept, TypeOK, Tasks
<1>1. CASE MergeLoad(t)
  <2>1. RemovalsAgree'
    BY <1>0, <1>1 DEF MergeLoad, Goto, Done, rows, Kept, RemovalsAgree, Tasks
  <2> QED
    BY <1>0, <1>1, <2>1 DEF MergeLoad, rows, Kept, RowsAgree, RequestsAgree
<1>2. CASE MergeCommit(t)
  <2>1. RemovalsAgree'
    BY <1>2 DEF MergeCommit, Done, Kept, RemovalsAgree
  <2>2. CASE file[u] = "readable"
    <3>1. /\ upload' = [upload EXCEPT ![u] = "gone"]
          /\ objects' = [objects EXCEPT ![u] = @ + 1]
          /\ UNCHANGED <<file, disk, req>>
      BY <1>2, <2>2 DEF MergeCommit, DeleteUpload
    <3>2. upload[u] # "none"
      BY <1>0, <2>2 DEF Kept, RowsAgree
    <3>3. RowsAgree'
      BY <1>0, <2>2, <3>1, <3>2 DEF Kept, RowsAgree, TypeOK
    <3>4. RequestsAgree'
      <4>1. \A v \in Uploads : (upload[v] = "none") <=> (upload'[v] = "none")
        BY <1>0, <3>1, <3>2 DEF TypeOK
      <4>2. \A x \in Workers : req[x].pc # "idle" => req[x].upload \in Uploads
        BY <1>0, BusyTyped DEF Requests
      <4> QED
        BY <3>1, <4>1, <4>2 DEF Kept, RequestsAgree
    <3> QED
      BY <1>0, <2>1, <3>3, <3>4 DEF Kept
  <2>3. CASE file[u] # "readable"
    BY <1>0, <1>2, <2>1, <2>3 DEF MergeCommit, Kept, RowsAgree, RequestsAgree
  <2> QED
    BY <2>2, <2>3
<1>3. CASE RemoveRow(t)
  <2>1. CASE file[u] = "writable" /\ ~HasRow(u) /\ objects[u] = 0
    <3>1. /\ file' = [file EXCEPT ![u] = "gone"] /\ Goto(t, "disk")
          /\ UNCHANGED <<upload, objects, disk, req>>
      BY <1>3, <2>1 DEF RemoveRow
    <3>2. upload[u] = "gone"
      BY <1>0, <2>1 DEF Kept, RowsAgree, HasRow, TypeOK
    <3>3. RowsAgree'
      BY <1>0, <2>1, <3>1, <3>2 DEF Kept, RowsAgree, TypeOK
    <3>4. RemovalsAgree'
      <4> SUFFICES ASSUME NEW s \in tasks', s.kind = "remove", s.pc = "disk"
                   PROVE  file'[s.upload] = "gone"
        BY DEF RemovalsAgree
      <4>1. s \in tasks \/ s = [t EXCEPT !.pc = "disk"]
        BY <3>1 DEF Goto
      <4>2. s.upload \in Uploads
        BY <1>0 DEF TypeOK
      <4> QED
        BY <1>0, <3>1, <4>1, <4>2 DEF Kept, RemovalsAgree, TypeOK, Tasks
    <3> QED
      BY <1>0, <3>1, <3>3, <3>4 DEF Kept, RequestsAgree
  <2>2. CASE ~(file[u] = "writable" /\ ~HasRow(u) /\ objects[u] = 0)
    BY <1>0, <1>3, <2>2 DEF RemoveRow, Done, Kept, RowsAgree, RequestsAgree, RemovalsAgree
  <2> QED
    BY <2>1, <2>2
<1>4. CASE RemoveData(t)
  <2>1. disk' = disk \ {u} /\ Done(t) /\ UNCHANGED <<upload, file, objects, req>>
    BY <1>4 DEF RemoveData, rows
  <2>2. file[u] = "gone" /\ upload[u] = "gone"
    BY <1>0, <1>4 DEF RemoveData, Kept, RemovalsAgree, RowsAgree
  <2>3. RowsAgree' /\ RemovalsAgree'
    BY <2>1, <2>2 DEF Done, Kept, RowsAgree, RemovalsAgree
  <2>4. RequestsAgree'
    BY <2>1, <2>2 DEF Kept, RequestsAgree
  <2> QED
    BY <1>0, <2>3, <2>4 DEF Kept
<1> QED
  BY <1>1, <1>2, <1>3, <1>4 DEF Works

LEMMA StepKept == Kept /\ [Next]_vars => Kept'
<1> SUFFICES ASSUME Kept, [Next]_vars PROVE Kept'
  OBVIOUS
<1>0. TypeOK /\ TypeOK'
  BY StepTyped DEF Kept
<1>1. CASE UNCHANGED vars
  BY <1>0, <1>1 DEF vars, Kept, RowsAgree, RequestsAgree, RemovalsAgree
<1>2. CASE Expire \/ RecountLocation
  <2>1. \A t \in tasks' : t \in tasks \/ t.pc = "queued"
    <3>1. CASE RecountLocation
      BY <3>1 DEF RecountLocation
    <3>2. CASE Expire
      <4>1. \A u : [Task("remove", u, "beat") EXCEPT !.pc = "queued"].pc = "queued"
        BY DEF Task
      <4> QED
        BY <3>2, <4>1 DEF Expire
    <3> QED
      BY <1>2, <3>1, <3>2
  <2>2. UNCHANGED <<upload, file, objects, disk, req>>
    BY <1>2 DEF Expire, RecountLocation, rows
  <2> QED
    BY <1>0, <2>1, <2>2 DEF Kept, RowsAgree, RequestsAgree, RemovalsAgree
<1>3. ASSUME NEW t \in tasks, TaskLost(t) PROVE Kept'
  BY <1>0, <1>3 DEF TaskLost, Done, rows, Kept, RowsAgree, RequestsAgree, RemovalsAgree
<1>4. ASSUME NEW w \in Workers, PartFails(w) \/ Crash(w) PROVE Kept'
  <2>1. UNCHANGED <<upload, file, objects, disk, tasks>> /\ Answer(w) /\ req[w] # Idle
    BY <1>4 DEF PartFails, Crash, rows, Idle
  <2>2. RequestsAgree'
    BY <2>1, AnswerKept
  <2> QED
    BY <1>0, <2>1, <2>2 DEF Kept, RowsAgree, RemovalsAgree
<1> QED
  BY <1>1, <1>2, <1>3, <1>4, StartsKept, GoesKept, WorksKept DEF Next

LEMMA InitKept == Init => Kept
BY InitTyped DEF Init, Kept, RowsAgree, RequestsAgree, RemovalsAgree, Idle

\* An object version made of an upload has its file row and its bytes: not the
\* abort, the merge, the expiry nor the removal of files takes them, in any
\* order, with requests overlapping and processes dying.
THEOREM ObjectsKeepFiles == Spec => []ObjectKeepsFile
<1>1. Kept => ObjectKeepsFile
  BY DEF Kept, RowsAgree, ObjectKeepsFile
<1> QED
  BY InitKept, StepKept, <1>1, PTL DEF Spec

-----------------------------------------------------------------------------
(* Requests on one upload come one at a time.                              *)

Pc(w) == req[w].pc
Of(w) == req[w].upload

\* An upload has one request, and stands where that request found it.
AloneOnUpload ==
    \A w \in Workers : Pc(w) # "idle" =>
        /\ \A x \in Workers : Pc(x) # "idle" /\ Of(x) = Of(w) => x = w
        /\ Pc(w) \in {"part", "complete", "abort"} => upload[Of(w)] = "open"
        /\ Pc(w) = "post_merge" => upload[Of(w)] = "completed"
        /\ Pc(w) = "post_remove" => upload[Of(w)] = "gone"

\* A merge that is still to come is the only one: its upload is completed, and
\* the request that completed it has been answered.
OneMerge ==
    \A t \in tasks : t.kind = "merge" =>
        /\ upload[t.upload] = "completed"
        /\ \A w \in Workers : Pc(w) = "post_merge" => Of(w) # t.upload
        /\ \A s \in tasks : s.kind = "merge" /\ s.upload = t.upload => s = t

\* The object of an upload comes with the end of its row.
MergedOnce ==
    \A u \in Uploads : objects[u] <= 1 /\ (upload[u] # "gone" => objects[u] = 0)

OneByOne == Kept /\ AloneOnUpload /\ OneMerge /\ MergedOnce

LEMMA StartsOneByOne ==
    ASSUME OneByOne, ~Overlap, NEW w \in Workers, Starts(w)
    PROVE  OneByOne'
<1>0. Kept' /\ TypeOK
  BY StartsKept DEF OneByOne, Kept
<1>1. PICK u \in Uploads :
        \/ InitContents(w, u) \/ CompleteLoad(w, u) \/ AbortLoad(w, u)
        \/ \E p \in PartNumbers : PartBegin(w, u, p)
  BY DEF Starts
<1>2. UNCHANGED <<upload, objects, tasks>> /\ Answering(u) = {}
  BY <1>1 DEF InitContents, CompleteLoad, AbortLoad, PartBegin, Free, rows
<1>3. \A x \in Workers : Pc(x) # "idle" => Of(x) # u
  BY <1>2, IdlePc DEF Answering, Pc, Of
<1>4. PICK pc \in {"init", "complete", "abort", "part"} :
        /\ Pc(w)' = pc /\ Of(w)' = u
        /\ \A x \in Workers : x # w => Pc(x)' = Pc(x) /\ Of(x)' = Of(x)
        /\ pc # "init" => upload[u] = "open"
  <2>1. CASE InitContents(w, u)
    BY <1>0, <2>1 DEF InitContents, Begin, TypeOK, Pc, Of
  <2>2. CASE CompleteLoad(w, u)
    BY <1>0, <2>2 DEF CompleteLoad, Begin, TypeOK, Pc, Of
  <2>3. CASE AbortLoad(w, u)
    BY <1>0, <2>3 DEF AbortLoad, Begin, TypeOK, Pc, Of
  <2>4. CASE \E p \in PartNumbers : PartBegin(w, u, p)
    BY <1>0, <2>4 DEF PartBegin, TypeOK, Pc, Of
  <2> QED
    BY <1>1, <2>1, <2>2, <2>3, <2>4
<1>5. AloneOnUpload'
  BY <1>2, <1>3, <1>4 DEF OneByOne, AloneOnUpload
<1>6. OneMerge'
  BY <1>2, <1>4 DEF OneByOne, OneMerge
<1>7. MergedOnce'
  BY <1>2 DEF OneByOne, MergedOnce
<1> QED
  BY <1>0, <1>5, <1>6, <1>7 DEF OneByOne

\* Of a request that is answered.
LEMMA Answered ==
    ASSUME TypeOK, NEW w \in Workers, Answer(w)
    PROVE  /\ Pc(w)' = "idle"
           /\ \A x \in Workers : x # w => Pc(x)' = Pc(x) /\ Of(x)' = Of(x)
BY IdlePc DEF TypeOK, Answer, Pc, Of

\* Of a request that goes on to post a task.
LEMMA GoesOn ==
    ASSUME TypeOK, NEW w \in Workers, Pc(w) # "idle", NEW pc \in {"post_merge", "post_remove"},
           req' = [req EXCEPT ![w].pc = pc]
    PROVE  /\ Pc(w)' = pc /\ Of(w)' = Of(w)
           /\ \A x \in Workers : x # w => Pc(x)' = Pc(x) /\ Of(x)' = Of(x)
<1>1. req[w] \in Requests
  BY BusyTyped DEF Pc
<1>2. req'[w] = [req[w] EXCEPT !.pc = pc]
  BY DEF TypeOK
<1>3. \A x \in Workers : x # w => req'[x] = req[x]
  BY DEF TypeOK
<1> QED
  BY <1>1, <1>2, <1>3 DEF Requests, Pc, Of

\* A request that is answered or goes on leaves those of other uploads as they
\* were, whatever becomes of its own upload.
LEMMA OthersAlone ==
    ASSUME OneByOne, NEW w \in Workers, Pc(w) # "idle",
           \A v \in Uploads : v # Of(w) => upload'[v] = upload[v],
           \A x \in Workers : x # w => Pc(x)' = Pc(x) /\ Of(x)' = Of(x),
           \/ Pc(w)' = "idle"
           \/ /\ Of(w)' = Of(w)
              /\ \/ Pc(w)' = "post_merge" /\ upload'[Of(w)] = "completed"
                 \/ Pc(w)' = "post_remove" /\ upload'[Of(w)] = "gone"
    PROVE  AloneOnUpload'
<1> SUFFICES ASSUME NEW x \in Workers, Pc(x)' # "idle"
             PROVE  /\ \A y \in Workers : Pc(y)' # "idle" /\ Of(y)' = Of(x)' => y = x
                    /\ Pc(x)' \in {"part", "complete", "abort"} => upload'[Of(x)'] = "open"
                    /\ Pc(x)' = "post_merge" => upload'[Of(x)'] = "completed"
                    /\ Pc(x)' = "post_remove" => upload'[Of(x)'] = "gone"
  BY DEF AloneOnUpload
<1>1. \A y \in Workers : y # w /\ Pc(y) # "idle" => Of(y) # Of(w)
  BY DEF OneByOne, AloneOnUpload
<1>2. \A y \in Workers : Pc(y)' # "idle" => Pc(y) # "idle" /\ Of(y)' = Of(y)
  OBVIOUS
<1>3. \A y \in Workers : Pc(y)' # "idle" /\ Of(y)' = Of(x)' => y = x
  BY <1>2 DEF OneByOne, AloneOnUpload
<1>4. CASE x = w
  BY <1>3, <1>4
<1>5. CASE x # w
  <2>1. Of(x) \in Uploads
    BY <1>2, BusyTyped DEF OneByOne, Kept, Requests, Pc, Of
  <2>2. upload'[Of(x)'] = upload[Of(x)] /\ Pc(x)' = Pc(x)
    BY <1>1, <1>2, <1>5, <2>1
  <2> QED
    BY <1>3, <2>2 DEF OneByOne, AloneOnUpload
<1> QED
  BY <1>4, <1>5

\* The merges still to come are of other uploads.
LEMMA OthersMerged ==
    ASSUME OneByOne, NEW w \in Workers, Pc(w) # "idle", UNCHANGED tasks,
           upload[Of(w)] # "completed",
           \A v \in Uploads : v # Of(w) => upload'[v] = upload[v],
           \A x \in Workers : x # w => Pc(x)' = Pc(x) /\ Of(x)' = Of(x),
           Pc(w)' = "idle" \/ Of(w)' = Of(w)
    PROVE  OneMerge'
<1> SUFFICES ASSUME NEW t \in tasks, t.kind = "merge"
             PROVE  /\ upload'[t.upload] = "completed"
                    /\ \A x \in Workers : Pc(x)' = "post_merge" => Of(x)' # t.upload
                    /\ \A s \in tasks : s.kind = "merge" /\ s.upload = t.upload => s = t
  BY DEF OneMerge
<1>1. t.upload \in Uploads
  BY DEF OneByOne, Kept, TypeOK
<1>2. upload[t.upload] = "completed" /\ t.upload # Of(w)
  BY DEF OneByOne, OneMerge
<1> QED
  BY <1>1, <1>2 DEF OneByOne, OneMerge

LEMMA GoesOneByOne ==
    ASSUME OneByOne, NEW w \in Workers, Goes(w)
    PROVE  OneByOne'
<1> DEFINE u == req[w].upload
<1>0. Kept' /\ TypeOK /\ TypeOK'
  BY GoesKept DEF OneByOne, Kept
<1>1. Pc(w) # "idle" /\ u \in Uploads /\ Of(w) = u
  <2>1. req[w].pc # "idle"
    BY DEF Goes, InitCommit, PartCommit, CompleteCommit, PostMerge, AbortCommit, PostRemove
  <2> QED
    BY <1>0, <2>1, BusyTyped DEF Requests, Pc, Of
<1>2. \A x \in Workers : x # w /\ Pc(x) # "idle" => Of(x) # u
  BY <1>1 DEF OneByOne, AloneOnUpload
<1>3. CASE InitCommit(w)
  <2>1. /\ upload' = [upload EXCEPT ![u] = "open"]
        /\ UNCHANGED <<objects, tasks>> /\ Answer(w)
    BY <1>3 DEF InitCommit
  <2>2. upload[u] = "none"
    BY <1>3 DEF InitCommit, OneByOne, Kept, RequestsAgree
  <2>3. \A v \in Uploads : v # u => upload'[v] = upload[v]
    BY <1>0, <2>1 DEF TypeOK
  <2>4. AloneOnUpload' /\ OneMerge'
    BY <1>0, <1>1, <2>1, <2>2, <2>3, Answered, OthersAlone, OthersMerged
  <2>5. MergedOnce'
    BY <1>0, <1>1, <2>1, <2>2 DEF OneByOne, MergedOnce, TypeOK
  <2> QED
    BY <1>0, <2>4, <2>5 DEF OneByOne
<1>4. CASE PartCommit(w)
  <2>1. UNCHANGED <<upload, objects, tasks>> /\ Answer(w)
    BY <1>4 DEF PartCommit
  <2> QED
    BY <1>0, <2>1, Answered DEF OneByOne, AloneOnUpload, OneMerge, MergedOnce
<1>5. CASE CompleteCommit(w)
  <2>1. upload[u] = "open" /\ HasRow(u)
    BY <1>1, <1>5 DEF CompleteCommit, OneByOne, AloneOnUpload, HasRow, Pc
  <2>2. /\ upload' = [upload EXCEPT ![u] = "completed"]
        /\ req' = [req EXCEPT ![w].pc = "post_merge"]
        /\ UNCHANGED <<objects, tasks>>
    BY <1>5, <2>1 DEF CompleteCommit
  <2>3. upload'[u] = "completed" /\ \A v \in Uploads : v # u => upload'[v] = upload[v]
    BY <1>0, <1>1, <2>2 DEF TypeOK
  <2>4. AloneOnUpload' /\ OneMerge'
    BY <1>0, <1>1, <2>1, <2>2, <2>3, GoesOn, OthersAlone, OthersMerged
  <2>5. MergedOnce'
    BY <1>0, <1>1, <2>1, <2>2 DEF OneByOne, MergedOnce, TypeOK
  <2> QED
    BY <1>0, <2>4, <2>5 DEF OneByOne
<1>6. CASE PostMerge(w)
  <2>1. /\ tasks' = tasks \cup {Task("merge", u, w)} /\ Answer(w)
        /\ UNCHANGED <<upload, objects>> /\ Pc(w) = "post_merge"
    BY <1>6 DEF PostMerge, rows, Pc
  <2>2. upload[u] = "completed"
    BY <1>1, <2>1 DEF OneByOne, AloneOnUpload
  <2>3. \A s \in tasks : s.kind = "merge" => s.upload # u
    BY <1>1, <2>1 DEF OneByOne, OneMerge
  <2>4. Task("merge", u, w).kind = "merge" /\ Task("merge", u, w).upload = u
    BY DEF Task
  <2>5. AloneOnUpload' /\ MergedOnce'
    BY <1>0, <2>1, Answered DEF OneByOne, AloneOnUpload, MergedOnce
  <2>6. OneMerge'
    BY <1>0, <1>2, <2>1, <2>2, <2>3, <2>4, Answered DEF OneByOne, OneMerge
  <2> QED
    BY <1>0, <2>5, <2>6 DEF OneByOne
<1>7. CASE AbortCommit(w)
  <2>1. upload[u] = "open"
    BY <1>1, <1>7 DEF AbortCommit, OneByOne, AloneOnUpload, Pc
  <2>2. CASE Inserting(u) # {}
    <3>1. UNCHANGED <<upload, objects, tasks>> /\ Answer(w)
      BY <1>7, <2>2 DEF AbortCommit
    <3> QED
      BY <1>0, <3>1, Answered DEF OneByOne, AloneOnUpload, OneMerge, MergedOnce
  <2>3. CASE Inserting(u) = {}
    <3>1. /\ upload' = [upload EXCEPT ![u] = "gone"]
          /\ req' = [req EXCEPT ![w].pc = "post_remove"]
          /\ UNCHANGED <<objects, tasks>>
      BY <1>7, <2>3 DEF AbortCommit, DeleteUpload
    <3>2. upload'[u] = "gone" /\ \A v \in Uploads : v # u => upload'[v] = upload[v]
      BY <1>0, <1>1, <3>1 DEF TypeOK
    <3>3. AloneOnUpload' /\ OneMerge'
      BY <1>0, <1>1, <2>1, <3>1, <3>2, GoesOn, OthersAlone, OthersMerged
    <3>4. MergedOnce'
      BY <1>0, <1>1, <2>1, <3>1 DEF OneByOne, MergedOnce, TypeOK
    <3> QED
      BY <1>0, <3>3, <3>4 DEF OneByOne
  <2> QED
    BY <2>2, <2>3
<1>8. CASE PostRemove(w)
  <2>1. /\ tasks' = tasks \cup {Task("remove", u, w)} /\ Answer(w)
        /\ UNCHANGED <<upload, objects>>
    BY <1>8 DEF PostRemove, rows
  <2>2. Task("remove", u, w).kind = "remove"
    BY DEF Task
  <2> QED
    BY <1>0, <2>1, <2>2, Answered DEF OneByOne, AloneOnUpload, OneMerge, MergedOnce
<1> QED
  BY <1>3, <1>4, <1>5, <1>6, <1>7, <1>8 DEF Goes

LEMMA WorksOneByOne ==
    ASSUME OneByOne, NEW t \in tasks, Works(t)
    PROVE  OneByOne'
<1> DEFINE u == t.upload
<1>0. Kept' /\ TypeOK /\ t \in Tasks /\ u \in Uploads /\ UNCHANGED req
  BY WorksKept DEF OneByOne, Kept, TypeOK, Tasks, Works, MergeLoad, MergeCommit, RemoveRow, RemoveData
<1>1. \A pc \in {"merging", "disk"} :
         [t EXCEPT !.pc = pc].kind = t.kind /\ [t EXCEPT !.pc = pc].upload = u
  BY <1>0 DEF Tasks
<1>2. CASE MergeLoad(t)
  <2>1. UNCHANGED <<upload, objects>> /\ (Goto(t, "merging") \/ Done(t))
    BY <1>2 DEF MergeLoad, rows
  <2>2. AloneOnUpload' /\ MergedOnce'
    BY <1>0, <2>1 DEF OneByOne, AloneOnUpload, MergedOnce, Pc, Of
  <2>3. OneMerge'
    <3>1. CASE Done(t)
      BY <1>0, <2>1, <3>1 DEF Done, OneByOne, OneMerge, Pc, Of
    <3>2. CASE Goto(t, "merging")
      <4> DEFINE r == [t EXCEPT !.pc = "merging"]
      <4>1. r.kind = "merge" /\ r.upload = u /\ t.kind = "merge"
        BY <1>1, <1>2 DEF MergeLoad
      <4>2. \A s \in tasks' : s = r \/ (s \in tasks /\ s # t)
        BY <3>2 DEF Goto
      <4>3. \A s \in tasks' : s.kind = "merge" /\ s.upload = u => s = r
        BY <4>1, <4>2 DEF OneByOne, OneMerge
      <4>4. /\ upload[u] = "completed"
            /\ \A w \in Workers : Pc(w) = "post_merge" => Of(w) # u
        BY <4>1 DEF OneByOne, OneMerge
      <4> HIDE DEF r
      <4>5. \A s \in tasks' : s.kind = "merge" /\ s.upload # u => s \in tasks
        BY <4>1, <4>2
      <4>6. /\ \A w \in Workers : Pc(w)' = Pc(w) /\ Of(w)' = Of(w)
            /\ upload' = upload
        BY <1>0, <2>1 DEF Pc, Of
      <4> SUFFICES ASSUME NEW s \in tasks', s.kind = "merge"
                   PROVE  /\ upload'[s.upload] = "completed"
                          /\ \A w \in Workers : Pc(w)' = "post_merge" => Of(w)' # s.upload
                          /\ \A v \in tasks' : v.kind = "merge" /\ v.upload = s.upload => v = s
        BY DEF OneMerge
      <4>7. CASE s.upload = u
        BY <4>3, <4>4, <4>6, <4>7
      <4>8. CASE s.upload # u
        BY <4>5, <4>6, <4>8 DEF OneByOne, OneMerge
      <4> QED
        BY <4>7, <4>8
    <3> QED
      BY <2>1, <3>1, <3>2
  <2> QED
    BY <1>0, <2>2, <2>3 DEF OneByOne
<1>3. CASE MergeCommit(t)
  <2>1. t.kind = "merge" /\ Done(t)
    BY <1>3 DEF MergeCommit
  <2>2. upload[u] = "completed" /\ objects[u] = 0
    BY <1>0, <2>1 DEF OneByOne, OneMerge, MergedOnce
  <2>3. file[u] # "none" /\ file[u] # "gone"
    BY <1>0, <2>2 DEF OneByOne, Kept, RowsAgree
  <2>4. \A s \in tasks' : s \in tasks /\ (s.kind = "merge" => s.upload # u)
    BY <2>1 DEF Done, OneByOne, OneMerge
  <2>5. \A w \in Workers : Pc(w) # "idle" => Of(w) # u
    <3> SUFFICES ASSUME NEW w \in Workers, Pc(w) # "idle", Of(w) = u PROVE FALSE
      OBVIOUS
    <3>1. Pc(w) \in {"init", "part", "complete", "post_merge", "abort", "post_remove"}
      BY <1>0, BusyTyped DEF Pc, Requests
    <3>2. Pc(w) = "init" => upload[Of(w)] = "none"
      BY DEF OneByOne, Kept, RequestsAgree, Pc, Of
    <3> QED
      BY <2>1, <2>2, <3>1, <3>2 DEF OneByOne, AloneOnUpload, OneMerge
  <2>6. \/ /\ upload' = [upload EXCEPT ![u] = "gone"]
           /\ objects' = [objects EXCEPT ![u] = @ + 1]
        \/ UNCHANGED <<upload, objects>>
    BY <1>3 DEF MergeCommit, DeleteUpload
  <2>7. AloneOnUpload'
    <3>1. \A w \in Workers : Pc(w)' = Pc(w) /\ Of(w)' = Of(w)
      BY <1>0 DEF Pc, Of
    <3>2. \A w \in Workers : Pc(w) # "idle" => Of(w) \in Uploads
      BY <1>0, BusyTyped DEF Requests, Pc, Of
    <3>3. \A w \in Workers : Pc(w) # "idle" => upload'[Of(w)] = upload[Of(w)]
      BY <1>0, <2>5, <2>6, <3>2 DEF TypeOK
    <3> QED
      BY <3>1, <3>3 DEF OneByOne, AloneOnUpload
  <2>8. OneMerge'
    <3>1. \A s \in tasks' : s.kind = "merge" => upload'[s.upload] = "completed"
      BY <1>0, <2>4, <2>6 DEF OneByOne, OneMerge, TypeOK
    <3> QED
      BY <1>0, <2>4, <3>1 DEF OneByOne, OneMerge, Pc, Of
  <2>9. MergedOnce'
    BY <1>0, <2>2, <2>6 DEF OneByOne, MergedOnce, TypeOK
  <2> QED
    BY <1>0, <2>7, <2>8, <2>9 DEF OneByOne
<1>4. CASE RemoveRow(t) \/ RemoveData(t)
  <2>1. /\ UNCHANGED <<upload, objects>> /\ (Goto(t, "disk") \/ Done(t))
        /\ t.kind = "remove"
    BY <1>4 DEF RemoveRow, RemoveData, rows
  <2>2. \A s \in tasks' : s.kind = "merge" => s \in tasks
    BY <1>1, <2>1 DEF Goto, Done
  <2> QED
    BY <1>0, <2>1, <2>2 DEF OneByOne, AloneOnUpload, OneMerge, MergedOnce, Pc, Of
<1> QED
  BY <1>2, <1>3, <1>4 DEF Works

LEMMA StepOneByOne ==
    ASSUME ~Overlap
    PROVE  OneByOne /\ [Next]_vars => OneByOne'
<1> SUFFICES ASSUME OneByOne, [Next]_vars PROVE OneByOne'
  OBVIOUS
<1>0. Kept' /\ TypeOK
  BY StepKept DEF OneByOne, Kept
<1>1. CASE UNCHANGED vars
  BY <1>0, <1>1 DEF vars, OneByOne, AloneOnUpload, OneMerge, MergedOnce, Pc, Of
<1>2. CASE Expire \/ RecountLocation
  <2>1. UNCHANGED <<upload, objects, req>>
    BY <1>2 DEF Expire, RecountLocation, rows
  <2>2. \A s \in tasks' : s \in tasks \/ s.kind = "remove"
    <3>1. \A u : [Task("remove", u, "beat") EXCEPT !.pc = "queued"].kind = "remove"
      BY DEF Task
    <3>2. CASE RecountLocation
      BY <3>2 DEF RecountLocation
    <3>3. CASE Expire
      BY <3>1, <3>3 DEF Expire
    <3> QED
      BY <1>2, <3>2, <3>3
  <2> QED
    BY <1>0, <2>1, <2>2 DEF OneByOne, AloneOnUpload, OneMerge, MergedOnce, Pc, Of
<1>3. ASSUME NEW t \in tasks, TaskLost(t) PROVE OneByOne'
  BY <1>0, <1>3 DEF TaskLost, Done, rows, OneByOne, AloneOnUpload, OneMerge, MergedOnce, Pc, Of
<1>4. ASSUME NEW w \in Workers, PartFails(w) \/ Crash(w) PROVE OneByOne'
  <2>1. UNCHANGED <<upload, objects, tasks>> /\ Answer(w)
    BY <1>4 DEF PartFails, Crash, rows
  <2> QED
    BY <1>0, <2>1, Answered DEF OneByOne, AloneOnUpload, OneMerge, MergedOnce
<1> QED
  BY <1>1, <1>2, <1>3, <1>4, StartsOneByOne, GoesOneByOne, WorksOneByOne DEF Next

LEMMA InitOneByOne == Init => OneByOne
BY InitKept DEF Init, OneByOne, AloneOnUpload, OneMerge, MergedOnce, Idle, Pc

\* An upload becomes one object version and no more, for any uploads, parts and
\* workers and any number of faults, while requests on it come one at a time:
\* its merge is posted once, and it takes the row of the upload with it.
THEOREM MergedToOneObject ==
    ASSUME ~Overlap
    PROVE  Spec => []OneObject
<1>1. OneByOne => OneObject
  BY DEF OneByOne, MergedOnce, OneObject
<1> QED
  BY InitOneByOne, StepOneByOne, <1>1, PTL DEF Spec

\* The bytes of a completed upload are not written again, while requests on it
\* come one at a time.
THEOREM CompletedStays ==
    ASSUME ~Overlap
    PROVE  Spec => CompletedUnchanged
<1>1. OneByOne /\ [Next]_vars =>
        [\A u \in Uploads : upload[u] = "completed" => UNCHANGED data[u]]_vars
  <2> SUFFICES ASSUME OneByOne, Next, NEW v \in Uploads, upload[v] = "completed"
               PROVE  data'[v] = data[v]
    OBVIOUS
  <2>0. TypeOK
    BY DEF OneByOne, Kept
  <2>1. ASSUME NEW w \in Workers, NEW u \in Uploads, NEW p \in PartNumbers, PartBegin(w, u, p)
        PROVE  data'[v] = data[v]
    BY <2>0, <2>1 DEF PartBegin, TypeOK
  <2>2. ASSUME NEW w \in Workers, PartCommit(w) PROVE data'[v] = data[v]
    <3>1. upload[req[w].upload] = "open"
      BY <2>2 DEF PartCommit, OneByOne, AloneOnUpload, Pc, Of
    <3> QED
      BY <2>0, <2>2, <3>1 DEF PartCommit, TypeOK
  <2>3. ASSUME NEW w \in Workers, NEW u \in Uploads,
               InitContents(w, u) \/ CompleteLoad(w, u) \/ AbortLoad(w, u)
        PROVE  data'[v] = data[v]
    BY <2>3 DEF InitContents, CompleteLoad, AbortLoad
  <2>4. ASSUME NEW w \in Workers,
               \/ InitCommit(w) \/ CompleteCommit(w) \/ PostMerge(w) \/ AbortCommit(w)
               \/ PostRemove(w) \/ PartFails(w) \/ Crash(w)
        PROVE  data'[v] = data[v]
    BY <2>4 DEF InitCommit, CompleteCommit, PostMerge, AbortCommit, PostRemove, PartFails, Crash
  <2>5. ASSUME NEW t \in tasks, Works(t) \/ TaskLost(t) PROVE data'[v] = data[v]
    BY <2>5 DEF Works, MergeLoad, MergeCommit, RemoveRow, RemoveData, TaskLost
  <2>6. Expire \/ RecountLocation => data'[v] = data[v]
    BY DEF Expire, RecountLocation
  <2> QED
    BY <2>1, <2>2, <2>3, <2>4, <2>5, <2>6 DEF Next, Starts, Goes
<1> QED
  BY InitOneByOne, StepOneByOne, <1>1, PTL DEF Spec, CompletedUnchanged

-----------------------------------------------------------------------------
(* What is completed is whole.                                             *)

Writing(u, p) == \E w \in Workers : Pc(w) = "part" /\ Of(w) = u /\ req[w].part = p

\* Of one upload: a part with a row is whole or being written, a completion has
\* found a row for every part, and what is completed or merged is whole.
WholeOf(u) ==
    /\ \A p \in parts[u] : data[u][p] = "whole" \/ Writing(u, p)
    /\ \A w \in Workers : Pc(w) = "complete" /\ Of(w) = u => parts[u] = PartNumbers
    /\ upload[u] = "completed" \/ objects[u] > 0 =>
           \A p \in PartNumbers : data[u][p] = "whole"

Whole == OneByOne /\ (faults = 0 => \A u \in Uploads : WholeOf(u))

\* A step of a request or a task that neither begins nor ends the writing of a
\* part, nor brings a completion, nor changes what is stored of the upload.
LEMMA SameWhole ==
    ASSUME NEW u, WholeOf(u),
           parts'[u] = parts[u], data'[u] = data[u],
           \A w \in Workers : Pc(w) = "part" => req'[w] = req[w],
           \A w \in Workers : Pc(w)' = "complete" => req'[w] = req[w],
           upload'[u] = "completed" => upload[u] = "completed",
           objects'[u] > 0 => objects[u] > 0 \/ upload[u] = "completed"
    PROVE  WholeOf(u)'
<1>1. \A p \in parts'[u] : data'[u][p] = "whole" \/ Writing(u, p)'
  BY DEF WholeOf, Writing, Pc, Of
<1>2. \A w \in Workers : Pc(w)' = "complete" /\ Of(w)' = u => parts'[u] = PartNumbers
  BY DEF WholeOf, Pc, Of
<1>3. upload'[u] = "completed" \/ objects'[u] > 0 =>
         \A p \in PartNumbers : data'[u][p] = "whole"
  BY DEF WholeOf
<1> QED
  BY <1>1, <1>2, <1>3 DEF WholeOf

LEMMA StartsWhole ==
    ASSUME OneByOne, ~Overlap, \A u \in Uploads : WholeOf(u), NEW w \in Workers, Starts(w),
           NEW u \in Uploads
    PROVE  WholeOf(u)'
<1>0. TypeOK
  BY DEF OneByOne, Kept
<1>1. PICK v \in Uploads :
        \/ InitContents(w, v) \/ CompleteLoad(w, v) \/ AbortLoad(w, v)
        \/ \E p \in PartNumbers : PartBegin(w, v, p)
  BY DEF Starts
<1>2. /\ UNCHANGED <<upload, parts, objects>> /\ req[w] = Idle
      /\ \A x \in Workers : Pc(x) # "idle" => Of(x) # v
  <2>1. UNCHANGED <<upload, parts, objects>> /\ req[w] = Idle /\ Answering(v) = {}
    BY <1>1 DEF InitContents, CompleteLoad, AbortLoad, PartBegin, Free, rows
  <2> QED
    BY <2>1, IdlePc DEF Answering, Pc, Of
<1>3. \A x \in Workers : x # w => req'[x] = req[x]
  BY <1>0, <1>1 DEF InitContents, CompleteLoad, AbortLoad, PartBegin, Begin, TypeOK
<1>4. CASE InitContents(w, v) \/ AbortLoad(w, v)
  <2>1. data' = data /\ Pc(w)' \in {"init", "abort"}
    BY <1>0, <1>4 DEF InitContents, AbortLoad, Begin, TypeOK, Pc
  <2>2. /\ \A x \in Workers : Pc(x) = "part" => req'[x] = req[x]
        /\ \A x \in Workers : Pc(x)' = "complete" => req'[x] = req[x]
    BY <1>2, <1>3, <2>1, IdlePc DEF Pc
  <2> QED
    BY <1>2, <2>1, <2>2, SameWhole
<1>5. CASE CompleteLoad(w, v)
  <2>1. data' = data /\ parts[v] = PartNumbers /\ Pc(w)' = "complete" /\ Of(w)' = v
    BY <1>0, <1>5 DEF CompleteLoad, Begin, TypeOK, Pc, Of
  <2>2. \A x \in Workers : Pc(x)' = "complete" /\ Of(x)' = u => parts[u] = PartNumbers
    BY <1>3, <2>1 DEF WholeOf, Pc, Of
  <2>3. \A p \in PartNumbers : Writing(u, p) => Writing(u, p)'
    BY <1>2, <1>3, IdlePc DEF Writing, Pc, Of
  <2>4. parts[u] \subseteq PartNumbers
    BY <1>0 DEF TypeOK
  <2> QED
    BY <1>2, <2>1, <2>2, <2>3, <2>4 DEF WholeOf
<1>6. ASSUME NEW p \in PartNumbers, PartBegin(w, v, p) PROVE WholeOf(u)'
  <2>1. /\ data' = [data EXCEPT ![v][p] = "torn"] /\ upload[v] = "open"
        /\ Pc(w)' = "part" /\ Of(w)' = v /\ req'[w].part = p
    BY <1>0, <1>6 DEF PartBegin, TypeOK, Pc, Of
  <2>2. CASE u # v
    <3>1. data'[u] = data[u]
      BY <1>0, <2>1, <2>2 DEF TypeOK
    <3> QED
      BY <1>2, <1>3, <2>1, <3>1, IdlePc, SameWhole DEF Pc
  <2>3. CASE u = v
    <3>1. objects[u] = 0
      BY <2>1, <2>3 DEF OneByOne, MergedOnce
    <3>2. \A q \in parts[u] : data'[u][q] = "whole" \/ Writing(u, q)'
      <4> SUFFICES ASSUME NEW q \in parts[u] PROVE data'[u][q] = "whole" \/ Writing(u, q)'
        OBVIOUS
      <4>1. CASE q = p
        BY <2>1, <2>3, <4>1 DEF Writing
      <4>2. CASE q # p
        <5>1. data'[u][q] = data[u][q]
          BY <1>0, <2>1, <2>3, <4>2 DEF TypeOK
        <5>2. ~Writing(u, q)
          BY <1>2, <2>3 DEF Writing
        <5> QED
          BY <5>1, <5>2 DEF WholeOf
      <4> QED
        BY <4>1, <4>2
    <3>3. \A x \in Workers : Pc(x)' = "complete" => Of(x)' # u
      BY <1>2, <1>3, <2>1, <2>3 DEF Pc, Of
    <3> QED
      BY <1>2, <2>1, <2>3, <3>1, <3>2, <3>3 DEF WholeOf
  <2> QED
    BY <2>2, <2>3
<1> QED
  BY <1>1, <1>4, <1>5, <1>6

LEMMA GoesWhole ==
    ASSUME OneByOne, \A u \in Uploads : WholeOf(u), NEW w \in Workers, Goes(w), NEW u \in Uploads
    PROVE  WholeOf(u)'
<1> DEFINE v == req[w].upload
<1>0. TypeOK
  BY DEF OneByOne, Kept
<1>1. Pc(w) # "idle" /\ v \in Uploads /\ Of(w) = v
  <2>1. req[w].pc # "idle"
    BY DEF Goes, InitCommit, PartCommit, CompleteCommit, PostMerge, AbortCommit, PostRemove
  <2> QED
    BY <1>0, <2>1, BusyTyped DEF Requests, Pc, Of
<1>2. \A x \in Workers : x # w /\ Pc(x) # "idle" => Of(x) # v
  BY <1>1 DEF OneByOne, AloneOnUpload
<1>3. CASE InitCommit(w) \/ PostMerge(w) \/ PostRemove(w)
  <2>1. /\ Pc(w) # "part" /\ Pc(w)' = "idle" /\ UNCHANGED <<parts, data, objects>>
        /\ \A x \in Workers : x # w => req'[x] = req[x]
    BY <1>0, <1>3, IdlePc DEF InitCommit, PostMerge, PostRemove, Answer, rows, TypeOK, Pc
  <2>2. upload'[u] = "completed" => upload[u] = "completed"
    BY <1>0, <1>3 DEF InitCommit, PostMerge, PostRemove, rows, TypeOK
  <2> QED
    BY <2>1, <2>2, SameWhole
<1>4. CASE PartCommit(w)
  <2> DEFINE p == req[w].part
  <2>1. /\ data' = [data EXCEPT ![v][p] = "whole"] /\ UNCHANGED <<upload, objects>>
        /\ parts' = [parts EXCEPT ![v] = IF req[w].new THEN @ \cup {p} ELSE @]
        /\ Pc(w)' = "idle" /\ \A x \in Workers : x # w => req'[x] = req[x]
        /\ Pc(w) = "part"
    BY <1>0, <1>4, IdlePc DEF PartCommit, Answer, TypeOK, Pc
  <2>2. upload[v] = "open" /\ objects[v] = 0
    BY <1>1, <2>1 DEF OneByOne, AloneOnUpload, MergedOnce
  <2>3. CASE u # v
    <3>1. data'[u] = data[u] /\ parts'[u] = parts[u]
      BY <1>0, <2>1, <2>3 DEF TypeOK
    <3>2. \A q : Writing(u, q) => Writing(u, q)'
      BY <1>1, <2>1, <2>3 DEF Writing, Pc, Of
    <3>3. \A x \in Workers : Pc(x)' = "complete" => req'[x] = req[x]
      BY <2>1
    <3> QED
      BY <2>1, <3>1, <3>2, <3>3 DEF WholeOf, Pc, Of
  <2>4. CASE u = v
    <3>1. p \in PartNumbers
      BY <1>0, <1>1, BusyTyped DEF Requests, Pc
    <3>2. \A q \in parts'[u] : q = p \/ q \in parts[u]
      BY <1>0, <1>1, <2>1, <2>4 DEF TypeOK
    <3>3. \A q \in PartNumbers : q # p => ~Writing(u, q)
      BY <1>2, <2>4 DEF Writing
    <3>4. \A q \in PartNumbers : data'[u][q] = IF q = p THEN "whole" ELSE data[u][q]
      BY <1>0, <1>1, <2>1, <2>4, <3>1 DEF TypeOK
    <3>5. parts[u] \subseteq PartNumbers
      BY <1>0 DEF TypeOK
    <3>6. \A q \in parts'[u] : data'[u][q] = "whole"
      BY <3>1, <3>2, <3>3, <3>4, <3>5 DEF WholeOf
    <3>7. \A x \in Workers : Pc(x)' = "complete" => Of(x)' # u
      BY <1>2, <2>1, <2>4 DEF Pc, Of
    <3> QED
      BY <2>1, <2>2, <2>4, <3>6, <3>7 DEF WholeOf
  <2> QED
    BY <2>3, <2>4
<1>5. CASE CompleteCommit(w)
  <2>1. upload[v] = "open" /\ HasRow(v) /\ Pc(w) = "complete"
    BY <1>1, <1>5 DEF CompleteCommit, OneByOne, AloneOnUpload, HasRow, Pc
  <2>2. /\ upload' = [upload EXCEPT ![v] = "completed"] /\ UNCHANGED <<parts, data, objects>>
        /\ Pc(w)' = "post_merge" /\ \A x \in Workers : x # w => req'[x] = req[x]
    <3>1. req' = [req EXCEPT ![w].pc = "post_merge"]
      BY <1>5, <2>1 DEF CompleteCommit
    <3>2. Pc(w)' = "post_merge"
      BY <1>0, <1>1, <3>1, GoesOn
    <3> QED
      BY <1>0, <1>5, <2>1, <3>1, <3>2 DEF CompleteCommit, TypeOK
  <2>3. CASE u # v
    BY <1>0, <2>1, <2>2, <2>3, SameWhole DEF TypeOK
  <2>4. CASE u = v
    <3>1. parts[u] = PartNumbers
      BY <1>1, <2>1, <2>4 DEF WholeOf
    <3>2. \A q : ~Writing(u, q)
      BY <1>2, <2>1, <2>4 DEF Writing
    <3>3. \A q \in PartNumbers : data[u][q] = "whole"
      BY <3>1, <3>2 DEF WholeOf
    <3> QED
      BY <2>2, <3>1, <3>3 DEF WholeOf
  <2> QED
    BY <2>3, <2>4
<1>6. CASE AbortCommit(w)
  <2>1. upload[v] = "open" /\ objects[v] = 0 /\ Pc(w) = "abort"
    BY <1>1, <1>6 DEF AbortCommit, OneByOne, AloneOnUpload, MergedOnce, Pc
  <2>2. CASE Inserting(v) # {}
    <3>1. /\ UNCHANGED <<upload, parts, data, objects>> /\ Pc(w)' = "idle"
          /\ \A x \in Workers : x # w => req'[x] = req[x]
      BY <1>0, <1>6, <2>2, IdlePc DEF AbortCommit, Answer, TypeOK, Pc
    <3> QED
      BY <2>1, <3>1, SameWhole
  <2>3. CASE Inserting(v) = {}
    <3>1. /\ upload' = [upload EXCEPT ![v] = "gone"] /\ parts' = [parts EXCEPT ![v] = {}]
          /\ UNCHANGED <<data, objects>>
          /\ Pc(w)' = "post_remove" /\ \A x \in Workers : x # w => req'[x] = req[x]
      <4>1. req' = [req EXCEPT ![w].pc = "post_remove"]
        BY <1>6, <2>3 DEF AbortCommit
      <4>2. Pc(w)' = "post_remove"
        BY <1>0, <1>1, <4>1, GoesOn
      <4> QED
        BY <1>0, <1>6, <2>3, <4>1, <4>2 DEF AbortCommit, DeleteUpload, TypeOK
    <3>2. CASE u # v
      BY <1>0, <2>1, <3>1, <3>2, SameWhole DEF TypeOK
    <3>3. CASE u = v
      <4>1. parts'[u] = {} /\ upload'[u] = "gone" /\ objects'[u] = 0
        BY <1>0, <2>1, <3>1, <3>3 DEF TypeOK
      <4>2. \A x \in Workers : Pc(x)' = "complete" => Of(x)' # u
        BY <1>2, <3>1, <3>3 DEF Pc, Of
      <4> QED
        BY <4>1, <4>2 DEF WholeOf
    <3> QED
      BY <3>2, <3>3
  <2> QED
    BY <2>2, <2>3
<1> QED
  BY <1>3, <1>4, <1>5, <1>6 DEF Goes

LEMMA WorksWhole ==
    ASSUME OneByOne, \A u \in Uploads : WholeOf(u), NEW t \in tasks, Works(t), NEW u \in Uploads
    PROVE  WholeOf(u)'
<1> DEFINE v == t.upload
<1>0. TypeOK /\ UNCHANGED <<req, data>> /\ v \in Uploads
  BY DEF OneByOne, Kept, TypeOK, Works, MergeLoad, MergeCommit, RemoveRow, RemoveData
<1>1. CASE UNCHANGED <<upload, parts, objects>>
  BY <1>0, <1>1, SameWhole
<1>2. CASE MergeCommit(t) /\ DeleteUpload(v) /\ objects' = [objects EXCEPT ![v] = @ + 1]
  <2>1. upload[v] = "completed"
    BY <1>2 DEF MergeCommit, OneByOne, OneMerge
  <2>2. CASE u # v
    <3>1. upload'[u] = upload[u] /\ parts'[u] = parts[u] /\ objects'[u] = objects[u]
      BY <1>0, <1>2, <2>2 DEF DeleteUpload, TypeOK
    <3> QED
      BY <1>0, <3>1, SameWhole
  <2>3. CASE u = v
    <3>1. parts'[u] = {}
      BY <1>0, <1>2, <2>3 DEF DeleteUpload, TypeOK
    <3>2. \A x \in Workers : Pc(x) = "complete" => Of(x) # u
      BY <2>1, <2>3 DEF OneByOne, AloneOnUpload
    <3>3. \A p \in PartNumbers : data[u][p] = "whole"
      BY <2>1, <2>3 DEF WholeOf
    <3> QED
      BY <1>0, <3>1, <3>2, <3>3 DEF WholeOf, Pc, Of
  <2> QED
    BY <2>2, <2>3
<1> QED
  BY <1>1, <1>2 DEF Works, MergeLoad, MergeCommit, RemoveRow, RemoveData, rows

LEMMA StepWhole ==
    ASSUME ~Overlap
    PROVE  Whole /\ [Next]_vars => Whole'
<1> SUFFICES ASSUME Whole, [Next]_vars PROVE Whole'
  OBVIOUS
<1>0. OneByOne' /\ OneByOne /\ faults \in Nat
  BY StepOneByOne DEF Whole, OneByOne, Kept, TypeOK
<1> SUFFICES ASSUME faults' = 0, NEW u \in Uploads PROVE WholeOf(u)'
  BY <1>0 DEF Whole
<1>1. ASSUME faults = faults' PROVE \A v \in Uploads : WholeOf(v)
  BY <1>1 DEF Whole
<1>2. CASE UNCHANGED vars
  BY <1>1, <1>2, SameWhole DEF vars
<1>3. CASE Expire \/ RecountLocation
  BY <1>1, <1>3, SameWhole DEF Expire, RecountLocation, rows
<1>4. CASE \/ \E t \in tasks : TaskLost(t)
           \/ \E w \in Workers : PartFails(w) \/ Crash(w)
  BY <1>0, <1>4 DEF TaskLost, PartFails, Crash
<1>5. ASSUME NEW w \in Workers, Starts(w) PROVE WholeOf(u)'
  <2>1. faults = faults'
    BY <1>5 DEF Starts, InitContents, CompleteLoad, AbortLoad, PartBegin
  <2> QED
    BY <1>0, <1>1, <1>5, <2>1, StartsWhole
<1>6. ASSUME NEW w \in Workers, Goes(w) PROVE WholeOf(u)'
  <2>1. faults = faults'
    BY <1>6 DEF Goes, InitCommit, PartCommit, CompleteCommit, PostMerge, AbortCommit, PostRemove
  <2> QED
    BY <1>0, <1>1, <1>6, <2>1, GoesWhole
<1>7. ASSUME NEW t \in tasks, Works(t) PROVE WholeOf(u)'
  <2>1. faults = faults'
    BY <1>7 DEF Works, MergeLoad, MergeCommit, RemoveRow, RemoveData
  <2> QED
    BY <1>0, <1>1, <1>7, <2>1, WorksWhole
<1> QED
  BY <1>2, <1>3, <1>4, <1>5, <1>6, <1>7 DEF Next

LEMMA InitWhole == Init => Whole
BY InitOneByOne, IdlePc DEF Init, Whole, WholeOf, Pc

\* As long as no connection has broken and no process has died, every part of
\* what is completed or merged has been written to its end: a completion finds
\* a row for each part, and no part of its upload is being written.
THEOREM CompletedWhole ==
    ASSUME ~Overlap
    PROVE  Spec => []WholeWithoutFaults
<1>1. Whole => WholeWithoutFaults
  BY DEF Whole, WholeOf, WholeWithoutFaults, CompletedIsWhole
<1> QED
  BY InitWhole, StepWhole, <1>1, PTL DEF Spec

-----------------------------------------------------------------------------
(* The size of the bucket.                                                 *)

\* What an upload takes of the bucket: its reservation, then its object.
Taken == [u \in Uploads |-> objects[u] + (IF HasRow(u) THEN 1 ELSE 0)]

LEMMA TakenInt ==
    ASSUME TypeOK
    PROVE  \A u \in Uploads : Taken[u] \in Int
BY DEF TypeOK, Taken

LEMMA TakenIntAfter ==
    ASSUME TypeOK'
    PROVE  \A u \in Uploads : Taken'[u] \in Int
BY DEF TypeOK, Taken

LEMMA SumTaken ==
    MapThenSumSet(LAMBDA u : objects[u] + (IF HasRow(u) THEN 1 ELSE 0), Uploads)
        = SumOver(Taken, Uploads)
<1> DEFINE TakenRecurs(g) ==
             g = [s \in SUBSET Uploads |->
                    IF s = {} THEN 0
                    ELSE (objects[CHOOSE x \in s : TRUE]
                            + (IF HasRow(CHOOSE x \in s : TRUE) THEN 1 ELSE 0))
                         + g[s \ {CHOOSE x \in s : TRUE}]]
<1>1. MapThenSumSet(LAMBDA u : objects[u] + (IF HasRow(u) THEN 1 ELSE 0), Uploads)
        = (CHOOSE g : TakenRecurs(g))[Uploads]
  BY Zenon DEF MapThenSumSet, MapThenFoldSet
<1>2. \A s \in SUBSET Uploads : s # {} =>
        Taken[Some(s)] = objects[Some(s)] + (IF HasRow(Some(s)) THEN 1 ELSE 0)
  <2> SUFFICES ASSUME NEW s \in SUBSET Uploads, s # {}
               PROVE  Taken[Some(s)] = objects[Some(s)] + (IF HasRow(Some(s)) THEN 1 ELSE 0)
    OBVIOUS
  <2>1. Some(s) \in Uploads
    BY SomeIn
  <2> QED
    BY <2>1 DEF Taken
<1>3. ASSUME NEW g
      PROVE  TakenRecurs(g) <=> Computes(Taken, Uploads, g)
  BY <1>2 DEF Computes, Recurs, Some
<1>4. (CHOOSE g : TakenRecurs(g)) = (CHOOSE g : Computes(Taken, Uploads, g))
  <2> HIDE DEF TakenRecurs
  <2> QED
    BY <1>3, Zenon
<1> HIDE DEF TakenRecurs
<1> QED
  BY <1>1, <1>4, SumIs

\* The size of the bucket is right before and one upload's part of it changes.
Sized == OneByOne /\ bucketSize = SumOver(Taken, Uploads)

LEMMA SameSized ==
    ASSUME Sized, OneByOne', bucketSize' = bucketSize,
           \A u \in Uploads : Taken'[u] = Taken[u]
    PROVE  Sized'
<1>1. SumOver(Taken', Uploads) = SumOver(Taken, Uploads)
  BY TakenInt, SumSame, MultipartAssumption DEF Sized, OneByOne, Kept
<1> QED
  BY <1>1 DEF Sized

LEMMA OneSized ==
    ASSUME Sized, OneByOne', NEW u \in Uploads,
           \A v \in Uploads : v # u => Taken'[v] = Taken[v],
           bucketSize' = bucketSize - Taken[u] + Taken'[u]
    PROVE  Sized'
<1>1. \A v \in Uploads : Taken[v] \in Int /\ Taken'[v] \in Int
  BY TakenInt, TakenIntAfter DEF Sized, OneByOne, Kept
<1>2. SumOver(Taken', Uploads) = SumOver(Taken, Uploads) - Taken[u] + Taken'[u]
  <2> DEFINE after == Taken'
  <2>1. \A v \in Uploads : Taken[v] \in Int /\ after[v] \in Int
    BY <1>1
  <2>2. \A v \in Uploads : v # u => after[v] = Taken[v]
    OBVIOUS
  <2> HIDE DEF after
  <2>3. SumOver(after, Uploads) = SumOver(Taken, Uploads) - Taken[u] + after[u]
    BY <2>1, <2>2, SumChanged, MultipartAssumption
  <2> QED
    BY <2>3 DEF after
<1> QED
  BY <1>2 DEF Sized

\* The rows that count stay as they are.
LEMMA RowsSized ==
    ASSUME Sized, OneByOne', UNCHANGED <<upload, objects, bucketSize>>
    PROVE  Sized'
BY SameSized DEF Taken, HasRow

\* A request inserts, completes or deletes an upload, or leaves it as it is.
LEMMA GoesSized ==
    ASSUME Sized, OneByOne', NEW w \in Workers, Goes(w)
    PROVE  Sized'
<1> DEFINE u == req[w].upload
<1>0. OneByOne /\ Kept /\ TypeOK
  BY DEF Sized, OneByOne, Kept
<1>1. Pc(w) # "idle" /\ u \in Uploads /\ Of(w) = u
  <2>1. req[w].pc # "idle"
    BY DEF Goes, InitCommit, PartCommit, CompleteCommit, PostMerge, AbortCommit, PostRemove
  <2> QED
    BY <1>0, <2>1, BusyTyped DEF Requests, Pc, Of
<1>2. bucketSize \in Int /\ objects[u] \in Nat /\ DOMAIN upload = Uploads
  BY <1>0, <1>1 DEF TypeOK
<1>3. CASE InitCommit(w)
  <2>1. /\ upload' = [upload EXCEPT ![u] = "open"] /\ objects' = objects
        /\ bucketSize' = bucketSize + 1
    BY <1>3 DEF InitCommit
  <2>2. upload[u] = "none"
    BY <1>0, <1>3 DEF InitCommit, Kept, RequestsAgree
  <2>3. Taken[u] = objects[u] /\ Taken'[u] = objects[u] + 1
    BY <1>0, <1>1, <2>1, <2>2 DEF Taken, HasRow, TypeOK
  <2>4. \A v \in Uploads : v # u => Taken'[v] = Taken[v]
    BY <1>0, <2>1 DEF Taken, HasRow, TypeOK
  <2>5. bucketSize' = bucketSize - Taken[u] + Taken'[u]
    BY <1>2, <2>1, <2>3
  <2> HIDE DEF u
  <2> QED
    BY <1>1, <2>4, <2>5, OneSized
<1>4. CASE CompleteCommit(w)
  <2>1. upload[u] = "open"
    BY <1>0, <1>1, <1>4 DEF CompleteCommit, OneByOne, AloneOnUpload, Pc
  <2>2. /\ upload' = [upload EXCEPT ![u] = "completed"]
        /\ objects' = objects /\ bucketSize' = bucketSize
    BY <1>4, <2>1 DEF CompleteCommit, HasRow, sizes
  <2>3. \A v \in Uploads : Taken'[v] = Taken[v]
    BY <1>0, <2>1, <2>2 DEF Taken, HasRow, TypeOK
  <2> QED
    BY <2>2, <2>3, SameSized
<1>5. CASE AbortCommit(w)
  <2>1. upload[u] = "open"
    BY <1>0, <1>1, <1>5 DEF AbortCommit, OneByOne, AloneOnUpload, Pc
  <2>2. CASE Inserting(u) # {}
    BY <1>5, <2>2, RowsSized DEF AbortCommit
  <2>3. CASE Inserting(u) = {}
    <3>1. /\ upload' = [upload EXCEPT ![u] = "gone"] /\ objects' = objects
          /\ bucketSize' = bucketSize - 1
      BY <1>5, <2>3 DEF AbortCommit, DeleteUpload
    <3>2. Taken[u] = objects[u] + 1 /\ Taken'[u] = objects[u]
      BY <1>0, <1>1, <2>1, <3>1 DEF Taken, HasRow, TypeOK
    <3>3. \A v \in Uploads : v # u => Taken'[v] = Taken[v]
      BY <1>0, <3>1 DEF Taken, HasRow, TypeOK
    <3>4. bucketSize' = bucketSize - Taken[u] + Taken'[u]
      BY <1>2, <3>1, <3>2
    <3> HIDE DEF u
    <3> QED
      BY <1>1, <3>3, <3>4, OneSized
  <2> QED
    BY <2>2, <2>3
<1>6. CASE PartCommit(w) \/ PostMerge(w) \/ PostRemove(w)
  BY <1>6, RowsSized DEF PartCommit, PostMerge, PostRemove, rows, sizes
<1> QED
  BY <1>3, <1>4, <1>5, <1>6 DEF Goes

\* A merge turns the reservation of its upload into an object.
LEMMA WorksSized ==
    ASSUME Sized, OneByOne', NEW t \in tasks, Works(t)
    PROVE  Sized'
<1> DEFINE u == t.upload
<1>0. OneByOne /\ TypeOK /\ u \in Uploads
  BY DEF Sized, OneByOne, Kept, TypeOK
<1>1. CASE MergeCommit(t) /\ file[u] = "readable"
  <2>1. upload[u] = "completed" /\ objects[u] = 0
    BY <1>0, <1>1 DEF MergeCommit, OneByOne, OneMerge, MergedOnce
  <2>2. /\ upload' = [upload EXCEPT ![u] = "gone"]
        /\ objects' = [objects EXCEPT ![u] = @ + 1]
        /\ bucketSize' = bucketSize
    BY <1>1 DEF MergeCommit, DeleteUpload, sizes
  <2>3. Taken'[u] = Taken[u]
    BY <1>0, <2>1, <2>2 DEF Taken, HasRow, TypeOK
  <2>4. \A v \in Uploads : v # u => Taken'[v] = Taken[v]
    BY <1>0, <2>2 DEF Taken, HasRow, TypeOK
  <2> QED
    BY <2>2, <2>3, <2>4, SameSized
<1>2. CASE ~(MergeCommit(t) /\ file[u] = "readable")
  BY <1>2, RowsSized DEF Works, MergeLoad, MergeCommit, RemoveRow, RemoveData, rows, sizes
<1> QED
  BY <1>1, <1>2

LEMMA StepSized ==
    ASSUME ~Overlap
    PROVE  Sized /\ [Next]_vars => Sized'
<1> SUFFICES ASSUME Sized, [Next]_vars PROVE Sized'
  OBVIOUS
<1>0. OneByOne'
  BY StepOneByOne DEF Sized
<1>1. CASE UNCHANGED vars
  BY <1>0, <1>1, RowsSized DEF vars
<1>2. ASSUME NEW w \in Workers, Starts(w) PROVE Sized'
  BY <1>0, <1>2, RowsSized
     DEF Starts, InitContents, CompleteLoad, AbortLoad, PartBegin, rows, sizes
<1>3. ASSUME NEW w \in Workers, PartFails(w) \/ Crash(w) PROVE Sized'
  BY <1>0, <1>3, RowsSized DEF PartFails, Crash, rows, sizes
<1>4. ASSUME NEW t \in tasks, TaskLost(t) PROVE Sized'
  BY <1>0, <1>4, RowsSized DEF TaskLost, rows, sizes
<1>5. CASE Expire \/ RecountLocation
  BY <1>0, <1>5, RowsSized DEF Expire, RecountLocation, rows, sizes
<1> QED
  BY <1>0, <1>1, <1>2, <1>3, <1>4, <1>5, GoesSized, WorksSized DEF Next

\* Nothing is taken at the beginning.
LEMMA InitSized == Init => Sized
<1> SUFFICES ASSUME Init PROVE Sized
  OBVIOUS
<1>1. OneByOne
  BY InitOneByOne
<1>2. \A u \in Uploads : Taken[u] = 0
  BY DEF Init, Taken, HasRow
<1>3. SumOver(Taken, Uploads) = 0
  BY <1>2, SumZero, MultipartAssumption
<1> QED
  BY <1>1, <1>3 DEF Init, Sized

\* While requests on one upload come one at a time, the size of the bucket is
\* that of its uploads and its objects, whatever is completed, aborted, merged
\* or lost (models.py: multipart_init reserves, merge_parts hands over,
\* multipart_delete gives back).
THEOREM SizeIsThatOfUploads ==
    ASSUME ~Overlap
    PROVE  Spec => []BucketSizeIsSum
<1>1. Sized => BucketSizeIsSum
  BY SumTaken DEF Sized, BucketSizeIsSum
<1> QED
  BY InitSized, StepSized, <1>1, PTL DEF Spec
-----------------------------------------------------------------------------
(* What is left to do has somebody to do it: of CompletedIsMerged and       *)
(* AbortedIsRemoved, what does not rest on fairness.                        *)

\* The merge of u is to be posted, or is posted.
MergeDue(u) ==
    \/ \E w \in Workers : Pc(w) = "post_merge" /\ Of(w) = u
    \/ \E t \in tasks : t.kind = "merge" /\ t.upload = u

MergesDue ==
    /\ Kept
    /\ \A u \in Uploads : upload[u] = "completed" =>
        file[u] = "readable" /\ (faults = 0 => MergeDue(u))

LEMMA FaultsOnlyGrow ==
    ASSUME TypeOK, Next, faults' = 0
    PROVE  /\ faults = 0
           /\ \A w \in Workers : ~PartFails(w) /\ ~Crash(w)
           /\ \A t \in tasks : ~TaskLost(t)
<1>1. faults \in Nat
  BY DEF TypeOK
<1>2. faults' = faults \/ faults' = faults + 1
  BY DEF Next, Starts, Goes, Works, InitContents, CompleteLoad, AbortLoad, PartBegin, InitCommit,
         PartCommit, CompleteCommit, PostMerge, AbortCommit, PostRemove, MergeLoad, MergeCommit,
         RemoveRow, RemoveData, Expire, RecountLocation, PartFails, Crash, TaskLost
<1>3. faults = 0
  BY <1>1, <1>2
<1> QED
  BY <1>3 DEF PartFails, Crash, TaskLost

\* A request takes a step and no task goes.
LEMMA RequestDue ==
    ASSUME NEW u \in Uploads, MergeDue(u), NEW w \in Workers,
           Pc(w) # "post_merge" \/ Of(w) # u,
           \A x \in Workers : x # w => req'[x] = req[x],
           tasks \subseteq tasks'
    PROVE  MergeDue(u)'
BY DEF MergeDue, Pc, Of

LEMMA GoesDue ==
    ASSUME MergesDue, NEW w \in Workers, Goes(w), NEW u \in Uploads, upload'[u] = "completed"
    PROVE  /\ file'[u] = "readable"
           /\ faults = 0 => MergeDue(u)'
<1> DEFINE v == req[w].upload
<1>0. TypeOK
  BY DEF MergesDue, Kept
<1>1. Pc(w) # "idle" /\ v \in Uploads /\ Of(w) = v
  <2>1. req[w].pc # "idle"
    BY DEF Goes, InitCommit, PartCommit, CompleteCommit, PostMerge, AbortCommit, PostRemove
  <2> QED
    BY <1>0, <2>1, BusyTyped DEF Requests, Pc, Of
<1>2. CASE InitCommit(w)
  <2>1. /\ u # v /\ upload'[u] = upload[u] /\ file'[u] = file[u] /\ tasks' = tasks
        /\ Pc(w) = "init" /\ \A x \in Workers : x # w => req'[x] = req[x]
    BY <1>0, <1>1, <1>2 DEF InitCommit, Answer, TypeOK, Pc
  <2> QED
    BY <2>1, RequestDue DEF MergesDue
<1>3. CASE PartCommit(w) \/ PostRemove(w)
  <2>1. /\ upload' = upload /\ file' = file /\ tasks \subseteq tasks'
        /\ Pc(w) # "post_merge" /\ \A x \in Workers : x # w => req'[x] = req[x]
    BY <1>0, <1>1, <1>3 DEF PartCommit, PostRemove, Answer, rows, TypeOK, Pc
  <2> QED
    BY <2>1, RequestDue DEF MergesDue
<1>4. CASE CompleteCommit(w)
  <2>1. Pc(w) = "complete" /\ tasks' = tasks /\ \A x \in Workers : x # w => req'[x] = req[x]
    BY <1>0, <1>4 DEF CompleteCommit, Answer, TypeOK, Pc
  <2>2. CASE HasRow(v)
    <3>1. /\ upload' = [upload EXCEPT ![v] = "completed"]
          /\ file' = [file EXCEPT ![v] = "readable"]
          /\ req' = [req EXCEPT ![w].pc = "post_merge"]
      BY <1>4, <2>2 DEF CompleteCommit
    <3>2. Pc(w)' = "post_merge" /\ Of(w)' = v
      BY <1>0, <1>1, <3>1, GoesOn
    <3>3. CASE u = v
      BY <1>0, <3>1, <3>2, <3>3 DEF MergeDue, TypeOK
    <3>4. CASE u # v
      <4>1. upload[u] = "completed" /\ file'[u] = file[u]
        BY <1>0, <3>1, <3>4 DEF TypeOK
      <4> QED
        BY <2>1, <4>1, RequestDue DEF MergesDue
    <3> QED
      BY <3>3, <3>4
  <2>3. CASE ~HasRow(v)
    <3>1. upload' = upload /\ file' = file
      BY <1>4, <2>3 DEF CompleteCommit
    <3> QED
      BY <2>1, <3>1, RequestDue DEF MergesDue
  <2> QED
    BY <2>2, <2>3
<1>5. CASE PostMerge(w)
  <2>1. /\ upload' = upload /\ file' = file /\ tasks' = tasks \cup {Task("merge", v, w)}
        /\ \A x \in Workers : x # w => req'[x] = req[x]
    BY <1>0, <1>5 DEF PostMerge, Answer, rows, TypeOK
  <2>2. CASE u = v
    <3>1. Task("merge", v, w).kind = "merge" /\ Task("merge", v, w).upload = v
      BY DEF Task
    <3>2. MergeDue(u)'
      BY <2>1, <2>2, <3>1 DEF MergeDue
    <3> QED
      BY <2>1, <3>2 DEF MergesDue
  <2>3. CASE u # v
    BY <1>1, <2>1, <2>3, RequestDue DEF MergesDue
  <2> QED
    BY <2>2, <2>3
<1>6. CASE AbortCommit(w)
  <2>1. /\ Pc(w) = "abort" /\ tasks' = tasks /\ file' = file
        /\ \A x \in Workers : x # w => req'[x] = req[x]
    BY <1>0, <1>6 DEF AbortCommit, Answer, TypeOK, Pc
  <2>2. upload[u] = "completed"
    BY <1>0, <1>1, <1>6 DEF AbortCommit, DeleteUpload, TypeOK
  <2> QED
    BY <2>1, <2>2, RequestDue DEF MergesDue
<1> QED
  BY <1>2, <1>3, <1>4, <1>5, <1>6 DEF Goes

LEMMA WorksDue ==
    ASSUME MergesDue, NEW t \in tasks, Works(t), NEW u \in Uploads, upload'[u] = "completed"
    PROVE  /\ file'[u] = "readable"
           /\ faults = 0 => MergeDue(u)'
<1> DEFINE v == t.upload
<1>0. TypeOK /\ t \in Tasks /\ v \in Uploads
  BY DEF MergesDue, Kept, TypeOK, Tasks
<1>1. req' = req
  BY DEF Works, MergeLoad, MergeCommit, RemoveRow, RemoveData
<1>2. ASSUME upload[u] = "completed", tasks \ {t} \subseteq tasks',
             t.kind = "merge" /\ v = u => \E s \in tasks' : s.kind = "merge" /\ s.upload = u
      PROVE  faults = 0 => MergeDue(u)'
  BY <1>1, <1>2 DEF MergesDue, MergeDue, Pc, Of
<1>3. CASE MergeLoad(t)
  <2>1. upload' = upload /\ file' = file
    BY <1>3 DEF MergeLoad, rows
  <2>2. CASE upload[v] = "completed"
    <3>1. tasks' = (tasks \ {t}) \cup {[t EXCEPT !.pc = "merging"]}
      BY <1>3, <2>2 DEF MergeLoad, Goto
    <3>2. [t EXCEPT !.pc = "merging"].kind = t.kind /\ [t EXCEPT !.pc = "merging"].upload = v
      BY <1>0 DEF Tasks
    <3> QED
      BY <1>2, <2>1, <3>1, <3>2 DEF MergesDue
  <2>3. CASE upload[v] # "completed"
    <3>1. tasks' = tasks \ {t} /\ u # v
      BY <1>3, <2>1, <2>3 DEF MergeLoad, Done
    <3> QED
      BY <1>2, <2>1, <3>1 DEF MergesDue
  <2> QED
    BY <2>2, <2>3
<1>4. CASE MergeCommit(t)
  <2>1. tasks' = tasks \ {t} /\ file' = file
    BY <1>4 DEF MergeCommit, Done
  <2>2. u # v /\ upload[u] = "completed"
    <3>1. CASE file[v] = "readable"
      BY <1>0, <1>4, <3>1 DEF MergeCommit, DeleteUpload, TypeOK
    <3>2. CASE file[v] # "readable"
      BY <1>0, <1>4, <3>2 DEF MergeCommit, MergesDue
    <3> QED
      BY <3>1, <3>2
  <2> QED
    BY <1>2, <2>1, <2>2 DEF MergesDue
<1>5. CASE RemoveRow(t)
  <2>1. upload' = upload /\ t.kind = "remove" /\ tasks \ {t} \subseteq tasks'
    BY <1>5 DEF RemoveRow, Done, Goto
  <2>2. file[u] = "readable"
    BY <2>1 DEF MergesDue
  <2>3. file'[u] = "readable"
    BY <1>0, <1>5, <2>2 DEF RemoveRow, TypeOK
  <2> QED
    BY <1>2, <2>1, <2>3
<1>6. CASE RemoveData(t)
  <2>1. upload' = upload /\ file' = file /\ t.kind = "remove" /\ tasks' = tasks \ {t}
    BY <1>6 DEF RemoveData, Done, rows
  <2> QED
    BY <1>2, <2>1 DEF MergesDue
<1> QED
  BY <1>3, <1>4, <1>5, <1>6 DEF Works

LEMMA StepDue == MergesDue /\ [Next]_vars => MergesDue'
<1> SUFFICES ASSUME MergesDue, [Next]_vars PROVE MergesDue'
  OBVIOUS
<1>0. Kept' /\ TypeOK
  BY StepKept DEF MergesDue, Kept
<1>1. CASE UNCHANGED vars
  BY <1>0, <1>1 DEF vars, MergesDue, MergeDue, Pc, Of
<1>2. CASE Next
  <2> SUFFICES ASSUME NEW u \in Uploads, upload'[u] = "completed"
               PROVE  file'[u] = "readable" /\ (faults' = 0 => MergeDue(u)')
    BY <1>0 DEF MergesDue
  <2>1. faults' = 0 => faults = 0
    BY <1>0, <1>2, FaultsOnlyGrow
  <2>2. ASSUME NEW w \in Workers, Starts(w)
        PROVE  file'[u] = "readable" /\ (faults' = 0 => MergeDue(u)')
    <3>1. /\ upload' = upload /\ file' = file /\ tasks' = tasks /\ req[w] = Idle
          /\ \A x \in Workers : x # w => req'[x] = req[x]
      BY <1>0, <2>2
      DEF Starts, InitContents, CompleteLoad, AbortLoad, PartBegin, Begin, Free, rows, TypeOK
    <3>2. Pc(w) # "post_merge"
      BY <3>1, IdlePc DEF Pc
    <3> QED
      BY <2>1, <3>1, <3>2, RequestDue DEF MergesDue
  <2>3. ASSUME NEW w \in Workers, Goes(w)
        PROVE  file'[u] = "readable" /\ (faults' = 0 => MergeDue(u)')
    BY <2>1, <2>3, GoesDue
  <2>4. ASSUME NEW t \in tasks, Works(t)
        PROVE  file'[u] = "readable" /\ (faults' = 0 => MergeDue(u)')
    BY <2>1, <2>4, WorksDue
  <2>5. ASSUME Expire \/ RecountLocation
        PROVE  file'[u] = "readable" /\ (faults' = 0 => MergeDue(u)')
    <3>1. upload' = upload /\ file' = file /\ req' = req /\ tasks \subseteq tasks'
      BY <2>5 DEF Expire, RecountLocation, rows
    <3> QED
      BY <2>1, <3>1 DEF MergesDue, MergeDue, Pc, Of
  <2>6. ASSUME \/ \E w \in Workers : PartFails(w) \/ Crash(w)
               \/ \E t \in tasks : TaskLost(t)
        PROVE  file'[u] = "readable" /\ (faults' = 0 => MergeDue(u)')
    <3>1. upload' = upload /\ file' = file
      BY <2>6 DEF PartFails, Crash, TaskLost, rows
    <3>2. faults' # 0
      BY <1>0, <1>2, <2>6, FaultsOnlyGrow
    <3> QED
      BY <3>1, <3>2 DEF MergesDue
  <2> QED
    BY <1>2, <2>2, <2>3, <2>4, <2>5, <2>6 DEF Next
<1> QED
  BY <1>1, <1>2

\* No completed upload is forgotten: until it is an object, its merge is posted
\* or about to be, with requests overlapping too, unless a process has died.
THEOREM MergeAwaited ==
    Spec => [](faults = 0 => \A u \in Uploads : upload[u] = "completed" => MergeDue(u))
<1>1. Init => MergesDue
  BY InitKept DEF Init, MergesDue
<1>2. MergesDue => (faults = 0 => \A u \in Uploads : upload[u] = "completed" => MergeDue(u))
  BY DEF MergesDue
<1> QED
  BY <1>1, <1>2, StepDue, PTL DEF Spec
\* The removal of u's file from the disk is to be posted, posted or half done;
\* or u is only beginning.
RemovalDue(u) ==
    \/ \E w \in Workers : Pc(w) = "init" /\ Of(w) = u
    \/ /\ file[u] = "writable"
       /\ \/ \E w \in Workers : Pc(w) = "post_remove" /\ Of(w) = u
          \/ \E t \in tasks : t.kind = "remove" /\ t.upload = u /\ t.pc = "queued"
    \/ /\ file[u] = "gone"
       /\ \E t \in tasks : t.kind = "remove" /\ t.upload = u /\ t.pc = "disk"

Claimed(u) == HasRow(u) \/ objects[u] > 0 \/ RemovalDue(u)

RemovalsDue ==
    /\ OneByOne
    /\ \A u \in Uploads : upload[u] = "open" => file[u] = "writable"
    /\ faults = 0 => \A u \in disk : Claimed(u)

\* A request takes a step that is not about u, and no task goes.
LEMMA RequestClaim ==
    ASSUME NEW u \in Uploads, Claimed(u), NEW w \in Workers,
           upload'[u] = upload[u], objects'[u] = objects[u], file'[u] = file[u],
           Pc(w) \notin {"init", "post_remove"} \/ Of(w) # u,
           \A x \in Workers : x # w => Pc(x)' = Pc(x) /\ Of(x)' = Of(x),
           tasks \subseteq tasks'
    PROVE  Claimed(u)'
BY DEF Claimed, RemovalDue, HasRow

\* A task takes a step that is not about the removal of u.
LEMMA TaskClaim ==
    ASSUME NEW u \in Uploads, Claimed(u), NEW t \in tasks,
           upload'[u] = upload[u], objects'[u] = objects[u], file'[u] = file[u], req' = req,
           t.kind # "remove" \/ t.upload # u, tasks \ {t} \subseteq tasks'
    PROVE  Claimed(u)'
<1>1. \A s \in tasks : s.kind = "remove" /\ s.upload = u => s \in tasks'
  OBVIOUS
<1>2. \A w \in Workers : Pc(w)' = Pc(w) /\ Of(w)' = Of(w)
  BY DEF Pc, Of
<1> QED
  BY <1>1, <1>2 DEF Claimed, RemovalDue, HasRow

LEMMA StartsClaim ==
    ASSUME RemovalsDue, NEW w \in Workers, Starts(w), NEW u \in disk',
           \A v \in disk : Claimed(v)
    PROVE  Claimed(u)'
<1>0. TypeOK /\ TypeOK' /\ u \in Uploads
  <2>1. TypeOK /\ TypeOK'
    BY StartsTyped DEF RemovalsDue, OneByOne, Kept
  <2> QED
    BY <2>1 DEF TypeOK
<1>1. PICK v \in Uploads :
        \/ InitContents(w, v) \/ CompleteLoad(w, v) \/ AbortLoad(w, v)
        \/ \E p \in PartNumbers : PartBegin(w, v, p)
  BY DEF Starts
<1>2. /\ UNCHANGED <<upload, objects, file, tasks>> /\ Pc(w) = "idle"
      /\ \A x \in Workers : x # w => Pc(x)' = Pc(x) /\ Of(x)' = Of(x)
  BY <1>0, <1>1, IdlePc
  DEF InitContents, CompleteLoad, AbortLoad, PartBegin, Begin, Free, rows, TypeOK, Pc, Of
<1>3. CASE u \in disk
  <2>1. Claimed(u)
    BY <1>3
  <2> QED
    BY <1>0, <1>2, <2>1, RequestClaim
<1>4. CASE u \notin disk
  <2>1. InitContents(w, v) /\ u = v
    BY <1>1, <1>4 DEF InitContents, CompleteLoad, AbortLoad, PartBegin
  <2>2. Pc(w)' = "init" /\ Of(w)' = u
    BY <1>0, <2>1 DEF InitContents, Begin, TypeOK, Pc, Of
  <2> QED
    BY <2>2 DEF Claimed, RemovalDue
<1> QED
  BY <1>3, <1>4

LEMMA GoesClaim ==
    ASSUME RemovalsDue, NEW w \in Workers, Goes(w)
    PROVE  /\ disk' = disk
           /\ \A u \in Uploads : upload'[u] = "open" => file'[u] = "writable"
           /\ \A u \in disk : Claimed(u) => Claimed(u)'
<1> DEFINE v == req[w].upload
<1>0. TypeOK /\ OneByOne
  BY DEF RemovalsDue, OneByOne, Kept
<1>1. Pc(w) # "idle" /\ v \in Uploads /\ Of(w) = v
  <2>1. req[w].pc # "idle"
    BY DEF Goes, InitCommit, PartCommit, CompleteCommit, PostMerge, AbortCommit, PostRemove
  <2> QED
    BY <1>0, <2>1, BusyTyped DEF Requests, Pc, Of
<1>2. disk \subseteq Uploads
  BY <1>0 DEF TypeOK
<1>3. CASE InitCommit(w)
  <2>1. /\ upload' = [upload EXCEPT ![v] = "open"] /\ file' = [file EXCEPT ![v] = "writable"]
        /\ UNCHANGED <<objects, disk, tasks>> /\ Answer(w)
    BY <1>3 DEF InitCommit
  <2>2. ASSUME NEW u \in disk, Claimed(u)
        PROVE  Claimed(u)'
    <3>1. CASE u = v
      BY <1>0, <1>1, <2>1, <3>1 DEF TypeOK, Claimed, HasRow
    <3>2. CASE u # v
      <4>1. upload'[u] = upload[u] /\ file'[u] = file[u]
        BY <1>0, <2>1, <3>2 DEF TypeOK
      <4> QED
        BY <1>0, <1>1, <1>2, <2>1, <2>2, <3>2, <4>1, Answered, RequestClaim
    <3> QED
      BY <3>1, <3>2
  <2>3. \A u \in Uploads : upload'[u] = "open" => file'[u] = "writable"
    BY <1>0, <1>1, <2>1 DEF TypeOK, RemovalsDue
  <2> QED
    BY <2>1, <2>2, <2>3
<1>4. CASE PartCommit(w) \/ PostMerge(w)
  <2>1. /\ UNCHANGED <<upload, file, objects, disk>> /\ tasks \subseteq tasks' /\ Answer(w)
        /\ Pc(w) \notin {"init", "post_remove"}
    BY <1>4 DEF PartCommit, PostMerge, rows, Pc
  <2> QED
    BY <1>0, <1>2, <2>1, Answered, RequestClaim DEF RemovalsDue
<1>5. CASE CompleteCommit(w)
  <2>1. upload[v] = "open" /\ HasRow(v) /\ Pc(w) = "complete"
    BY <1>0, <1>1, <1>5 DEF CompleteCommit, OneByOne, AloneOnUpload, HasRow, Pc
  <2>2. /\ upload' = [upload EXCEPT ![v] = "completed"] /\ file' = [file EXCEPT ![v] = "readable"]
        /\ UNCHANGED <<objects, disk, tasks>> /\ req' = [req EXCEPT ![w].pc = "post_merge"]
    BY <1>5, <2>1 DEF CompleteCommit
  <2>3. ASSUME NEW u \in disk, Claimed(u)
        PROVE  Claimed(u)'
    <3>1. CASE u = v
      BY <1>0, <1>1, <2>2, <3>1 DEF TypeOK, Claimed, HasRow
    <3>2. CASE u # v
      <4>1. upload'[u] = upload[u] /\ file'[u] = file[u]
        BY <1>0, <2>2, <3>2 DEF TypeOK
      <4> QED
        BY <1>0, <1>1, <1>2, <2>1, <2>2, <2>3, <4>1, GoesOn, RequestClaim
    <3> QED
      BY <3>1, <3>2
  <2>4. \A u \in Uploads : upload'[u] = "open" => file'[u] = "writable"
    BY <1>0, <1>1, <2>2 DEF TypeOK, RemovalsDue
  <2> QED
    BY <2>2, <2>3, <2>4
<1>6. CASE AbortCommit(w)
  <2>1. upload[v] = "open" /\ Pc(w) = "abort" /\ UNCHANGED <<file, objects, disk, tasks>>
    BY <1>0, <1>1, <1>6 DEF AbortCommit, OneByOne, AloneOnUpload, Pc
  <2>2. CASE Inserting(v) # {}
    <3>1. upload' = upload /\ Answer(w)
      BY <1>6, <2>2 DEF AbortCommit
    <3> QED
      BY <1>0, <1>2, <2>1, <3>1, Answered, RequestClaim DEF RemovalsDue
  <2>3. CASE Inserting(v) = {}
    <3>1. /\ upload' = [upload EXCEPT ![v] = "gone"]
          /\ req' = [req EXCEPT ![w].pc = "post_remove"]
      BY <1>6, <2>3 DEF AbortCommit, DeleteUpload
    <3>2. /\ Pc(w)' = "post_remove" /\ Of(w)' = v
          /\ \A x \in Workers : x # w => Pc(x)' = Pc(x) /\ Of(x)' = Of(x)
      BY <1>0, <1>1, <3>1, GoesOn
    <3>3. ASSUME NEW u \in disk, Claimed(u)
          PROVE  Claimed(u)'
      <4>1. CASE u = v
        <5>1. file'[u] = "writable"
          BY <1>1, <2>1, <4>1 DEF RemovalsDue
        <5> QED
          BY <3>2, <4>1, <5>1 DEF Claimed, RemovalDue
      <4>2. CASE u # v
        <5>1. upload'[u] = upload[u]
          BY <1>0, <3>1, <4>2 DEF TypeOK
        <5> QED
          BY <1>1, <1>2, <2>1, <3>2, <3>3, <4>2, <5>1, RequestClaim
      <4> QED
        BY <4>1, <4>2
    <3>4. \A u \in Uploads : upload'[u] = "open" => file'[u] = "writable"
      BY <1>0, <1>1, <2>1, <3>1 DEF TypeOK, RemovalsDue
    <3> QED
      BY <2>1, <3>3, <3>4
  <2> QED
    BY <2>2, <2>3
<1>7. CASE PostRemove(w)
  <2>1. /\ UNCHANGED <<upload, file, objects, disk>> /\ tasks' = tasks \cup {Task("remove", v, w)}
        /\ Answer(w) /\ Pc(w) = "post_remove"
    BY <1>7 DEF PostRemove, rows, Pc
  <2>2. ASSUME NEW u \in disk, Claimed(u)
        PROVE  Claimed(u)'
    <3>1. CASE u # v
      BY <1>0, <1>1, <1>2, <2>1, <2>2, <3>1, Answered, RequestClaim
    <3>2. CASE u = v
      <4>1. /\ Task("remove", v, w).kind = "remove" /\ Task("remove", v, w).upload = v
            /\ Task("remove", v, w).pc = "queued"
        BY DEF Task
      <4>2. upload[v] = "gone"
        BY <1>1, <2>1 DEF RemovalsDue, OneByOne, AloneOnUpload
      <4>3. file[u] # "writable" => Claimed(u)'
        <5>1. \A x \in Workers : Pc(x) = "init" /\ Of(x) = u => x # w
          BY <2>1
        <5> QED
          BY <1>0, <2>1, <2>2, <5>1, Answered DEF Claimed, RemovalDue, HasRow
      <4>4. file[u] = "writable" => Claimed(u)'
        BY <2>1, <3>2, <4>1 DEF Claimed, RemovalDue
      <4> QED
        BY <4>3, <4>4
    <3> QED
      BY <3>1, <3>2
  <2> QED
    BY <2>1, <2>2 DEF RemovalsDue
<1> QED
  BY <1>3, <1>4, <1>5, <1>6, <1>7 DEF Goes

LEMMA WorksClaim ==
    ASSUME RemovalsDue, NEW t \in tasks, Works(t)
    PROVE  /\ disk' \subseteq disk
           /\ \A u \in Uploads : upload'[u] = "open" => file'[u] = "writable"
           /\ \A u \in disk' : Claimed(u) => Claimed(u)'
<1> DEFINE v == t.upload
<1>0. TypeOK /\ OneByOne /\ t \in Tasks /\ v \in Uploads
  BY DEF RemovalsDue, OneByOne, Kept, TypeOK, Tasks
<1>1. disk \subseteq Uploads /\ req' = req
  BY <1>0 DEF TypeOK, Works, MergeLoad, MergeCommit, RemoveRow, RemoveData
<1>2. CASE MergeLoad(t)
  <2>1. /\ UNCHANGED <<upload, file, objects, disk>> /\ tasks \ {t} \subseteq tasks'
        /\ t.kind # "remove"
    BY <1>2 DEF MergeLoad, Goto, Done, rows
  <2> QED
    BY <1>1, <2>1, TaskClaim DEF RemovalsDue
<1>3. CASE MergeCommit(t)
  <2>1. UNCHANGED <<file, disk>> /\ tasks' = tasks \ {t} /\ t.kind = "merge"
    BY <1>3 DEF MergeCommit, Done
  <2>2. CASE file[v] = "readable"
    <3>1. /\ upload' = [upload EXCEPT ![v] = "gone"]
          /\ objects' = [objects EXCEPT ![v] = @ + 1]
      BY <1>3, <2>2 DEF MergeCommit, DeleteUpload
    <3>2. ASSUME NEW u \in disk, Claimed(u)
          PROVE  Claimed(u)'
      <4>1. CASE u = v
        <5>1. objects'[u] > 0
          BY <1>0, <3>1, <4>1 DEF TypeOK
        <5> QED
          BY <5>1 DEF Claimed
      <4>2. CASE u # v
        <5>1. upload'[u] = upload[u] /\ objects'[u] = objects[u]
          BY <1>0, <3>1, <4>2 DEF TypeOK
        <5> QED
          BY <1>1, <2>1, <3>2, <5>1, TaskClaim
      <4> QED
        BY <4>1, <4>2
    <3>3. \A u \in Uploads : upload'[u] = "open" => file'[u] = "writable"
      BY <1>0, <2>1, <3>1 DEF TypeOK, RemovalsDue
    <3> QED
      BY <2>1, <3>2, <3>3
  <2>3. CASE file[v] # "readable"
    <3>1. UNCHANGED <<upload, objects>>
      BY <1>3, <2>3 DEF MergeCommit
    <3> QED
      BY <1>1, <2>1, <3>1, TaskClaim DEF RemovalsDue
  <2> QED
    BY <2>2, <2>3
<1>4. CASE RemoveRow(t)
  <2>1. /\ UNCHANGED <<upload, objects, disk>> /\ t.kind = "remove" /\ t.pc = "queued"
        /\ tasks \ {t} \subseteq tasks'
    BY <1>4 DEF RemoveRow, Goto, Done
  <2>2. CASE file[v] = "writable" /\ ~HasRow(v) /\ objects[v] = 0
    <3>1. /\ file' = [file EXCEPT ![v] = "gone"]
          /\ tasks' = (tasks \ {t}) \cup {[t EXCEPT !.pc = "disk"]}
      BY <1>4, <2>2 DEF RemoveRow, Goto
    <3>2. /\ [t EXCEPT !.pc = "disk"].kind = "remove" /\ [t EXCEPT !.pc = "disk"].upload = v
          /\ [t EXCEPT !.pc = "disk"].pc = "disk"
      BY <1>0, <2>1 DEF Tasks
    <3>3. ASSUME NEW u \in disk, Claimed(u)
          PROVE  Claimed(u)'
      <4>1. CASE u = v
        <5>1. file'[u] = "gone"
          BY <1>0, <3>1, <4>1 DEF TypeOK
        <5> QED
          BY <3>1, <3>2, <4>1, <5>1 DEF Claimed, RemovalDue
      <4>2. CASE u # v
        <5>1. file'[u] = file[u]
          BY <1>0, <3>1, <4>2 DEF TypeOK
        <5> QED
          BY <1>1, <2>1, <3>3, <4>2, <5>1, TaskClaim
      <4> QED
        BY <4>1, <4>2
    <3>4. \A u \in Uploads : upload'[u] = "open" => file'[u] = "writable"
      BY <1>0, <2>1, <2>2, <3>1 DEF TypeOK, RemovalsDue, HasRow
    <3> QED
      BY <2>1, <3>3, <3>4
  <2>3. CASE ~(file[v] = "writable" /\ ~HasRow(v) /\ objects[v] = 0)
    <3>1. file' = file /\ tasks' = tasks \ {t}
      BY <1>4, <2>3 DEF RemoveRow, Done
    <3>2. ASSUME NEW u \in disk, Claimed(u)
          PROVE  Claimed(u)'
      <4>1. CASE u # v
        BY <1>1, <2>1, <3>1, <3>2, <4>1, TaskClaim
      <4>2. CASE u = v
        <5>1. file[u] = "writable" => HasRow(u) \/ objects[u] > 0
          BY <1>0, <2>3, <4>2 DEF TypeOK
        <5>2. \A s \in tasks : s.pc = "disk" => s \in tasks'
          BY <2>1, <3>1
        <5> QED
          BY <1>1, <2>1, <3>1, <3>2, <5>1, <5>2 DEF Claimed, RemovalDue, HasRow, Pc, Of
      <4> QED
        BY <4>1, <4>2
    <3> QED
      BY <2>1, <3>1, <3>2 DEF RemovalsDue
  <2> QED
    BY <2>2, <2>3
<1>5. CASE RemoveData(t)
  <2>1. /\ UNCHANGED <<upload, file, objects>> /\ disk' = disk \ {v}
        /\ tasks' = tasks \ {t}
    BY <1>5 DEF RemoveData, Done, rows
  <2> QED
    BY <1>1, <2>1, TaskClaim DEF RemovalsDue
<1> QED
  BY <1>2, <1>3, <1>4, <1>5 DEF Works

LEMMA StepRemovalsDue ==
    ASSUME ~Overlap
    PROVE  RemovalsDue /\ [Next]_vars => RemovalsDue'
<1> SUFFICES ASSUME RemovalsDue, [Next]_vars PROVE RemovalsDue'
  OBVIOUS
<1>0. OneByOne' /\ OneByOne /\ TypeOK
  BY StepOneByOne DEF RemovalsDue, OneByOne, Kept
<1>1. CASE UNCHANGED vars
  BY <1>0, <1>1 DEF vars, RemovalsDue, Claimed, RemovalDue, HasRow, Pc, Of
<1>2. CASE Next
  <2>1. faults' = 0 => faults = 0
    BY <1>0, <1>2, FaultsOnlyGrow
  <2>2. ASSUME NEW w \in Workers, Starts(w) PROVE RemovalsDue'
    <3>1. UNCHANGED <<upload, file>>
      BY <2>2 DEF Starts, InitContents, CompleteLoad, AbortLoad, PartBegin, rows
    <3> QED
      BY <1>0, <2>1, <2>2, <3>1, StartsClaim DEF RemovalsDue
  <2>3. ASSUME NEW w \in Workers, Goes(w) PROVE RemovalsDue'
    BY <1>0, <2>1, <2>3, GoesClaim DEF RemovalsDue
  <2>4. ASSUME NEW t \in tasks, Works(t) PROVE RemovalsDue'
    BY <1>0, <2>1, <2>4, WorksClaim DEF RemovalsDue
  <2>5. CASE Expire \/ RecountLocation
    <3>1. UNCHANGED <<upload, file, objects, disk, req>> /\ tasks \subseteq tasks'
      BY <2>5 DEF Expire, RecountLocation, rows
    <3>2. \A u \in disk : Claimed(u) => Claimed(u)'
      BY <3>1 DEF Claimed, RemovalDue, HasRow, Pc, Of
    <3> QED
      BY <1>0, <2>1, <3>1, <3>2 DEF RemovalsDue
  <2>6. CASE \/ \E w \in Workers : PartFails(w) \/ Crash(w)
             \/ \E t \in tasks : TaskLost(t)
    <3>1. UNCHANGED <<upload, file>>
      BY <2>6 DEF PartFails, Crash, TaskLost, rows
    <3>2. faults' # 0
      BY <1>0, <1>2, <2>6, FaultsOnlyGrow
    <3> QED
      BY <1>0, <3>1, <3>2 DEF RemovalsDue
  <2> QED
    BY <1>2, <2>2, <2>3, <2>4, <2>5, <2>6 DEF Next
<1> QED
  BY <1>1, <1>2

\* No bytes are forgotten on disk, while requests on one upload come one at a
\* time and no process dies: they are of an upload under way or of an object, or
\* their removal is posted or about to be.
THEOREM BytesAccounted ==
    ASSUME ~Overlap
    PROVE  Spec => [](faults = 0 => \A u \in disk : Claimed(u))
<1>1. Init => RemovalsDue
  BY InitOneByOne DEF Init, RemovalsDue
<1>2. RemovalsDue => (faults = 0 => \A u \in disk : Claimed(u))
  BY DEF RemovalsDue
<1> QED
  BY <1>1, <1>2, StepRemovalsDue, PTL DEF Spec

-----------------------------------------------------------------------------
(* The life of uploads: Multipart implements UploadLife when the requests  *)
(* on an upload come one at a time.                                        *)

\* Until its object is made an upload lives as its row does.
LEMMA LifeOfRow ==
    ASSUME OneByOne, NEW u \in Uploads
    PROVE  /\ objects[u] = 0 /\ upload[u] # "gone" => LifeOf(u) = upload[u]
           /\ objects[u] = 0 /\ upload[u] = "gone" => LifeOf(u) = "aborted"
           /\ upload[u] # "gone" => objects[u] = 0 /\ LifeOf(u) = upload[u]
           /\ objects[u] > 0 => LifeOf(u) = "object"
<1>1. objects[u] \in Nat /\ (upload[u] # "gone" => objects[u] = 0)
  BY DEF OneByOne, MergedOnce, Kept, TypeOK
<1> QED
  BY <1>1 DEF LifeOf

LEMMA LivesSame ==
    ASSUME UNCHANGED <<upload, objects>>
    PROVE  [u \in Uploads |-> LifeOf(u)]' = [u \in Uploads |-> LifeOf(u)]
BY DEF LifeOf

\* One upload goes on in its life.
LEMMA LifeGoesOn ==
    ASSUME NEW u \in Uploads, NEW from, NEW to, LifeOf(u) = from, LifeOf(u)' = to,
           \A v \in Uploads : v # u => upload'[v] = upload[v] /\ objects'[v] = objects[v]
    PROVE  Life!Become(u, from, to)
<1>1. \A v \in Uploads : v # u => LifeOf(v)' = LifeOf(v)
  BY DEF LifeOf
<1> QED
  BY <1>1 DEF Life!Become

LEMMA StartsLife ==
    ASSUME OneByOne, NEW w \in Workers, Starts(w)
    PROVE  Life!Next \/ UNCHANGED Life!vars
<1>1. PICK u \in Uploads :
        \/ InitContents(w, u) \/ CompleteLoad(w, u) \/ AbortLoad(w, u)
        \/ \E p \in PartNumbers : PartBegin(w, u, p)
  BY DEF Starts
<1>2. [v \in Uploads |-> LifeOf(v)]' = [v \in Uploads |-> LifeOf(v)] /\ bucketSize' = bucketSize
  BY <1>1, LivesSame DEF InitContents, CompleteLoad, AbortLoad, PartBegin, rows, sizes
<1>3. CASE InitContents(w, u)
  <2>1. LifeOf(u) = "none" /\ disk' = disk \cup {u} /\ data' = data
    BY <1>3, LifeOfRow DEF InitContents
  <2>2. Life!Reserve(u)
    BY <1>2, <2>1 DEF Life!Reserve
  <2> QED
    BY <2>2 DEF Life!Next
<1>4. CASE CompleteLoad(w, u) \/ AbortLoad(w, u)
  BY <1>2, <1>4 DEF CompleteLoad, AbortLoad, Life!vars
<1>5. ASSUME NEW p \in PartNumbers, PartBegin(w, u, p)
      PROVE  Life!Next
  <2>1. LifeOf(u) = "open" /\ disk' = disk /\ data' = [data EXCEPT ![u][p] = "torn"]
    BY <1>5, LifeOfRow DEF PartBegin
  <2>2. data[u] \in [PartNumbers -> {"blank", "torn", "whole"}]
    BY DEF OneByOne, Kept, TypeOK
  <2>3. /\ data' = [data EXCEPT ![u] = [data[u] EXCEPT ![p] = "torn"]]
        /\ [data[u] EXCEPT ![p] = "torn"] \in [PartNumbers -> {"blank", "torn", "whole"}]
    BY <2>1, <2>2
  <2>4. Life!Write(u)
    BY <1>2, <2>1, <2>3 DEF Life!Write
  <2> QED
    BY <2>4 DEF Life!Next
<1> QED
  BY <1>1, <1>3, <1>4, <1>5

LEMMA GoesLife ==
    ASSUME ~Overlap, OneByOne, OneByOne', NEW w \in Workers, Goes(w)
    PROVE  Life!Next \/ UNCHANGED Life!vars
<1>0. TypeOK /\ TypeOK' /\ req[w].pc # "idle"
  BY IdlePc DEF OneByOne, Kept, Goes, InitCommit, PartCommit, CompleteCommit, PostMerge,
     AbortCommit, PostRemove
<1>1. PICK u \in Uploads : u = req[w].upload /\ req[w].part \in PartNumbers
  BY <1>0, BusyTyped DEF Requests
<1>2. /\ req[w].pc = "init" => upload[u] = "none" /\ u \in disk
      /\ req[w].pc \in {"part", "complete", "abort"} => upload[u] = "open"
      /\ req[w].pc = "abort" => Inserting(u) = {}
  <2>1. /\ req[w].pc = "init" => upload[u] = "none" /\ u \in disk
        /\ req[w].pc \in {"part", "complete", "abort"} => upload[u] = "open"
    BY <1>0, <1>1 DEF OneByOne, Kept, RequestsAgree, AloneOnUpload, Pc, Of
  <2>2. ASSUME req[w].pc = "abort", NEW x \in Inserting(u) PROVE FALSE
    <3>1. x \in Workers /\ req[x].pc = "part" /\ req[x].upload = u
      BY DEF Inserting, Answering
    <3>2. x = w
      BY <1>0, <1>1, <3>1 DEF OneByOne, AloneOnUpload, Pc, Of
    <3> QED
      BY <2>2, <3>1, <3>2
  <2> QED
    BY <2>1, <2>2
<1>3. CASE InitCommit(w)
  <2>1. /\ upload' = [upload EXCEPT ![u] = "open"] /\ bucketSize' = bucketSize + 1
        /\ UNCHANGED <<data, disk, objects>> /\ req[w].pc = "init"
    BY <1>1, <1>3 DEF InitCommit
  <2>2. LifeOf(u) = "none" /\ LifeOf(u)' = "open"
    BY <1>0, <1>1, <1>2, <2>1, LifeOfRow DEF LifeOf, TypeOK
  <2>3. Life!Become(u, "none", "open")
    BY <1>0, <1>1, <2>1, <2>2, LifeGoesOn DEF TypeOK
  <2>4. Life!Open(u)
    BY <1>2, <2>1, <2>3 DEF Life!Open
  <2> QED
    BY <1>1, <2>4 DEF Life!Next
<1>4. CASE PartCommit(w)
  <2>1. /\ data' = [data EXCEPT ![u][req[w].part] = "whole"] /\ req[w].pc = "part"
        /\ UNCHANGED <<upload, disk, objects, bucketSize>>
    BY <1>1, <1>4 DEF PartCommit, sizes
  <2>2. data[u] \in [PartNumbers -> {"blank", "torn", "whole"}]
    BY <1>0, <1>1 DEF TypeOK
  <2>3. /\ data' = [data EXCEPT ![u] = [data[u] EXCEPT ![req[w].part] = "whole"]]
        /\ [data[u] EXCEPT ![req[w].part] = "whole"]
              \in [PartNumbers -> {"blank", "torn", "whole"}]
    BY <1>1, <2>1, <2>2
  <2>4. LifeOf(u) = "open" /\ [v \in Uploads |-> LifeOf(v)]' = [v \in Uploads |-> LifeOf(v)]
    BY <1>1, <1>2, <2>1, LifeOfRow, LivesSame
  <2>5. Life!Write(u)
    BY <1>1, <2>1, <2>3, <2>4 DEF Life!Write
  <2> QED
    BY <1>1, <2>5 DEF Life!Next
<1>5. CASE CompleteCommit(w)
  <2>1. /\ upload' = [upload EXCEPT ![u] = "completed"] /\ upload[u] = "open"
        /\ UNCHANGED <<data, disk, objects, bucketSize>>
    BY <1>1, <1>2, <1>5 DEF CompleteCommit, sizes, HasRow
  <2>2. LifeOf(u) = "open" /\ LifeOf(u)' = "completed"
    BY <1>0, <1>1, <2>1, LifeOfRow DEF LifeOf, TypeOK
  <2>3. Life!Become(u, "open", "completed")
    BY <1>0, <1>1, <2>1, <2>2, LifeGoesOn DEF TypeOK
  <2>4. Life!Complete(u)
    BY <2>1, <2>3 DEF Life!Complete
  <2> QED
    BY <1>1, <2>4 DEF Life!Next
<1>6. CASE AbortCommit(w)
  <2>1. /\ upload' = [upload EXCEPT ![u] = "gone"] /\ upload[u] = "open"
        /\ bucketSize' = bucketSize - 1 /\ UNCHANGED <<data, disk, objects>>
    BY <1>1, <1>2, <1>6 DEF AbortCommit, DeleteUpload
  <2>2. LifeOf(u) = "open" /\ LifeOf(u)' = "aborted"
    BY <1>0, <1>1, <2>1, LifeOfRow DEF LifeOf, TypeOK
  <2>3. Life!Become(u, "open", "aborted")
    BY <1>0, <1>1, <2>1, <2>2, LifeGoesOn DEF TypeOK
  <2>4. Life!Abort(u)
    BY <2>1, <2>3 DEF Life!Abort
  <2> QED
    BY <1>1, <2>4 DEF Life!Next
<1>7. CASE PostMerge(w) \/ PostRemove(w)
  BY <1>7, LivesSame DEF PostMerge, PostRemove, rows, sizes, Life!vars
<1> QED
  BY <1>3, <1>4, <1>5, <1>6, <1>7 DEF Goes

LEMMA WorksLife ==
    ASSUME OneByOne, OneByOne', NEW t \in tasks, Works(t)
    PROVE  Life!Next \/ UNCHANGED Life!vars
<1>0. TypeOK /\ TypeOK' /\ t.upload \in Uploads
  BY DEF OneByOne, Kept, TypeOK
<1>1. CASE MergeLoad(t) \/ RemoveRow(t)
  BY <1>1, LivesSame DEF MergeLoad, RemoveRow, rows, sizes, Life!vars
<1>2. CASE MergeCommit(t) /\ file[t.upload] = "readable"
  <2>1. /\ objects' = [objects EXCEPT ![t.upload] = @ + 1]
        /\ upload' = [upload EXCEPT ![t.upload] = "gone"]
        /\ UNCHANGED <<data, disk, bucketSize>> /\ upload[t.upload] = "completed"
    BY <1>2 DEF MergeCommit, DeleteUpload, sizes, OneByOne, OneMerge
  <2>2. LifeOf(t.upload) = "completed" /\ LifeOf(t.upload)' = "object"
    BY <1>0, <2>1, LifeOfRow DEF LifeOf, TypeOK
  <2>3. Life!Become(t.upload, "completed", "object")
    BY <1>0, <2>1, <2>2, LifeGoesOn DEF TypeOK
  <2>4. Life!Merge(t.upload)
    BY <2>1, <2>3 DEF Life!Merge
  <2> QED
    BY <1>0, <2>4 DEF Life!Next
<1>3. CASE MergeCommit(t) /\ file[t.upload] # "readable"
  BY <1>3, LivesSame DEF MergeCommit, sizes, Life!vars
<1>4. CASE RemoveData(t)
  <2>1. /\ disk' = disk \ {t.upload} /\ UNCHANGED <<upload, objects, data, bucketSize>>
        /\ file[t.upload] = "gone"
    BY <1>4 DEF RemoveData, rows, sizes, OneByOne, Kept, RemovalsAgree
  <2>2. upload[t.upload] = "gone" /\ objects[t.upload] = 0
    BY <1>0, <2>1 DEF OneByOne, Kept, RowsAgree, TypeOK
  <2>3. /\ LifeOf(t.upload) = "aborted"
        /\ [v \in Uploads |-> LifeOf(v)]' = [v \in Uploads |-> LifeOf(v)]
    BY <1>0, <2>1, <2>2, LifeOfRow, LivesSame
  <2>4. Life!Discard(t.upload)
    BY <1>0, <2>1, <2>3 DEF Life!Discard
  <2> QED
    BY <1>0, <2>4 DEF Life!Next
<1> QED
  BY <1>1, <1>2, <1>3, <1>4 DEF Works

LEMMA StepLife ==
    ASSUME ~Overlap, OneByOne, OneByOne', [Next]_vars
    PROVE  Life!Next \/ UNCHANGED Life!vars
<1>1. ASSUME UNCHANGED <<upload, objects, data, disk, bucketSize>>
      PROVE  UNCHANGED Life!vars
  BY <1>1, LivesSame DEF Life!vars
<1>2. ASSUME NEW w \in Workers, PartFails(w) \/ Crash(w) PROVE UNCHANGED Life!vars
  BY <1>1, <1>2 DEF PartFails, Crash, rows, sizes
<1>3. ASSUME NEW t \in tasks, TaskLost(t) PROVE UNCHANGED Life!vars
  BY <1>1, <1>3 DEF TaskLost, rows, sizes
<1>4. CASE Expire \/ RecountLocation
  BY <1>1, <1>4 DEF Expire, RecountLocation, rows, sizes
<1>5. CASE UNCHANGED vars
  BY <1>1, <1>5 DEF vars
<1> QED
  BY <1>2, <1>3, <1>4, <1>5, StartsLife, GoesLife, WorksLife DEF Next

LEMMA InitLife == Init => Life!Init
<1> SUFFICES ASSUME Init PROVE Life!Init
  OBVIOUS
<1>1. \A u \in Uploads : LifeOf(u) = "none"
  BY DEF Init, LifeOf
<1> QED
  BY <1>1 DEF Init, Life!Init

\* The program implements UploadLife, for any uploads, parts and workers and any
\* number of crashes, broken connections and lost tasks, while requests on one
\* upload come one at a time: it is completed or aborted and never both, becomes
\* one object, its bytes are written only while it is open and leave the disk only
\* once it is aborted, and it weighs on the bucket from its opening until then.
THEOREM UploadsLive ==
    ASSUME ~Overlap
    PROVE  Spec => ImplementsLife
<1>1. OneByOne /\ [Next]_vars => OneByOne'
  BY StepOneByOne
<1>2. OneByOne /\ OneByOne' /\ [Next]_vars => [Life!Next]_(Life!vars)
  BY StepLife
<1> QED
  BY InitOneByOne, InitLife, <1>1, <1>2, PTL DEF Spec, ImplementsLife, Life!Spec
=============================================================================
