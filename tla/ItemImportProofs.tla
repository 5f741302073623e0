--------------------------- MODULE ItemImportProofs ---------------------------
(***************************************************************************)
(* The files an import needs stay on disk, for any number of uploads,      *)
(* records and seconds, whatever dies. Kept is the inductive invariant:    *)
(* the stages of a check and of an import, and for an upload alone in its  *)
(* directory what clean_temp_info knows while it is unpacked, offered     *)
(* and imported. One lemma per action says that the action keeps Kept.     *)
(***************************************************************************)
EXTENDS ItemImport, TLAPS

\* A page, the check behind it, and what the check has found.
Stages ==
    \A c \in Uploads :
        /\ page[c] = "idle" => check[c].pc = "none"
        /\ page[c] \in {"listed", "sure", "importing"} =>
               check[c].pc = "ended" /\ good[c] # {}
        /\ check[c].pc \in {"none", "queued"} <=> check[c].path = NoDir
        /\ check[c].pc \notin {"list", "ended", "dead"} => good[c] = {}
        /\ check[c].pc = "list" => check[c].left = {}
        /\ check[c].pc = "queued" => check[c].left = Parts

\* Records are imported only once their import has been asked for.
TaskStages ==
    \A c \in Uploads, r \in Records : tasks[c][r] # "none" =>
        check[c].pc = "ended" /\ page[c] \in {"importing", "ended"} /\ r \in good[c]

\* A directory is to be removed only when nothing of it can be imported or all of
\* it has been.
RemovalStages ==
    \A c \in removals :
        /\ check[c].pc = "ended"
        /\ good[c] = {} \/ (page[c] \in {"importing", "ended"} /\ Running(c) = {})

\* A second in which no check has begun.
Untouched ==
    \A d \in Dirs : (\A c \in Uploads : check[c].path # d) =>
        disk[d] = {} /\ info[d] = "none" /\ seen[d] = "none"

\* An upload alone in its directory: while it is unpacked clean_temp_info does
\* not know of it,
Unpacking ==
    \A c \in Uploads : Alone(c) /\ check[c].pc \in {"unpack", "list"} =>
        /\ info[check[c].path] = "none" /\ seen[check[c].path] = "none"
        /\ "dir" \in Dir(c) /\ Parts \ check[c].left \subseteq Dir(c)

\* while it is offered its time is that of the session,
OfferedWhole ==
    \A c \in Uploads : Alone(c) /\ Offered(c) =>
        Dir(c) = Whole /\ seen[check[c].path] \in {"none", "session"}

\* and while it is imported, a day.
ImportedWhole ==
    \A c \in Uploads : Alone(c) /\ c \notin late /\ Running(c) # {} =>
        /\ Dir(c) = Whole /\ info[check[c].path] = "day"
        /\ seen[check[c].path] \in {"none", "day"}

Kept == /\ ImportTypeOK /\ Stages /\ TaskStages /\ RemovalStages /\ Untouched
        /\ Unpacking /\ OfferedWhole /\ ImportedWhole

\* Paths once given are kept.
LEMMA PathsKept ==
    ASSUME NEW c \in Uploads, \A k \in Uploads : check'[k].path = check[k].path
    PROVE  Alone(c)' <=> Alone(c)
BY DEF Alone

\* Two uploads in one directory: neither is alone.
LEMMA AloneApart ==
    ASSUME NEW c \in Uploads, NEW k \in Uploads, Alone(c), check[k].path = check[c].path
    PROVE  k = c
BY DEF Alone

LEMMA PathInDirs ==
    ASSUME ImportTypeOK, Stages, NEW c \in Uploads, check[c].pc \notin {"none", "queued"}
    PROVE  check[c].path \in Dirs
BY DEF ImportTypeOK, Stages, Checks, NoDir

LEMMA UploadKeeps ==
    ASSUME Kept, NEW c \in Uploads, Upload(c)
    PROVE  Kept'
<1> USE DEF Kept
<1>a. /\ check' \in [Uploads -> Checks] /\ check'[c].pc = "queued"
      /\ check'[c].left = Parts
      /\ \A k \in Uploads : check'[k].path = check[k].path
      /\ \A k \in Uploads \ {c} : check'[k] = check[k]
  <2>1. check \in [Uploads -> Checks]
    BY DEF ImportTypeOK
  <2>2. check[c] \in Checks
    BY <2>1
  <2>3. check' = [check EXCEPT ![c] = [check[c] EXCEPT !.pc = "queued", !.left = Parts]]
    BY <2>1, <2>2 DEF Upload, Checks
  <2>4. DEFINE q == [check[c] EXCEPT !.pc = "queued", !.left = Parts]
  <2>5. q \in Checks /\ q.pc = "queued" /\ q.left = Parts /\ q.path = check[c].path
    BY <2>2 DEF Checks
  <2>6. check' = [check EXCEPT ![c] = q]
    BY <2>3
  <2> HIDE DEF q
  <2> QED
    BY <2>1, <2>5, <2>6
<1>b. \A k \in Uploads : Alone(k)' <=> Alone(k)
  BY <1>a, PathsKept
<1>1. ImportTypeOK'
  BY <1>a, ImportAssumption DEF ImportTypeOK, Checks, Pages, Terms, Dirs, NoDir, Parts, Whole, Dir, Running, Upload
<1>2. Stages'
  BY <1>a DEF ImportTypeOK, Checks, Stages, Dirs, NoDir, TaskStages, Running, Upload
<1>3. TaskStages'
  BY <1>a DEF ImportTypeOK, Checks, Stages, TaskStages, Upload
<1>4. RemovalStages'
  BY <1>a DEF ImportTypeOK, Checks, Stages, TaskStages, RemovalStages, Running, Upload
<1>5. Untouched'
  BY <1>a DEF ImportTypeOK, Checks, Stages, Untouched, Dirs, NoDir, Upload
<1>6. Unpacking'
  <2>1. SUFFICES ASSUME NEW k \in Uploads, Alone(k)', check'[k].pc \in {"unpack", "list"}
           PROVE  /\ info'[check'[k].path] = "none" /\ seen'[check'[k].path] = "none"
                  /\ "dir" \in Dir(k)' /\ Parts \ check'[k].left \subseteq Dir(k)'
    BY DEF Unpacking
  <2> QED
    BY <2>1, <1>b, <1>a, AloneApart, PathInDirs DEF ImportTypeOK, Checks, Stages, RemovalStages, Untouched, Unpacking, Dir, Parts, Whole, Dirs, NoDir, Upload
<1>7. OfferedWhole'
  <2>1. SUFFICES ASSUME NEW k \in Uploads, Alone(k)', Offered(k)'
           PROVE  Dir(k)' = Whole /\ seen'[check'[k].path] \in {"none", "session"}
    BY DEF OfferedWhole
  <2> QED
    BY <2>1, <1>b, <1>a, AloneApart, PathInDirs DEF ImportTypeOK, Checks, Stages, RemovalStages, Unpacking, OfferedWhole, Offered, Dir, Parts, Whole, Dirs, NoDir, Upload
<1>8. ImportedWhole'
  <2>1. SUFFICES ASSUME NEW k \in Uploads, Alone(k)', k \notin late', Running(k)' # {}
           PROVE  /\ Dir(k)' = Whole /\ info'[check'[k].path] = "day"
                  /\ seen'[check'[k].path] \in {"none", "day"}
    BY DEF ImportedWhole
  <2> QED
    BY <2>1, <1>b, <1>a, AloneApart, PathInDirs DEF ImportTypeOK, Checks, Stages, TaskStages, RemovalStages, OfferedWhole, ImportedWhole, Offered, Running, Dir, Dirs, NoDir, Upload
<1> QED
  BY <1>1, <1>2, <1>3, <1>4, <1>5, <1>6, <1>7, <1>8

LEMMA MakeDirKeeps ==
    ASSUME Kept, NEW c \in Uploads, MakeDir(c)
    PROVE  Kept'
<1> USE DEF Kept
<1>1. /\ check[c].pc = "queued" /\ second \in Dirs /\ check[c].path = NoDir
      /\ second # NoDir
  BY DEF MakeDir, Stages, Dirs, NoDir
<1>2. PICK pc \in {"unpack", "error"} :
        check' = [check EXCEPT ![c].pc = pc, ![c].path = second]
  BY DEF MakeDir
<1>3. /\ check' \in [Uploads -> Checks]
      /\ check'[c].pc = pc /\ check'[c].path = second /\ check'[c].left = check[c].left
      /\ \A k \in Uploads \ {c} : check'[k] = check[k]
  BY <1>1, <1>2 DEF ImportTypeOK, Checks
<1>4. /\ disk' = IF disk[second] = {} THEN [disk EXCEPT ![second] = {"dir"}] ELSE disk
      /\ pc = "unpack" <=> disk[second] = {}
      /\ UNCHANGED <<second, page, good, zips, info, tasks, removals, seen, late, deaths>>
  <2>1. CASE disk[second] = {}
    BY <1>1, <1>3, <2>1 DEF MakeDir, ImportTypeOK, Checks
  <2>2. CASE disk[second] # {}
    BY <1>1, <1>3, <2>2 DEF MakeDir, ImportTypeOK, Checks
  <2> QED
    BY <2>1, <2>2
<1>5. disk' \in [Dirs -> SUBSET Whole] /\ \A e \in Dirs \ {second} : disk'[e] = disk[e]
  BY <1>1, <1>4 DEF ImportTypeOK, Whole
<1>6. \A k \in Uploads \ {c} : Alone(k)' /\ check[k].path # NoDir =>
        Alone(k) /\ check[k].path # second
  BY <1>1, <1>3 DEF Alone
<1>7. Alone(c)' => info[second] = "none" /\ seen[second] = "none" /\ disk[second] = {}
  <2>1. Alone(c)' => \A k \in Uploads : check[k].path # second
    BY <1>1, <1>3 DEF Alone
  <2> QED
    BY <1>1, <2>1 DEF Untouched
<1>8. ImportTypeOK'
  BY <1>3, <1>4, <1>5 DEF ImportTypeOK
<1>9. Stages'
  BY <1>1, <1>3, <1>4 DEF Stages
<1>10. TaskStages'
  BY <1>1, <1>3, <1>4 DEF TaskStages
<1>11. RemovalStages'
  BY <1>1, <1>3, <1>4 DEF RemovalStages, Running, ImportTypeOK
<1>12. Untouched'
  <2>1. SUFFICES ASSUME NEW e \in Dirs, \A k \in Uploads : check'[k].path # e
                 PROVE  disk'[e] = {} /\ info[e] = "none" /\ seen[e] = "none"
    BY <1>4 DEF Untouched
  <2>2. e # second
    BY <1>3, <2>1
  <2>3. \A k \in Uploads : check[k].path # e
    BY <1>1, <1>3, <2>1 DEF Dirs, NoDir
  <2> QED
    BY <1>5, <2>1, <2>2, <2>3 DEF Untouched
<1>13. Unpacking'
  <2>1. SUFFICES ASSUME NEW k \in Uploads, Alone(k)', check'[k].pc \in {"unpack", "list"}
                 PROVE  /\ info[check'[k].path] = "none" /\ seen[check'[k].path] = "none"
                        /\ "dir" \in disk'[check'[k].path]
                        /\ Parts \ check'[k].left \subseteq disk'[check'[k].path]
    BY <1>4 DEF Unpacking, Dir
  <2>2. CASE k = c
    <3>1. check[c].left = Parts
      BY <1>1 DEF Stages
    <3> QED
      BY <1>1, <1>3, <1>4, <1>7, <2>1, <2>2, <3>1 DEF ImportTypeOK
  <2>3. CASE k # c
    <3>1. check[k].path \in Dirs /\ check'[k] = check[k]
      BY <1>3, <2>1, <2>3, PathInDirs
    <3>2. Alone(k) /\ check[k].path # second
      BY <1>6, <2>1, <2>3, <3>1 DEF Dirs, NoDir
    <3> QED
      BY <1>5, <2>1, <3>1, <3>2 DEF Unpacking, Dir
  <2> QED
    BY <2>2, <2>3
<1>14. OfferedWhole'
  <2>1. SUFFICES ASSUME NEW k \in Uploads, Alone(k)', Offered(k)'
                 PROVE  disk'[check'[k].path] = Whole /\ seen[check'[k].path] \in {"none", "session"}
    BY <1>4 DEF OfferedWhole, Dir
  <2>2. k # c /\ check'[k] = check[k] /\ check[k].pc = "ended"
    BY <1>3, <2>1 DEF Offered
  <2>3. check[k].path \in Dirs /\ check[k].path # NoDir
    BY <2>2, PathInDirs DEF Dirs, NoDir
  <2>4. Alone(k) /\ check[k].path # second /\ Offered(k)
    BY <1>4, <1>6, <2>1, <2>2, <2>3 DEF Offered
  <2> QED
    BY <1>5, <2>2, <2>3, <2>4 DEF OfferedWhole, Dir
<1>15. ImportedWhole'
  <2>1. SUFFICES ASSUME NEW k \in Uploads, Alone(k)', k \notin late, Running(k) # {}
                 PROVE  /\ disk'[check'[k].path] = Whole /\ info[check'[k].path] = "day"
                        /\ seen[check'[k].path] \in {"none", "day"}
    BY <1>4 DEF ImportedWhole, Dir, Running
  <2>2. check[k].pc = "ended"
    BY <2>1 DEF Running, TaskStages
  <2>3. k # c /\ check'[k] = check[k] /\ check[k].path \in Dirs /\ check[k].path # NoDir
    BY <1>1, <1>3, <2>2, PathInDirs DEF Dirs, NoDir
  <2>4. Alone(k) /\ check[k].path # second
    BY <1>6, <2>1, <2>3
  <2> QED
    BY <1>5, <2>1, <2>3, <2>4 DEF ImportedWhole, Dir
<1> QED
  BY <1>8, <1>9, <1>10, <1>11, <1>12, <1>13, <1>14, <1>15

LEMMA UnpackKeeps ==
    ASSUME Kept, NEW c \in Uploads, Unpack(c)
    PROVE  Kept'
<1> USE DEF Kept
<1>a. /\ check' \in [Uploads -> Checks] /\ check'[c].pc = "unpack"
      /\ \A k \in Uploads : check'[k].path = check[k].path
      /\ \A k \in Uploads \ {c} : check'[k] = check[k]
  BY DEF ImportTypeOK, Checks, Parts, Unpack
<1>b. \A k \in Uploads : Alone(k)' <=> Alone(k)
  BY <1>a, PathsKept
<1>1. ImportTypeOK'
  <2>1. PICK p \in Parts : disk' = [disk EXCEPT ![check[c].path] = @ \cup {"dir", p}]
    BY DEF Unpack, ImportTypeOK, Checks
  <2>2. check[c].path \in Dirs
    BY PathInDirs DEF Unpack
  <2>3. disk' \in [Dirs -> SUBSET Whole]
    BY <2>1, <2>2 DEF ImportTypeOK, Parts, Whole
  <2> QED
    BY <1>a, <2>3 DEF ImportTypeOK, Unpack
<1>2. Stages'
  BY <1>a DEF ImportTypeOK, Checks, Stages, Dirs, NoDir, TaskStages, Running, Unpack
<1>3. TaskStages'
  BY <1>a DEF ImportTypeOK, Checks, Stages, TaskStages, Unpack
<1>4. RemovalStages'
  BY <1>a DEF ImportTypeOK, Checks, Stages, TaskStages, RemovalStages, Running, Unpack
<1>5. Untouched'
  BY <1>a DEF ImportTypeOK, Checks, Stages, Untouched, Dirs, NoDir, Unpack
<1>6. Unpacking'
  <2>1. SUFFICES ASSUME NEW k \in Uploads, Alone(k)', check'[k].pc \in {"unpack", "list"}
           PROVE  /\ info'[check'[k].path] = "none" /\ seen'[check'[k].path] = "none"
                  /\ "dir" \in Dir(k)' /\ Parts \ check'[k].left \subseteq Dir(k)'
    BY DEF Unpacking
  <2> QED
    BY <2>1, <1>b, <1>a, AloneApart, PathInDirs DEF ImportTypeOK, Checks, Stages, RemovalStages, Untouched, Unpacking, Dir, Parts, Whole, Dirs, NoDir, Unpack
<1>7. OfferedWhole'
  <2>1. SUFFICES ASSUME NEW k \in Uploads, Alone(k)', Offered(k)'
           PROVE  Dir(k)' = Whole /\ seen'[check'[k].path] \in {"none", "session"}
    BY DEF OfferedWhole
  <2> QED
    BY <2>1, <1>b, <1>a, AloneApart, PathInDirs DEF ImportTypeOK, Checks, Stages, RemovalStages, Unpacking, OfferedWhole, Offered, Dir, Parts, Whole, Dirs, NoDir, Unpack
<1>8. ImportedWhole'
  <2>1. SUFFICES ASSUME NEW k \in Uploads, Alone(k)', k \notin late', Running(k)' # {}
           PROVE  /\ Dir(k)' = Whole /\ info'[check'[k].path] = "day"
                  /\ seen'[check'[k].path] \in {"none", "day"}
    BY DEF ImportedWhole
  <2> QED
    BY <2>1, <1>b, <1>a, AloneApart, PathInDirs DEF ImportTypeOK, Checks, Stages, TaskStages, RemovalStages, OfferedWhole, ImportedWhole, Offered, Running, Dir, Dirs, NoDir, Unpack
<1> QED
  BY <1>1, <1>2, <1>3, <1>4, <1>5, <1>6, <1>7, <1>8

LEMMA UnpackFailsKeeps ==
    ASSUME Kept, NEW c \in Uploads, UnpackFails(c)
    PROVE  Kept'
<1> USE DEF Kept
<1>a. /\ check' \in [Uploads -> Checks] /\ check'[c].pc = "error"
      /\ check'[c].left = check[c].left
      /\ \A k \in Uploads : check'[k].path = check[k].path
      /\ \A k \in Uploads \ {c} : check'[k] = check[k]
  BY DEF ImportTypeOK, Checks, Parts, UnpackFails
<1>b. \A k \in Uploads : Alone(k)' <=> Alone(k)
  BY <1>a, PathsKept
<1>1. ImportTypeOK'
  BY <1>a, ImportAssumption DEF ImportTypeOK, Checks, Pages, Terms, Dirs, NoDir, Parts, Whole, Dir, Running, UnpackFails
<1>2. Stages'
  BY <1>a DEF ImportTypeOK, Checks, Stages, Dirs, NoDir, TaskStages, Running, UnpackFails
<1>3. TaskStages'
  BY <1>a DEF ImportTypeOK, Checks, Stages, TaskStages, UnpackFails
<1>4. RemovalStages'
  BY <1>a DEF ImportTypeOK, Checks, Stages, TaskStages, RemovalStages, Running, UnpackFails
<1>5. Untouched'
  BY <1>a DEF ImportTypeOK, Checks, Stages, Untouched, Dirs, NoDir, UnpackFails
<1>6. Unpacking'
  <2>1. SUFFICES ASSUME NEW k \in Uploads, Alone(k)', check'[k].pc \in {"unpack", "list"}
           PROVE  /\ info'[check'[k].path] = "none" /\ seen'[check'[k].path] = "none"
                  /\ "dir" \in Dir(k)' /\ Parts \ check'[k].left \subseteq Dir(k)'
    BY DEF Unpacking
  <2> QED
    BY <2>1, <1>b, <1>a, AloneApart, PathInDirs DEF ImportTypeOK, Checks, Stages, RemovalStages, Untouched, Unpacking, Dir, Parts, Whole, Dirs, NoDir, UnpackFails
<1>7. OfferedWhole'
  <2>1. SUFFICES ASSUME NEW k \in Uploads, Alone(k)', Offered(k)'
           PROVE  Dir(k)' = Whole /\ seen'[check'[k].path] \in {"none", "session"}
    BY DEF OfferedWhole
  <2> QED
    BY <2>1, <1>b, <1>a, AloneApart, PathInDirs DEF ImportTypeOK, Checks, Stages, RemovalStages, Unpacking, OfferedWhole, Offered, Dir, Parts, Whole, Dirs, NoDir, UnpackFails
<1>8. ImportedWhole'
  <2>1. SUFFICES ASSUME NEW k \in Uploads, Alone(k)', k \notin late', Running(k)' # {}
           PROVE  /\ Dir(k)' = Whole /\ info'[check'[k].path] = "day"
                  /\ seen'[check'[k].path] \in {"none", "day"}
    BY DEF ImportedWhole
  <2> QED
    BY <2>1, <1>b, <1>a, AloneApart, PathInDirs DEF ImportTypeOK, Checks, Stages, TaskStages, RemovalStages, OfferedWhole, ImportedWhole, Offered, Running, Dir, Dirs, NoDir, UnpackFails
<1> QED
  BY <1>1, <1>2, <1>3, <1>4, <1>5, <1>6, <1>7, <1>8

LEMMA ReadRecordsKeeps ==
    ASSUME Kept, NEW c \in Uploads, ReadRecords(c)
    PROVE  Kept'
<1> USE DEF Kept
<1>0. check[c].pc = "unpack" /\ check' = [check EXCEPT ![c].pc = "list"]
  BY DEF ReadRecords
<1>a. /\ check' \in [Uploads -> Checks] /\ check'[c].pc = "list"
      /\ check'[c].left = check[c].left
      /\ \A k \in Uploads : check'[k].path = check[k].path
      /\ \A k \in Uploads \ {c} : check'[k] = check[k]
  BY <1>0 DEF ImportTypeOK, Checks, Parts
<1>b. \A k \in Uploads : Alone(k)' <=> Alone(k)
  BY <1>a, PathsKept
<1>1. ImportTypeOK'
  <2>1. good' \in [Uploads -> SUBSET Records]
    BY ImportAssumption DEF ImportTypeOK, ReadRecords
  <2> QED
    BY <1>a, <2>1, SMTT(30) DEF ImportTypeOK, ReadRecords
<1>2. Stages'
  BY <1>a DEF ImportTypeOK, Checks, Stages, Dirs, NoDir, TaskStages, Running, ReadRecords
<1>3. TaskStages'
  BY <1>a DEF ImportTypeOK, Checks, Stages, TaskStages, ReadRecords
<1>4. RemovalStages'
  BY <1>a DEF ImportTypeOK, Checks, Stages, TaskStages, RemovalStages, Running, ReadRecords
<1>5. Untouched'
  BY <1>a DEF ImportTypeOK, Checks, Stages, Untouched, Dirs, NoDir, ReadRecords
<1>6. Unpacking'
  <2>1. SUFFICES ASSUME NEW k \in Uploads, Alone(k)', check'[k].pc \in {"unpack", "list"}
           PROVE  /\ info'[check'[k].path] = "none" /\ seen'[check'[k].path] = "none"
                  /\ "dir" \in Dir(k)' /\ Parts \ check'[k].left \subseteq Dir(k)'
    BY DEF Unpacking
  <2> QED
    BY <2>1, <1>b, <1>a, AloneApart, PathInDirs DEF ImportTypeOK, Checks, Stages, RemovalStages, Untouched, Unpacking, Dir, Parts, Whole, Dirs, NoDir, ReadRecords
<1>7. OfferedWhole'
  <2>1. SUFFICES ASSUME NEW k \in Uploads, Alone(k)', Offered(k)'
           PROVE  Dir(k)' = Whole /\ seen'[check'[k].path] \in {"none", "session"}
    BY DEF OfferedWhole
  <2> QED
    BY <2>1, <1>b, <1>a, AloneApart, PathInDirs DEF ImportTypeOK, Checks, Stages, RemovalStages, Unpacking, OfferedWhole, Offered, Dir, Parts, Whole, Dirs, NoDir, ReadRecords
<1>8. ImportedWhole'
  <2>1. SUFFICES ASSUME NEW k \in Uploads, Alone(k)', k \notin late', Running(k)' # {}
           PROVE  /\ Dir(k)' = Whole /\ info'[check'[k].path] = "day"
                  /\ seen'[check'[k].path] \in {"none", "day"}
    BY DEF ImportedWhole
  <2> QED
    BY <2>1, <1>b, <1>a, AloneApart, PathInDirs DEF ImportTypeOK, Checks, Stages, TaskStages, RemovalStages, OfferedWhole, ImportedWhole, Offered, Running, Dir, Dirs, NoDir, ReadRecords
<1> QED
  BY <1>1, <1>2, <1>3, <1>4, <1>5, <1>6, <1>7, <1>8

LEMMA RejectKeeps ==
    ASSUME Kept, NEW c \in Uploads, Reject(c)
    PROVE  Kept'
<1> USE DEF Kept
<1>a. /\ check' \in [Uploads -> Checks] /\ check'[c].pc = "ended"
      /\ check'[c].left = check[c].left
      /\ \A k \in Uploads : check'[k].path = check[k].path
      /\ \A k \in Uploads \ {c} : check'[k] = check[k]
  BY DEF ImportTypeOK, Checks, Parts, Reject
<1>b. \A k \in Uploads : Alone(k)' <=> Alone(k)
  BY <1>a, PathsKept
<1>1. ImportTypeOK'
  BY <1>a, ImportAssumption DEF ImportTypeOK, Checks, Pages, Terms, Dirs, NoDir, Parts, Whole, Dir, Running, Reject
<1>2. Stages'
  BY <1>a DEF ImportTypeOK, Checks, Stages, Dirs, NoDir, TaskStages, Running, Reject
<1>3. TaskStages'
  BY <1>a DEF ImportTypeOK, Checks, Stages, TaskStages, Reject
<1>4. RemovalStages'
  BY <1>a DEF ImportTypeOK, Checks, Stages, TaskStages, RemovalStages, Running, Reject
<1>5. Untouched'
  BY <1>a DEF ImportTypeOK, Checks, Stages, Untouched, Dirs, NoDir, Reject
<1>6. Unpacking'
  <2>1. SUFFICES ASSUME NEW k \in Uploads, Alone(k)', check'[k].pc \in {"unpack", "list"}
           PROVE  /\ info'[check'[k].path] = "none" /\ seen'[check'[k].path] = "none"
                  /\ "dir" \in Dir(k)' /\ Parts \ check'[k].left \subseteq Dir(k)'
    BY DEF Unpacking
  <2> QED
    BY <2>1, <1>b, <1>a, AloneApart, PathInDirs DEF ImportTypeOK, Checks, Stages, RemovalStages, Untouched, Unpacking, Dir, Parts, Whole, Dirs, NoDir, Reject
<1>7. OfferedWhole'
  <2>1. SUFFICES ASSUME NEW k \in Uploads, Alone(k)', Offered(k)'
           PROVE  Dir(k)' = Whole /\ seen'[check'[k].path] \in {"none", "session"}
    BY DEF OfferedWhole
  <2> QED
    BY <2>1, <1>b, <1>a, AloneApart, PathInDirs DEF ImportTypeOK, Checks, Stages, RemovalStages, Unpacking, OfferedWhole, Offered, Dir, Parts, Whole, Dirs, NoDir, Reject
<1>8. ImportedWhole'
  <2>1. SUFFICES ASSUME NEW k \in Uploads, Alone(k)', k \notin late', Running(k)' # {}
           PROVE  /\ Dir(k)' = Whole /\ info'[check'[k].path] = "day"
                  /\ seen'[check'[k].path] \in {"none", "day"}
    BY DEF ImportedWhole
  <2> QED
    BY <2>1, <1>b, <1>a, AloneApart, PathInDirs DEF ImportTypeOK, Checks, Stages, TaskStages, RemovalStages, OfferedWhole, ImportedWhole, Offered, Running, Dir, Dirs, NoDir, Reject
<1> QED
  BY <1>1, <1>2, <1>3, <1>4, <1>5, <1>6, <1>7, <1>8

LEMMA AcceptKeeps ==
    ASSUME Kept, NEW c \in Uploads, Accept(c)
    PROVE  Kept'
<1> USE DEF Kept
<1>a. /\ check' \in [Uploads -> Checks] /\ check'[c].pc = "ended"
      /\ check'[c].left = check[c].left
      /\ \A k \in Uploads : check'[k].path = check[k].path
      /\ \A k \in Uploads \ {c} : check'[k] = check[k]
  BY DEF ImportTypeOK, Checks, Parts, Accept
<1>b. \A k \in Uploads : Alone(k)' <=> Alone(k)
  BY <1>a, PathsKept
<1>1. ImportTypeOK'
  BY <1>a, ImportAssumption DEF ImportTypeOK, Checks, Pages, Terms, Dirs, NoDir, Parts, Whole, Dir, Running, Accept
<1>2. Stages'
  BY <1>a DEF ImportTypeOK, Checks, Stages, Dirs, NoDir, TaskStages, Running, Accept
<1>3. TaskStages'
  BY <1>a DEF ImportTypeOK, Checks, Stages, TaskStages, Accept
<1>4. RemovalStages'
  BY <1>a DEF ImportTypeOK, Checks, Stages, TaskStages, RemovalStages, Running, Accept
<1>5. Untouched'
  BY <1>a DEF ImportTypeOK, Checks, Stages, Untouched, Dirs, NoDir, Accept
<1>6. Unpacking'
  <2>1. SUFFICES ASSUME NEW k \in Uploads, Alone(k)', check'[k].pc \in {"unpack", "list"}
           PROVE  /\ info'[check'[k].path] = "none" /\ seen'[check'[k].path] = "none"
                  /\ "dir" \in Dir(k)' /\ Parts \ check'[k].left \subseteq Dir(k)'
    BY DEF Unpacking
  <2> QED
    BY <2>1, <1>b, <1>a, AloneApart, PathInDirs DEF ImportTypeOK, Checks, Stages, RemovalStages, Untouched, Unpacking, Dir, Parts, Whole, Dirs, NoDir, Accept
<1>7. OfferedWhole'
  <2>1. SUFFICES ASSUME NEW k \in Uploads, Alone(k)', Offered(k)'
           PROVE  Dir(k)' = Whole /\ seen'[check'[k].path] \in {"none", "session"}
    BY DEF OfferedWhole
  <2> QED
    BY <2>1, <1>b, <1>a, AloneApart, PathInDirs DEF ImportTypeOK, Checks, Stages, RemovalStages, Unpacking, OfferedWhole, Offered, Dir, Parts, Whole, Dirs, NoDir, Accept
<1>8. ImportedWhole'
  <2>1. SUFFICES ASSUME NEW k \in Uploads, Alone(k), k \notin late, Running(k) # {}
                 PROVE  /\ Dir(k)' = Whole /\ info'[check'[k].path] = "day"
                        /\ seen'[check'[k].path] \in {"none", "day"}
    BY <1>b DEF ImportedWhole, Accept, Running
  <2>2. check[k].pc = "ended"
    BY <2>1 DEF Running, TaskStages
  <2>3. k # c /\ check[k].path # check[c].path
    BY <2>1, <2>2, AloneApart DEF Accept
  <2>4. check[k].path \in Dirs /\ check[c].path \in Dirs
    BY <2>2, PathInDirs DEF Accept
  <2>5. /\ disk' = disk /\ seen' = seen
        /\ info'[check[k].path] = info[check[k].path]
    BY <2>3, <2>4 DEF Accept, ImportTypeOK
  <2>6. Dir(k) = Whole /\ info[check[k].path] = "day" /\ seen[check[k].path] \in {"none", "day"}
    BY <2>1 DEF ImportedWhole
  <2> QED
    BY <1>a, <2>5, <2>6 DEF Dir
<1> QED
  BY <1>1, <1>2, <1>3, <1>4, <1>5, <1>6, <1>7, <1>8

LEMMA ShowCheckKeeps ==
    ASSUME Kept, NEW c \in Uploads, ShowCheck(c)
    PROVE  Kept'
<1> USE DEF Kept
<1>b. \A k \in Uploads : (Alone(k)' <=> Alone(k)) /\ Dir(k)' = disk'[check[k].path]
  BY DEF ShowCheck, Alone, Dir
<1>1. ImportTypeOK'
  BY ImportAssumption DEF ImportTypeOK, Checks, Pages, Terms, Dirs, NoDir, Parts, Whole, Dir, Running, ShowCheck
<1>2. Stages'
  BY DEF ImportTypeOK, Checks, Stages, Dirs, NoDir, TaskStages, Running, ShowCheck
<1>3. TaskStages'
  BY DEF ImportTypeOK, Checks, Stages, TaskStages, ShowCheck
<1>4. RemovalStages'
  BY DEF ImportTypeOK, Checks, Stages, TaskStages, RemovalStages, Running, ShowCheck
<1>5. Untouched'
  BY DEF ImportTypeOK, Checks, Stages, Untouched, Dirs, NoDir, ShowCheck
<1>6. Unpacking'
  <2>1. SUFFICES ASSUME NEW k \in Uploads, Alone(k)', check'[k].pc \in {"unpack", "list"}
           PROVE  /\ info'[check'[k].path] = "none" /\ seen'[check'[k].path] = "none"
                  /\ "dir" \in Dir(k)' /\ Parts \ check'[k].left \subseteq Dir(k)'
    BY DEF Unpacking
  <2> QED
    BY <2>1, <1>b, AloneApart, PathInDirs DEF ImportTypeOK, Checks, Stages, RemovalStages, Untouched, Unpacking, Dir, Parts, Whole, Dirs, NoDir, ShowCheck
<1>7. OfferedWhole'
  <2>1. SUFFICES ASSUME NEW k \in Uploads, Alone(k)', Offered(k)'
           PROVE  Dir(k)' = Whole /\ seen'[check'[k].path] \in {"none", "session"}
    BY DEF OfferedWhole
  <2> QED
    BY <2>1, <1>b, AloneApart, PathInDirs DEF ImportTypeOK, Checks, Stages, RemovalStages, Unpacking, OfferedWhole, Offered, Dir, Parts, Whole, Dirs, NoDir, ShowCheck
<1>8. ImportedWhole'
  <2>1. SUFFICES ASSUME NEW k \in Uploads, Alone(k)', k \notin late', Running(k)' # {}
           PROVE  /\ Dir(k)' = Whole /\ info'[check'[k].path] = "day"
                  /\ seen'[check'[k].path] \in {"none", "day"}
    BY DEF ImportedWhole
  <2> QED
    BY <2>1, <1>b, AloneApart, PathInDirs DEF ImportTypeOK, Checks, Stages, TaskStages, RemovalStages, OfferedWhole, ImportedWhole, Offered, Running, Dir, Dirs, NoDir, ShowCheck
<1> QED
  BY <1>1, <1>2, <1>3, <1>4, <1>5, <1>6, <1>7, <1>8

LEMMA AskAvailableKeeps ==
    ASSUME Kept, NEW c \in Uploads, AskAvailable(c)
    PROVE  Kept'
<1> USE DEF Kept
<1>b. \A k \in Uploads : (Alone(k)' <=> Alone(k)) /\ Dir(k)' = disk'[check[k].path]
  BY DEF AskAvailable, Alone, Dir
<1>1. ImportTypeOK'
  BY ImportAssumption DEF ImportTypeOK, Checks, Pages, Terms, Dirs, NoDir, Parts, Whole, Dir, Running, AskAvailable
<1>2. Stages'
  BY DEF ImportTypeOK, Checks, Stages, Dirs, NoDir, TaskStages, Running, AskAvailable
<1>3. TaskStages'
  BY DEF ImportTypeOK, Checks, Stages, TaskStages, AskAvailable
<1>4. RemovalStages'
  BY DEF ImportTypeOK, Checks, Stages, TaskStages, RemovalStages, Running, AskAvailable
<1>5. Untouched'
  BY DEF ImportTypeOK, Checks, Stages, Untouched, Dirs, NoDir, AskAvailable
<1>6. Unpacking'
  <2>1. SUFFICES ASSUME NEW k \in Uploads, Alone(k)', check'[k].pc \in {"unpack", "list"}
           PROVE  /\ info'[check'[k].path] = "none" /\ seen'[check'[k].path] = "none"
                  /\ "dir" \in Dir(k)' /\ Parts \ check'[k].left \subseteq Dir(k)'
    BY DEF Unpacking
  <2> QED
    BY <2>1, <1>b, AloneApart, PathInDirs DEF ImportTypeOK, Checks, Stages, RemovalStages, Untouched, Unpacking, Dir, Parts, Whole, Dirs, NoDir, AskAvailable
<1>7. OfferedWhole'
  <2>1. SUFFICES ASSUME NEW k \in Uploads, Alone(k), Offered(k)'
                 PROVE  Dir(k)' = Whole /\ seen'[check'[k].path] \in {"none", "session"}
    BY <1>b DEF OfferedWhole
  <2>2. page'[k] \in {"checking", "listed", "sure"} => page[k] \in {"checking", "listed", "sure"}
    BY DEF AskAvailable, ImportTypeOK
  <2>3. Offered(k)
    BY <2>1, <2>2 DEF Offered, AskAvailable
  <2> QED
    BY <2>1, <2>3 DEF OfferedWhole, AskAvailable, Dir
<1>8. ImportedWhole'
  <2>1. SUFFICES ASSUME NEW k \in Uploads, Alone(k)', k \notin late', Running(k)' # {}
           PROVE  /\ Dir(k)' = Whole /\ info'[check'[k].path] = "day"
                  /\ seen'[check'[k].path] \in {"none", "day"}
    BY DEF ImportedWhole
  <2> QED
    BY <2>1, <1>b, AloneApart, PathInDirs DEF ImportTypeOK, Checks, Stages, TaskStages, RemovalStages, OfferedWhole, ImportedWhole, Offered, Running, Dir, Dirs, NoDir, AskAvailable
<1> QED
  BY <1>1, <1>2, <1>3, <1>4, <1>5, <1>6, <1>7, <1>8

LEMMA ImportItemsKeeps ==
    ASSUME Kept, NEW c \in Uploads, ImportItems(c)
    PROVE  Kept'
<1> USE DEF Kept
<1>b. \A k \in Uploads : (Alone(k)' <=> Alone(k)) /\ Dir(k)' = disk'[check[k].path]
  BY DEF ImportItems, Alone, Dir
<1>1. ImportTypeOK'
  BY ImportAssumption DEF ImportTypeOK, Checks, Pages, Terms, Dirs, NoDir, Parts, Whole, Dir, Running, ImportItems, KeepForADay
<1>2. Stages'
  BY DEF ImportTypeOK, Checks, Stages, Dirs, NoDir, TaskStages, Running, ImportItems, KeepForADay
<1>3. TaskStages'
  BY DEF ImportTypeOK, Checks, Stages, TaskStages, ImportItems, KeepForADay
<1>4. RemovalStages'
  BY DEF ImportTypeOK, Checks, Stages, TaskStages, RemovalStages, Running, ImportItems, KeepForADay
<1>5. Untouched'
  BY DEF ImportTypeOK, Checks, Stages, Untouched, Dirs, NoDir, ImportItems, KeepForADay
<1>6. Unpacking'
  <2>1. SUFFICES ASSUME NEW k \in Uploads, Alone(k)', check'[k].pc \in {"unpack", "list"}
           PROVE  /\ info'[check'[k].path] = "none" /\ seen'[check'[k].path] = "none"
                  /\ "dir" \in Dir(k)' /\ Parts \ check'[k].left \subseteq Dir(k)'
    BY DEF Unpacking
  <2> QED
    BY <2>1, <1>b, AloneApart, PathInDirs DEF ImportTypeOK, Checks, Stages, RemovalStages, Untouched, Unpacking, Dir, Parts, Whole, Dirs, NoDir, ImportItems, KeepForADay
<1>7. OfferedWhole'
  <2>1. SUFFICES ASSUME NEW k \in Uploads, Alone(k)', Offered(k)'
           PROVE  Dir(k)' = Whole /\ seen'[check'[k].path] \in {"none", "session"}
    BY DEF OfferedWhole
  <2> QED
    BY <2>1, <1>b, AloneApart, PathInDirs DEF ImportTypeOK, Checks, Stages, RemovalStages, Unpacking, OfferedWhole, Offered, Dir, Parts, Whole, Dirs, NoDir, ImportItems, KeepForADay
<1>8. ImportedWhole'
  <2>1. SUFFICES ASSUME NEW k \in Uploads, Alone(k)', k \notin late', Running(k)' # {}
           PROVE  /\ Dir(k)' = Whole /\ info'[check'[k].path] = "day"
                  /\ seen'[check'[k].path] \in {"none", "day"}
    BY DEF ImportedWhole
  <2> QED
    BY <2>1, <1>b, AloneApart, PathInDirs DEF ImportTypeOK, Checks, Stages, TaskStages, RemovalStages, OfferedWhole, ImportedWhole, Offered, Running, Dir, Dirs, NoDir, ImportItems, KeepForADay
<1> QED
  BY <1>1, <1>2, <1>3, <1>4, <1>5, <1>6, <1>7, <1>8

LEMMA ImportItemsFailsKeeps ==
    ASSUME Kept, NEW c \in Uploads, ImportItemsFails(c)
    PROVE  Kept'
<1> USE DEF Kept
<1>b. \A k \in Uploads : (Alone(k)' <=> Alone(k)) /\ Dir(k)' = disk'[check[k].path]
  BY DEF ImportItemsFails, Alone, Dir
<1>1. ImportTypeOK'
  BY ImportAssumption DEF ImportTypeOK, Checks, Pages, Terms, Dirs, NoDir, Parts, Whole, Dir, Running, ImportItemsFails, KeepForADay
<1>2. Stages'
  BY DEF ImportTypeOK, Checks, Stages, Dirs, NoDir, TaskStages, Running, ImportItemsFails, KeepForADay
<1>3. TaskStages'
  BY DEF ImportTypeOK, Checks, Stages, TaskStages, ImportItemsFails, KeepForADay
<1>4. RemovalStages'
  BY DEF ImportTypeOK, Checks, Stages, TaskStages, RemovalStages, Running, ImportItemsFails, KeepForADay
<1>5. Untouched'
  BY DEF ImportTypeOK, Checks, Stages, Untouched, Dirs, NoDir, ImportItemsFails, KeepForADay
<1>6. Unpacking'
  <2>1. SUFFICES ASSUME NEW k \in Uploads, Alone(k)', check'[k].pc \in {"unpack", "list"}
           PROVE  /\ info'[check'[k].path] = "none" /\ seen'[check'[k].path] = "none"
                  /\ "dir" \in Dir(k)' /\ Parts \ check'[k].left \subseteq Dir(k)'
    BY DEF Unpacking
  <2> QED
    BY <2>1, <1>b, AloneApart, PathInDirs DEF ImportTypeOK, Checks, Stages, RemovalStages, Untouched, Unpacking, Dir, Parts, Whole, Dirs, NoDir, ImportItemsFails, KeepForADay
<1>7. OfferedWhole'
  <2>1. SUFFICES ASSUME NEW k \in Uploads, Alone(k)', Offered(k)'
           PROVE  Dir(k)' = Whole /\ seen'[check'[k].path] \in {"none", "session"}
    BY DEF OfferedWhole
  <2> QED
    BY <2>1, <1>b, AloneApart, PathInDirs DEF ImportTypeOK, Checks, Stages, RemovalStages, Unpacking, OfferedWhole, Offered, Dir, Parts, Whole, Dirs, NoDir, ImportItemsFails, KeepForADay
<1>8. ImportedWhole'
  <2>1. SUFFICES ASSUME NEW k \in Uploads, Alone(k)', k \notin late', Running(k)' # {}
           PROVE  /\ Dir(k)' = Whole /\ info'[check'[k].path] = "day"
                  /\ seen'[check'[k].path] \in {"none", "day"}
    BY DEF ImportedWhole
  <2> QED
    BY <2>1, <1>b, AloneApart, PathInDirs DEF ImportTypeOK, Checks, Stages, TaskStages, RemovalStages, OfferedWhole, ImportedWhole, Offered, Running, Dir, Dirs, NoDir, ImportItemsFails, KeepForADay
<1> QED
  BY <1>1, <1>2, <1>3, <1>4, <1>5, <1>6, <1>7, <1>8

LEMMA StartItemKeeps ==
    ASSUME Kept, NEW c \in Uploads, NEW r \in Records, StartItem(c, r)
    PROVE  Kept'
<1> USE DEF Kept
<1>b. \A k \in Uploads : (Alone(k)' <=> Alone(k)) /\ Dir(k)' = disk'[check[k].path]
  BY DEF StartItem, Alone, Dir
<1>1. ImportTypeOK'
  BY ImportAssumption DEF ImportTypeOK, Checks, Pages, Terms, Dirs, NoDir, Parts, Whole, Dir, Running, StartItem
<1>2. Stages'
  BY DEF ImportTypeOK, Checks, Stages, Dirs, NoDir, TaskStages, Running, StartItem
<1>3. TaskStages'
  BY DEF ImportTypeOK, Checks, Stages, TaskStages, StartItem
<1>4. RemovalStages'
  BY DEF ImportTypeOK, Checks, Stages, TaskStages, RemovalStages, Running, StartItem
<1>5. Untouched'
  BY DEF ImportTypeOK, Checks, Stages, Untouched, Dirs, NoDir, StartItem
<1>6. Unpacking'
  <2>1. SUFFICES ASSUME NEW k \in Uploads, Alone(k)', check'[k].pc \in {"unpack", "list"}
           PROVE  /\ info'[check'[k].path] = "none" /\ seen'[check'[k].path] = "none"
                  /\ "dir" \in Dir(k)' /\ Parts \ check'[k].left \subseteq Dir(k)'
    BY DEF Unpacking
  <2> QED
    BY <2>1, <1>b, AloneApart, PathInDirs DEF ImportTypeOK, Checks, Stages, RemovalStages, Untouched, Unpacking, Dir, Parts, Whole, Dirs, NoDir, StartItem
<1>7. OfferedWhole'
  <2>1. SUFFICES ASSUME NEW k \in Uploads, Alone(k)', Offered(k)'
           PROVE  Dir(k)' = Whole /\ seen'[check'[k].path] \in {"none", "session"}
    BY DEF OfferedWhole
  <2> QED
    BY <2>1, <1>b, AloneApart, PathInDirs DEF ImportTypeOK, Checks, Stages, RemovalStages, Unpacking, OfferedWhole, Offered, Dir, Parts, Whole, Dirs, NoDir, StartItem
<1>8. ImportedWhole'
  <2>1. SUFFICES ASSUME NEW k \in Uploads, Alone(k)', k \notin late', Running(k)' # {}
           PROVE  /\ Dir(k)' = Whole /\ info'[check'[k].path] = "day"
                  /\ seen'[check'[k].path] \in {"none", "day"}
    BY DEF ImportedWhole
  <2> QED
    BY <2>1, <1>b, AloneApart, PathInDirs DEF ImportTypeOK, Checks, Stages, TaskStages, RemovalStages, OfferedWhole, ImportedWhole, Offered, Running, Dir, Dirs, NoDir, StartItem
<1> QED
  BY <1>1, <1>2, <1>3, <1>4, <1>5, <1>6, <1>7, <1>8

LEMMA EndItemKeeps ==
    ASSUME Kept, NEW c \in Uploads, NEW r \in Records, EndItem(c, r)
    PROVE  Kept'
<1> USE DEF Kept
<1>b. \A k \in Uploads : (Alone(k)' <=> Alone(k)) /\ Dir(k)' = disk'[check[k].path]
  BY DEF EndItem, Alone, Dir
<1>1. ImportTypeOK'
  BY ImportAssumption DEF ImportTypeOK, Checks, Pages, Terms, Dirs, NoDir, Parts, Whole, Dir, Running, EndItem
<1>2. Stages'
  BY DEF ImportTypeOK, Checks, Stages, Dirs, NoDir, TaskStages, Running, EndItem
<1>3. TaskStages'
  BY DEF ImportTypeOK, Checks, Stages, TaskStages, EndItem
<1>4. RemovalStages'
  BY DEF ImportTypeOK, Checks, Stages, TaskStages, RemovalStages, Running, EndItem
<1>5. Untouched'
  BY DEF ImportTypeOK, Checks, Stages, Untouched, Dirs, NoDir, EndItem
<1>6. Unpacking'
  <2>1. SUFFICES ASSUME NEW k \in Uploads, Alone(k)', check'[k].pc \in {"unpack", "list"}
           PROVE  /\ info'[check'[k].path] = "none" /\ seen'[check'[k].path] = "none"
                  /\ "dir" \in Dir(k)' /\ Parts \ check'[k].left \subseteq Dir(k)'
    BY DEF Unpacking
  <2> QED
    BY <2>1, <1>b, AloneApart, PathInDirs DEF ImportTypeOK, Checks, Stages, RemovalStages, Untouched, Unpacking, Dir, Parts, Whole, Dirs, NoDir, EndItem
<1>7. OfferedWhole'
  <2>1. SUFFICES ASSUME NEW k \in Uploads, Alone(k)', Offered(k)'
           PROVE  Dir(k)' = Whole /\ seen'[check'[k].path] \in {"none", "session"}
    BY DEF OfferedWhole
  <2> QED
    BY <2>1, <1>b, AloneApart, PathInDirs DEF ImportTypeOK, Checks, Stages, RemovalStages, Unpacking, OfferedWhole, Offered, Dir, Parts, Whole, Dirs, NoDir, EndItem
<1>8. ImportedWhole'
  <2>1. SUFFICES ASSUME NEW k \in Uploads, Alone(k)', k \notin late', Running(k)' # {}
           PROVE  /\ Dir(k)' = Whole /\ info'[check'[k].path] = "day"
                  /\ seen'[check'[k].path] \in {"none", "day"}
    BY DEF ImportedWhole
  <2> QED
    BY <2>1, <1>b, AloneApart, PathInDirs DEF ImportTypeOK, Checks, Stages, TaskStages, RemovalStages, OfferedWhole, ImportedWhole, Offered, Running, Dir, Dirs, NoDir, EndItem
<1> QED
  BY <1>1, <1>2, <1>3, <1>4, <1>5, <1>6, <1>7, <1>8

LEMMA ShowImportKeeps ==
    ASSUME Kept, NEW c \in Uploads, ShowImport(c)
    PROVE  Kept'
<1> USE DEF Kept
<1>b. \A k \in Uploads : (Alone(k)' <=> Alone(k)) /\ Dir(k)' = disk'[check[k].path]
  BY DEF ShowImport, Alone, Dir
<1>1. ImportTypeOK'
  BY ImportAssumption DEF ImportTypeOK, Checks, Pages, Terms, Dirs, NoDir, Parts, Whole, Dir, Running, ShowImport
<1>2. Stages'
  BY DEF ImportTypeOK, Checks, Stages, Dirs, NoDir, TaskStages, Running, ShowImport
<1>3. TaskStages'
  BY DEF ImportTypeOK, Checks, Stages, TaskStages, ShowImport
<1>4. RemovalStages'
  BY DEF ImportTypeOK, Checks, Stages, TaskStages, RemovalStages, Running, ShowImport
<1>5. Untouched'
  BY DEF ImportTypeOK, Checks, Stages, Untouched, Dirs, NoDir, ShowImport
<1>6. Unpacking'
  <2>1. SUFFICES ASSUME NEW k \in Uploads, Alone(k)', check'[k].pc \in {"unpack", "list"}
           PROVE  /\ info'[check'[k].path] = "none" /\ seen'[check'[k].path] = "none"
                  /\ "dir" \in Dir(k)' /\ Parts \ check'[k].left \subseteq Dir(k)'
    BY DEF Unpacking
  <2> QED
    BY <2>1, <1>b, AloneApart, PathInDirs DEF ImportTypeOK, Checks, Stages, RemovalStages, Untouched, Unpacking, Dir, Parts, Whole, Dirs, NoDir, ShowImport
<1>7. OfferedWhole'
  <2>1. SUFFICES ASSUME NEW k \in Uploads, Alone(k)', Offered(k)'
           PROVE  Dir(k)' = Whole /\ seen'[check'[k].path] \in {"none", "session"}
    BY DEF OfferedWhole
  <2> QED
    BY <2>1, <1>b, AloneApart, PathInDirs DEF ImportTypeOK, Checks, Stages, RemovalStages, Unpacking, OfferedWhole, Offered, Dir, Parts, Whole, Dirs, NoDir, ShowImport
<1>8. ImportedWhole'
  <2>1. SUFFICES ASSUME NEW k \in Uploads, Alone(k)', k \notin late', Running(k)' # {}
           PROVE  /\ Dir(k)' = Whole /\ info'[check'[k].path] = "day"
                  /\ seen'[check'[k].path] \in {"none", "day"}
    BY DEF ImportedWhole
  <2> QED
    BY <2>1, <1>b, AloneApart, PathInDirs DEF ImportTypeOK, Checks, Stages, TaskStages, RemovalStages, OfferedWhole, ImportedWhole, Offered, Running, Dir, Dirs, NoDir, ShowImport
<1> QED
  BY <1>1, <1>2, <1>3, <1>4, <1>5, <1>6, <1>7, <1>8

LEMMA RemoveDirKeeps ==
    ASSUME Kept, NEW c \in Uploads, RemoveDir(c)
    PROVE  Kept'
<1> USE DEF Kept
<1>b. \A k \in Uploads : (Alone(k)' <=> Alone(k)) /\ Dir(k)' = disk'[check[k].path]
  BY DEF RemoveDir, Alone, Dir
<1>c. check[c].pc = "ended" /\ check[c].path \in Dirs
  BY PathInDirs DEF RemoveDir, RemovalStages
<1>d. \A e \in Dirs \ {check[c].path} : disk'[e] = disk[e] /\ info'[e] = info[e]
  BY <1>c DEF RemoveDir, ImportTypeOK
<1>e. ASSUME NEW k \in Uploads, Alone(k), k # c, check[k].path \in Dirs
      PROVE  disk'[check[k].path] = disk[check[k].path] /\ info'[check[k].path] = info[check[k].path]
  BY <1>d, <1>e, AloneApart
<1>1. ImportTypeOK'
  BY ImportAssumption DEF ImportTypeOK, Checks, Pages, Terms, Dirs, NoDir, Parts, Whole, Dir, Running, RemoveDir
<1>2. Stages'
  BY DEF ImportTypeOK, Checks, Stages, Dirs, NoDir, TaskStages, Running, RemoveDir
<1>3. TaskStages'
  BY DEF ImportTypeOK, Checks, Stages, TaskStages, RemoveDir
<1>4. RemovalStages'
  BY DEF ImportTypeOK, Checks, Stages, TaskStages, RemovalStages, Running, RemoveDir
<1>5. Untouched'
  BY DEF ImportTypeOK, Checks, Stages, Untouched, Dirs, NoDir, RemoveDir
<1>6. Unpacking'
  <2>1. SUFFICES ASSUME NEW k \in Uploads, Alone(k), check[k].pc \in {"unpack", "list"}
                 PROVE  /\ info'[check[k].path] = "none" /\ seen[check[k].path] = "none"
                        /\ "dir" \in disk'[check[k].path]
                        /\ Parts \ check[k].left \subseteq disk'[check[k].path]
    BY <1>b DEF Unpacking, RemoveDir
  <2>2. k # c /\ check[k].path \in Dirs
    BY <2>1, <1>c, PathInDirs
  <2> QED
    BY <2>1, <2>2, <1>e DEF Unpacking, Dir
<1>7. OfferedWhole'
  <2>1. SUFFICES ASSUME NEW k \in Uploads, Alone(k), Offered(k)'
                 PROVE  disk'[check[k].path] = Whole /\ seen[check[k].path] \in {"none", "session"}
    BY <1>b DEF OfferedWhole, RemoveDir
  <2>2. /\ check[k].pc = "ended" /\ good[k] # {} /\ page[k] \in {"checking", "listed", "sure"}
        /\ info'[check[k].path] = "session"
    BY <2>1 DEF Offered, RemoveDir
  <2>3. k # c
    BY <2>2 DEF RemovalStages, RemoveDir
  <2>4. check[k].path \in Dirs
    BY <2>2, PathInDirs
  <2>5. Offered(k)
    BY <2>1, <2>2, <2>3, <2>4, <1>e DEF Offered
  <2> QED
    BY <2>1, <2>3, <2>4, <2>5, <1>e DEF OfferedWhole, Dir
<1>8. ImportedWhole'
  <2>1. SUFFICES ASSUME NEW k \in Uploads, Alone(k), k \notin late, Running(k) # {}
                 PROVE  /\ disk'[check[k].path] = Whole /\ info'[check[k].path] = "day"
                        /\ seen[check[k].path] \in {"none", "day"}
    BY <1>b DEF ImportedWhole, RemoveDir, Running
  <2>2. check[k].pc = "ended" /\ good[k] # {}
    BY <2>1 DEF Running, TaskStages
  <2>3. k # c
    BY <2>1, <2>2 DEF RemovalStages, RemoveDir
  <2>4. check[k].path \in Dirs
    BY <2>2, PathInDirs
  <2> QED
    BY <2>1, <2>3, <2>4, <1>e DEF ImportedWhole, Dir
<1> QED
  BY <1>1, <1>2, <1>3, <1>4, <1>5, <1>6, <1>7, <1>8

LEMMA CleanStartKeeps ==
    ASSUME Kept, CleanStart
    PROVE  Kept'
<1> USE DEF Kept
<1>b. \A k \in Uploads : (Alone(k)' <=> Alone(k)) /\ Dir(k)' = disk'[check[k].path]
  BY DEF CleanStart, Alone, Dir
<1>1. ImportTypeOK'
  BY ImportAssumption DEF ImportTypeOK, Checks, Pages, Terms, Dirs, NoDir, Parts, Whole, Dir, Running, CleanStart
<1>2. Stages'
  BY DEF ImportTypeOK, Checks, Stages, Dirs, NoDir, TaskStages, Running, CleanStart
<1>3. TaskStages'
  BY DEF ImportTypeOK, Checks, Stages, TaskStages, CleanStart
<1>4. RemovalStages'
  BY DEF ImportTypeOK, Checks, Stages, TaskStages, RemovalStages, Running, CleanStart
<1>5. Untouched'
  BY DEF ImportTypeOK, Checks, Stages, Untouched, Dirs, NoDir, CleanStart
<1>6. Unpacking'
  <2>1. SUFFICES ASSUME NEW k \in Uploads, Alone(k)', check'[k].pc \in {"unpack", "list"}
           PROVE  /\ info'[check'[k].path] = "none" /\ seen'[check'[k].path] = "none"
                  /\ "dir" \in Dir(k)' /\ Parts \ check'[k].left \subseteq Dir(k)'
    BY DEF Unpacking
  <2> QED
    BY <2>1, <1>b, AloneApart, PathInDirs DEF ImportTypeOK, Checks, Stages, RemovalStages, Untouched, Unpacking, Dir, Parts, Whole, Dirs, NoDir, CleanStart
<1>7. OfferedWhole'
  <2>1. SUFFICES ASSUME NEW k \in Uploads, Alone(k)', Offered(k)'
           PROVE  Dir(k)' = Whole /\ seen'[check'[k].path] \in {"none", "session"}
    BY DEF OfferedWhole
  <2> QED
    BY <2>1, <1>b, AloneApart, PathInDirs DEF ImportTypeOK, Checks, Stages, RemovalStages, Unpacking, OfferedWhole, Offered, Dir, Parts, Whole, Dirs, NoDir, CleanStart
<1>8. ImportedWhole'
  <2>1. SUFFICES ASSUME NEW k \in Uploads, Alone(k)', k \notin late', Running(k)' # {}
           PROVE  /\ Dir(k)' = Whole /\ info'[check'[k].path] = "day"
                  /\ seen'[check'[k].path] \in {"none", "day"}
    BY DEF ImportedWhole
  <2> QED
    BY <2>1, <1>b, AloneApart, PathInDirs DEF ImportTypeOK, Checks, Stages, TaskStages, RemovalStages, OfferedWhole, ImportedWhole, Offered, Running, Dir, Dirs, NoDir, CleanStart
<1> QED
  BY <1>1, <1>2, <1>3, <1>4, <1>5, <1>6, <1>7, <1>8

LEMMA CleanOneKeeps ==
    ASSUME Kept, NEW d \in Dirs, CleanOne(d)
    PROVE  Kept'
<1> USE DEF Kept
<1>b. \A k \in Uploads : (Alone(k)' <=> Alone(k)) /\ Dir(k)' = disk'[check[k].path]
  BY DEF CleanOne, Alone, Dir
<1>c. \A e \in Dirs \ {d} : disk'[e] = disk[e] /\ info'[e] = info[e] /\ seen'[e] = seen[e]
  BY DEF CleanOne, ImportTypeOK
<1>d. seen[d] # "none" /\ seen'[d] = "none"
  BY DEF CleanOne, ImportTypeOK
<1>e. \/ (disk[d] = {} \/ seen[d] = "past") /\ disk'[d] = {} /\ info'[d] = "none"
      \/ disk[d] # {} /\ seen[d] # "past" /\ disk'[d] = disk[d] /\ info'[d] = info[d]
  BY DEF CleanOne, ImportTypeOK
<1>1. ImportTypeOK'
  BY ImportAssumption DEF ImportTypeOK, Checks, Pages, Terms, Dirs, NoDir, Parts, Whole, Dir, Running, CleanOne
<1>2. Stages'
  BY DEF ImportTypeOK, Checks, Stages, Dirs, NoDir, TaskStages, Running, CleanOne
<1>3. TaskStages'
  BY DEF ImportTypeOK, Checks, Stages, TaskStages, CleanOne
<1>4. RemovalStages'
  BY DEF ImportTypeOK, Checks, Stages, TaskStages, RemovalStages, Running, CleanOne
<1>5. Untouched'
  <2>1. SUFFICES ASSUME NEW e \in Dirs, \A k \in Uploads : check[k].path # e
                 PROVE  disk'[e] = {} /\ info'[e] = "none" /\ seen'[e] = "none"
    BY DEF Untouched, CleanOne
  <2>2. disk[e] = {} /\ info[e] = "none" /\ seen[e] = "none"
    BY <2>1 DEF Untouched
  <2> QED
    BY <2>2, <1>c, <1>d
<1>6. Unpacking'
  <2>1. SUFFICES ASSUME NEW k \in Uploads, Alone(k), check[k].pc \in {"unpack", "list"}
                 PROVE  /\ info'[check[k].path] = "none" /\ seen'[check[k].path] = "none"
                        /\ "dir" \in disk'[check[k].path]
                        /\ Parts \ check[k].left \subseteq disk'[check[k].path]
    BY <1>b DEF Unpacking, CleanOne
  <2>2. check[k].path \in Dirs
    BY <2>1, PathInDirs
  <2>3. check[k].path # d
    BY <2>1, <1>d DEF Unpacking
  <2> QED
    BY <2>1, <2>2, <2>3, <1>c DEF Unpacking, Dir
<1>7. OfferedWhole'
  <2>1. SUFFICES ASSUME NEW k \in Uploads, Alone(k), Offered(k)'
                 PROVE  disk'[check[k].path] = Whole /\ seen'[check[k].path] \in {"none", "session"}
    BY <1>b DEF OfferedWhole, CleanOne
  <2>2. check[k].path \in Dirs
    BY <2>1, PathInDirs DEF Offered, CleanOne
  <2>3. info[check[k].path] = "session" /\ Offered(k)
    BY <2>1, <2>2, <1>c, <1>e DEF Offered, CleanOne
  <2>4. Dir(k) = Whole /\ seen[check[k].path] \in {"none", "session"}
    BY <2>1, <2>3 DEF OfferedWhole
  <2> QED
    BY <2>2, <2>4, <1>c, <1>d, <1>e DEF Dir, Whole
<1>8. ImportedWhole'
  <2>1. SUFFICES ASSUME NEW k \in Uploads, Alone(k), k \notin late, Running(k) # {}
                 PROVE  /\ disk'[check[k].path] = Whole /\ info'[check[k].path] = "day"
                        /\ seen'[check[k].path] \in {"none", "day"}
    BY <1>b DEF ImportedWhole, CleanOne, Running
  <2>2. check[k].path \in Dirs
    BY <2>1, PathInDirs DEF Running, TaskStages
  <2>3. Dir(k) = Whole /\ info[check[k].path] = "day" /\ seen[check[k].path] \in {"none", "day"}
    BY <2>1 DEF ImportedWhole
  <2> QED
    BY <2>2, <2>3, <1>c, <1>d, <1>e DEF Dir, Whole
<1> QED
  BY <1>1, <1>2, <1>3, <1>4, <1>5, <1>6, <1>7, <1>8

LEMMA TickKeeps ==
    ASSUME Kept, Tick
    PROVE  Kept'
<1> USE DEF Kept
<1>b. \A k \in Uploads : (Alone(k)' <=> Alone(k)) /\ Dir(k)' = disk'[check[k].path]
  BY DEF Tick, Alone, Dir
<1>1. ImportTypeOK'
  BY ImportAssumption DEF ImportTypeOK, Checks, Pages, Terms, Dirs, NoDir, Parts, Whole, Dir, Running, Tick
<1>2. Stages'
  BY DEF ImportTypeOK, Checks, Stages, Dirs, NoDir, TaskStages, Running, Tick
<1>3. TaskStages'
  BY DEF ImportTypeOK, Checks, Stages, TaskStages, Tick
<1>4. RemovalStages'
  BY DEF ImportTypeOK, Checks, Stages, TaskStages, RemovalStages, Running, Tick
<1>5. Untouched'
  BY DEF ImportTypeOK, Checks, Stages, Untouched, Dirs, NoDir, Tick
<1>6. Unpacking'
  <2>1. SUFFICES ASSUME NEW k \in Uploads, Alone(k)', check'[k].pc \in {"unpack", "list"}
           PROVE  /\ info'[check'[k].path] = "none" /\ seen'[check'[k].path] = "none"
                  /\ "dir" \in Dir(k)' /\ Parts \ check'[k].left \subseteq Dir(k)'
    BY DEF Unpacking
  <2> QED
    BY <2>1, <1>b, AloneApart, PathInDirs DEF ImportTypeOK, Checks, Stages, RemovalStages, Untouched, Unpacking, Dir, Parts, Whole, Dirs, NoDir, Tick
<1>7. OfferedWhole'
  <2>1. SUFFICES ASSUME NEW k \in Uploads, Alone(k)', Offered(k)'
           PROVE  Dir(k)' = Whole /\ seen'[check'[k].path] \in {"none", "session"}
    BY DEF OfferedWhole
  <2> QED
    BY <2>1, <1>b, AloneApart, PathInDirs DEF ImportTypeOK, Checks, Stages, RemovalStages, Unpacking, OfferedWhole, Offered, Dir, Parts, Whole, Dirs, NoDir, Tick
<1>8. ImportedWhole'
  <2>1. SUFFICES ASSUME NEW k \in Uploads, Alone(k)', k \notin late', Running(k)' # {}
           PROVE  /\ Dir(k)' = Whole /\ info'[check'[k].path] = "day"
                  /\ seen'[check'[k].path] \in {"none", "day"}
    BY DEF ImportedWhole
  <2> QED
    BY <2>1, <1>b, AloneApart, PathInDirs DEF ImportTypeOK, Checks, Stages, TaskStages, RemovalStages, OfferedWhole, ImportedWhole, Offered, Running, Dir, Dirs, NoDir, Tick
<1> QED
  BY <1>1, <1>2, <1>3, <1>4, <1>5, <1>6, <1>7, <1>8

LEMMA LapseKeeps ==
    ASSUME Kept, NEW d \in Dirs, Lapse(d)
    PROVE  Kept'
<1> USE DEF Kept
<1>b. \A k \in Uploads : (Alone(k)' <=> Alone(k)) /\ Dir(k)' = disk'[check[k].path]
  BY DEF Lapse, Alone, Dir
<1>1. ImportTypeOK'
  BY ImportAssumption DEF ImportTypeOK, Checks, Pages, Terms, Dirs, NoDir, Parts, Whole, Dir, Running, Importing, Lapse
<1>2. Stages'
  BY DEF ImportTypeOK, Checks, Stages, Dirs, NoDir, TaskStages, Running, Lapse
<1>3. TaskStages'
  BY DEF ImportTypeOK, Checks, Stages, TaskStages, Lapse
<1>4. RemovalStages'
  BY DEF ImportTypeOK, Checks, Stages, TaskStages, RemovalStages, Running, Lapse
<1>5. Untouched'
  BY DEF ImportTypeOK, Checks, Stages, Untouched, Dirs, NoDir, Lapse
<1>6. Unpacking'
  <2>1. SUFFICES ASSUME NEW k \in Uploads, Alone(k)', check'[k].pc \in {"unpack", "list"}
           PROVE  /\ info'[check'[k].path] = "none" /\ seen'[check'[k].path] = "none"
                  /\ "dir" \in Dir(k)' /\ Parts \ check'[k].left \subseteq Dir(k)'
    BY DEF Unpacking
  <2> QED
    BY <2>1, <1>b, AloneApart, PathInDirs DEF ImportTypeOK, Checks, Stages, RemovalStages, Untouched, Unpacking, Dir, Parts, Whole, Dirs, NoDir, Lapse
<1>7. OfferedWhole'
  <2>1. SUFFICES ASSUME NEW k \in Uploads, Alone(k)', Offered(k)'
           PROVE  Dir(k)' = Whole /\ seen'[check'[k].path] \in {"none", "session"}
    BY DEF OfferedWhole
  <2> QED
    BY <2>1, <1>b, AloneApart, PathInDirs DEF ImportTypeOK, Checks, Stages, RemovalStages, Unpacking, OfferedWhole, Offered, Dir, Parts, Whole, Dirs, NoDir, Lapse
<1>8. ImportedWhole'
  <2>1. SUFFICES ASSUME NEW k \in Uploads, Alone(k)', k \notin late', Running(k)' # {}
           PROVE  /\ Dir(k)' = Whole /\ info'[check'[k].path] = "day"
                  /\ seen'[check'[k].path] \in {"none", "day"}
    BY DEF ImportedWhole
  <2> QED
    BY <2>1, <1>b, AloneApart, PathInDirs DEF ImportTypeOK, Checks, Stages, TaskStages, RemovalStages, OfferedWhole, ImportedWhole, Offered, Running, Importing, Dir, Dirs, NoDir, Lapse
<1> QED
  BY <1>1, <1>2, <1>3, <1>4, <1>5, <1>6, <1>7, <1>8

LEMMA CheckDiesKeeps ==
    ASSUME Kept, NEW c \in Uploads, CheckDies(c)
    PROVE  Kept'
<1> USE DEF Kept
<1>a. /\ check' \in [Uploads -> Checks] /\ check'[c].pc = "dead"
      /\ check'[c].left = check[c].left
      /\ \A k \in Uploads : check'[k].path = check[k].path
      /\ \A k \in Uploads \ {c} : check'[k] = check[k]
  BY DEF ImportTypeOK, Checks, Parts, CheckDies
<1>b. \A k \in Uploads : Alone(k)' <=> Alone(k)
  BY <1>a, PathsKept
<1>1. ImportTypeOK'
  <2>1. deaths' \in 0 .. MaxDeaths
    BY ImportAssumption DEF ImportTypeOK, CheckDies
  <2> QED
    BY <1>a, <2>1 DEF ImportTypeOK, CheckDies
<1>2. Stages'
  BY <1>a DEF ImportTypeOK, Checks, Stages, Dirs, NoDir, TaskStages, Running, CheckDies
<1>3. TaskStages'
  BY <1>a DEF ImportTypeOK, Checks, Stages, TaskStages, CheckDies
<1>4. RemovalStages'
  BY <1>a DEF ImportTypeOK, Checks, Stages, TaskStages, RemovalStages, Running, CheckDies
<1>5. Untouched'
  BY <1>a DEF ImportTypeOK, Checks, Stages, Untouched, Dirs, NoDir, CheckDies
<1>6. Unpacking'
  <2>1. SUFFICES ASSUME NEW k \in Uploads, Alone(k)', check'[k].pc \in {"unpack", "list"}
           PROVE  /\ info'[check'[k].path] = "none" /\ seen'[check'[k].path] = "none"
                  /\ "dir" \in Dir(k)' /\ Parts \ check'[k].left \subseteq Dir(k)'
    BY DEF Unpacking
  <2> QED
    BY <2>1, <1>b, <1>a, AloneApart, PathInDirs DEF ImportTypeOK, Checks, Stages, RemovalStages, Untouched, Unpacking, Dir, Parts, Whole, Dirs, NoDir, CheckDies
<1>7. OfferedWhole'
  <2>1. SUFFICES ASSUME NEW k \in Uploads, Alone(k)', Offered(k)'
           PROVE  Dir(k)' = Whole /\ seen'[check'[k].path] \in {"none", "session"}
    BY DEF OfferedWhole
  <2> QED
    BY <2>1, <1>b, <1>a, AloneApart, PathInDirs DEF ImportTypeOK, Checks, Stages, RemovalStages, Unpacking, OfferedWhole, Offered, Dir, Parts, Whole, Dirs, NoDir, CheckDies
<1>8. ImportedWhole'
  <2>1. SUFFICES ASSUME NEW k \in Uploads, Alone(k)', k \notin late', Running(k)' # {}
           PROVE  /\ Dir(k)' = Whole /\ info'[check'[k].path] = "day"
                  /\ seen'[check'[k].path] \in {"none", "day"}
    BY DEF ImportedWhole
  <2> QED
    BY <2>1, <1>b, <1>a, AloneApart, PathInDirs DEF ImportTypeOK, Checks, Stages, TaskStages, RemovalStages, OfferedWhole, ImportedWhole, Offered, Running, Dir, Dirs, NoDir, CheckDies
<1> QED
  BY <1>1, <1>2, <1>3, <1>4, <1>5, <1>6, <1>7, <1>8

LEMMA ItemDiesKeeps ==
    ASSUME Kept, NEW c \in Uploads, NEW r \in Records, ItemDies(c, r)
    PROVE  Kept'
<1> USE DEF Kept
<1>b. \A k \in Uploads : (Alone(k)' <=> Alone(k)) /\ Dir(k)' = disk'[check[k].path]
  BY DEF ItemDies, Alone, Dir
<1>1. ImportTypeOK'
  BY ImportAssumption DEF ImportTypeOK, Checks, Pages, Terms, Dirs, NoDir, Parts, Whole, Dir, Running, ItemDies
<1>2. Stages'
  BY DEF ImportTypeOK, Checks, Stages, Dirs, NoDir, TaskStages, Running, ItemDies
<1>3. TaskStages'
  BY DEF ImportTypeOK, Checks, Stages, TaskStages, ItemDies
<1>4. RemovalStages'
  BY DEF ImportTypeOK, Checks, Stages, TaskStages, RemovalStages, Running, ItemDies
<1>5. Untouched'
  BY DEF ImportTypeOK, Checks, Stages, Untouched, Dirs, NoDir, ItemDies
<1>6. Unpacking'
  <2>1. SUFFICES ASSUME NEW k \in Uploads, Alone(k)', check'[k].pc \in {"unpack", "list"}
           PROVE  /\ info'[check'[k].path] = "none" /\ seen'[check'[k].path] = "none"
                  /\ "dir" \in Dir(k)' /\ Parts \ check'[k].left \subseteq Dir(k)'
    BY DEF Unpacking
  <2> QED
    BY <2>1, <1>b, AloneApart, PathInDirs DEF ImportTypeOK, Checks, Stages, RemovalStages, Untouched, Unpacking, Dir, Parts, Whole, Dirs, NoDir, ItemDies
<1>7. OfferedWhole'
  <2>1. SUFFICES ASSUME NEW k \in Uploads, Alone(k)', Offered(k)'
           PROVE  Dir(k)' = Whole /\ seen'[check'[k].path] \in {"none", "session"}
    BY DEF OfferedWhole
  <2> QED
    BY <2>1, <1>b, AloneApart, PathInDirs DEF ImportTypeOK, Checks, Stages, RemovalStages, Unpacking, OfferedWhole, Offered, Dir, Parts, Whole, Dirs, NoDir, ItemDies
<1>8. ImportedWhole'
  <2>1. SUFFICES ASSUME NEW k \in Uploads, Alone(k)', k \notin late', Running(k)' # {}
           PROVE  /\ Dir(k)' = Whole /\ info'[check'[k].path] = "day"
                  /\ seen'[check'[k].path] \in {"none", "day"}
    BY DEF ImportedWhole
  <2> QED
    BY <2>1, <1>b, AloneApart, PathInDirs DEF ImportTypeOK, Checks, Stages, TaskStages, RemovalStages, OfferedWhole, ImportedWhole, Offered, Running, Dir, Dirs, NoDir, ItemDies
<1> QED
  BY <1>1, <1>2, <1>3, <1>4, <1>5, <1>6, <1>7, <1>8

LEMMA InitKept == Init => Kept
<1> SUFFICES ASSUME Init PROVE Kept
  OBVIOUS
<1>1. ImportTypeOK
  BY ImportAssumption DEF Init, ImportTypeOK, Pages, Checks, Dirs, NoDir, Parts, Whole, Terms
<1>2. Stages /\ TaskStages /\ RemovalStages /\ Untouched
  BY DEF Init, Stages, TaskStages, RemovalStages, Untouched
<1>3. Unpacking /\ OfferedWhole /\ ImportedWhole
  BY DEF Init, Unpacking, OfferedWhole, ImportedWhole, Offered, Running
<1> QED
  BY <1>1, <1>2, <1>3 DEF Kept

LEMMA StutterKeeps == Kept /\ UNCHANGED importVars => Kept'
<1> SUFFICES ASSUME Kept, UNCHANGED importVars PROVE Kept'
  OBVIOUS
<1>1. (ImportTypeOK /\ Stages /\ Untouched)'
  BY DEF Kept, importVars, ImportTypeOK, Stages, Untouched
<1>2. (TaskStages /\ RemovalStages)'
  BY DEF Kept, importVars, TaskStages, RemovalStages, Running
<1>3. (Unpacking /\ OfferedWhole /\ ImportedWhole)'
  BY DEF Kept, importVars, Unpacking, OfferedWhole, ImportedWhole, Alone, Offered,
         Running, Dir
<1> QED
  BY <1>1, <1>2, <1>3 DEF Kept

LEMMA StepKeeps == Kept /\ [Next]_importVars => Kept'
<1> SUFFICES ASSUME Kept, [Next]_importVars PROVE Kept'
  OBVIOUS
<1>1. ASSUME NEW c \in Uploads,
             Upload(c) \/ AskAvailable(c) \/ ImportItems(c) \/ ImportItemsFails(c)
             \/ CheckDies(c) \/ \E r \in Records : ItemDies(c, r)
      PROVE  Kept'
  BY <1>1, UploadKeeps, AskAvailableKeeps, ImportItemsKeeps, ImportItemsFailsKeeps,
     CheckDiesKeeps, ItemDiesKeeps
<1>2. ASSUME NEW c \in Uploads, CheckStep(c)
      PROVE  Kept'
  BY <1>2, MakeDirKeeps, UnpackKeeps, ReadRecordsKeeps, UnpackFailsKeeps, RejectKeeps,
     AcceptKeeps DEF CheckStep
<1>3. ASSUME NEW c \in Uploads, NEW r \in Records, ItemStep(c, r)
      PROVE  Kept'
  BY <1>3, StartItemKeeps, EndItemKeeps DEF ItemStep
<1>4. CASE Work
  BY <1>2, <1>3, <1>4, RemoveDirKeeps DEF Work
<1>5. CASE PageAnswer
  BY <1>5, ShowCheckKeeps, ShowImportKeeps DEF PageAnswer
<1>6. ASSUME NEW d \in Dirs, CleanOne(d) \/ Lapse(d)
      PROVE  Kept'
  BY <1>6, CleanOneKeeps, LapseKeeps
<1>7. CASE CleanStart \/ Tick
  BY <1>7, CleanStartKeeps, TickKeeps
<1>8. CASE UNCHANGED importVars
  BY <1>8, StutterKeeps
<1> QED
  BY <1>1, <1>4, <1>5, <1>6, <1>7, <1>8 DEF Next

\* The variables keep their types: a check's directory is a second of the time,
\* and what is imported was found by the check.
THEOREM TypeCorrect == Spec => []ImportTypeOK
<1>1. Kept => ImportTypeOK
  BY DEF Kept
<1> QED
  BY InitKept, StepKeeps, <1>1, PTL DEF Spec

\* Neither clean_temp_info, nor the task after the last record, nor the end of
\* another check takes the files of an upload while they are needed: the
\* property FilesThere, for any number of uploads and records.
THEOREM FilesStay == Spec => []FilesThere
<1>1. Kept => FilesThere
  BY DEF Kept, OfferedWhole, ImportedWhole, FilesThere
<1> QED
  BY InitKept, StepKeeps, <1>1, PTL DEF Spec

-----------------------------------------------------------------------------
(* What is left on disk is known to somebody who removes it, which is what *)
(* TemporaryGoes rests on. No upload is alone here: checks of one second   *)
(* make, fill and remove one directory in any order.                       *)

\* Somebody who will remove a directory: clean_temp_info, by TempDirInfo, a check
\* that still ends, or a removal that is queued; unless the check's worker died.
Minded(d) ==
    \/ info[d] # "none"
    \/ \E c \in Uploads :
        /\ check[c].path = d
        /\ check[c].pc \in {"unpack", "error", "list", "dead"} \/ c \in removals

\* No directory is forgotten, and no archive outlives the check of it.
Remembered ==
    /\ \A d \in Dirs : disk[d] # {} => Minded(d)
    /\ \A c \in zips : check[c].pc \in {"queued", "unpack", "error", "list", "dead"}

\* A step that only leaves directories as they are, and whoever minds them.
LEMMA SameDirs ==
    ASSUME Remembered, UNCHANGED <<check, zips, disk>>,
           \A d \in Dirs : info[d] # "none" => info'[d] # "none",
           removals \subseteq removals'
    PROVE  Remembered'
BY DEF Remembered, Minded

\* A step of one check that does not end it.
LEMMA CheckGoesOn ==
    ASSUME ImportTypeOK, Remembered, NEW c \in Uploads,
           UNCHANGED <<info, removals>>, zips' \subseteq zips \cup {c},
           check'[c].pc \in {"queued", "unpack", "error", "list", "dead"},
           check'[c].pc # "queued" => check'[c].path \in Dirs,
           check[c].path \in {NoDir, check'[c].path},
           check'[c].pc = "queued" => check[c].path = NoDir,
           \A k \in Uploads \ {c} : check'[k] = check[k],
           \A d \in Dirs : d # check'[c].path => disk'[d] = disk[d],
           check'[c].pc = "queued" => disk' = disk
    PROVE  Remembered'
<1>1. ASSUME NEW d \in Dirs, disk'[d] # {}
      PROVE  Minded(d)'
  <2>1. CASE check'[c].path = d /\ check'[c].pc # "queued"
    BY <2>1 DEF Minded
  <2>2. CASE check'[c].path # d \/ check'[c].pc = "queued"
    <3>1. Minded(d)
      BY <1>1, <2>2 DEF Remembered
    <3>2. check[c].path # d
      BY <2>2 DEF Dirs, NoDir
    <3> QED
      BY <3>1, <3>2 DEF Minded
  <2> QED
    BY <2>1, <2>2
<1>2. ASSUME NEW k \in zips'
      PROVE  check'[k].pc \in {"queued", "unpack", "error", "list", "dead"}
  BY <1>2 DEF Remembered, ImportTypeOK
<1> QED
  BY <1>1, <1>2 DEF Remembered

LEMMA CheckRemembers ==
    ASSUME Kept, Remembered, NEW c \in Uploads,
           Upload(c) \/ CheckStep(c) \/ CheckDies(c)
    PROVE  Remembered'
<1> USE DEF Kept
<1>0. check[c].pc \notin {"none", "queued"} => check[c].path \in Dirs
  BY PathInDirs
<1>1. CASE Upload(c)
  <2>1. check[c].path = NoDir
    BY <1>1 DEF Upload, Stages
  <2> QED
    BY <1>1, <2>1, CheckGoesOn DEF Upload, ImportTypeOK, Checks
<1>2. CASE MakeDir(c)
  <2>1. check[c].path = NoDir /\ second \in Dirs
    BY <1>2 DEF MakeDir, Stages
  <2>2. CASE disk[second] = {}
    <3>1. /\ check' = [check EXCEPT ![c].pc = "unpack", ![c].path = second]
          /\ disk' = [disk EXCEPT ![second] = {"dir"}]
          /\ UNCHANGED <<zips, info, removals>>
      BY <1>2, <2>2 DEF MakeDir
    <3>2. /\ check'[c].pc = "unpack" /\ check'[c].path = second
          /\ \A k \in Uploads \ {c} : check'[k] = check[k]
          /\ \A d \in Dirs : d # second => disk'[d] = disk[d]
      BY <3>1 DEF ImportTypeOK, Checks
    <3> QED
      BY <2>1, <3>1, <3>2, CheckGoesOn
  <2>3. CASE disk[second] # {}
    <3>1. /\ check' = [check EXCEPT ![c].pc = "error", ![c].path = second]
          /\ UNCHANGED <<disk, zips, info, removals>>
      BY <1>2, <2>3 DEF MakeDir
    <3>2. /\ check'[c].pc = "error" /\ check'[c].path = second
          /\ \A k \in Uploads \ {c} : check'[k] = check[k]
      BY <3>1 DEF ImportTypeOK, Checks
    <3> QED
      BY <2>1, <3>1, <3>2, CheckGoesOn
  <2> QED
    BY <2>2, <2>3
<1>3. CASE Unpack(c)
  <2>1. PICK p \in check[c].left :
            /\ check' = [check EXCEPT ![c].left = @ \ {p}]
            /\ disk' = [disk EXCEPT ![check[c].path] = @ \cup {"dir", p}]
    BY <1>3 DEF Unpack
  <2> QED
    BY <1>0, <1>3, <2>1, CheckGoesOn DEF Unpack, ImportTypeOK, Checks
<1>4. CASE ReadRecords(c)
  BY <1>0, <1>4, CheckGoesOn DEF ReadRecords, ImportTypeOK, Checks
<1>5. CASE UnpackFails(c)
  BY <1>0, <1>5, CheckGoesOn DEF UnpackFails, ImportTypeOK, Checks
<1>6. CASE CheckDies(c)
  BY <1>0, <1>6, CheckGoesOn DEF CheckDies, ImportTypeOK, Checks
<1>7. CASE Reject(c)
  <2>1. /\ check' = [check EXCEPT ![c].pc = "ended"]
        /\ zips' = zips \ {c} /\ removals' = removals \cup {c}
        /\ UNCHANGED <<disk, info>>
    BY <1>7 DEF Reject
  <2>2. /\ \A k \in Uploads : check'[k].path = check[k].path
        /\ \A k \in Uploads \ {c} : check'[k] = check[k]
    BY <2>1 DEF ImportTypeOK, Checks
  <2>3. ASSUME NEW d \in Dirs, disk'[d] # {}
        PROVE  Minded(d)'
    BY <2>1, <2>2, <2>3 DEF Remembered, Minded
  <2>4. \A k \in zips' : check'[k].pc \in {"queued", "unpack", "error", "list", "dead"}
    BY <2>1, <2>2 DEF Remembered, ImportTypeOK
  <2> QED
    BY <2>3, <2>4 DEF Remembered
<1>8. CASE Accept(c)
  <2>1. /\ check' \in [Uploads -> Checks]
        /\ \A k \in Uploads : check'[k].path = check[k].path
        /\ \A k \in Uploads \ {c} : check'[k] = check[k]
        /\ zips' = zips \ {c} /\ UNCHANGED <<disk, removals>>
        /\ check[c].path \in Dirs
    BY <1>0, <1>8 DEF Accept, ImportTypeOK, Checks
  <2>2. /\ info'[check[c].path] # "none"
        /\ \A d \in Dirs : info[d] # "none" => info'[d] # "none"
    BY <1>8, <2>1 DEF Accept, ImportTypeOK
  <2>3. ASSUME NEW d \in Dirs, disk'[d] # {}
        PROVE  Minded(d)'
    BY <2>1, <2>2, <2>3 DEF Remembered, Minded
  <2>4. \A k \in zips' : check'[k].pc \in {"queued", "unpack", "error", "list", "dead"}
    BY <2>1 DEF Remembered, ImportTypeOK
  <2> QED
    BY <2>3, <2>4 DEF Remembered
<1> QED
  BY <1>1, <1>2, <1>3, <1>4, <1>5, <1>6, <1>7, <1>8 DEF CheckStep

\* A step that empties a directory may also make it forgotten.
LEMMA RemovalRemembers ==
    ASSUME Kept, Remembered,
           \/ \E c \in Uploads : RemoveDir(c)
           \/ \E d \in Dirs : CleanOne(d)
    PROVE  Remembered'
<1> USE DEF Kept
<1>1. ASSUME NEW c \in Uploads, RemoveDir(c)
      PROVE  Remembered'
  <2>1. check[c].path \in Dirs
    BY <1>1, PathInDirs DEF RemoveDir, RemovalStages
  <2>2. /\ UNCHANGED <<check, zips>> /\ removals' = removals \ {c}
        /\ \A d \in Dirs : d # check[c].path => disk'[d] = disk[d] /\ info'[d] = info[d]
        /\ disk'[check[c].path] = {}
    BY <1>1, <2>1 DEF RemoveDir, Dir, ImportTypeOK
  <2> QED
    BY <2>1, <2>2 DEF Remembered, Minded
<1>2. ASSUME NEW d \in Dirs, CleanOne(d)
      PROVE  Remembered'
  <2>1. /\ UNCHANGED <<check, zips, removals>>
        /\ \A e \in Dirs : e # d => disk'[e] = disk[e] /\ info'[e] = info[e]
        /\ disk'[d] = {} \/ (disk'[d] = disk[d] /\ info'[d] = info[d])
    BY <1>2 DEF CleanOne, ImportTypeOK
  <2> QED
    BY <2>1 DEF Remembered, Minded
<1> QED
  BY <1>1, <1>2

LEMMA StepRemembers ==
    ASSUME Kept, Remembered, [Next]_importVars
    PROVE  Remembered'
<1> USE DEF Kept
<1>1. ASSUME NEW c \in Uploads, ImportItems(c) \/ ImportItemsFails(c)
      PROVE  Remembered'
  BY <1>1, SameDirs DEF ImportItems, ImportItemsFails, KeepForADay, ImportTypeOK
<1>2. ASSUME NEW c \in Uploads,
             AskAvailable(c) \/ ShowCheck(c) \/ ShowImport(c)
      PROVE  Remembered'
  BY <1>2, SameDirs DEF AskAvailable, ShowCheck, ShowImport
<1>3. ASSUME NEW c \in Uploads, NEW r \in Records, ItemStep(c, r) \/ ItemDies(c, r)
      PROVE  Remembered'
  BY <1>3, SameDirs DEF ItemStep, StartItem, EndItem, ItemDies
<1>4. ASSUME NEW d \in Dirs, Lapse(d)
      PROVE  Remembered'
  BY <1>4, SameDirs DEF Lapse, ImportTypeOK
<1>5. CASE CleanStart \/ Tick
  BY <1>5, SameDirs DEF CleanStart, Tick
<1>6. CASE UNCHANGED importVars
  BY <1>6, SameDirs DEF importVars
<1> QED
  BY <1>1, <1>2, <1>3, <1>4, <1>5, <1>6, CheckRemembers, RemovalRemembers
  DEF Next, Work, PageAnswer

\* No temporary directory and no archive is forgotten, whatever checks share a
\* second and whatever dies: as long as one is on disk, TempDirInfo names it,
\* its removal is queued, or the check that is to tell TempDirInfo or to queue
\* the removal has not ended (or its worker died). The safety half of
\* TemporaryGoes.
THEOREM NothingForgotten == Spec => []Remembered
<1>1. Init => Kept /\ Remembered
  BY InitKept DEF Init, Remembered
<1>2. Kept /\ Remembered /\ [Next]_importVars => (Kept /\ Remembered)'
  BY StepKeeps, StepRemembers
<1> QED
  BY <1>1, <1>2, PTL DEF Spec
=============================================================================
