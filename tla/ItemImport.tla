------------------------------ MODULE ItemImport ------------------------------
(***************************************************************************)
(* Items imported from an uploaded archive (weko_search_ui: import.js,     *)
(* admin.py, tasks.py, utils.py): a page asks for a check, a celery task   *)
(* unpacks the archive into a temporary directory named after the second,  *)
(* the page shows the records and asks for their import, one task per      *)
(* record, a last task removes the directory. What is not removed so goes  *)
(* when its time has passed, by the hourly clean_temp_info of weko_admin,  *)
(* which knows the directories of TempDirInfo. Workers may die.            *)
(***************************************************************************)
EXTENDS Integers, FiniteSets

CONSTANTS Uploads,     \* archives, each checked and imported from one page
          Records, Holds,  \* the records each archive holds
          MaxSecond,   \* bound: seconds in which a check may begin
          MaxDeaths    \* bound: workers that die

ASSUME ImportAssumption ==
    /\ Holds \in [Uploads -> SUBSET Records]
    /\ MaxSecond \in Nat /\ MaxDeaths \in Nat

Dirs == 1 .. MaxSecond
NoDir == 0

\* What the archive holds, and a directory that holds all of it.
Parts == {"csv", "files"}
Whole == Parts \cup {"dir"}

VARIABLES second,    \* the time
          page,      \* what each page shows
          check,     \* the task that checks an upload
          good,      \* the records the check found without errors
          zips,      \* uploads whose archive is on disk
          disk,      \* the directories: nothing, or "dir" and what is in it
          info,      \* TempDirInfo: how long each directory is kept
          tasks,     \* import_item, one per record
          removals,  \* uploads whose remove_temp_dir_task is queued
          seen,      \* what a run of clean_temp_info has still to look at
          late,      \* imports asked for when the directory might be going, or
                     \* that take longer than the day it is kept
          deaths     \* workers that have died

importVars == <<second, page, check, good, zips, disk, info, tasks, removals,
                seen, late, deaths>>

Pages == {"idle", "checking", "listed", "sure", "importing", "ended"}

\* The check's task; left: the parts still to be unpacked.
Checks == [pc : {"none", "queued", "unpack", "error", "list", "ended", "dead"},
           path : Dirs \cup {NoDir}, left : SUBSET Parts]

\* A directory is kept for a session lifetime after the check, then for a day
\* after the import was asked for.
Terms == {"none", "session", "day", "past"}

ImportTypeOK ==
    /\ second \in 1 .. MaxSecond + 1
    /\ page \in [Uploads -> Pages]
    /\ check \in [Uploads -> Checks]
    /\ good \in [Uploads -> SUBSET Records]
    /\ zips \subseteq Uploads
    /\ disk \in [Dirs -> SUBSET Whole]
    /\ info \in [Dirs -> Terms]
    /\ tasks \in [Uploads -> [Records -> {"none", "queued", "active", "success",
                                          "null", "dead"}]]
    /\ removals \subseteq Uploads
    /\ seen \in [Dirs -> Terms]
    /\ late \subseteq Uploads
    /\ deaths \in 0 .. MaxDeaths

Init ==
    /\ second = 1
    /\ page = [c \in Uploads |-> "idle"]
    /\ check = [c \in Uploads |-> [pc |-> "none", path |-> NoDir, left |-> {}]]
    /\ good = [c \in Uploads |-> {}]
    /\ zips = {}
    /\ disk = [d \in Dirs |-> {}]
    /\ info = [d \in Dirs |-> "none"]
    /\ tasks = [c \in Uploads |-> [r \in Records |-> "none"]]
    /\ removals = {}
    /\ seen = [d \in Dirs |-> "none"]
    /\ late = {} /\ deaths = 0

-----------------------------------------------------------------------------
(* The check.                                                              *)

\* check: the archive is saved and the task queued.
Upload(c) ==
    /\ page[c] = "idle" /\ second \in Dirs
    /\ page' = [page EXCEPT ![c] = "checking"]
    /\ zips' = zips \cup {c}
    /\ check' = [check EXCEPT ![c].pc = "queued", ![c].left = Parts]
    /\ UNCHANGED <<second, good, disk, info, tasks, removals, seen, late, deaths>>

\* A fault: the name is rounded up.
MakeDirRoundedUp(c) ==
    /\ check[c].pc = "queued" /\ second \in Dirs
    /\ check' = [check EXCEPT ![c].pc = "unpack", ![c].path = second + 1]
    /\ UNCHANGED <<second, page, good, zips, disk, info, tasks, removals, seen,
                   late, deaths>>

\* os.mkdir, which raises FileExistsError when another check of this second
\* has made the directory.
MakeDir(c) ==
    /\ check[c].pc = "queued" /\ second \in Dirs
    /\ IF disk[second] = {}
       THEN /\ disk' = [disk EXCEPT ![second] = {"dir"}]
            /\ check' = [check EXCEPT ![c].pc = "unpack", ![c].path = second]
       ELSE /\ check' = [check EXCEPT ![c].pc = "error", ![c].path = second]
            /\ UNCHANGED disk
    /\ UNCHANGED <<second, page, good, zips, info, tasks, removals, seen, late, deaths>>

Dir(c) == disk[check[c].path]

\* ZipFile.extract, which makes the directories it misses.
Unpack(c) ==
    /\ check[c].pc = "unpack"
    /\ \E p \in check[c].left :
        /\ check' = [check EXCEPT ![c].left = @ \ {p}]
        /\ disk' = [disk EXCEPT ![check[c].path] = @ \cup {"dir", p}]
    /\ UNCHANGED <<second, page, good, zips, info, tasks, removals, seen, late, deaths>>

\* Not an archive, no table in it, or any other exception.
UnpackFails(c) ==
    /\ check[c].pc = "unpack"
    /\ check' = [check EXCEPT ![c].pc = "error"]
    /\ UNCHANGED <<second, page, good, zips, disk, info, tasks, removals, seen,
                   late, deaths>>

\* The records are validated; a record whose files are not there has errors.
ReadRecords(c) ==
    /\ check[c].pc = "unpack" /\ check[c].left = {}
    /\ "csv" \in Dir(c)
    /\ check' = [check EXCEPT ![c].pc = "list"]
    /\ \E ok \in SUBSET Holds[c] :
        /\ ok # {} => "files" \in Dir(c)
        /\ good' = [good EXCEPT ![c] = ok]
    /\ UNCHANGED <<second, page, zips, disk, info, tasks, removals, seen, late, deaths>>

\* The end of check_import_items_task when nothing can be imported.
Reject(c) ==
    /\ check[c].pc = "error" \/ (check[c].pc = "list" /\ good[c] = {})
    /\ check' = [check EXCEPT ![c].pc = "ended"]
    /\ zips' = zips \ {c}
    /\ removals' = removals \cup {c}
    /\ UNCHANGED <<second, page, good, disk, info, tasks, seen, late, deaths>>


Accept(c) ==
    /\ check[c].pc = "list" /\ good[c] # {}
    /\ check' = [check EXCEPT ![c].pc = "ended"]
    /\ zips' = zips \ {c}
    /\ info' = [info EXCEPT ![check[c].path] = "session"]
    /\ UNCHANGED <<second, page, good, disk, tasks, removals, seen, late, deaths>>

\* getCheckStatus asks each second until there is an error or a list.
ShowCheck(c) ==
    /\ page[c] = "checking" /\ check[c].pc = "ended"
    /\ page' = [page EXCEPT ![c] = IF good[c] = {} THEN "ended" ELSE "listed"]
    /\ UNCHANGED <<second, check, good, zips, disk, info, tasks, removals, seen,
                   late, deaths>>

-----------------------------------------------------------------------------
(* The import.                                                             *)

Running(c) == {r \in Records : tasks[c][r] \in {"queued", "active"}}

\* check_import_available: no import_item is active or reserved by a worker
\* (one that is queued may not be reserved yet).
AskAvailable(c) ==
    /\ page[c] = "listed"
    /\ \A k \in Uploads, r \in Records : tasks[k][r] # "active"
    /\ page' = [page EXCEPT ![c] = "sure"]
    /\ UNCHANGED <<second, check, good, zips, disk, info, tasks, removals, seen,
                   late, deaths>>

\* The directory is kept for a day from now on, if it is still there: late says
\* that its time had passed, or that a clean_temp_info that read its old time is
\* still to look at it.
KeepForADay(c) ==
    LET d == check[c].path
    IN /\ info' = [info EXCEPT ![d] = "day"]
       /\ late' = IF info[d] = "session" /\ seen[d] = "none"
                  THEN late ELSE late \cup {c}

\* import_items.
ImportItems(c) ==
    /\ page[c] = "sure"
    /\ KeepForADay(c)
    /\ page' = [page EXCEPT ![c] = "importing"]
    /\ tasks' = [tasks EXCEPT ![c] =
                    [r \in Records |-> IF r \in good[c] THEN "queued" ELSE "none"]]
    /\ UNCHANGED <<second, check, good, zips, disk, removals, seen, deaths>>

\* import_items raises before the tasks are queued: the page shows nothing, and
\* its button stays disabled.
ImportItemsFails(c) ==
    /\ page[c] = "sure"
    /\ KeepForADay(c)
    /\ page' = [page EXCEPT ![c] = "ended"]
    /\ UNCHANGED <<second, check, good, zips, disk, tasks, removals, seen, deaths>>

StartItem(c, r) ==
    /\ tasks[c][r] = "queued"
    /\ tasks' = [tasks EXCEPT ![c][r] = "active"]
    /\ UNCHANGED <<second, page, check, good, zips, disk, info, removals, seen,
                   late, deaths>>

\* A fault: the task after the records' is queued by the first of them.
EndItemEager(c, r) ==
    /\ tasks[c][r] = "active"
    /\ \E end \in {"success", "null"} :
        /\ end = "success" => Dir(c) = Whole
        /\ tasks' = [tasks EXCEPT ![c][r] = end]
    /\ removals' = removals \cup {c}
    /\ UNCHANGED <<second, page, check, good, zips, disk, info, seen, late, deaths>>

\* import_item: it fails when the files are not there, and may for many reasons
\* when they are. An exception ends as a null result: import_item has caught it.
\* The task after all of the records' is queued by the last of them.
EndItem(c, r) ==
    /\ tasks[c][r] = "active"
    /\ \E end \in {"success", "null"} :
        /\ end = "success" => Dir(c) = Whole
        /\ tasks' = [tasks EXCEPT ![c][r] = end]
    /\ removals' = IF \A q \in good[c] : tasks'[c][q] \in {"success", "null"}
                   THEN removals \cup {c} ELSE removals
    /\ UNCHANGED <<second, page, check, good, zips, disk, info, seen, late, deaths>>

\* A fault: a task that failed is waited for.
ShowSuccess(c) ==
    /\ page[c] = "importing"
    /\ \A r \in good[c] : tasks[c][r] = "success"
    /\ page' = [page EXCEPT ![c] = "ended"]
    /\ UNCHANGED <<second, check, good, zips, disk, info, tasks, removals, seen,
                   late, deaths>>

\* getStatus asks each second until every task is done.
ShowImport(c) ==
    /\ page[c] = "importing"
    /\ \A r \in good[c] : tasks[c][r] \in {"success", "null"}
    /\ page' = [page EXCEPT ![c] = "ended"]
    /\ UNCHANGED <<second, check, good, zips, disk, info, tasks, removals, seen,
                   late, deaths>>

-----------------------------------------------------------------------------
(* What removes directories, time, and workers.                            *)

\* remove_temp_dir_task: rmtree raises if there is nothing to remove, and
\* TempDirInfo stays as it is.
RemoveDir(c) ==
    /\ c \in removals
    /\ removals' = removals \ {c}
    /\ IF Dir(c) = {} THEN UNCHANGED <<disk, info>>
       ELSE /\ disk' = [disk EXCEPT ![check[c].path] = {}]
            /\ info' = [info EXCEPT ![check[c].path] = "none"]
    /\ UNCHANGED <<second, page, check, good, zips, tasks, seen, late, deaths>>

\* clean_temp_info begins: get_all.
CleanStart ==
    /\ \A d \in Dirs : seen[d] = "none"
    /\ seen' = info
    /\ UNCHANGED <<second, page, check, good, zips, disk, info, tasks, removals,
                   late, deaths>>

\* One directory of it: gone already, past its time, or kept.
CleanOne(d) ==
    /\ seen[d] # "none"
    /\ seen' = [seen EXCEPT ![d] = "none"]
    /\ IF disk[d] = {} \/ seen[d] = "past"
       THEN /\ disk' = [disk EXCEPT ![d] = {}]
            /\ info' = [info EXCEPT ![d] = "none"]
       ELSE UNCHANGED <<disk, info>>
    /\ UNCHANGED <<second, page, check, good, zips, tasks, removals, late, deaths>>

\* The bound: a check that is queued in the last second begins in it.
Tick ==
    /\ second <= MaxSecond
    /\ second = MaxSecond => \A c \in Uploads : check[c].pc # "queued"
    /\ second' = second + 1
    /\ UNCHANGED <<page, check, good, zips, disk, info, tasks, removals, seen,
                   late, deaths>>

\* Imports of a directory that have records left to import.
Importing(d) == {c \in Uploads : check[c].path = d /\ Running(c) # {}}

\* The time a directory is kept passes, a day also for an import under way.
Lapse(d) ==
    /\ d < second
    /\ \E term \in {"session", "day"} :
        /\ info[d] = term \/ seen[d] = term
        /\ late' = IF term = "day" THEN late \cup Importing(d) ELSE late
        /\ info' = IF info[d] = term THEN [info EXCEPT ![d] = "past"] ELSE info
        /\ seen' = IF seen[d] = term THEN [seen EXCEPT ![d] = "past"] ELSE seen
    /\ UNCHANGED <<second, page, check, good, zips, disk, tasks, removals, deaths>>

\* A worker dies with the task it does, which nobody does again.
CheckDies(c) ==
    /\ deaths < MaxDeaths /\ check[c].pc \in {"unpack", "error", "list"}
    /\ deaths' = deaths + 1
    /\ check' = [check EXCEPT ![c].pc = "dead"]
    /\ UNCHANGED <<second, page, good, zips, disk, info, tasks, removals, seen, late>>

ItemDies(c, r) ==
    /\ deaths < MaxDeaths /\ tasks[c][r] = "active"
    /\ deaths' = deaths + 1
    /\ tasks' = [tasks EXCEPT ![c][r] = "dead"]
    /\ UNCHANGED <<second, page, check, good, zips, disk, info, removals, seen, late>>

CheckStep(c) == MakeDir(c) \/ Unpack(c) \/ ReadRecords(c) \/ UnpackFails(c)
                \/ Reject(c) \/ Accept(c)
ItemStep(c, r) == StartItem(c, r) \/ EndItem(c, r)
Work == \E c \in Uploads : CheckStep(c) \/ RemoveDir(c)
                           \/ \E r \in Records : ItemStep(c, r)
PageAnswer == \E c \in Uploads : ShowCheck(c) \/ ShowImport(c)

Next ==
    \/ \E c \in Uploads :
        \/ Upload(c) \/ AskAvailable(c) \/ ImportItems(c) \/ ImportItemsFails(c)
        \/ CheckDies(c) \/ \E r \in Records : ItemDies(c, r)
    \/ Work \/ PageAnswer
    \/ \E d \in Dirs : CleanOne(d) \/ Lapse(d)
    \/ CleanStart \/ Tick

\* There is a worker that goes on with some task, clean_temp_info runs each hour
\* and ends, a page asks again each second, and time passes. Nobody has to ask
\* for a check or an import.
Fairness ==
    /\ WF_importVars(Work) /\ WF_importVars(PageAnswer)
    /\ WF_importVars(CleanStart) /\ WF_importVars(\E d \in Dirs : CleanOne(d))
    /\ WF_importVars(Tick) /\ WF_importVars(\E d \in Dirs : Lapse(d))

Spec == Init /\ [][Next]_importVars
FairSpec == Spec /\ Fairness

-----------------------------------------------------------------------------
(* What an import needs and leaves behind.                                 *)

\* No other check began in the second of this one.
Alone(c) == \A k \in Uploads \ {c} : check[k].path # check[c].path

\* The records are shown to be imported, and the session has not lapsed.
Offered(c) ==
    /\ check[c].pc = "ended" /\ good[c] # {} /\ page[c] \in {"checking", "listed", "sure"}
    /\ info[check[c].path] = "session"

\* The files of an upload are there from the end of its check until the import
\* of its last record, if the import was asked for in time, has not taken longer
\* than the day its directory is kept, and no other check was given the directory.
FilesThere ==
    \A c \in Uploads :
        Alone(c) /\ c \notin late /\ (Offered(c) \/ Running(c) # {})
            => Dir(c) = Whole

\* The worker died that made, or was to make, the directory of an upload.
Abandoned(c) == \E k \in Uploads : check[k].path = check[c].path /\ check[k].pc = "dead"

Died(c) == check[c].pc = "dead" \/ \E r \in Records : tasks[c][r] = "dead"

\* A page that asks for the state of its check or of its import gets to the end
\* of it, unless a worker dies.
PagesEnd ==
    \A c \in Uploads :
        page[c] \in {"checking", "importing"} ~>
            page[c] \in {"listed", "ended"} \/ Died(c)

=============================================================================
