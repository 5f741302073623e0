------------------------------ MODULE BulkExport ------------------------------
(***************************************************************************)
(* The export of all items (weko_search_ui: export.js, ItemBulkExport of   *)
(* admin.py, tasks.py, export_all and delete_exported of utils.py). A page *)
(* asks for an export; a celery task writes the items of each type into    *)
(* files of Limit items, resuming after database errors, and stores the    *)
(* archive; the cache holds its uri until another task, three minutes      *)
(* later, or the next export deletes the row of the archive. What deletes  *)
(* the row leaves the archive on the disk for good (FileInstance.delete    *)
(* says so): the model has the rows, not the bytes. An export may be       *)
(* cancelled, and its worker may die; items are registered and deleted     *)
(* meanwhile.                                                              *)
(***************************************************************************)
EXTENDS Integers, FiniteSets

CONSTANTS Exports,     \* 1 .. n: the exports asked for, in this order
          Items,       \* recids, in the order in which the query sorts them
          Types, TypeOf,  \* item types
          Limit,       \* WEKO_SEARCH_UI_BULK_EXPORT_LIMIT
          Retries,     \* WEKO_SEARCH_UI_BULK_EXPORT_RETRY
          AtFirst,     \* the items there are at first
          MaxChanges,  \* bound: items registered or deleted
          MaxKills     \* bound: exports cancelled or lost

ASSUME ExportAssumption ==
    /\ Exports \subseteq Nat \ {0} /\ Items \subseteq Nat \ {0}
    /\ Types \subseteq Nat \ {0} /\ TypeOf \in [Items -> Types]
    /\ AtFirst \subseteq Items
    /\ Limit \in Nat \ {0} /\ Retries \in Nat
    /\ MaxChanges \in Nat /\ MaxKills \in Nat

\* No export, and the uri of none: the cache holds nothing or "".
Nothing == 0

VARIABLES item,     \* the state of each item
          task,     \* what celery tells of each export's task
          pc,       \* where the request for an export, then its task, is
          toCache,  \* tasks queued whose id is not in the cache yet
          taskKey,  \* KEY_EXPORT_ALL: the task last put into the cache
          uriKey,   \* URI_EXPORT_ALL: the export whose file is offered
          message,  \* MSG_EXPORT_ALL: whether it says "Export failed."
          files,    \* the exports whose archive has its FileInstance row, as
                    \* committed; its bytes stay on the disk when the row goes
          data,     \* what a task has written and remembers to resume
          steady,   \* items there from the beginning of an export on
          drop,     \* the calls of delete_exported
          calm,     \* no export, and no two deletions, met another
          changes, kills

exportVars == <<item, task, pc, toCache, taskKey, uriKey, message, files, data, steady,
                drop, calm, changes, kills>>

Live == {i \in Items : item[i] = "live"}

\* Where a type starts again after an error: retry_info.
First == [counter |-> 0, part |-> 1, from |-> 1]

\* done: finish_item_types; type: the one being exported, todo: its items still
\* to be fetched, open: those fetched for the next file, counter and part as in
\* the code; csv: the files written.
Blank == [done |-> {}, type |-> 0, todo |-> {}, open |-> {}, counter |-> 0,
          part |-> 1, resume |-> [t \in Types |-> First], retries |-> 0, csv |-> {}]

Resumes == [counter : Nat, part : Nat, from : Nat]
CsvFiles == [type : Types, part : Nat, items : SUBSET Items]

\* An export deletes the one before it when it starts, and is deleted when its
\* time has passed.
Deleters == {"start", "timer"} \X Exports
NoDrop == [pc |-> "none", of |-> Nothing]

ExportTypeOK ==
    /\ item \in [Items -> {"unborn", "live", "deleted"}]
    /\ task \in [Exports -> {"none", "pending", "running", "success", "revoked", "lost"}]
    /\ pc \in [Exports -> {"none", "asked", "queued", "dropping", "data", "failed",
                           "archive", "stored", "offered", "timed", "ended", "killed"}]
    /\ toCache \subseteq Exports
    /\ taskKey \in Exports \cup {Nothing}
    /\ uriKey \in Exports \cup {Nothing}
    /\ message \in BOOLEAN
    /\ files \subseteq Exports
    /\ \A e \in Exports :
        /\ data[e].done \subseteq Types /\ data[e].type \in Types \cup {0}
        /\ data[e].todo \subseteq Items /\ data[e].open \subseteq Items
        /\ data[e].counter \in Nat /\ data[e].part \in Nat
        /\ data[e].resume \in [Types -> Resumes]
        /\ data[e].retries \in 0 .. Retries /\ data[e].csv \subseteq CsvFiles
    /\ steady \in [Exports -> SUBSET Items]
    /\ drop \in [Deleters -> [pc : {"none", "find", "found", "keyless"},
                              of : Exports \cup {Nothing}]]
    /\ calm \in BOOLEAN
    /\ changes \in 0 .. MaxChanges /\ kills \in 0 .. MaxKills

Init ==
    /\ item = [i \in Items |-> IF i \in AtFirst THEN "live" ELSE "unborn"]
    /\ task = [e \in Exports |-> "none"]
    /\ pc = [e \in Exports |-> "none"]
    /\ toCache = {} /\ taskKey = Nothing /\ uriKey = Nothing /\ message = FALSE
    /\ files = {}
    /\ data = [e \in Exports |-> Blank]
    /\ steady = [e \in Exports |-> {}]
    /\ drop = [k \in Deleters |-> NoDrop]
    /\ calm = TRUE /\ changes = 0 /\ kills = 0

keyVars == <<toCache, taskKey, uriKey, message>>

-----------------------------------------------------------------------------
(* The page.                                                               *)

\* A fault: a task that was revoked is still waited for.
UnderWayRevoked ==
    taskKey # Nothing /\ task[taskKey] \in {"pending", "running", "lost", "revoked"}

\* export_status: the task of the cache is neither successful, nor failed, nor
\* revoked. Of a task whose worker has died nothing is ever told.
UnderWay == taskKey # Nothing /\ task[taskKey] \in {"pending", "running", "lost"}

\* export_all of admin.py: the status, the task, and its id into the cache.
Ask(e) ==
    /\ pc[e] = "none" /\ \A k \in Exports : k < e => pc[k] # "none"
    /\ ~UnderWay
    /\ pc' = [pc EXCEPT ![e] = "asked"]
    /\ UNCHANGED <<item, task, keyVars, files, data, steady, drop, calm, changes, kills>>

Queue(e) ==
    /\ pc[e] = "asked"
    /\ pc' = [pc EXCEPT ![e] = "queued"]
    /\ task' = [task EXCEPT ![e] = "pending"]
    /\ toCache' = toCache \cup {e}
    /\ UNCHANGED <<item, taskKey, uriKey, message, files, data, steady, drop, calm,
                   changes, kills>>

CacheTask(e) ==
    /\ e \in toCache
    /\ toCache' = toCache \ {e} /\ taskKey' = e
    /\ UNCHANGED <<item, task, pc, uriKey, message, files, data, steady, drop, calm,
                   changes, kills>>

Busy(e) == task[e] = "running"

\* The temporary directory goes when export_all is left.
Forget(e) ==
    /\ data' = [data EXCEPT ![e] = Blank]
    /\ steady' = [steady EXCEPT ![e] = {}]

\* The worker of a task is killed: its transaction is rolled back, its temporary
\* directory goes.
Stop(e, told) ==
    /\ kills < MaxKills /\ kills' = kills + 1
    /\ pc' = [pc EXCEPT ![e] = "killed"]
    /\ task' = [task EXCEPT ![e] = told]
    /\ Forget(e)
    /\ drop' = [drop EXCEPT ![<<"start", e>>] = NoDrop]
    /\ calm' = (calm /\ drop[<<"start", e>>].pc # "keyless")
    /\ UNCHANGED <<item, keyVars, files, changes>>

\* cancel_export_all: revoke(terminate=True).
Cancel ==
    /\ taskKey # Nothing /\ task[taskKey] \in {"pending", "running"}
    /\ Stop(taskKey, "revoked")

WorkerDies(e) == Busy(e) /\ Stop(e, "lost")

-----------------------------------------------------------------------------
(* delete_exported.                                                        *)

Dropping(e) == \E k \in Deleters : drop[k].of = e /\ drop[k].pc = "keyless"

\* After the call: an export goes on to its data.
After(k) ==
    /\ drop' = [drop EXCEPT ![k] = NoDrop]
    /\ IF k[1] = "start"
       THEN pc' = [pc EXCEPT ![k[2]] = "data"]
       ELSE UNCHANGED pc

\* A fault: a row that is gone already is no reason to keep the key.
DropFindAnyway(k) ==
    /\ drop[k].pc = "find"
    /\ drop' = [drop EXCEPT ![k].pc = "found"]
    /\ UNCHANGED <<item, task, pc, keyVars, files, data, steady, calm, changes, kills>>

\* FileInstance.get_by_uri; without a row delete() raises, and nothing is done.
DropFind(k) ==
    /\ drop[k].pc = "find"
    /\ IF drop[k].of \in files
       THEN /\ drop' = [drop EXCEPT ![k].pc = "found"]
            /\ calm' = (calm /\ \A j \in Deleters \ {k} :
                            drop[j].of = drop[k].of => drop[j].pc \in {"none", "find"})
            /\ UNCHANGED pc
       ELSE After(k) /\ UNCHANGED calm
    /\ UNCHANGED <<item, task, keyVars, files, data, steady, changes, kills>>

\* A fault: the key is left as it is.
DropRow(k) ==
    /\ drop[k].pc = "found" /\ ~Dropping(drop[k].of)
    /\ drop' = [drop EXCEPT ![k].pc = "keyless"]
    /\ UNCHANGED <<item, task, pc, keyVars, files, data, steady, calm, changes, kills>>

\* The row is deleted, which waits for another transaction that deletes it; then
\* the key, whatever it holds.
DropKey(k) ==
    /\ drop[k].pc = "found" /\ ~Dropping(drop[k].of)
    /\ uriKey' = Nothing
    /\ drop' = [drop EXCEPT ![k].pc = "keyless"]
    /\ UNCHANGED <<item, task, pc, toCache, taskKey, message, files, data, steady, calm,
                   changes, kills>>

\* Of the archive only the row goes: FileInstance.delete removes no file.
DropCommit(k) ==
    /\ drop[k].pc = "keyless"
    /\ files' = files \ {drop[k].of}
    /\ After(k)
    /\ UNCHANGED <<item, task, keyVars, data, steady, calm, changes, kills>>

\* The three minutes have passed; delete_exported_task.
Timer(e) ==
    /\ pc[e] = "timed"
    /\ pc' = [pc EXCEPT ![e] = "ended"]
    /\ drop' = [drop EXCEPT ![<<"timer", e>>] = [pc |-> "find", of |-> e]]
    /\ UNCHANGED <<item, task, keyVars, files, data, steady, calm, changes, kills>>

-----------------------------------------------------------------------------
(* export_all of utils.py.                                                 *)

\* The message is reset, and the row of the archive offered so far is to go.
Begin(e) ==
    /\ pc[e] = "queued" /\ task[e] = "pending"
    /\ task' = [task EXCEPT ![e] = "running"]
    /\ message' = FALSE
    /\ calm' = (calm /\ ~ \E k \in Exports : Busy(k))
    /\ steady' = [steady EXCEPT ![e] = Live]
    /\ IF uriKey = Nothing
       THEN pc' = [pc EXCEPT ![e] = "data"] /\ UNCHANGED drop
       ELSE /\ pc' = [pc EXCEPT ![e] = "dropping"]
            /\ drop' = [drop EXCEPT ![<<"start", e>>] = [pc |-> "find", of |-> uriKey]]
    /\ UNCHANGED <<item, toCache, taskKey, uriKey, files, data, changes, kills>>

LeastOf(S) == CHOOSE i \in S : \A j \in S : i <= j

\* What is written is written over a file of the same name.
Written(d, name) ==
    {f \in d.csv : <<f.type, f.part>> # <<d.type, name>>} \cup
        {[type |-> d.type, part |-> name, items |-> d.open]}

Step(e, d) ==
    /\ data' = [data EXCEPT ![e] = d]
    /\ UNCHANGED <<item, task, keyVars, files, steady, drop, calm, changes, kills>>

\* The items of the next type, from where it resumes.
Query(e) ==
    /\ pc[e] = "data" /\ data[e].type = 0
    /\ data[e].done # Types
    /\ LET t == LeastOf(Types \ data[e].done)
           r == data[e].resume[t]
           recids == {i \in Live : TypeOf[i] = t /\ i >= r.from}
       IN IF recids = {} THEN Step(e, [data[e] EXCEPT !.done = @ \cup {t}])
          ELSE Step(e, [data[e] EXCEPT !.type = t, !.todo = recids, !.open = {},
                            !.counter = r.counter, !.part = r.part])
    /\ UNCHANGED pc

Full(d) == d.counter % Limit = 0 /\ d.open # {}

AddItem(e) ==
    /\ pc[e] = "data" /\ data[e].todo # {} /\ ~Full(data[e])
    /\ LET i == LeastOf(data[e].todo)
       IN Step(e, [data[e] EXCEPT !.todo = @ \ {i}, !.open = @ \cup {i}, !.counter = @ + 1])
    /\ UNCHANGED pc

\* A fault: the type resumes at the last item of the file.
WritePartResumeEarly(e) ==
    /\ pc[e] = "data" /\ data[e].todo # {} /\ Full(data[e])
    /\ LET d == data[e]
           last == CHOOSE i \in d.open : \A j \in d.open : j <= i
           r == [counter |-> d.counter, part |-> d.part + 1, from |-> last]
       IN Step(e, [d EXCEPT !.csv = Written(d, d.part), !.open = {}, !.part = d.part + 1,
                       !.resume[d.type] = r])
    /\ UNCHANGED pc

\* A file is full: the type resumes after it.
WritePart(e) ==
    /\ pc[e] = "data" /\ data[e].todo # {} /\ Full(data[e])
    /\ LET d == data[e]
           r == [counter |-> d.counter, part |-> d.part + 1, from |-> LeastOf(d.todo)]
       IN Step(e, [d EXCEPT !.csv = Written(d, d.part), !.open = {}, !.part = d.part + 1,
                       !.resume[d.type] = r])
    /\ UNCHANGED pc

\* The last file of a type has no number if it is the only one.
WriteLast(e) ==
    /\ pc[e] = "data" /\ data[e].type # 0 /\ data[e].todo = {}
    /\ LET d == data[e]
           name == IF d.part # 1 THEN d.part ELSE 0
       IN Step(e, [d EXCEPT !.csv = Written(d, name), !.open = {}, !.type = 0,
                       !.done = @ \cup {d.type}])
    /\ UNCHANGED pc

\* A fault: one attempt too many.
RetryOnceMore(e) ==
    /\ pc[e] = "data" /\ data[e].retries <= Retries
    /\ Step(e, [data[e] EXCEPT !.retries = @ + 1, !.type = 0, !.todo = {}, !.open = {}])
    /\ UNCHANGED pc

\* An SQLAlchemyError while items are fetched or a file is written.
Retry(e) ==
    /\ pc[e] = "data" /\ data[e].retries < Retries
    /\ Step(e, [data[e] EXCEPT !.retries = @ + 1, !.type = 0, !.todo = {}, !.open = {}])
    /\ UNCHANGED pc

\* One error too many, or any other exception.
GiveUp(e) ==
    /\ pc[e] \in {"data", "archive"}
    /\ pc' = [pc EXCEPT ![e] = "failed"]
    /\ message' = TRUE
    /\ Forget(e)
    /\ UNCHANGED <<item, task, toCache, taskKey, uriKey, files, drop, calm,
                   changes, kills>>

Archive(e) ==
    /\ pc[e] = "data" /\ data[e].type = 0 /\ data[e].done = Types
    /\ pc' = [pc EXCEPT ![e] = "archive"]
    /\ UNCHANGED <<item, task, keyVars, files, data, steady, drop, calm, changes, kills>>

\* The archive is stored and committed.
Store(e) ==
    /\ pc[e] = "archive"
    /\ pc' = [pc EXCEPT ![e] = "stored"]
    /\ files' = files \cup {e}
    /\ Forget(e)
    /\ UNCHANGED <<item, task, keyVars, drop, calm, changes, kills>>

\* export_all_task puts the uri into the cache, then asks for its deletion.
Offer(e) ==
    /\ pc[e] = "stored"
    /\ uriKey' = e
    /\ pc' = [pc EXCEPT ![e] = "offered"]
    /\ UNCHANGED <<item, task, toCache, taskKey, message, files, data, steady, drop,
                   calm, changes, kills>>


Succeed(e) ==
    /\ pc[e] = "offered"
    /\ pc' = [pc EXCEPT ![e] = "timed"]
    /\ task' = [task EXCEPT ![e] = "success"]
    /\ UNCHANGED <<item, keyVars, files, data, steady, drop, calm, changes, kills>>

\* Without a file the uri is "", and what deletes it later finds nothing.
OfferNothing(e) ==
    /\ pc[e] = "failed"
    /\ uriKey' = Nothing
    /\ pc' = [pc EXCEPT ![e] = "ended"]
    /\ task' = [task EXCEPT ![e] = "success"]
    /\ UNCHANGED <<item, toCache, taskKey, message, files, data, steady, drop, calm,
                   changes, kills>>

-----------------------------------------------------------------------------
Register(i) ==
    /\ item[i] = "unborn" /\ changes < MaxChanges
    /\ item' = [item EXCEPT ![i] = "live"] /\ changes' = changes + 1
    /\ UNCHANGED <<task, pc, keyVars, files, data, steady, drop, calm, kills>>

Delete(i) ==
    /\ item[i] = "live" /\ changes < MaxChanges
    /\ item' = [item EXCEPT ![i] = "deleted"] /\ changes' = changes + 1
    /\ steady' = [e \in Exports |-> steady[e] \ {i}]
    /\ UNCHANGED <<task, pc, keyVars, files, data, drop, calm, kills>>

TaskStep(e) ==
    \/ Begin(e) \/ Query(e) \/ AddItem(e) \/ WritePart(e) \/ WriteLast(e)
    \/ Archive(e) \/ Store(e) \/ Offer(e) \/ Succeed(e) \/ OfferNothing(e)
DropStep(k) == DropFind(k) \/ DropKey(k) \/ DropCommit(k)

Next ==
    \/ \E e \in Exports :
        \/ Ask(e) \/ Queue(e) \/ CacheTask(e) \/ WorkerDies(e) \/ Timer(e)
        \/ TaskStep(e) \/ Retry(e) \/ GiveUp(e)
    \/ \E k \in Deleters : DropStep(k)
    \/ Cancel
    \/ \E i \in Items : Register(i) \/ Delete(i)

\* The handlers and the workers go on, and three minutes pass. Nobody has to ask
\* for an export or to cancel one; errors and deaths need not happen.
Fairness ==
    /\ WF_exportVars(\E e \in Exports : Queue(e) \/ CacheTask(e) \/ Timer(e))
    /\ WF_exportVars((\E e \in Exports : TaskStep(e)) \/ \E k \in Deleters : DropStep(k))

Spec == Init /\ [][Next]_exportVars
FairSpec == Spec /\ Fairness

-----------------------------------------------------------------------------
(* What an export promises.                                                *)

\* An archive holds every item that was there all the time, and no item twice,
\* however often the export was resumed and whatever was registered or deleted
\* meanwhile; each file holds items of one type, and no more than fit.
Complete ==
    \A e \in Exports : pc[e] = "archive" =>
        /\ \A i \in steady[e] : \E f \in data[e].csv : i \in f.items
        /\ \A f \in data[e].csv :
            /\ Cardinality(f.items) <= Limit
            /\ \A i \in f.items : TypeOf[i] = f.type
            /\ \A g \in data[e].csv : f # g => f.items \cap g.items = {}

\* The archive that is offered has its row, by which a download finds it, whatever
\* is deleted, cancelled or dies.
DownloadExists == uriKey # Nothing => uriKey \in files

\* A row is not left behind, nor an archive taken from the page before its time:
\* as long as no two exports and no two deletions met, and none was killed
\* half-way through a deletion, an archive that was offered is offered until its
\* row is deleted.
OnlyOffered ==
    calm => \A e \in files :
        pc[e] \in {"offered", "timed", "ended"} => uriKey = e \/ Dropping(e)

\* The page's button for a new export comes back, unless a worker dies.
ExportEnds == UnderWay ~> ~UnderWay \/ \E e \in Exports : task[e] = "lost"

=============================================================================
