--------------------------- MODULE BulkExportProofs ---------------------------
(***************************************************************************)
(* Theorems about BulkExport: any exports, items, types, limit, retries,   *)
(* changes and kills.                                                      *)
(***************************************************************************)
EXTENDS BulkExport, FiniteSetTheorems, WellFoundedInduction, TLAPS

LEMMA LeastNat ==
    ASSUME NEW S \in SUBSET Nat, S # {}
    PROVE  LeastOf(S) \in S /\ \A j \in S : LeastOf(S) <= j
<1>1. PICK x \in S : \A y \in S : ~(<<y, x>> \in OpToRel(<, Nat))
  BY NatLessThanWellFounded, WFMin, Zenon
<1>2. ASSUME NEW y \in S, y < x PROVE FALSE
  <2>1. <<y, x>> \in Nat \X Nat /\ <<y, x>>[1] < <<y, x>>[2]
    BY <1>2
  <2>2. <<y, x>> \in OpToRel(<, Nat)
    BY <2>1 DEF OpToRel
  <2> QED
    BY <1>1, <2>2, Zenon
<1>3. \A y \in S : x <= y
  BY <1>2
<1> QED
  BY <1>3 DEF LeastOf

-----------------------------------------------------------------------------
(* Types.                                                                  *)

\* The values of data: ExportTypeOK names the fields.
Progress ==
    [done : SUBSET Types, type : Types \cup {0}, todo : SUBSET Items, open : SUBSET Items,
     counter : Nat, part : Nat, resume : [Types -> Resumes], retries : 0 .. Retries,
     csv : SUBSET CsvFiles]

Drops == [pc : {"none", "find", "found", "keyless"}, of : Exports \cup {Nothing}]

Pcs == {"none", "asked", "queued", "dropping", "data", "failed",
        "archive", "stored", "offered", "timed", "ended", "killed"}

\* Everything but the data.
RestTyped ==
    /\ item \in [Items -> {"unborn", "live", "deleted"}]
    /\ task \in [Exports -> {"none", "pending", "running", "success", "revoked", "lost"}]
    /\ pc \in [Exports -> Pcs]
    /\ toCache \subseteq Exports
    /\ taskKey \in Exports \cup {Nothing}
    /\ uriKey \in Exports \cup {Nothing}
    /\ message \in BOOLEAN
    /\ files \subseteq Exports
    /\ steady \in [Exports -> SUBSET Items]
    /\ drop \in [Deleters -> Drops]
    /\ calm \in BOOLEAN
    /\ changes \in 0 .. MaxChanges /\ kills \in 0 .. MaxKills

Typed ==
    /\ RestTyped
    /\ data \in [Exports -> Progress]
    /\ \A e \in Exports : data[e].type = 0 => data[e].todo = {}

LEMMA BlankTyped == Blank \in Progress
BY ExportAssumption DEF Blank, Progress, First, Resumes

LEMMA NoDropTyped == NoDrop \in Drops
BY DEF NoDrop, Drops

LEMMA WrittenTyped ==
    ASSUME NEW d \in Progress, d.type # 0, NEW name \in Nat
    PROVE  Written(d, name) \in SUBSET CsvFiles
BY DEF Written, Progress, CsvFiles

LEMMA TypedIs == Typed => ExportTypeOK
<1>1. data \in [Exports -> Progress] =>
        \A e \in Exports :
             /\ data[e].done \subseteq Types /\ data[e].type \in Types \cup {0}
             /\ data[e].todo \subseteq Items /\ data[e].open \subseteq Items
             /\ data[e].counter \in Nat /\ data[e].part \in Nat
             /\ data[e].resume \in [Types -> Resumes]
             /\ data[e].retries \in 0 .. Retries /\ data[e].csv \subseteq CsvFiles
  BY DEF Progress
<1> QED
  BY <1>1 DEF Typed, RestTyped, ExportTypeOK, Pcs, Drops

LEMMA DataTyped ==
    ASSUME Typed, data' \in [Exports -> Progress],
           \A e \in Exports : data'[e].type = 0 => data'[e].todo = {},
           UNCHANGED <<item, task, pc, toCache, taskKey, uriKey, message, files, steady, drop,
                       calm, changes, kills>>
    PROVE  Typed'
BY DEF Typed, RestTyped

\* The steps of a task that gather data, as functions of what it remembers.
NextType(d) == LeastOf(Types \ d.done)
Found(d, live) ==
    {i \in live : TypeOf[i] = NextType(d) /\ i >= d.resume[NextType(d)].from}

TypeEmpty(d) == [d EXCEPT !.done = @ \cup {NextType(d)}]
TypeBegun(d, live) ==
    [d EXCEPT !.type = NextType(d), !.todo = Found(d, live), !.open = {},
         !.counter = d.resume[NextType(d)].counter, !.part = d.resume[NextType(d)].part]
Added(d) ==
    [d EXCEPT !.todo = @ \ {LeastOf(d.todo)}, !.open = @ \cup {LeastOf(d.todo)},
         !.counter = @ + 1]
PartWritten(d) ==
    [d EXCEPT !.csv = Written(d, d.part), !.open = {}, !.part = d.part + 1,
         !.resume[d.type] = [counter |-> d.counter, part |-> d.part + 1,
                             from |-> LeastOf(d.todo)]]
LastName(d) == IF d.part # 1 THEN d.part ELSE 0
LastWritten(d) ==
    [d EXCEPT !.csv = Written(d, LastName(d)), !.open = {}, !.type = 0,
         !.done = @ \cup {d.type}]
Retried(d) == [d EXCEPT !.retries = @ + 1, !.type = 0, !.todo = {}, !.open = {}]

LEMMA StepsAre ==
    ASSUME NEW e \in Exports
    PROVE  LET d == data[e]
           IN /\ Query(e) => /\ d.type = 0 /\ d.done # Types
                             /\ IF Found(d, Live) = {} THEN Step(e, TypeEmpty(d))
                                ELSE Step(e, TypeBegun(d, Live))
              /\ AddItem(e) => d.todo # {} /\ ~Full(d) /\ Step(e, Added(d))
              /\ WritePart(e) => d.todo # {} /\ Full(d) /\ Step(e, PartWritten(d))
              /\ WriteLast(e) => d.todo = {} /\ d.type # 0 /\ Step(e, LastWritten(d))
              /\ Retry(e) => d.retries < Retries /\ Step(e, Retried(d))
<1>1. Query(e) => /\ data[e].type = 0 /\ data[e].done # Types
                  /\ IF Found(data[e], Live) = {} THEN Step(e, TypeEmpty(data[e]))
                     ELSE Step(e, TypeBegun(data[e], Live))
  BY DEF Query, Found, NextType, TypeEmpty, TypeBegun
<1>2. AddItem(e) => data[e].todo # {} /\ ~Full(data[e]) /\ Step(e, Added(data[e]))
  BY DEF AddItem, Added
<1>3. WritePart(e) => data[e].todo # {} /\ Full(data[e]) /\ Step(e, PartWritten(data[e]))
  BY DEF WritePart, PartWritten
<1>4. WriteLast(e) =>
        data[e].todo = {} /\ data[e].type # 0 /\ Step(e, LastWritten(data[e]))
  BY DEF WriteLast, LastWritten, LastName
<1>5. Retry(e) => data[e].retries < Retries /\ Step(e, Retried(data[e]))
  BY DEF Retry, Retried
<1> QED
  BY <1>1, <1>2, <1>3, <1>4, <1>5

LEMMA NextTypeIs ==
    ASSUME NEW d \in Progress, d.done # Types
    PROVE  NextType(d) \in Types \ d.done
<1>1. Types \ d.done \in SUBSET Nat /\ Types \ d.done # {}
  BY ExportAssumption DEF Progress
<1> QED
  BY <1>1, LeastNat DEF NextType

LEMMA NextItemIs ==
    ASSUME NEW d \in Progress, d.todo # {}
    PROVE  LeastOf(d.todo) \in d.todo /\ \A j \in d.todo : LeastOf(d.todo) <= j
<1>1. d.todo \in SUBSET Nat
  BY ExportAssumption DEF Progress
<1> QED
  BY <1>1, LeastNat

LEMMA QueriedTyped ==
    ASSUME NEW d \in Progress, d.done # Types, NEW live \in SUBSET Items
    PROVE  TypeEmpty(d) \in Progress /\ TypeBegun(d, live) \in Progress
<1>1. NextType(d) \in Types
  BY NextTypeIs
<1>2. d.resume[NextType(d)] \in Resumes /\ Found(d, live) \subseteq Items
  BY <1>1 DEF Progress, Found
<1>3. TypeEmpty(d) \in Progress
  BY <1>1 DEF Progress, TypeEmpty
<1>4. TypeBegun(d, live) \in Progress
  BY <1>1, <1>2 DEF Progress, TypeBegun, Resumes
<1> QED
  BY <1>3, <1>4

LEMMA AddedTyped ==
    ASSUME NEW d \in Progress, d.todo # {}
    PROVE  Added(d) \in Progress
<1>1. LeastOf(d.todo) \in Items
  BY NextItemIs DEF Progress
<1>2. d.todo \ {LeastOf(d.todo)} \in SUBSET Items /\ d.open \cup {LeastOf(d.todo)} \in SUBSET Items
  BY <1>1 DEF Progress
<1>3. d.counter + 1 \in Nat
  BY DEF Progress
<1> QED
  BY <1>2, <1>3 DEF Progress, Added

LEMMA PartTyped ==
    ASSUME NEW d \in Progress, d.todo # {}, d.type # 0
    PROVE  PartWritten(d) \in Progress
<1> DEFINE r == [counter |-> d.counter, part |-> d.part + 1, from |-> LeastOf(d.todo)]
<1>1. LeastOf(d.todo) \in Nat
  BY NextItemIs, ExportAssumption DEF Progress
<1>2. r \in Resumes /\ d.type \in Types /\ d.part + 1 \in Nat
  BY <1>1 DEF Resumes, Progress
<1>3. [d.resume EXCEPT ![d.type] = r] \in [Types -> Resumes]
  BY <1>2 DEF Progress
<1>4. Written(d, d.part) \in SUBSET CsvFiles
  BY WrittenTyped DEF Progress
<1> HIDE DEF r
<1>5. [d EXCEPT !.csv = Written(d, d.part), !.open = {}, !.part = d.part + 1,
                !.resume[d.type] = r] \in Progress
  BY <1>2, <1>3, <1>4 DEF Progress
<1> QED
  BY <1>5 DEF PartWritten, r

LEMMA LastTyped ==
    ASSUME NEW d \in Progress, d.type # 0
    PROVE  LastWritten(d) \in Progress
<1> DEFINE c == Written(d, LastName(d))
<1>1. c \in SUBSET CsvFiles
  BY WrittenTyped DEF Progress, LastName
<1>2. d.done \cup {d.type} \in SUBSET Types
  BY DEF Progress
<1> HIDE DEF c
<1>3. [d EXCEPT !.csv = c, !.open = {}, !.type = 0, !.done = @ \cup {d.type}] \in Progress
  BY <1>1, <1>2 DEF Progress
<1> QED
  BY <1>3, Zenon DEF LastWritten, c

LEMMA RetriedTyped ==
    ASSUME NEW d \in Progress, d.retries < Retries
    PROVE  Retried(d) \in Progress
<1>1. d.retries + 1 \in 0 .. Retries
  BY ExportAssumption DEF Progress
<1> QED
  BY <1>1 DEF Progress, Retried

\* What gathers data leaves everything else alone.
LEMMA GatherTyped ==
    ASSUME Typed, NEW e \in Exports,
           Query(e) \/ AddItem(e) \/ WritePart(e) \/ WriteLast(e) \/ Retry(e)
    PROVE  Typed'
<1>1. data[e] \in Progress /\ Live \in SUBSET Items /\ data \in [Exports -> Progress]
  BY DEF Typed, Live
<1>2. PICK d \in Progress : Step(e, d) /\ UNCHANGED pc /\ (d.type = 0 => d.todo = {})
  <2>1. UNCHANGED pc
    BY DEF Query, AddItem, WritePart, WriteLast, Retry
  <2>2. CASE Query(e)
    <3>1. TypeEmpty(data[e]).type = data[e].type /\ TypeEmpty(data[e]).todo = data[e].todo
      BY <1>1 DEF TypeEmpty, Progress
    <3>2. TypeBegun(data[e], Live).type # 0
      <4>1. data[e].done # Types
        BY <2>2, StepsAre
      <4>2. NextType(data[e]) # 0
        BY <1>1, <4>1, NextTypeIs, ExportAssumption
      <4>3. TypeBegun(data[e], Live).type = NextType(data[e])
        BY <1>1 DEF TypeBegun, Progress
      <4> QED
        BY <4>2, <4>3
    <3> QED
      BY <1>1, <2>1, <2>2, <3>1, <3>2, StepsAre, QueriedTyped DEF Typed
  <2>3. CASE AddItem(e)
    <3>1. Added(data[e]).type = data[e].type
      BY <1>1 DEF Added, Progress
    <3>2. data[e].todo # {}
      BY <2>3, StepsAre
    <3> QED
      BY <1>1, <2>1, <2>3, <3>1, <3>2, StepsAre, AddedTyped DEF Typed
  <2>4. CASE WritePart(e)
    <3>1. data[e].todo # {} /\ data[e].type # 0
      BY <2>4, StepsAre DEF Typed
    <3>2. PartWritten(data[e]).type = data[e].type
      BY <1>1 DEF PartWritten, Progress
    <3> QED
      BY <1>1, <2>1, <2>4, <3>1, <3>2, StepsAre, PartTyped
  <2>5. CASE WriteLast(e)
    <3>1. LastWritten(data[e]).todo = data[e].todo
      BY <1>1 DEF LastWritten, Progress
    <3> QED
      BY <1>1, <2>1, <2>5, <3>1, StepsAre, LastTyped
  <2>6. CASE Retry(e)
    <3>1. Retried(data[e]).todo = {}
      BY <1>1 DEF Retried, Progress
    <3> QED
      BY <1>1, <2>1, <2>6, <3>1, StepsAre, RetriedTyped
  <2> QED
    BY <2>2, <2>3, <2>4, <2>5, <2>6
<1>3. /\ data' \in [Exports -> Progress]
      /\ \A k \in Exports : data'[k].type = 0 => data'[k].todo = {}
  BY <1>1, <1>2 DEF Step, Typed
<1>4. UNCHANGED <<item, task, pc, toCache, taskKey, uriKey, message, files, steady, drop, calm,
                  changes, kills>>
  BY <1>2 DEF Step, keyVars
<1> QED
  BY <1>3, <1>4, DataTyped

LEMMA ForgetTyped ==
    ASSUME Typed, NEW e \in Exports, Forget(e)
    PROVE  /\ data' \in [Exports -> Progress]
           /\ \A k \in Exports : data'[k].type = 0 => data'[k].todo = {}
           /\ steady' \in [Exports -> SUBSET Items]
<1>1. Blank.todo = {}
  BY DEF Blank
<1> QED
  BY <1>1, BlankTyped DEF Forget, Typed, RestTyped

LEMMA KeyIs == \A e \in Exports : <<"start", e>> \in Deleters /\ <<"timer", e>> \in Deleters
BY DEF Deleters

LEMMA PageTyped ==
    ASSUME Typed, NEW e \in Exports, Ask(e) \/ Queue(e) \/ CacheTask(e)
    PROVE  Typed'
<1>1. CASE Ask(e)
  BY <1>1 DEF Ask, keyVars, Typed, RestTyped, Pcs
<1>2. CASE Queue(e)
  BY <1>2 DEF Queue, Typed, RestTyped, Pcs
<1>3. CASE CacheTask(e)
  BY <1>3 DEF CacheTask, Typed, RestTyped
<1> QED
  BY <1>1, <1>2, <1>3

LEMMA StopTyped ==
    ASSUME Typed, NEW e \in Exports, NEW told \in {"revoked", "lost"}, Stop(e, told)
    PROVE  Typed'
<1>1. /\ data' \in [Exports -> Progress] /\ steady' \in [Exports -> SUBSET Items]
      /\ \A k \in Exports : data'[k].type = 0 => data'[k].todo = {}
  BY ForgetTyped DEF Stop
<1>2. drop' \in [Deleters -> Drops] /\ calm' \in BOOLEAN
  BY NoDropTyped DEF Stop, Typed, RestTyped
<1>3. kills' \in 0 .. MaxKills
  BY ExportAssumption DEF Stop, Typed, RestTyped
<1>4. /\ pc' \in [Exports -> Pcs]
      /\ task' \in [Exports -> {"none", "pending", "running", "success", "revoked", "lost"}]
  BY DEF Stop, Typed, RestTyped, Pcs
<1> QED
  BY <1>1, <1>2, <1>3, <1>4 DEF Stop, keyVars, Typed, RestTyped

LEMMA KilledTyped ==
    ASSUME Typed, Cancel \/ \E e \in Exports : WorkerDies(e)
    PROVE  Typed'
<1>1. CASE Cancel
  <2>1. taskKey \in Exports
    BY <1>1 DEF Cancel, Typed, RestTyped
  <2>2. \A e \in Exports : Stop(e, "revoked") => Typed'
    BY StopTyped
  <2> QED
    BY <1>1, <2>1, <2>2 DEF Cancel
<1>2. CASE \E e \in Exports : WorkerDies(e)
  BY <1>2, StopTyped DEF WorkerDies
<1> QED
  BY <1>1, <1>2

LEMMA DropTyped ==
    ASSUME Typed, NEW k \in Deleters, DropStep(k)
    PROVE  Typed'
<1>1. k[2] \in Exports /\ drop[k] \in Drops
  BY DEF Typed, RestTyped, Deleters
<1>2. After(k) => pc' \in [Exports -> Pcs] /\ drop' \in [Deleters -> Drops]
  BY <1>1, NoDropTyped DEF After, Typed, RestTyped, Pcs
<1>3. \A to \in {"found", "keyless"} :
         drop' = [drop EXCEPT ![k].pc = to] => drop' \in [Deleters -> Drops]
  <2> SUFFICES ASSUME NEW to \in {"found", "keyless"}, drop' = [drop EXCEPT ![k].pc = to]
               PROVE  drop' \in [Deleters -> Drops]
    OBVIOUS
  <2>1. [drop[k] EXCEPT !.pc = to] \in Drops
    BY <1>1 DEF Drops
  <2>2. drop' = [drop EXCEPT ![k] = [drop[k] EXCEPT !.pc = to]]
    OBVIOUS
  <2> QED
    BY <2>1, <2>2 DEF Typed, RestTyped
<1>4. CASE DropFind(k)
  <2>1. calm' \in BOOLEAN
    BY <1>4 DEF DropFind, Typed, RestTyped
  <2>2. pc' \in [Exports -> Pcs] /\ drop' \in [Deleters -> Drops]
    BY <1>2, <1>3, <1>4 DEF DropFind, Typed, RestTyped
  <2> QED
    BY <1>4, <2>1, <2>2 DEF DropFind, keyVars, Typed, RestTyped
<1>5. CASE DropKey(k)
  <2>1. drop' \in [Deleters -> Drops]
    BY <1>3, <1>5 DEF DropKey
  <2> QED
    BY <1>5, <2>1 DEF DropKey, Typed, RestTyped
<1>6. CASE DropCommit(k)
  <2>1. files' \subseteq Exports
    BY <1>6 DEF DropCommit, Typed, RestTyped
  <2> QED
    BY <1>2, <1>6, <2>1 DEF DropCommit, keyVars, Typed, RestTyped
<1> QED
  BY <1>4, <1>5, <1>6 DEF DropStep

LEMMA BeginTyped ==
    ASSUME Typed, NEW e \in Exports, Begin(e)
    PROVE  Typed'
<1>1. /\ pc' \in [Exports -> Pcs] /\ calm' \in BOOLEAN /\ message' \in BOOLEAN
      /\ task' \in [Exports -> {"none", "pending", "running", "success", "revoked", "lost"}]
  BY DEF Begin, Typed, RestTyped, Pcs
<1>2. steady' \in [Exports -> SUBSET Items]
  BY DEF Begin, Live, Typed, RestTyped
<1>3. drop' \in [Deleters -> Drops]
  <2>1. [pc |-> "find", of |-> uriKey] \in Drops
    BY DEF Typed, RestTyped, Drops
  <2> QED
    BY <2>1, KeyIs DEF Begin, Typed, RestTyped
<1> QED
  BY <1>1, <1>2, <1>3 DEF Begin, Typed, RestTyped

LEMMA EndTyped ==
    ASSUME Typed, NEW e \in Exports,
           Timer(e) \/ GiveUp(e) \/ Archive(e) \/ Store(e) \/ Offer(e) \/ Succeed(e) \/ OfferNothing(e)
    PROVE  Typed'
<1>1. CASE Timer(e)
  <2>1. [pc |-> "find", of |-> e] \in Drops
    BY DEF Drops
  <2>2. drop' \in [Deleters -> Drops]
    BY <1>1, <2>1, KeyIs DEF Timer, Typed, RestTyped
  <2> QED
    BY <1>1, <2>2 DEF Timer, keyVars, Typed, RestTyped, Pcs
<1>2. CASE GiveUp(e)
  <2>1. /\ data' \in [Exports -> Progress] /\ steady' \in [Exports -> SUBSET Items]
        /\ \A k \in Exports : data'[k].type = 0 => data'[k].todo = {}
    BY <1>2, ForgetTyped DEF GiveUp
  <2>2. pc' \in [Exports -> Pcs] /\ message' \in BOOLEAN
    BY <1>2 DEF GiveUp, Typed, RestTyped, Pcs
  <2> QED
    BY <1>2, <2>1, <2>2 DEF GiveUp, Typed, RestTyped
<1>3. CASE Archive(e)
  BY <1>3 DEF Archive, keyVars, Typed, RestTyped, Pcs
<1>4. CASE Store(e)
  <2>1. /\ data' \in [Exports -> Progress] /\ steady' \in [Exports -> SUBSET Items]
        /\ \A k \in Exports : data'[k].type = 0 => data'[k].todo = {}
    BY <1>4, ForgetTyped DEF Store
  <2>2. pc' \in [Exports -> Pcs] /\ files' \subseteq Exports
    BY <1>4 DEF Store, Typed, RestTyped, Pcs
  <2> QED
    BY <1>4, <2>1, <2>2 DEF Store, keyVars, Typed, RestTyped
<1>5. CASE Offer(e)
  BY <1>5 DEF Offer, Typed, RestTyped, Pcs
<1>6. CASE Succeed(e)
  BY <1>6 DEF Succeed, keyVars, Typed, RestTyped, Pcs
<1>7. CASE OfferNothing(e)
  BY <1>7 DEF OfferNothing, Typed, RestTyped, Pcs
<1> QED
  BY <1>1, <1>2, <1>3, <1>4, <1>5, <1>6, <1>7

LEMMA ItemTyped ==
    ASSUME Typed, NEW i \in Items, Register(i) \/ Delete(i)
    PROVE  Typed'
<1>1. changes' \in 0 .. MaxChanges
  BY ExportAssumption DEF Register, Delete, Typed, RestTyped
<1>2. steady' \in [Exports -> SUBSET Items] /\ item' \in [Items -> {"unborn", "live", "deleted"}]
  BY DEF Register, Delete, Typed, RestTyped
<1> QED
  BY <1>1, <1>2 DEF Register, Delete, keyVars, Typed, RestTyped

LEMMA StepTyped == Typed /\ [Next]_exportVars => Typed'
<1> SUFFICES ASSUME Typed, [Next]_exportVars PROVE Typed'
  OBVIOUS
<1>1. CASE UNCHANGED exportVars
  BY <1>1 DEF exportVars, Typed, RestTyped
<1>2. CASE Next
  BY <1>2, PageTyped, KilledTyped, DropTyped, BeginTyped, EndTyped, ItemTyped, GatherTyped
     DEF Next, TaskStep
<1> QED
  BY <1>1, <1>2

LEMMA InitTyped == Init => Typed
<1> SUFFICES ASSUME Init PROVE Typed
  OBVIOUS
<1>1. /\ data \in [Exports -> Progress]
      /\ \A e \in Exports : data[e].type = 0 => data[e].todo = {}
  BY BlankTyped DEF Init, Blank
<1>2. drop \in [Deleters -> Drops]
  BY NoDropTyped DEF Init
<1>3. changes \in 0 .. MaxChanges /\ kills \in 0 .. MaxKills
  BY ExportAssumption DEF Init
<1>4. /\ item \in [Items -> {"unborn", "live", "deleted"}]
      /\ task \in [Exports -> {"none", "pending", "running", "success", "revoked", "lost"}]
      /\ pc \in [Exports -> Pcs] /\ steady \in [Exports -> SUBSET Items]
  BY DEF Init, Pcs
<1>5. /\ toCache \subseteq Exports /\ taskKey \in Exports \cup {Nothing}
      /\ uriKey \in Exports \cup {Nothing} /\ message \in BOOLEAN
      /\ files \subseteq Exports /\ calm \in BOOLEAN
  BY DEF Init
<1> QED
  BY <1>1, <1>2, <1>3, <1>4, <1>5 DEF Typed, RestTyped

\* Every task, file and call of an export holds the values the code gives it, for
\* any exports, items, limit and retries.
THEOREM TypeCorrect == Spec => []ExportTypeOK
BY InitTyped, StepTyped, TypedIs, PTL DEF Spec

-----------------------------------------------------------------------------
(* What is offered is there.                                               *)

\* An export whose uri has been in the cache.
WasOffered == {"offered", "timed", "ended", "killed"}

\* The file in the cache has been offered and is there.
KeyHasFile == uriKey # Nothing => uriKey \in files /\ pc[uriKey] \in WasOffered

\* What is to be deleted has been offered, and once its key has gone is not
\* offered again; an export waits for the deletion it has begun with.
DropsOffered ==
    \A k \in Deleters : drop[k].pc # "none" =>
        /\ drop[k].of \in Exports /\ pc[drop[k].of] \in WasOffered
        /\ drop[k].pc = "keyless" => uriKey # drop[k].of
        /\ k[1] = "start" => pc[k[2]] = "dropping"

StoredIsThere == \A e \in Exports : pc[e] = "stored" => e \in files

Offered == Typed /\ KeyHasFile /\ DropsOffered /\ StoredIsThere

\* A step of an export that has not been offered, and does not wait for a
\* deletion.
LEMMA OwnStep ==
    ASSUME Offered, NEW e \in Exports, NEW to, pc' = [pc EXCEPT ![e] = to],
           UNCHANGED <<uriKey, drop>>, files \subseteq files',
           pc[e] \in WasOffered => to \in WasOffered,
           pc[e] # "dropping",
           to = "stored" => e \in files'
    PROVE  KeyHasFile' /\ DropsOffered' /\ StoredIsThere'
<1>0. pc \in [Exports -> Pcs] /\ uriKey \in Exports \cup {Nothing}
  BY DEF Offered, Typed, RestTyped
<1>1. \A k \in Exports : pc[k] \in WasOffered => pc'[k] \in WasOffered
  BY <1>0
<1>2. KeyHasFile'
  BY <1>0, <1>1 DEF Offered, KeyHasFile
<1>3. DropsOffered'
  <2>1. \A k \in Deleters : k[2] \in Exports
    BY DEF Deleters
  <2>2. \A k \in Exports : pc[k] = "dropping" => pc'[k] = "dropping"
    BY <1>0
  <2> QED
    BY <1>1, <2>1, <2>2 DEF Offered, DropsOffered
<1>4. StoredIsThere'
  BY <1>0 DEF Offered, StoredIsThere
<1> QED
  BY <1>2, <1>3, <1>4

LEMMA PageOffered ==
    ASSUME Offered, NEW e \in Exports, Ask(e) \/ Queue(e) \/ CacheTask(e)
    PROVE  Offered'
<1>0. Typed'
  BY PageTyped DEF Offered
<1>1. CASE Ask(e)
  <2>1. pc[e] \notin WasOffered /\ pc[e] # "dropping"
    BY <1>1 DEF Ask, WasOffered
  <2> QED
    BY <1>0, <1>1, <2>1, OwnStep DEF Ask, keyVars, Offered
<1>2. CASE Queue(e)
  <2>1. pc[e] \notin WasOffered /\ pc[e] # "dropping"
    BY <1>2 DEF Queue, WasOffered
  <2> QED
    BY <1>0, <1>2, <2>1, OwnStep DEF Queue, Offered
<1>3. CASE CacheTask(e)
  BY <1>0, <1>3 DEF CacheTask, Offered, KeyHasFile, DropsOffered, StoredIsThere
<1> QED
  BY <1>1, <1>2, <1>3

LEMMA StopOffered ==
    ASSUME Offered, NEW e \in Exports, NEW told \in {"revoked", "lost"}, Stop(e, told)
    PROVE  Offered'
<1>0. Typed' /\ Typed
  BY StopTyped DEF Offered
<1>1. /\ pc' = [pc EXCEPT ![e] = "killed"] /\ UNCHANGED <<uriKey, files>>
      /\ drop' = [drop EXCEPT ![<<"start", e>>] = NoDrop]
  BY DEF Stop, keyVars
<1>2. \A k \in Exports : pc[k] \in WasOffered => pc'[k] \in WasOffered
  BY <1>0, <1>1 DEF Typed, RestTyped, WasOffered
<1>3. KeyHasFile'
  BY <1>0, <1>1, <1>2 DEF Offered, KeyHasFile, Typed, RestTyped
<1>4. DropsOffered'
  <2> SUFFICES ASSUME NEW k \in Deleters, drop'[k].pc # "none"
               PROVE  /\ drop'[k].of \in Exports /\ pc'[drop'[k].of] \in WasOffered
                      /\ drop'[k].pc = "keyless" => uriKey' # drop'[k].of
                      /\ k[1] = "start" => pc'[k[2]] = "dropping"
    BY DEF DropsOffered
  <2>1. k # <<"start", e>> /\ drop'[k] = drop[k]
    BY <1>0, <1>1, KeyIs DEF NoDrop, Typed, RestTyped
  <2>2. k[1] = "start" => k[2] # e /\ k[2] \in Exports
    BY <2>1 DEF Deleters
  <2>3. k[1] = "start" => pc'[k[2]] = pc[k[2]]
    BY <1>0, <1>1, <2>2 DEF Typed, RestTyped
  <2> QED
    BY <1>1, <1>2, <2>1, <2>3 DEF Offered, DropsOffered
<1>5. StoredIsThere'
  BY <1>0, <1>1 DEF Offered, StoredIsThere, Typed, RestTyped
<1> QED
  BY <1>0, <1>3, <1>4, <1>5 DEF Offered

LEMMA KilledOffered ==
    ASSUME Offered, Cancel \/ \E e \in Exports : WorkerDies(e)
    PROVE  Offered'
<1>1. CASE Cancel
  <2>1. taskKey \in Exports
    BY <1>1 DEF Cancel, Offered, Typed, RestTyped
  <2>2. \A e \in Exports : Stop(e, "revoked") => Offered'
    BY StopOffered
  <2> QED
    BY <1>1, <2>1, <2>2 DEF Cancel
<1>2. CASE \E e \in Exports : WorkerDies(e)
  BY <1>2, StopOffered DEF WorkerDies
<1> QED
  BY <1>1, <1>2

\* The end of a deletion, whether it has deleted a file or not.
LEMMA AfterOffered ==
    ASSUME Offered, Typed', NEW k \in Deleters, drop[k].pc # "none", After(k), UNCHANGED uriKey,
           files' = files \/ (drop[k].pc = "keyless" /\ files' = files \ {drop[k].of})
    PROVE  Offered'
<1>0. Typed /\ k[2] \in Exports
  BY DEF Offered, Deleters
<1>1. /\ drop' = [drop EXCEPT ![k] = NoDrop]
      /\ \/ pc' = pc /\ k[1] # "start"
         \/ pc' = [pc EXCEPT ![k[2]] = "data"] /\ pc[k[2]] = "dropping" /\ k[1] = "start"
  BY DEF After, Offered, DropsOffered
<1>2. \A e \in Exports : pc[e] \in WasOffered => pc'[e] \in WasOffered
  BY <1>0, <1>1 DEF Typed, RestTyped, WasOffered
<1>3. \A e \in files : e \in files' \/ (drop[k].pc = "keyless" /\ e = drop[k].of)
  OBVIOUS
<1>4. KeyHasFile'
  BY <1>0, <1>2, <1>3 DEF Offered, KeyHasFile, DropsOffered, Typed, RestTyped
<1>5. DropsOffered'
  <2> SUFFICES ASSUME NEW j \in Deleters, drop'[j].pc # "none"
               PROVE  /\ drop'[j].of \in Exports /\ pc'[drop'[j].of] \in WasOffered
                      /\ drop'[j].pc = "keyless" => uriKey' # drop'[j].of
                      /\ j[1] = "start" => pc'[j[2]] = "dropping"
    BY DEF DropsOffered
  <2>1. j # k /\ drop'[j] = drop[j]
    BY <1>0, <1>1 DEF NoDrop, Typed, RestTyped
  <2>2. j[1] = "start" /\ k[1] = "start" => j[2] # k[2]
    BY <2>1 DEF Deleters
  <2>3. j[1] = "start" => pc'[j[2]] = pc[j[2]]
    BY <1>0, <1>1, <2>2 DEF Typed, RestTyped, Deleters
  <2> QED
    BY <1>2, <2>1, <2>3 DEF Offered, DropsOffered
<1>6. StoredIsThere'
  <2> SUFFICES ASSUME NEW e \in Exports, pc'[e] = "stored" PROVE e \in files'
    BY DEF StoredIsThere
  <2>1. pc[e] = "stored"
    BY <1>0, <1>1 DEF Typed, RestTyped
  <2>2. e # drop[k].of
    BY <2>1 DEF Offered, DropsOffered, WasOffered
  <2> QED
    BY <1>3, <2>1, <2>2 DEF Offered, StoredIsThere
<1> QED
  BY <1>4, <1>5, <1>6 DEF Offered

LEMMA DropOffered ==
    ASSUME Offered, NEW k \in Deleters, DropStep(k)
    PROVE  Offered'
<1>0. Typed' /\ Typed
  BY DropTyped DEF Offered
<1>1. \A to \in {"found", "keyless"} : drop' = [drop EXCEPT ![k].pc = to] =>
         \A j \in Deleters : /\ drop'[j].of = drop[j].of
                             /\ drop'[j].pc = IF j = k THEN to ELSE drop[j].pc
  <2> SUFFICES ASSUME NEW to \in {"found", "keyless"}, drop' = [drop EXCEPT ![k].pc = to],
                      NEW j \in Deleters
               PROVE  /\ drop'[j].of = drop[j].of
                      /\ drop'[j].pc = IF j = k THEN to ELSE drop[j].pc
    OBVIOUS
  <2>1. drop[j] \in Drops /\ drop'[j] = IF j = k THEN [drop[k] EXCEPT !.pc = to] ELSE drop[j]
    BY <1>0 DEF Typed, RestTyped
  <2> QED
    BY <2>1 DEF Drops
<1>2. CASE DropFind(k)
  <2>1. CASE drop[k].of \in files
    <3>1. drop' = [drop EXCEPT ![k].pc = "found"] /\ drop[k].pc # "none"
          /\ UNCHANGED <<pc, uriKey, files>>
      BY <1>2, <2>1 DEF DropFind, keyVars
    <3>2. \A j \in Deleters : /\ drop'[j].of = drop[j].of
                              /\ drop'[j].pc = IF j = k THEN "found" ELSE drop[j].pc
      BY <1>1, <3>1
    <3> QED
      BY <1>0, <3>1, <3>2 DEF Offered, KeyHasFile, DropsOffered, StoredIsThere
  <2>2. CASE drop[k].of \notin files
    BY <1>0, <1>2, <2>2, AfterOffered DEF DropFind, keyVars
  <2> QED
    BY <2>1, <2>2
<1>3. CASE DropKey(k)
  <2>1. /\ drop' = [drop EXCEPT ![k].pc = "keyless"] /\ drop[k].pc # "none"
        /\ uriKey' = Nothing /\ UNCHANGED <<pc, files>>
    BY <1>3 DEF DropKey
  <2>2. \A j \in Deleters : /\ drop'[j].of = drop[j].of
                            /\ drop'[j].pc = IF j = k THEN "keyless" ELSE drop[j].pc
    BY <1>1, <2>1
  <2>3. \A e \in Exports : e # Nothing
    BY ExportAssumption DEF Nothing
  <2> QED
    BY <1>0, <2>1, <2>2, <2>3 DEF Offered, KeyHasFile, DropsOffered, StoredIsThere
<1>4. CASE DropCommit(k)
  BY <1>0, <1>4, AfterOffered DEF DropCommit, keyVars
<1> QED
  BY <1>2, <1>3, <1>4 DEF DropStep

LEMMA BeginOffered ==
    ASSUME Offered, NEW e \in Exports, Begin(e)
    PROVE  Offered'
<1>0. Typed' /\ Typed
  BY BeginTyped DEF Offered
<1>1. /\ pc[e] = "queued" /\ UNCHANGED <<uriKey, files>>
      /\ \A k \in Deleters : k[1] = "start" /\ k[2] = e => drop[k].pc = "none"
  BY DEF Begin, Offered, DropsOffered
<1>2. CASE uriKey = Nothing
  BY <1>0, <1>1, <1>2, OwnStep DEF Begin, Offered, WasOffered
<1>3. CASE uriKey # Nothing
  <2>1. /\ pc' = [pc EXCEPT ![e] = "dropping"]
        /\ drop' = [drop EXCEPT ![<<"start", e>>] = [pc |-> "find", of |-> uriKey]]
    BY <1>3 DEF Begin
  <2>2. uriKey \in Exports /\ pc[uriKey] \in WasOffered /\ uriKey # e
    BY <1>0, <1>1, <1>3 DEF Offered, KeyHasFile, Typed, RestTyped, WasOffered
  <2>3. \A k \in Exports : pc'[k] = IF k = e THEN "dropping" ELSE pc[k]
    BY <1>0, <2>1 DEF Typed, RestTyped
  <2>4. KeyHasFile' /\ StoredIsThere'
    BY <1>1, <2>2, <2>3 DEF Offered, KeyHasFile, StoredIsThere
  <2>5. DropsOffered'
    <3> SUFFICES ASSUME NEW k \in Deleters, drop'[k].pc # "none"
                 PROVE  /\ drop'[k].of \in Exports /\ pc'[drop'[k].of] \in WasOffered
                        /\ drop'[k].pc = "keyless" => uriKey' # drop'[k].of
                        /\ k[1] = "start" => pc'[k[2]] = "dropping"
      BY DEF DropsOffered
    <3>1. CASE k = <<"start", e>>
      BY <1>0, <2>1, <2>2, <2>3, <3>1, KeyIs DEF Typed, RestTyped
    <3>2. CASE k # <<"start", e>>
      <4>1. drop'[k] = drop[k] /\ k[2] \in Exports
        BY <1>0, <2>1, <3>2, KeyIs DEF Typed, RestTyped, Deleters
      <4>2. pc[drop[k].of] \in WasOffered => drop[k].of # e
        BY <1>1 DEF WasOffered
      <4> QED
        BY <1>1, <2>3, <4>1, <4>2 DEF Offered, DropsOffered
    <3> QED
      BY <3>1, <3>2
  <2> QED
    BY <1>0, <2>4, <2>5 DEF Offered
<1> QED
  BY <1>2, <1>3

LEMMA EndOffered ==
    ASSUME Offered, NEW e \in Exports,
           Timer(e) \/ GiveUp(e) \/ Archive(e) \/ Store(e) \/ Offer(e) \/ Succeed(e) \/ OfferNothing(e)
    PROVE  Offered'
<1>0. Typed' /\ Typed
  BY EndTyped DEF Offered
<1>1. CASE Timer(e)
  <2>1. /\ pc[e] = "timed" /\ pc' = [pc EXCEPT ![e] = "ended"]
        /\ drop' = [drop EXCEPT ![<<"timer", e>>] = [pc |-> "find", of |-> e]]
        /\ UNCHANGED <<uriKey, files>>
    BY <1>1 DEF Timer, keyVars
  <2>2. \A k \in Exports : pc'[k] = IF k = e THEN "ended" ELSE pc[k]
    BY <1>0, <2>1 DEF Typed, RestTyped
  <2>3. KeyHasFile' /\ StoredIsThere'
    BY <1>0, <2>1, <2>2 DEF Offered, KeyHasFile, StoredIsThere, WasOffered, Typed, RestTyped
  <2>4. DropsOffered'
    <3> SUFFICES ASSUME NEW k \in Deleters, drop'[k].pc # "none"
                 PROVE  /\ drop'[k].of \in Exports /\ pc'[drop'[k].of] \in WasOffered
                        /\ drop'[k].pc = "keyless" => uriKey' # drop'[k].of
                        /\ k[1] = "start" => pc'[k[2]] = "dropping"
      BY DEF DropsOffered
    <3>1. CASE k = <<"timer", e>>
      BY <1>0, <2>1, <2>2, <3>1, KeyIs DEF Typed, RestTyped, WasOffered
    <3>2. CASE k # <<"timer", e>>
      <4>1. drop'[k] = drop[k] /\ k[2] \in Exports
        BY <1>0, <2>1, <3>2, KeyIs DEF Typed, RestTyped, Deleters
      <4> QED
        BY <2>1, <2>2, <4>1 DEF Offered, DropsOffered, WasOffered
    <3> QED
      BY <3>1, <3>2
  <2> QED
    BY <1>0, <2>3, <2>4 DEF Offered
<1>2. CASE GiveUp(e)
  <2>1. pc[e] \notin WasOffered /\ pc[e] # "dropping"
    BY <1>2 DEF GiveUp, WasOffered
  <2> QED
    BY <1>0, <1>2, <2>1, OwnStep DEF GiveUp, Offered
<1>3. CASE Archive(e)
  <2>1. pc[e] \notin WasOffered /\ pc[e] # "dropping"
    BY <1>3 DEF Archive, WasOffered
  <2> QED
    BY <1>0, <1>3, <2>1, OwnStep DEF Archive, keyVars, Offered
<1>4. CASE Store(e)
  <2>1. pc[e] \notin WasOffered /\ pc[e] # "dropping"
    BY <1>4 DEF Store, WasOffered
  <2> QED
    BY <1>0, <1>4, <2>1, OwnStep DEF Store, keyVars, Offered
<1>5. CASE Offer(e)
  <2>1. /\ pc[e] = "stored" /\ pc' = [pc EXCEPT ![e] = "offered"] /\ uriKey' = e
        /\ UNCHANGED <<drop, files>>
    BY <1>5 DEF Offer
  <2>2. \A k \in Exports : pc'[k] = IF k = e THEN "offered" ELSE pc[k]
    BY <1>0, <2>1 DEF Typed, RestTyped
  <2>3. KeyHasFile' /\ StoredIsThere'
    BY <2>1, <2>2 DEF Offered, KeyHasFile, StoredIsThere, WasOffered
  <2>4. DropsOffered'
    <3>1. \A k \in Deleters : k[2] \in Exports
      BY DEF Deleters
    <3> QED
      BY <2>1, <2>2, <3>1 DEF Offered, DropsOffered, WasOffered
  <2> QED
    BY <1>0, <2>3, <2>4 DEF Offered
<1>6. CASE Succeed(e)
  <2>1. pc[e] # "dropping" /\ "timed" \in WasOffered
    BY <1>6 DEF Succeed, WasOffered
  <2> QED
    BY <1>0, <1>6, <2>1, OwnStep DEF Succeed, keyVars, Offered
<1>7. CASE OfferNothing(e)
  <2>1. /\ pc[e] = "failed" /\ pc' = [pc EXCEPT ![e] = "ended"] /\ uriKey' = Nothing
        /\ UNCHANGED <<drop, files>>
    BY <1>7 DEF OfferNothing
  <2>2. \A k \in Exports : k # Nothing /\ pc'[k] = IF k = e THEN "ended" ELSE pc[k]
    BY <1>0, <2>1, ExportAssumption DEF Typed, RestTyped, Nothing
  <2>3. KeyHasFile' /\ StoredIsThere'
    BY <2>1, <2>2 DEF Offered, KeyHasFile, StoredIsThere
  <2>4. DropsOffered'
    <3>1. \A k \in Deleters : k[2] \in Exports
      BY DEF Deleters
    <3> QED
      BY <2>1, <2>2, <3>1 DEF Offered, DropsOffered, WasOffered
  <2> QED
    BY <1>0, <2>3, <2>4 DEF Offered
<1> QED
  BY <1>1, <1>2, <1>3, <1>4, <1>5, <1>6, <1>7

\* What concerns the data or the items leaves the offered file alone.
LEMMA OtherOffered ==
    ASSUME Offered, Typed', UNCHANGED <<pc, uriKey, drop, files>>
    PROVE  Offered'
BY DEF Offered, KeyHasFile, DropsOffered, StoredIsThere

LEMMA StepOffered == Offered /\ [Next]_exportVars => Offered'
<1> SUFFICES ASSUME Offered, [Next]_exportVars PROVE Offered'
  OBVIOUS
<1>0. Typed'
  BY StepTyped DEF Offered
<1>1. CASE UNCHANGED exportVars
  BY <1>0, <1>1, OtherOffered DEF exportVars
<1>2. ASSUME NEW e \in Exports,
             Query(e) \/ AddItem(e) \/ WritePart(e) \/ WriteLast(e) \/ Retry(e)
      PROVE  Offered'
  <2>1. UNCHANGED <<pc, uriKey, drop, files>>
    BY <1>2 DEF Query, AddItem, WritePart, WriteLast, Retry, Step, keyVars
  <2> QED
    BY <1>0, <2>1, OtherOffered
<1>3. ASSUME NEW i \in Items, Register(i) \/ Delete(i) PROVE Offered'
  BY <1>0, <1>3, OtherOffered DEF Register, Delete, keyVars
<1> QED
  BY <1>1, <1>2, <1>3, PageOffered, KilledOffered, DropOffered, BeginOffered, EndOffered
     DEF Next, TaskStep

LEMMA InitOffered == Init => Offered
<1> SUFFICES ASSUME Init PROVE Offered
  OBVIOUS
<1>1. \A k \in Deleters : drop[k].pc = "none"
  BY DEF Init, NoDrop
<1> QED
  BY <1>1, InitTyped DEF Init, Offered, KeyHasFile, DropsOffered, StoredIsThere

\* The archive the page offers for download has its row: not the deletion of an
\* export, by the next one or when its time has passed, nor a cancellation, nor a
\* worker that dies, in any order, leaves the page with a uri of nothing.
THEOREM OfferedIsThere == Spec => []DownloadExists
<1>1. Offered => DownloadExists
  BY DEF Offered, KeyHasFile, DownloadExists
<1> QED
  BY InitOffered, StepOffered, <1>1, PTL DEF Spec

-----------------------------------------------------------------------------
(* What is there is offered, while exports and deletions keep apart.       *)

\* Where a task that runs is; where it has no uri yet to offer; and where it has
\* offered one.
Working == {"dropping", "data", "failed", "archive", "stored", "offered"}
Before == {"data", "failed", "archive", "stored"}
Offers == {"offered", "timed", "ended"}

Told ==
    \A e \in Exports : /\ pc[e] \in Working => task[e] = "running"
                       /\ pc[e] \in {"timed", "ended"} => task[e] = "success"

FilesOfExports == \A e \in files : pc[e] = "stored" \/ pc[e] \in WasOffered

\* The timer deletes the file of its own export, which has ended.
TimersEnded ==
    \A e \in Exports : drop[<<"timer", e>>].pc # "none" =>
        pc[e] = "ended" /\ drop[<<"timer", e>>].of = e

OneWorks == \A e, k \in Exports : pc[e] \in Working /\ pc[k] \in Working => e = k

\* An export that has got past its deletion finds no uri in the cache, and one
\* at it no other than the one it deletes.
KeyGone == \A e \in Exports : pc[e] \in Before => uriKey = Nothing
StartDrops ==
    \A k \in Deleters : k[1] = "start" /\ drop[k].pc # "none" =>
        uriKey = drop[k].of \/ uriKey = Nothing

\* A file that has been found is there, and found by one deletion only.
DropsApart ==
    \A k \in Deleters : drop[k].pc \in {"found", "keyless"} =>
        /\ drop[k].of \in files
        /\ \A j \in Deleters : j # k /\ drop[j].of = drop[k].of =>
                drop[j].pc \notin {"found", "keyless"}

Offering == \A e \in files : pc[e] \in Offers => uriKey = e \/ Dropping(e)

Calm == OneWorks /\ KeyGone /\ StartDrops /\ DropsApart /\ Offering

Orderly == Told /\ FilesOfExports /\ TimersEnded /\ (calm => Calm)

LEMMA ToldAt ==
    ASSUME Told, NEW e \in Exports,
           \A k \in Exports : k # e => pc'[k] = pc[k] /\ task'[k] = task[k],
           pc'[e] \in Working => task'[e] = "running",
           pc'[e] \in {"timed", "ended"} => task'[e] = "success"
    PROVE  Told'
BY DEF Told

\* A step of one export that deletes nothing and leaves the uri alone.
LEMMA OwnOrderly ==
    ASSUME Offered, Orderly, Told', NEW e \in Exports, NEW to, pc' = [pc EXCEPT ![e] = to],
           drop' = drop, pc[e] # "ended",
           calm' => calm /\ uriKey' = uriKey,
           files' = files \/ (to = "stored" /\ files' = files \cup {e}),
           e \in files => to = "stored" \/ to \in WasOffered,
           calm' /\ to \in Working /\ pc[e] \notin Working => \A k \in Exports : pc[k] \notin Working,
           calm' /\ to \in Before => uriKey = Nothing,
           e \in files /\ to \in Offers => pc[e] \in Offers
    PROVE  Orderly'
<1>1. /\ \A k \in Exports : pc'[k] = IF k = e THEN to ELSE pc[k]
      /\ files \subseteq Exports
  BY DEF Offered, Typed, RestTyped
<1>2. FilesOfExports'
  BY <1>1 DEF Orderly, FilesOfExports
<1>3. TimersEnded'
  BY <1>1 DEF Orderly, TimersEnded
<1>4. ASSUME calm' PROVE Calm'
  <2>0. Calm /\ uriKey' = uriKey
    BY <1>4 DEF Orderly
  <2>1. OneWorks'
    BY <1>1, <1>4, <2>0 DEF Calm, OneWorks
  <2>2. KeyGone'
    BY <1>1, <1>4, <2>0 DEF Calm, KeyGone
  <2>3. StartDrops'
    BY <2>0 DEF Calm, StartDrops
  <2>4. DropsApart'
    BY <2>0 DEF Calm, DropsApart
  <2>5. Offering'
    <3> SUFFICES ASSUME NEW x \in files', pc'[x] \in Offers
                 PROVE  uriKey' = x \/ Dropping(x)'
      BY DEF Offering
    <3>1. x \in files /\ pc[x] \in Offers
      BY <1>1 DEF Offers
    <3> QED
      BY <2>0, <3>1 DEF Calm, Offering, Dropping
  <2> QED
    BY <2>1, <2>2, <2>3, <2>4, <2>5 DEF Calm
<1> QED
  BY <1>2, <1>3, <1>4 DEF Orderly

LEMMA StopOrderly ==
    ASSUME Offered, Orderly, NEW e \in Exports, NEW told \in {"revoked", "lost"}, Stop(e, told),
           task[e] \in {"pending", "running"}
    PROVE  Orderly'
<1>0. Typed
  BY DEF Offered
<1>1. /\ \A k \in Exports : /\ pc'[k] = IF k = e THEN "killed" ELSE pc[k]
                            /\ task'[k] = IF k = e THEN told ELSE task[k]
      /\ \A k \in Deleters : drop'[k] = IF k = <<"start", e>> THEN NoDrop ELSE drop[k]
      /\ UNCHANGED <<uriKey, files>> /\ files \subseteq Exports
      /\ calm' => calm /\ drop[<<"start", e>>].pc # "keyless"
  BY <1>0, KeyIs DEF Stop, keyVars, Typed, RestTyped
<1>2. pc[e] # "ended"
  BY DEF Orderly, Told
<1>3. Told'
  BY <1>1, ToldAt DEF Orderly, Working
<1>4. FilesOfExports'
  BY <1>1 DEF Orderly, FilesOfExports, WasOffered
<1>5. TimersEnded'
  BY <1>1, <1>2, KeyIs DEF Orderly, TimersEnded
<1>6. ASSUME calm' PROVE Calm'
  <2>0. Calm
    BY <1>1, <1>6 DEF Orderly
  <2>1. OneWorks' /\ KeyGone'
    BY <1>1, <2>0 DEF Calm, OneWorks, KeyGone, Working, Before
  <2>2. StartDrops'
    BY <1>1, <2>0 DEF Calm, StartDrops, NoDrop
  <2>3. DropsApart'
    BY <1>1, <2>0 DEF Calm, DropsApart, NoDrop
  <2>4. Offering'
    BY <1>1, <1>6, <2>0 DEF Calm, Offering, Offers, Dropping
  <2> QED
    BY <2>1, <2>2, <2>3, <2>4 DEF Calm
<1> QED
  BY <1>3, <1>4, <1>5, <1>6 DEF Orderly

LEMMA KilledOrderly ==
    ASSUME Offered, Orderly, Cancel \/ \E e \in Exports : WorkerDies(e)
    PROVE  Orderly'
<1>1. CASE Cancel
  <2>1. taskKey \in Exports
    BY <1>1 DEF Cancel, Offered, Typed, RestTyped
  <2>2. \A e \in Exports : Stop(e, "revoked") /\ task[e] \in {"pending", "running"} => Orderly'
    BY StopOrderly
  <2> QED
    BY <1>1, <2>1, <2>2 DEF Cancel
<1>2. CASE \E e \in Exports : WorkerDies(e)
  BY <1>2, StopOrderly DEF WorkerDies, Busy
<1> QED
  BY <1>1, <1>2

LEMMA AfterOrderly ==
    ASSUME Offered, Orderly, NEW k \in Deleters, drop[k].pc # "none", After(k),
           UNCHANGED <<uriKey, task, calm>>,
           \/ drop[k].pc = "find" /\ drop[k].of \notin files /\ files' = files
           \/ drop[k].pc = "keyless" /\ files' = files \ {drop[k].of}
    PROVE  Orderly'
<1>0. Typed /\ k[2] \in Exports
  BY DEF Offered, Deleters
<1>1. /\ \A j \in Deleters : drop'[j] = IF j = k THEN NoDrop ELSE drop[j]
      /\ \/ pc' = pc /\ k[1] # "start"
         \/ pc' = [pc EXCEPT ![k[2]] = "data"] /\ pc[k[2]] = "dropping" /\ k[1] = "start"
      /\ files' \subseteq files /\ files \subseteq Exports
  BY <1>0 DEF After, Offered, DropsOffered, Typed, RestTyped
<1>2. \A e \in Exports :
            \/ pc'[e] = pc[e]
            \/ pc[e] = "dropping" /\ pc'[e] = "data" /\ k[1] = "start" /\ e = k[2]
  BY <1>0, <1>1 DEF Typed, RestTyped
<1>3. Told'
  BY <1>2 DEF Orderly, Told, Working
<1>4. FilesOfExports'
  BY <1>1, <1>2 DEF Orderly, FilesOfExports, WasOffered
<1>5. TimersEnded'
  <2> SUFFICES ASSUME NEW x \in Exports, drop'[<<"timer", x>>].pc # "none"
               PROVE  pc'[x] = "ended" /\ drop'[<<"timer", x>>].of = x
    BY DEF TimersEnded
  <2>1. drop'[<<"timer", x>>] = drop[<<"timer", x>>]
    <3>1. PICK j \in Deleters : j = <<"timer", x>>
      BY KeyIs
    <3>2. drop'[j] = drop[j]
      BY <1>1, <3>1 DEF NoDrop
    <3> QED
      BY <3>1, <3>2
  <2>2. pc[x] = "ended" /\ drop[<<"timer", x>>].of = x
    BY <2>1 DEF Orderly, TimersEnded
  <2> QED
    BY <1>2, <2>1, <2>2
<1>6. ASSUME calm' PROVE Calm'
  <2>0. Calm
    BY <1>6 DEF Orderly
  <2>1. OneWorks'
    BY <1>2, <2>0 DEF Calm, OneWorks, Working
  <2>2. k[1] = "start" => uriKey = Nothing
    BY <2>0 DEF Calm, StartDrops, Offered, KeyHasFile, DropsOffered
  <2>3. KeyGone'
    BY <1>2, <2>0, <2>2 DEF Calm, KeyGone, Before
  <2>4. StartDrops'
    BY <1>1, <2>0 DEF Calm, StartDrops, NoDrop
  <2>5. DropsApart'
    BY <1>1, <2>0 DEF Calm, DropsApart, NoDrop
  <2>6. Offering'
    <3> SUFFICES ASSUME NEW x \in files', pc'[x] \in Offers
                 PROVE  uriKey' = x \/ Dropping(x)'
      BY DEF Offering
    <3>1. x \in files /\ pc[x] \in Offers /\ (drop[k].pc = "keyless" => x # drop[k].of)
      BY <1>1, <1>2 DEF Offers
    <3>2. uriKey = x \/ \E j \in Deleters : drop[j].of = x /\ drop[j].pc = "keyless"
      BY <2>0, <3>1 DEF Calm, Offering, Dropping
    <3> QED
      BY <1>1, <3>1, <3>2 DEF Dropping
  <2> QED
    BY <2>1, <2>3, <2>4, <2>5, <2>6 DEF Calm
<1> QED
  BY <1>3, <1>4, <1>5, <1>6 DEF Orderly

LEMMA DropOrderly ==
    ASSUME Offered, Orderly, NEW k \in Deleters, DropStep(k)
    PROVE  Orderly'
<1>0. Typed
  BY DEF Offered
<1>1. ASSUME NEW to \in {"found", "keyless"}, drop' = [drop EXCEPT ![k].pc = to]
      PROVE  \A j \in Deleters : /\ drop'[j].of = drop[j].of
                                 /\ drop'[j].pc = IF j = k THEN to ELSE drop[j].pc
  <2> SUFFICES ASSUME NEW j \in Deleters
               PROVE  /\ drop'[j].of = drop[j].of
                      /\ drop'[j].pc = IF j = k THEN to ELSE drop[j].pc
    OBVIOUS
  <2>1. drop[j] \in Drops /\ drop'[j] = IF j = k THEN [drop[k] EXCEPT !.pc = to] ELSE drop[j]
    BY <1>0, <1>1 DEF Typed, RestTyped
  <2> QED
    BY <2>1 DEF Drops
<1>2. CASE DropFind(k)
  <2>1. CASE drop[k].of \in files
    <3>1. /\ drop' = [drop EXCEPT ![k].pc = "found"] /\ drop[k].pc = "find"
          /\ UNCHANGED <<pc, task, uriKey, files>>
          /\ calm' => calm /\ \A j \in Deleters : j # k /\ drop[j].of = drop[k].of =>
                                   drop[j].pc \in {"none", "find"}
      BY <1>2, <2>1 DEF DropFind, keyVars
    <3>2. \A j \in Deleters : /\ drop'[j].of = drop[j].of
                              /\ drop'[j].pc = IF j = k THEN "found" ELSE drop[j].pc
      BY <1>1, <3>1
    <3>3. Told' /\ FilesOfExports' /\ TimersEnded'
      BY <3>1, <3>2, KeyIs DEF Orderly, Told, FilesOfExports, TimersEnded
    <3>4. ASSUME calm' PROVE Calm'
      <4>0. Calm
        BY <3>1, <3>4 DEF Orderly
      <4>1. OneWorks' /\ KeyGone'
        BY <3>1, <4>0 DEF Calm, OneWorks, KeyGone
      <4>2. StartDrops'
        BY <3>1, <3>2, <4>0 DEF Calm, StartDrops
      <4>3. DropsApart'
        BY <2>1, <3>1, <3>2, <3>4, <4>0 DEF Calm, DropsApart
      <4>4. Offering'
        BY <3>1, <3>2, <4>0 DEF Calm, Offering, Dropping
      <4> QED
        BY <4>1, <4>2, <4>3, <4>4 DEF Calm
    <3> QED
      BY <3>3, <3>4 DEF Orderly
  <2>2. CASE drop[k].of \notin files
    BY <1>2, <2>2, AfterOrderly DEF DropFind, keyVars
  <2> QED
    BY <2>1, <2>2
<1>3. CASE DropKey(k)
  <2>1. /\ drop' = [drop EXCEPT ![k].pc = "keyless"] /\ drop[k].pc = "found"
        /\ ~Dropping(drop[k].of) /\ uriKey' = Nothing /\ UNCHANGED <<pc, task, files, calm>>
    BY <1>3 DEF DropKey
  <2>2. \A j \in Deleters : /\ drop'[j].of = drop[j].of
                            /\ drop'[j].pc = IF j = k THEN "keyless" ELSE drop[j].pc
    BY <1>1, <2>1
  <2>3. Told' /\ FilesOfExports' /\ TimersEnded'
    BY <2>1, <2>2, KeyIs DEF Orderly, Told, FilesOfExports, TimersEnded
  <2>4. ASSUME calm' PROVE Calm'
    <3>0. Calm
      BY <2>1, <2>4 DEF Orderly
    <3>1. OneWorks' /\ KeyGone' /\ StartDrops'
      BY <2>1, <3>0 DEF Calm, OneWorks, KeyGone, StartDrops
    <3>2. DropsApart'
      BY <2>1, <2>2, <3>0 DEF Calm, DropsApart
    <3>3. uriKey = drop[k].of \/ uriKey = Nothing
      <4>1. CASE k[1] = "start"
        BY <2>1, <3>0, <4>1 DEF Calm, StartDrops
      <4>2. CASE k[1] # "start"
        <5>1. PICK e \in Exports : k = <<"timer", e>>
          BY <4>2 DEF Deleters
        <5>2. drop[k].of \in files /\ pc[drop[k].of] = "ended"
          BY <2>1, <3>0, <5>1 DEF Calm, DropsApart, Orderly, TimersEnded
        <5> QED
          BY <2>1, <3>0, <5>2 DEF Calm, Offering, Offers
      <4> QED
        BY <4>1, <4>2
    <3>4. Offering'
      <4> SUFFICES ASSUME NEW x \in files, pc[x] \in Offers
                   PROVE  Dropping(x)'
        BY <2>1 DEF Offering
      <4>1. x # Nothing
        BY <1>0, ExportAssumption DEF Typed, RestTyped, Nothing
      <4>2. x = drop[k].of \/ Dropping(x)
        BY <3>0, <3>3, <4>1 DEF Calm, Offering
      <4> QED
        BY <2>2, <4>2 DEF Dropping
    <3> QED
      BY <3>1, <3>2, <3>4 DEF Calm
  <2> QED
    BY <2>3, <2>4 DEF Orderly
<1>4. CASE DropCommit(k)
  BY <1>4, AfterOrderly DEF DropCommit, keyVars
<1> QED
  BY <1>2, <1>3, <1>4 DEF DropStep

LEMMA BeginOrderly ==
    ASSUME Offered, Orderly, NEW e \in Exports, Begin(e)
    PROVE  Orderly'
<1>0. Typed
  BY DEF Offered
<1>1. /\ pc[e] = "queued" /\ UNCHANGED <<uriKey, files>>
      /\ drop[<<"start", e>>].pc = "none" /\ e \notin files
  BY KeyIs DEF Begin, Offered, DropsOffered, Orderly, FilesOfExports, WasOffered
<1>2. \A k \in Exports : task'[k] = IF k = e THEN "running" ELSE task[k]
  BY <1>0 DEF Begin, Typed, RestTyped
<1>3. calm' => calm /\ \A k \in Exports : pc[k] \notin Working
  BY DEF Begin, Busy, Orderly, Told
<1>4. CASE uriKey = Nothing
  <2>1. pc' = [pc EXCEPT ![e] = "data"] /\ drop' = drop
    BY <1>4 DEF Begin
  <2>2. Told'
    BY <1>0, <1>2, <2>1, ToldAt DEF Orderly, Working, Typed, RestTyped
  <2> QED
    BY <1>1, <1>3, <1>4, <2>1, <2>2, OwnOrderly DEF Offers
<1>5. CASE uriKey # Nothing
  <2>1. /\ \A k \in Exports : pc'[k] = IF k = e THEN "dropping" ELSE pc[k]
        /\ \A k \in Deleters :
            drop'[k] = IF k = <<"start", e>> THEN [pc |-> "find", of |-> uriKey] ELSE drop[k]
        /\ files \subseteq Exports
    BY <1>0, <1>5, KeyIs DEF Begin, Typed, RestTyped
  <2>2. Told'
    BY <1>2, <2>1, ToldAt DEF Orderly, Working
  <2>3. FilesOfExports' /\ TimersEnded'
    BY <1>1, <2>1, KeyIs DEF Orderly, FilesOfExports, TimersEnded
  <2>4. ASSUME calm' PROVE Calm'
    <3>0. Calm
      BY <1>3, <2>4 DEF Orderly
    <3>1. OneWorks' /\ KeyGone'
      BY <1>3, <2>1, <2>4 DEF OneWorks, KeyGone, Working, Before
    <3>2. StartDrops'
      BY <1>1, <2>1, <3>0 DEF Calm, StartDrops
    <3>3. DropsApart'
      BY <1>1, <2>1, <3>0 DEF Calm, DropsApart
    <3>4. Offering'
      BY <1>1, <2>1, <3>0 DEF Calm, Offering, Offers, Dropping
    <3> QED
      BY <3>1, <3>2, <3>3, <3>4 DEF Calm
  <2> QED
    BY <2>2, <2>3, <2>4 DEF Orderly
<1> QED
  BY <1>4, <1>5

LEMMA TimerOrderly ==
    ASSUME Offered, Orderly, NEW e \in Exports, Timer(e)
    PROVE  Orderly'
<1>1. /\ pc[e] = "timed" /\ UNCHANGED <<task, uriKey, files, calm>>
      /\ \A k \in Exports : pc'[k] = IF k = e THEN "ended" ELSE pc[k]
      /\ \A k \in Deleters :
            drop'[k] = IF k = <<"timer", e>> THEN [pc |-> "find", of |-> e] ELSE drop[k]
      /\ files \subseteq Exports
  BY KeyIs DEF Timer, keyVars, Offered, Typed, RestTyped
<1>2. drop[<<"timer", e>>].pc = "none"
  BY <1>1 DEF Orderly, TimersEnded
<1>3. Told'
  BY <1>1 DEF Orderly, Told, Working
<1>4. FilesOfExports'
  BY <1>1 DEF Orderly, FilesOfExports, WasOffered
<1>5. TimersEnded'
  <2> SUFFICES ASSUME NEW x \in Exports, drop'[<<"timer", x>>].pc # "none"
               PROVE  pc'[x] = "ended" /\ drop'[<<"timer", x>>].of = x
    BY DEF TimersEnded
  <2>0. PICK j \in Deleters : j = <<"timer", x>>
    BY KeyIs
  <2>1. CASE x = e
    <3>1. drop'[j] = [pc |-> "find", of |-> e]
      BY <1>1, <2>0, <2>1
    <3>2. drop'[j].of = e
      BY <3>1
    <3> QED
      BY <1>1, <2>0, <2>1, <3>2
  <2>2. CASE x # e
    <3>1. drop'[j] = drop[j] /\ pc'[x] = pc[x]
      BY <1>1, <2>0, <2>2
    <3> QED
      BY <2>0, <3>1 DEF Orderly, TimersEnded
  <2> QED
    BY <2>1, <2>2
<1>6. ASSUME calm' PROVE Calm'
  <2>0. Calm
    BY <1>1, <1>6 DEF Orderly
  <2>1. OneWorks' /\ KeyGone'
    BY <1>1, <2>0 DEF Calm, OneWorks, KeyGone, Working, Before
  <2>2. StartDrops'
    BY <1>1, <2>0 DEF Calm, StartDrops
  <2>3. DropsApart'
    BY <1>1, <1>2, <2>0 DEF Calm, DropsApart
  <2>4. Offering'
    BY <1>1, <1>2, <2>0 DEF Calm, Offering, Offers, Dropping
  <2> QED
    BY <2>1, <2>2, <2>3, <2>4 DEF Calm
<1> QED
  BY <1>3, <1>4, <1>5, <1>6 DEF Orderly

LEMMA OfferOrderly ==
    ASSUME Offered, Orderly, NEW e \in Exports, Offer(e)
    PROVE  Orderly'
<1>1. /\ pc[e] = "stored" /\ uriKey' = e /\ UNCHANGED <<task, drop, files, calm>>
      /\ \A k \in Exports : pc'[k] = IF k = e THEN "offered" ELSE pc[k]
      /\ files \subseteq Exports
  BY DEF Offer, Offered, Typed, RestTyped
<1>2. Told'
  BY <1>1 DEF Orderly, Told, Working
<1>3. FilesOfExports'
  BY <1>1 DEF Orderly, FilesOfExports, WasOffered
<1>4. TimersEnded'
  BY <1>1 DEF Orderly, TimersEnded
<1>5. ASSUME calm' PROVE Calm'
  <2>0. Calm
    BY <1>1, <1>5 DEF Orderly
  <2>1. /\ uriKey = Nothing
        /\ \A k \in Exports : pc[k] \in Working => k = e
    BY <1>1, <2>0 DEF Calm, KeyGone, OneWorks, Working, Before
  <2>2. OneWorks' /\ KeyGone'
    BY <1>1, <2>1 DEF OneWorks, KeyGone, Working, Before
  <2>3. StartDrops'
    <3>1. \A k \in Deleters : k[2] \in Exports
      BY DEF Deleters
    <3>2. \A k \in Deleters : k[1] = "start" => drop[k].pc = "none"
      BY <1>1, <2>1, <3>1 DEF Offered, DropsOffered, Working
    <3> QED
      BY <1>1, <3>2 DEF StartDrops
  <2>4. DropsApart'
    BY <1>1, <2>0 DEF Calm, DropsApart
  <2>5. Offering'
    <3> SUFFICES ASSUME NEW x \in files, x # e, pc[x] \in Offers
                 PROVE  Dropping(x)
      BY <1>1 DEF Offering, Dropping
    <3>1. x # Nothing
      BY <1>1, ExportAssumption DEF Nothing
    <3> QED
      BY <2>0, <2>1, <3>1 DEF Calm, Offering
  <2> QED
    BY <2>2, <2>3, <2>4, <2>5 DEF Calm
<1> QED
  BY <1>2, <1>3, <1>4, <1>5 DEF Orderly

LEMMA PageOrderly ==
    ASSUME Offered, Orderly, NEW e \in Exports, Ask(e) \/ Queue(e)
    PROVE  Orderly'
<1>0. e \in files => pc[e] = "stored" \/ pc[e] \in WasOffered
  BY DEF Orderly, FilesOfExports
<1>1. PICK to \in {"asked", "queued"} : pc' = [pc EXCEPT ![e] = to]
  BY DEF Ask, Queue
<1>2. /\ pc[e] \in {"none", "asked"} /\ UNCHANGED <<drop, uriKey, files, calm>>
      /\ task' = task \/ task' = [task EXCEPT ![e] = "pending"]
  BY DEF Ask, Queue, keyVars
<1>3. Told'
  BY <1>1, <1>2, ToldAt DEF Orderly, Working, Offered, Typed, RestTyped
<1> QED
  BY <1>0, <1>1, <1>2, <1>3, OwnOrderly DEF WasOffered, Working, Before, Offers

LEMMA EndOrderly ==
    ASSUME Offered, Orderly, NEW e \in Exports,
           GiveUp(e) \/ Archive(e) \/ Store(e) \/ Succeed(e) \/ OfferNothing(e)
    PROVE  Orderly'
<1>0. e \in files => pc[e] = "stored" \/ pc[e] \in WasOffered
  BY DEF Orderly, FilesOfExports
<1>1. calm /\ pc[e] \in Before => uriKey = Nothing
  BY DEF Orderly, Calm, KeyGone
<1>2. CASE GiveUp(e) \/ Archive(e) \/ Store(e)
  <2>1. PICK to \in {"failed", "archive", "stored"} :
            /\ pc' = [pc EXCEPT ![e] = to]
            /\ files' = files \/ (to = "stored" /\ files' = files \cup {e})
    BY <1>2 DEF GiveUp, Archive, Store
  <2>2. pc[e] \in {"data", "archive"} /\ UNCHANGED <<task, drop, uriKey, calm>>
    BY <1>2 DEF GiveUp, Archive, Store, keyVars
  <2>3. Told'
    BY <2>1, <2>2, ToldAt DEF Orderly, Told, Working, Offered, Typed, RestTyped
  <2> QED
    BY <1>0, <1>1, <2>1, <2>2, <2>3, OwnOrderly DEF WasOffered, Working, Before, Offers
<1>3. CASE Succeed(e)
  <2>1. /\ pc[e] = "offered" /\ pc' = [pc EXCEPT ![e] = "timed"]
        /\ task' = [task EXCEPT ![e] = "success"] /\ UNCHANGED <<drop, uriKey, files, calm>>
    BY <1>3 DEF Succeed, keyVars
  <2>2. Told'
    BY <2>1, ToldAt DEF Orderly, Working, Offered, Typed, RestTyped
  <2> QED
    BY <2>1, <2>2, OwnOrderly DEF WasOffered, Working, Before, Offers
<1>4. CASE OfferNothing(e)
  <2>1. /\ pc[e] = "failed" /\ pc' = [pc EXCEPT ![e] = "ended"] /\ uriKey' = Nothing
        /\ task' = [task EXCEPT ![e] = "success"] /\ UNCHANGED <<drop, files, calm>>
    BY <1>4 DEF OfferNothing
  <2>2. Told'
    BY <2>1, ToldAt DEF Orderly, Working, Offered, Typed, RestTyped
  <2>3. e \notin files /\ (calm => uriKey' = uriKey)
    BY <1>0, <1>1, <2>1 DEF WasOffered, Before
  <2> QED
    BY <2>1, <2>2, <2>3, OwnOrderly DEF Working, Before, Offers
<1> QED
  BY <1>2, <1>3, <1>4

\* What concerns the data, the items or the task last asked for.
LEMMA OtherOrderly ==
    ASSUME Orderly, UNCHANGED <<pc, task, uriKey, drop, files, calm>>
    PROVE  Orderly'
BY DEF Orderly, Told, FilesOfExports, TimersEnded, Calm, OneWorks, KeyGone, StartDrops,
       DropsApart, Offering, Dropping

LEMMA StepOrderly == Offered /\ Orderly /\ [Next]_exportVars => Orderly'
<1> SUFFICES ASSUME Offered, Orderly, [Next]_exportVars PROVE Orderly'
  OBVIOUS
<1>1. CASE UNCHANGED exportVars
  BY <1>1, OtherOrderly DEF exportVars
<1>2. ASSUME NEW e \in Exports,
             Query(e) \/ AddItem(e) \/ WritePart(e) \/ WriteLast(e) \/ Retry(e) \/ CacheTask(e)
      PROVE  Orderly'
  <2>1. UNCHANGED <<pc, task, uriKey, drop, files, calm>>
    BY <1>2 DEF Query, AddItem, WritePart, WriteLast, Retry, CacheTask, Step, keyVars
  <2> QED
    BY <2>1, OtherOrderly
<1>3. ASSUME NEW i \in Items, Register(i) \/ Delete(i) PROVE Orderly'
  BY <1>3, OtherOrderly DEF Register, Delete, keyVars
<1> QED
  BY <1>1, <1>2, <1>3, PageOrderly, KilledOrderly, DropOrderly, BeginOrderly, TimerOrderly,
     OfferOrderly, EndOrderly
     DEF Next, TaskStep

LEMMA InitOrderly == Init => Orderly
<1> SUFFICES ASSUME Init PROVE Orderly
  OBVIOUS
<1>1. \A k \in Deleters : drop[k].pc = "none"
  BY DEF Init, NoDrop
<1>2. \A e \in Exports : pc[e] = "none" /\ e \notin files
  BY DEF Init
<1>3. Told /\ FilesOfExports /\ TimersEnded
  BY <1>1, <1>2, KeyIs DEF Init, Told, FilesOfExports, TimersEnded, Working
<1>4. Calm
  BY <1>1, <1>2 DEF Init, Calm, OneWorks, KeyGone, StartDrops, DropsApart, Offering,
                    Working, Before
<1> QED
  BY <1>3, <1>4 DEF Orderly

\* No row of an archive is left behind, and no archive taken from the page before
\* its time, while no two exports and no two deletions of one row overlap and none
\* is killed between the key and the row.
THEOREM NoneLeftBehind == Spec => []OnlyOffered
<1>1. Orderly => OnlyOffered
  BY DEF Orderly, Calm, Offering, Offers, OnlyOffered
<1>2. Spec => []Offered
  BY InitOffered, StepOffered, PTL DEF Spec
<1> QED
  BY <1>1, <1>2, InitOrderly, StepOrderly, PTL DEF Spec

-----------------------------------------------------------------------------
(* Whatever waits has somebody to wait for, which is what RowsGo and      *)
(* ExportEnds rest on: however exports and deletions meet.                 *)

\* The file of an export that ended well still has its timer, or the deletion
\* the timer began.
FileDue(e) ==
    e \in files /\ task[e] = "success" =>
        pc[e] = "timed" \/ drop[<<"timer", e>>].pc # "none"

\* A task that was queued is to begin, one that runs is at one of its steps, and
\* at the deletion only while there is one; nothing is ever told of a lost one.
TaskDue(e) ==
    /\ task[e] = "pending" => pc[e] = "queued"
    /\ task[e] = "running" => pc[e] \in Working
    /\ pc[e] = "dropping" => drop[<<"start", e>>].pc # "none"
    /\ task[e] = "lost" => pc[e] = "killed"

Dues == \A e \in Exports : FileDue(e) /\ TaskDue(e)

\* What the page waits for has a step to take, or was lost.
Awaited ==
    UnderWay => \/ task[taskKey] = "lost"
                \/ /\ pc[taskKey] \in {"queued"} \cup Working
                   /\ pc[taskKey] = "dropping" => drop[<<"start", taskKey>>].pc # "none"

\* A step of one export keeps what the others wait for.
LEMMA OwnDues ==
    ASSUME Dues, NEW e \in Exports, files' \subseteq files \cup {e},
           \A k \in Exports \ {e} : pc'[k] = pc[k] /\ task'[k] = task[k],
           \A k \in Exports \ {e} : /\ drop'[<<"start", k>>] = drop[<<"start", k>>]
                                    /\ drop'[<<"timer", k>>] = drop[<<"timer", k>>],
           FileDue(e)', TaskDue(e)'
    PROVE  Dues'
<1> SUFFICES ASSUME NEW k \in Exports PROVE FileDue(k)' /\ TaskDue(k)'
  BY DEF Dues
<1>1. CASE k = e
  BY <1>1
<1>2. CASE k # e
  <2>1. pc'[k] = pc[k] /\ task'[k] = task[k] /\ (k \in files' => k \in files)
    BY <1>2
  <2>2. /\ drop'[<<"start", k>>] = drop[<<"start", k>>]
        /\ drop'[<<"timer", k>>] = drop[<<"timer", k>>]
    BY <1>2
  <2>3. FileDue(k) /\ TaskDue(k)
    BY DEF Dues
  <2> QED
    BY <2>1, <2>2, <2>3 DEF FileDue, TaskDue
<1> QED
  BY <1>1, <1>2

\* The steps of an export that leave the deletions alone.
LEMMA OwnStepDues ==
    ASSUME Offered, Orderly, Dues, NEW e \in Exports,
           \/ Queue(e) \/ Ask(e) \/ GiveUp(e) \/ Archive(e) \/ Store(e) \/ Offer(e)
           \/ Succeed(e) \/ OfferNothing(e)
    PROVE  Dues'
<1>0. pc \in [Exports -> Pcs] /\ DOMAIN task = Exports
  BY DEF Offered, Typed, RestTyped
<1>1. /\ drop' = drop
      /\ \A k \in Exports \ {e} : pc'[k] = pc[k] /\ task'[k] = task[k]
      /\ files' \subseteq files \cup {e}
  BY <1>0 DEF Queue, Ask, GiveUp, Archive, Store, Offer, Succeed, OfferNothing, keyVars
<1>2. FileDue(e) /\ TaskDue(e) /\ (pc[e] \in Working => task[e] = "running")
  BY DEF Dues, Orderly, Told
<1>3. e \in files => pc[e] \in {"stored"} \cup WasOffered
  BY DEF Orderly, FilesOfExports
<1>4. FileDue(e)'
  BY <1>0, <1>1, <1>2, <1>3 DEF FileDue, WasOffered, Working, Queue, Ask, GiveUp, Archive,
     Store, Offer, Succeed, OfferNothing
<1>5. TaskDue(e)'
  BY <1>0, <1>1, <1>2 DEF TaskDue, Working, Queue, Ask, GiveUp, Archive, Store, Offer,
     Succeed, OfferNothing
<1> QED
  BY <1>1, <1>4, <1>5, OwnDues

\* Where a deletion begins.
LEMMA BeginDues ==
    ASSUME Offered, Dues, NEW e \in Exports, Begin(e) \/ Timer(e)
    PROVE  Dues'
<1>0. Typed
  BY DEF Offered
<1>1. /\ files' = files
      /\ \A k \in Exports \ {e} : pc'[k] = pc[k] /\ task'[k] = task[k]
  BY <1>0 DEF Begin, Timer, Typed, RestTyped
<1>2. \A k \in Exports \ {e} : /\ drop'[<<"start", k>>] = drop[<<"start", k>>]
                               /\ drop'[<<"timer", k>>] = drop[<<"timer", k>>]
  BY <1>0, KeyIs DEF Begin, Timer, Typed, RestTyped
<1>3. FileDue(e) /\ TaskDue(e)
  BY DEF Dues
<1>4. CASE Begin(e)
  <2>1. task'[e] = "running" /\ pc'[e] \in {"data", "dropping"}
    BY <1>0, <1>4 DEF Begin, Typed, RestTyped
  <2>2. pc'[e] = "dropping" => drop'[<<"start", e>>].pc # "none"
    <3>1. CASE uriKey = Nothing
      BY <1>0, <1>4, <3>1 DEF Begin, Typed, RestTyped
    <3>2. CASE uriKey # Nothing
      <4>1. drop' = [drop EXCEPT ![<<"start", e>>] = [pc |-> "find", of |-> uriKey]]
        BY <1>4, <3>2 DEF Begin
      <4>2. drop'[<<"start", e>>] = [pc |-> "find", of |-> uriKey]
        BY <1>0, <4>1, KeyIs DEF Typed, RestTyped
      <4> QED
        BY <4>2
    <3> QED
      BY <3>1, <3>2
  <2>3. FileDue(e)' /\ TaskDue(e)'
    BY <2>1, <2>2 DEF FileDue, TaskDue, Working
  <2> QED
    BY <1>1, <1>2, <2>3, OwnDues
<1>5. CASE Timer(e)
  <2>1. task' = task /\ pc[e] = "timed" /\ pc'[e] = "ended"
    BY <1>0, <1>5 DEF Timer, Typed, RestTyped
  <2>2. drop'[<<"timer", e>>].pc # "none"
    BY <1>0, <1>5, KeyIs DEF Timer, Typed, RestTyped
  <2>3. FileDue(e)' /\ TaskDue(e)'
    BY <1>3, <2>1, <2>2 DEF FileDue, TaskDue, Working
  <2> QED
    BY <1>1, <1>2, <2>3, OwnDues
<1> QED
  BY <1>4, <1>5

LEMMA StopDues ==
    ASSUME Offered, Dues, NEW e \in Exports, NEW told \in {"revoked", "lost"}, Stop(e, told)
    PROVE  Dues'
<1>0. Typed
  BY DEF Offered
<1>1. /\ files' = files /\ pc'[e] = "killed" /\ task'[e] = told
      /\ \A k \in Exports \ {e} : pc'[k] = pc[k] /\ task'[k] = task[k]
  BY <1>0 DEF Stop, Typed, RestTyped
<1>2. \A k \in Exports \ {e} : /\ drop'[<<"start", k>>] = drop[<<"start", k>>]
                               /\ drop'[<<"timer", k>>] = drop[<<"timer", k>>]
  BY <1>0, KeyIs DEF Stop, Typed, RestTyped
<1>3. FileDue(e)' /\ TaskDue(e)'
  BY <1>1 DEF FileDue, TaskDue
<1> QED
  BY <1>1, <1>2, <1>3, OwnDues

\* A deletion that goes on is still one, one that an export began with lets it go
\* on, and the timer's has no file left to delete.
LEMMA DropDues ==
    ASSUME Offered, Orderly, Dues, NEW k \in Deleters, DropStep(k)
    PROVE  Dues'
<1>0. /\ Typed /\ task' = task /\ k[2] \in Exports
      /\ k = <<"start", k[2]>> \/ k = <<"timer", k[2]>>
  BY DEF Offered, Deleters, DropStep, DropFind, DropKey, DropCommit
<1>1. CASE drop[k].pc # "none" /\ After(k) /\ files' \subseteq files
           /\ drop[k].of \notin files'
  <2>1. \A j \in Deleters : j # k => drop'[j] = drop[j]
    BY <1>0, <1>1 DEF After, Typed, RestTyped
  <2>2. /\ k[1] = "start" => pc[k[2]] = "dropping" /\ pc'[k[2]] = "data"
        /\ k[1] # "start" => pc' = pc
        /\ \A e \in Exports \ {k[2]} : pc'[e] = pc[e]
    <3>1. \/ k[1] # "start" /\ pc' = pc
          \/ k[1] = "start" /\ pc' = [pc EXCEPT ![k[2]] = "data"]
      BY <1>1 DEF After
    <3>2. k[1] = "start" => pc[k[2]] = "dropping"
      BY <1>1 DEF Offered, DropsOffered
    <3>3. pc \in [Exports -> Pcs]
      BY <1>0 DEF Typed, RestTyped
    <3> QED
      BY <1>0, <3>1, <3>2, <3>3
  <2>3. \A e \in Exports \ {k[2]} : /\ drop'[<<"start", e>>] = drop[<<"start", e>>]
                                    /\ drop'[<<"timer", e>>] = drop[<<"timer", e>>]
    <3> SUFFICES ASSUME NEW e \in Exports \ {k[2]}, NEW j \in Deleters, j[2] = e
                 PROVE  drop'[j] = drop[j]
      BY KeyIs, Zenon
    <3> QED
      BY <2>1
  <2>4. FileDue(k[2]) /\ TaskDue(k[2]) /\ Told
    BY <1>0 DEF Dues, Orderly
  <2>5. k = <<"timer", k[2]>> => k[2] \notin files'
    BY <1>0, <1>1 DEF Orderly, TimersEnded
  <2>6. k = <<"start", k[2]>> => drop'[<<"timer", k[2]>>] = drop[<<"timer", k[2]>>]
    BY <1>0, <2>1, KeyIs
  <2>7. k = <<"timer", k[2]>> => drop'[<<"start", k[2]>>] = drop[<<"start", k[2]>>]
    BY <1>0, <2>1, KeyIs
  <2>8. FileDue(k[2])'
    <3>1. CASE k = <<"timer", k[2]>>
      BY <2>5, <3>1 DEF FileDue
    <3>2. CASE k = <<"start", k[2]>>
      BY <1>0, <2>2, <2>4, <3>2 DEF FileDue, Told, Working
    <3> QED
      BY <1>0, <3>1, <3>2
  <2>9. TaskDue(k[2])'
    <3>1. CASE k = <<"timer", k[2]>>
      BY <1>0, <2>2, <2>4, <2>7, <3>1 DEF TaskDue
    <3>2. CASE k = <<"start", k[2]>>
      BY <1>0, <2>2, <2>4, <3>2 DEF TaskDue, Told, Working
    <3> QED
      BY <1>0, <3>1, <3>2
  <2> QED
    BY <1>0, <1>1, <2>2, <2>3, <2>8, <2>9, OwnDues
<1>2. ASSUME NEW to \in {"found", "keyless"}, drop' = [drop EXCEPT ![k].pc = to],
             drop[k].pc # "none", UNCHANGED <<pc, files>>
      PROVE  Dues'
  <2>1. \A j \in Deleters : drop[j].pc # "none" => drop'[j].pc # "none"
    <3> SUFFICES ASSUME NEW j \in Deleters, drop[j].pc # "none" PROVE drop'[j].pc # "none"
      OBVIOUS
    <3>1. drop[j] \in Drops /\ drop'[j] = IF j = k THEN [drop[k] EXCEPT !.pc = to] ELSE drop[j]
      BY <1>0, <1>2 DEF Typed, RestTyped
    <3> QED
      BY <3>1 DEF Drops
  <2> QED
    BY <1>0, <1>2, <2>1, KeyIs DEF Dues, FileDue, TaskDue
<1>3. CASE DropFind(k)
  <2>1. CASE drop[k].of \in files
    <3>1. drop' = [drop EXCEPT ![k].pc = "found"] /\ drop[k].pc # "none"
          /\ UNCHANGED <<pc, files>>
      BY <1>3, <2>1 DEF DropFind
    <3> QED
      BY <1>2, <3>1
  <2>2. CASE drop[k].of \notin files
    BY <1>1, <1>3, <2>2 DEF DropFind
  <2> QED
    BY <2>1, <2>2
<1>4. CASE DropKey(k)
  <2>1. drop' = [drop EXCEPT ![k].pc = "keyless"] /\ drop[k].pc # "none"
        /\ UNCHANGED <<pc, files>>
    BY <1>4 DEF DropKey
  <2> QED
    BY <1>2, <2>1
<1>5. CASE DropCommit(k)
  BY <1>1, <1>5 DEF DropCommit
<1> QED
  BY <1>3, <1>4, <1>5 DEF DropStep

LEMMA SameDues ==
    ASSUME Dues, UNCHANGED <<pc, task, drop, files>>
    PROVE  Dues'
BY DEF Dues, FileDue, TaskDue

LEMMA StepDues ==
    ASSUME Offered, Orderly, Dues, [Next]_exportVars
    PROVE  Dues'
<1>1. ASSUME NEW e \in Exports,
             Query(e) \/ AddItem(e) \/ WritePart(e) \/ WriteLast(e) \/ Retry(e) \/ CacheTask(e)
      PROVE  Dues'
  <2>1. UNCHANGED <<pc, task, drop, files>>
    BY <1>1 DEF Query, AddItem, WritePart, WriteLast, Retry, CacheTask, Step
  <2> QED
    BY <2>1, SameDues
<1>2. ASSUME NEW i \in Items, Register(i) \/ Delete(i) PROVE Dues'
  BY <1>2, SameDues DEF Register, Delete
<1>3. CASE Cancel
  <2>1. taskKey \in Exports
    BY <1>3 DEF Cancel, Offered, Typed, RestTyped
  <2>2. \A e \in Exports : Stop(e, "revoked") => Dues'
    BY StopDues
  <2> QED
    BY <1>3, <2>1, <2>2 DEF Cancel
<1>4. ASSUME NEW e \in Exports, WorkerDies(e) PROVE Dues'
  BY <1>4, StopDues DEF WorkerDies
<1>5. CASE UNCHANGED exportVars
  BY <1>5, SameDues DEF exportVars
<1> QED
  BY <1>1, <1>2, <1>3, <1>4, <1>5, OwnStepDues, BeginDues, DropDues DEF Next, TaskStep

LEMMA InitDues == Init => Dues
BY DEF Init, Dues, FileDue, TaskDue

\* Everything that waits has its next step, for any exports, however they,
\* deletions, cancellations and deaths interleave: the row of an export that
\* ended well has its timer or the timer's deletion until it is gone, and a task
\* the page shows as under way is queued, is at a step of its own or in a
\* deletion that goes on, unless it was lost with its worker. The safety halves
\* of RowsGo and ExportEnds.
THEOREM NothingStuck == Spec => [](Awaited /\ \A e \in Exports : FileDue(e))
<1> DEFINE Inv == Offered /\ Orderly /\ Dues
<1>1. Init => Inv
  BY InitOffered, InitOrderly, InitDues
<1>2. Inv /\ [Next]_exportVars => Inv'
  BY StepOffered, StepOrderly, StepDues
<1>3. Inv => Awaited /\ \A e \in Exports : FileDue(e)
  <2> SUFFICES ASSUME Inv PROVE Awaited /\ \A e \in Exports : FileDue(e)
    OBVIOUS
  <2>1. UnderWay => taskKey \in Exports
    BY DEF UnderWay, Offered, Typed, RestTyped
  <2>2. Dues
    OBVIOUS
  <2>3. UnderWay => TaskDue(taskKey) /\ task[taskKey] \in {"pending", "running", "lost"}
    BY <2>1, <2>2 DEF Dues, UnderWay
  <2> QED
    BY <2>2, <2>3 DEF Awaited, Dues, TaskDue, Working
<1> QED
  BY <1>1, <1>2, <1>3, PTL DEF Spec

-----------------------------------------------------------------------------
(* An archive is complete.                                                 *)

InFiles(d, i) == \E f \in d.csv : i \in f.items

\* Each file holds items of its type, no more than fit, and none of another's.
FilesSound(d) ==
    \A f \in d.csv :
        /\ Cardinality(f.items) <= Limit
        /\ \A i \in f.items : TypeOf[i] = f.type
        /\ \A g \in d.csv : f # g => f.items \cap g.items = {}

\* A type that is not done resumes behind its files: what is written next takes
\* neither the name nor an item of one of them.
ResumesBehind(d) ==
    /\ \A t \in Types : d.resume[t].part >= 1 /\ d.resume[t].counter % Limit = 0
    /\ \A f \in d.csv : f.type \notin d.done =>
        /\ 1 <= f.part /\ f.part < d.resume[f.type].part
        /\ \A i \in f.items : i < d.resume[f.type].from

\* The items fetched for the next file come before those still to be fetched, and
\* the counter is that of the files written and of them.
Fetching(d) ==
    IF d.type = 0 THEN d.todo = {} /\ d.open = {}
    ELSE /\ d.type \notin d.done /\ d.part = d.resume[d.type].part
         /\ \A i \in d.open \cup d.todo : TypeOf[i] = d.type /\ d.resume[d.type].from <= i
         /\ \A i \in d.open : \A j \in d.todo : i < j
         /\ IsFiniteSet(d.open) /\ Cardinality(d.open) <= Limit
         /\ (d.counter - Cardinality(d.open)) % Limit = 0

\* An item that was there all the time is in a file, or its type resumes before
\* it, and it is among the items fetched if that type is being exported.
NoneMissed(d, S) ==
    \A i \in S :
        \/ InFiles(d, i)
        \/ /\ TypeOf[i] \notin d.done /\ d.resume[TypeOf[i]].from <= i
           /\ TypeOf[i] = d.type => i \in d.open \cup d.todo

Sound(d, S) == FilesSound(d) /\ ResumesBehind(d) /\ Fetching(d) /\ NoneMissed(d, S)

Exporting ==
    \A e \in Exports :
        /\ Sound(data[e], steady[e]) /\ steady[e] \subseteq Live
        /\ pc[e] \notin {"data", "archive"} => data[e] = Blank
        /\ pc[e] = "archive" => data[e].type = 0 /\ data[e].done = Types

LEMMA MultipleMod ==
    ASSUME NEW n \in Nat \ {0}, NEW q \in Int
    PROVE  (q * n) % n = 0
OBVIOUS

LEMMA OneLess ==
    ASSUME NEW c \in Nat, NEW n \in Nat \ {0}, (c - n) % n = 0
    PROVE  c % n = 0
<1>1. PICK q \in Int : c - n = q * n
  <2>1. c - n = ((c - n) \div n) * n + ((c - n) % n)
    OBVIOUS
  <2>2. (c - n) \div n \in Int
    OBVIOUS
  <2> QED
    BY <2>1, <2>2
<1>2. c = (q + 1) * n
  BY <1>1
<1> QED
  BY <1>2, MultipleMod

LEMMA BlankSound ==
    ASSUME NEW S \in SUBSET Items
    PROVE  Sound(Blank, S)
<1>1. FilesSound(Blank) /\ Fetching(Blank)
  BY DEF FilesSound, Fetching, Blank
<1>2. 0 % Limit = 0
  BY ExportAssumption
<1>3. ResumesBehind(Blank)
  BY <1>2 DEF ResumesBehind, Blank, First
<1>4. \A i \in S : TypeOf[i] \in Types /\ TypeOf[i] # 0 /\ 1 <= i
  BY ExportAssumption
<1>5. NoneMissed(Blank, S)
  BY <1>4 DEF NoneMissed, Blank, First
<1> QED
  BY <1>1, <1>3, <1>5 DEF Sound

\* A type of which nothing is left.
LEMMA EmptySound ==
    ASSUME NEW d \in Progress, NEW live \in SUBSET Items, NEW S \in SUBSET live, Sound(d, S),
           d.type = 0, d.done # Types, Found(d, live) = {}
    PROVE  Sound(TypeEmpty(d), S)
<1> DEFINE t == NextType(d)
           n == TypeEmpty(d)
<1>1. t \in Types \ d.done
  BY NextTypeIs
<1>2. /\ n.done = d.done \cup {t} /\ n.type = d.type /\ n.todo = d.todo /\ n.open = d.open
      /\ n.csv = d.csv /\ n.resume = d.resume
  BY DEF TypeEmpty, Progress
<1> HIDE DEF n, t
<1>3. FilesSound(n) /\ ResumesBehind(n) /\ Fetching(n)
  BY <1>2 DEF Sound, FilesSound, ResumesBehind, Fetching
<1>4. NoneMissed(n, S)
  <2> SUFFICES ASSUME NEW i \in S, ~InFiles(n, i)
               PROVE  /\ TypeOf[i] \notin n.done /\ n.resume[TypeOf[i]].from <= i
                      /\ TypeOf[i] = n.type => i \in n.open \cup n.todo
    BY DEF NoneMissed
  <2>1. ~InFiles(d, i)
    BY <1>2 DEF InFiles
  <2>2. /\ TypeOf[i] \notin d.done /\ d.resume[TypeOf[i]].from <= i
        /\ TypeOf[i] = d.type => i \in d.open \cup d.todo
    BY <2>1 DEF Sound, NoneMissed
  <2>3. TypeOf[i] # t
    <3>1. d.resume[t].from \in Nat /\ i \in Nat
      BY <1>1, ExportAssumption DEF Progress, Resumes
    <3> QED
      BY <2>2, <3>1 DEF Found, t
  <2> QED
    BY <1>2, <2>2, <2>3
<1> QED
  BY <1>3, <1>4 DEF Sound, n

\* The items of the next type, from where it resumes.
LEMMA BegunSound ==
    ASSUME NEW d \in Progress, NEW live \in SUBSET Items, NEW S \in SUBSET live, Sound(d, S),
           d.type = 0, d.done # Types
    PROVE  Sound(TypeBegun(d, live), S)
<1> DEFINE t == NextType(d)
           n == TypeBegun(d, live)
<1>1. t \in Types \ d.done /\ t # 0
  BY NextTypeIs, ExportAssumption
<1>2. /\ n.done = d.done /\ n.type = t /\ n.todo = Found(d, live) /\ n.open = {}
      /\ n.csv = d.csv /\ n.resume = d.resume
      /\ n.counter = d.resume[t].counter /\ n.part = d.resume[t].part
  BY DEF TypeBegun, Progress
<1>3. /\ d.resume[t].from \in Nat /\ d.resume[t].counter \in Nat
  BY <1>1 DEF Progress, Resumes
<1>4. \A i \in Found(d, live) : TypeOf[i] = t /\ d.resume[t].from <= i
  BY <1>3, ExportAssumption DEF Found
<1>5. \A i \in live : TypeOf[i] = t /\ d.resume[t].from <= i => i \in Found(d, live)
  BY <1>3, ExportAssumption DEF Found
<1> HIDE DEF n, t
<1>6. FilesSound(n) /\ ResumesBehind(n)
  BY <1>2 DEF Sound, FilesSound, ResumesBehind
<1>7. Fetching(n)
  <2>1. IsFiniteSet({}) /\ Cardinality({}) = 0
    BY FS_EmptySet
  <2>2. (n.counter - Cardinality(n.open)) % Limit = 0 /\ Cardinality(n.open) <= Limit
    BY <1>1, <1>2, <1>3, <2>1, ExportAssumption DEF Sound, ResumesBehind
  <2> QED
    BY <1>1, <1>2, <1>4, <2>1, <2>2 DEF Fetching
<1>8. NoneMissed(n, S)
  BY <1>2, <1>5 DEF Sound, NoneMissed, InFiles
<1> QED
  BY <1>6, <1>7, <1>8 DEF Sound, n

\* One item more for the file, which has room for it.
LEMMA AddedSound ==
    ASSUME NEW d \in Progress, NEW S \in SUBSET Items, Sound(d, S), d.todo # {}, ~Full(d)
    PROVE  Sound(Added(d), S)
<1> DEFINE i == LeastOf(d.todo)
           n == Added(d)
<1>1. i \in d.todo /\ \A j \in d.todo : i <= j
  BY NextItemIs
<1>2. /\ n.done = d.done /\ n.type = d.type /\ n.todo = d.todo \ {i} /\ n.open = d.open \cup {i}
      /\ n.csv = d.csv /\ n.resume = d.resume
      /\ n.counter = d.counter + 1 /\ n.part = d.part
  BY DEF Added, Progress
<1>3. d.todo \subseteq Nat /\ d.open \subseteq Nat
  BY ExportAssumption DEF Progress
<1> HIDE DEF n, i
<1>4. FilesSound(n) /\ ResumesBehind(n)
  BY <1>2 DEF Sound, FilesSound, ResumesBehind
<1>5. d.type # 0 /\ Fetching(d)
  BY DEF Sound, Fetching
<1>6. Fetching(n)
  <2>1. n.type # 0 /\ n.type \notin n.done /\ n.part = n.resume[n.type].part
    BY <1>2, <1>5 DEF Fetching
  <2>2. \A j \in n.open \cup n.todo : TypeOf[j] = n.type /\ n.resume[n.type].from <= j
    BY <1>1, <1>2, <1>5 DEF Fetching
  <2>3. \A j \in n.open : \A k \in n.todo : j < k
    BY <1>1, <1>2, <1>3, <1>5 DEF Fetching
  <2>4. i \notin d.open
    BY <1>1, <1>3, <1>5 DEF Fetching
  <2>5. /\ IsFiniteSet(n.open) /\ Cardinality(n.open) = Cardinality(d.open) + 1
        /\ Cardinality(d.open) \in Nat
    BY <1>2, <1>5, <2>4, FS_AddElement, FS_CardinalityType DEF Fetching
  <2>6. (n.counter - Cardinality(n.open)) % Limit = 0
    <3>1. n.counter - Cardinality(n.open) = d.counter - Cardinality(d.open)
      BY <1>2, <2>5 DEF Progress
    <3> QED
      BY <1>5, <3>1 DEF Fetching
  <2>7. Cardinality(n.open) <= Limit
    <3>1. CASE d.open = {}
      BY <2>5, <3>1, FS_EmptySet, ExportAssumption
    <3>2. CASE d.counter % Limit # 0
      <4>1. Cardinality(d.open) # Limit
        <5> SUFFICES ASSUME Cardinality(d.open) = Limit PROVE FALSE
          OBVIOUS
        <5>1. (d.counter - Limit) % Limit = 0
          BY <1>5 DEF Fetching
        <5>2. d.counter \in Nat /\ Limit \in Nat \ {0}
          BY ExportAssumption DEF Progress
        <5> QED
          BY <3>2, <5>1, <5>2, OneLess
      <4> QED
        BY <1>5, <2>5, <4>1, ExportAssumption DEF Fetching
    <3> QED
      BY <3>1, <3>2 DEF Full
  <2> QED
    BY <2>1, <2>2, <2>3, <2>5, <2>6, <2>7 DEF Fetching
<1>7. NoneMissed(n, S)
  BY <1>1, <1>2 DEF Sound, NoneMissed, InFiles
<1> QED
  BY <1>4, <1>6, <1>7 DEF Sound, n

\* What is written to a name that no file of the type has yet.
LEMMA WrittenSound ==
    ASSUME NEW d \in Progress, NEW S, Sound(d, S), d.type # 0, NEW name,
           \A f \in d.csv : f.type = d.type => f.part # name
    PROVE  LET f == [type |-> d.type, part |-> name, items |-> d.open]
           IN /\ Written(d, name) = d.csv \cup {f}
              /\ \A g, h \in d.csv \cup {f} :
                    /\ Cardinality(g.items) <= Limit
                    /\ \A i \in g.items : TypeOf[i] = g.type
                    /\ g # h => g.items \cap h.items = {}
<1> DEFINE f == [type |-> d.type, part |-> name, items |-> d.open]
<1>1. Written(d, name) = d.csv \cup {f}
  <2>1. {g \in d.csv : <<g.type, g.part>> # <<d.type, name>>} = d.csv
    OBVIOUS
  <2> QED
    BY <2>1 DEF Written
<1>2. f.type = d.type /\ f.part = name /\ f.items = d.open
  OBVIOUS
<1> HIDE DEF f
<1>3. Fetching(d) /\ FilesSound(d) /\ ResumesBehind(d)
  BY DEF Sound
<1>4. Cardinality(f.items) <= Limit /\ \A i \in f.items : TypeOf[i] = f.type
  BY <1>2, <1>3 DEF Fetching
<1>5. \A g \in d.csv : g.items \cap f.items = {}
  <2> SUFFICES ASSUME NEW g \in d.csv, NEW i \in g.items, i \in f.items PROVE FALSE
    OBVIOUS
  <2>1. TypeOf[i] = g.type /\ TypeOf[i] = d.type /\ d.resume[d.type].from <= i
    BY <1>2, <1>3 DEF FilesSound, Fetching
  <2>2. i < d.resume[d.type].from
    BY <1>3, <2>1 DEF ResumesBehind, Fetching
  <2>3. i \in Nat /\ d.resume[d.type].from \in Nat
    BY <1>2, ExportAssumption DEF Progress, Resumes
  <2> QED
    BY <2>1, <2>2, <2>3
<1>6. \A g, h \in d.csv \cup {f} :
         /\ Cardinality(g.items) <= Limit
         /\ \A i \in g.items : TypeOf[i] = g.type
         /\ g # h => g.items \cap h.items = {}
  BY <1>3, <1>4, <1>5 DEF FilesSound
<1> QED
  BY <1>1, <1>6 DEF f

\* A full file: its type resumes with the next item.
LEMMA PartSound ==
    ASSUME NEW d \in Progress, NEW S \in SUBSET Items, Sound(d, S), d.todo # {}, Full(d)
    PROVE  Sound(PartWritten(d), S)
<1> DEFINE t == d.type
           next == LeastOf(d.todo)
           n == PartWritten(d)
           f == [type |-> t, part |-> d.part, items |-> d.open]
<1>0. t # 0 /\ t \in Types /\ Fetching(d) /\ ResumesBehind(d)
  BY DEF Sound, Fetching, Progress
<1>1. next \in d.todo /\ (\A j \in d.todo : next <= j) /\ next \in Nat
  BY NextItemIs, ExportAssumption DEF Progress
<1>2. \A g \in d.csv : g.type = t => g.part # d.part
  <2>1. d.part \in Nat /\ \A g \in d.csv : g.part \in Nat
    BY DEF Progress, CsvFiles
  <2> QED
    BY <1>0, <2>1 DEF Fetching, ResumesBehind
<1>3. /\ n.done = d.done /\ n.type = t /\ n.todo = d.todo /\ n.open = {}
      /\ n.csv = Written(d, d.part) /\ n.counter = d.counter /\ n.part = d.part + 1
      /\ n.resume = [d.resume EXCEPT ![t] =
             [counter |-> d.counter, part |-> d.part + 1, from |-> next]]
  BY DEF PartWritten, Progress
<1>4. /\ n.resume[t].counter = d.counter /\ n.resume[t].part = d.part + 1
      /\ n.resume[t].from = next
      /\ \A u \in Types : u # t => n.resume[u] = d.resume[u]
  BY <1>0, <1>3 DEF Progress
<1>5. /\ n.csv = d.csv \cup {f}
      /\ \A g, h \in d.csv \cup {f} :
            /\ Cardinality(g.items) <= Limit
            /\ \A i \in g.items : TypeOf[i] = g.type
            /\ g # h => g.items \cap h.items = {}
  BY <1>0, <1>2, <1>3, WrittenSound
<1>6. f.type = t /\ f.part = d.part /\ f.items = d.open
  OBVIOUS
<1> HIDE DEF n, f, next
<1>7. FilesSound(n)
  BY <1>5 DEF FilesSound
<1>8. d.part = d.resume[t].part /\ 1 <= d.part /\ d.part \in Nat /\ d.resume[t].from <= next
  BY <1>0, <1>1 DEF Fetching, ResumesBehind, Progress
<1>9. ResumesBehind(n)
  <2>1. \A u \in Types : n.resume[u].part >= 1 /\ n.resume[u].counter % Limit = 0
    <3>1. d.counter % Limit = 0
      BY DEF Full
    <3> QED
      BY <1>0, <1>4, <1>8, <3>1 DEF ResumesBehind
  <2>2. ASSUME NEW g \in n.csv, g.type \notin n.done
        PROVE  /\ 1 <= g.part /\ g.part < n.resume[g.type].part
               /\ \A i \in g.items : i < n.resume[g.type].from
    <3>1. CASE g = f
      <4>1. \A i \in g.items : i < next
        BY <1>0, <1>1, <1>6, <3>1 DEF Fetching
      <4> QED
        BY <1>4, <1>6, <1>8, <3>1, <4>1
    <3>2. CASE g # f
      <4>1. g \in d.csv /\ g.type \in Types /\ g.part \in Nat /\ g.items \subseteq Nat
        BY <1>5, <2>2, <3>2, ExportAssumption DEF Progress, CsvFiles
      <4>2. /\ 1 <= g.part /\ g.part < d.resume[g.type].part
            /\ \A i \in g.items : i < d.resume[g.type].from
        BY <1>0, <1>3, <2>2, <4>1 DEF ResumesBehind
      <4>3. d.resume[t].from \in Nat
        BY <1>0 DEF Progress, Resumes
      <4>4. CASE g.type = t
        BY <1>1, <1>4, <1>8, <4>1, <4>2, <4>3, <4>4
      <4>5. CASE g.type # t
        BY <1>4, <4>1, <4>2, <4>5
      <4> QED
        BY <4>4, <4>5
    <3> QED
      BY <3>1, <3>2
  <2> QED
    BY <2>1, <2>2 DEF ResumesBehind
<1>10. Fetching(n)
  <2>1. IsFiniteSet({}) /\ Cardinality({}) = 0
    BY FS_EmptySet
  <2>2. d.counter - 0 = d.counter /\ d.counter % Limit = 0 /\ 0 <= Limit
    BY ExportAssumption DEF Full, Progress
  <2>3. t \notin d.done /\ \A i \in d.todo : TypeOf[i] = t /\ next <= i
    BY <1>0, <1>1 DEF Fetching
  <2> QED
    BY <1>0, <1>3, <1>4, <2>1, <2>2, <2>3 DEF Fetching
<1>11. NoneMissed(n, S)
  <2> SUFFICES ASSUME NEW i \in S, ~InFiles(n, i)
               PROVE  /\ TypeOf[i] \notin n.done /\ n.resume[TypeOf[i]].from <= i
                      /\ TypeOf[i] = n.type => i \in n.open \cup n.todo
    BY DEF NoneMissed
  <2>1. ~InFiles(d, i) /\ i \notin d.open
    BY <1>5, <1>6 DEF InFiles
  <2>2. /\ TypeOf[i] \notin d.done /\ d.resume[TypeOf[i]].from <= i
        /\ TypeOf[i] = t => i \in d.todo
    BY <2>1 DEF Sound, NoneMissed
  <2>3. TypeOf[i] \in Types
    BY ExportAssumption
  <2> QED
    BY <1>1, <1>3, <1>4, <2>2, <2>3
<1> QED
  BY <1>7, <1>9, <1>10, <1>11 DEF Sound, n

\* The last file of a type.
LEMMA LastSound ==
    ASSUME NEW d \in Progress, NEW S \in SUBSET Items, Sound(d, S), d.type # 0, d.todo = {}
    PROVE  Sound(LastWritten(d), S)
<1> DEFINE t == d.type
           n == LastWritten(d)
           f == [type |-> t, part |-> LastName(d), items |-> d.open]
<1>0. Fetching(d) /\ ResumesBehind(d) /\ t \in Types
  BY DEF Sound, Progress
<1>1. \A g \in d.csv : g.type = t => g.part # LastName(d)
  <2>1. d.part \in Nat /\ \A g \in d.csv : g.part \in Nat
    BY DEF Progress, CsvFiles
  <2> QED
    BY <1>0, <2>1 DEF Fetching, ResumesBehind, LastName
<1>2. /\ n.done = d.done \cup {t} /\ n.type = 0 /\ n.todo = {} /\ n.open = {}
      /\ n.csv = Written(d, LastName(d)) /\ n.resume = d.resume
  BY DEF LastWritten, Progress
<1>3. /\ n.csv = d.csv \cup {f}
      /\ \A g, h \in d.csv \cup {f} :
            /\ Cardinality(g.items) <= Limit
            /\ \A i \in g.items : TypeOf[i] = g.type
            /\ g # h => g.items \cap h.items = {}
  BY <1>1, <1>2, WrittenSound
<1>4. f.type = t /\ f.items = d.open
  OBVIOUS
<1> HIDE DEF n, f
<1>5. FilesSound(n) /\ Fetching(n)
  BY <1>2, <1>3 DEF FilesSound, Fetching
<1>6. ResumesBehind(n)
  BY <1>0, <1>2, <1>3, <1>4 DEF ResumesBehind
<1>7. NoneMissed(n, S)
  <2> SUFFICES ASSUME NEW i \in S, ~InFiles(n, i)
               PROVE  /\ TypeOf[i] \notin n.done /\ n.resume[TypeOf[i]].from <= i
                      /\ TypeOf[i] = n.type => i \in n.open \cup n.todo
    BY DEF NoneMissed
  <2>1. ~InFiles(d, i) /\ i \notin d.open
    BY <1>3, <1>4 DEF InFiles
  <2>2. /\ TypeOf[i] \notin d.done /\ d.resume[TypeOf[i]].from <= i /\ TypeOf[i] # t
    BY <2>1 DEF Sound, NoneMissed
  <2>3. TypeOf[i] # 0
    BY ExportAssumption
  <2> QED
    BY <1>2, <2>2, <2>3
<1> QED
  BY <1>5, <1>6, <1>7 DEF Sound, n

\* After an error the type starts again from where it resumes.
LEMMA RetriedSound ==
    ASSUME NEW d \in Progress, NEW S \in SUBSET Items, Sound(d, S)
    PROVE  Sound(Retried(d), S)
<1> DEFINE n == Retried(d)
<1>1. /\ n.done = d.done /\ n.type = 0 /\ n.todo = {} /\ n.open = {}
      /\ n.csv = d.csv /\ n.resume = d.resume
  BY DEF Retried, Progress
<1> HIDE DEF n
<1>2. \A i \in S : TypeOf[i] # 0
  BY ExportAssumption
<1>3. FilesSound(n) /\ ResumesBehind(n) /\ Fetching(n)
  BY <1>1 DEF Sound, FilesSound, ResumesBehind, Fetching
<1>4. NoneMissed(n, S)
  BY <1>1, <1>2 DEF Sound, NoneMissed, InFiles
<1> QED
  BY <1>3, <1>4 DEF Sound, n

-----------------------------------------------------------------------------
Kept == Typed /\ Exporting

\* The part of Exporting that is about one export.
ExportOf(e) ==
    /\ Sound(data[e], steady[e]) /\ steady[e] \subseteq Live
    /\ pc[e] \notin {"data", "archive"} => data[e] = Blank
    /\ pc[e] = "archive" => data[e].type = 0 /\ data[e].done = Types

\* Of an export that a step leaves alone, or that only goes on.
LEMMA SameExport ==
    ASSUME NEW e \in Exports, ExportOf(e), data'[e] = data[e], steady'[e] = steady[e],
           item' = item,
           \/ pc'[e] = pc[e]
           \/ data[e] = Blank /\ pc'[e] # "archive"
    PROVE  ExportOf(e)'
<1>1. Live' = Live
  BY DEF Live
<1>2. Sound(data'[e], steady'[e])
  BY DEF ExportOf
<1> QED
  BY <1>1, <1>2 DEF ExportOf

LEMMA GatherKept ==
    ASSUME Kept, NEW e \in Exports,
           Query(e) \/ AddItem(e) \/ WritePart(e) \/ WriteLast(e) \/ Retry(e)
    PROVE  Kept'
<1>0. Typed /\ Typed' /\ \A k \in Exports : ExportOf(k)
  BY GatherTyped DEF Kept, Exporting, ExportOf
<1>1. /\ UNCHANGED <<pc, steady, item>> /\ pc[e] = "data"
      /\ \A k \in Exports : k # e => data'[k] = data[k]
  BY <1>0 DEF Query, AddItem, WritePart, WriteLast, Retry, Step, Typed
<1>2. data[e] \in Progress /\ steady[e] \in SUBSET Items /\ Live \in SUBSET Items
  BY <1>0 DEF Typed, RestTyped, Live
<1>3. Sound(data[e], steady[e]) /\ steady[e] \in SUBSET Live
  BY <1>0 DEF ExportOf
<1>4. \A d : Step(e, d) => data'[e] = d
  BY <1>0 DEF Step, Typed
<1>5. Sound(data'[e], steady[e])
  <2>1. CASE Query(e)
    BY <1>2, <1>3, <1>4, <2>1, StepsAre, EmptySound, BegunSound
  <2>2. CASE AddItem(e)
    BY <1>2, <1>3, <1>4, <2>2, StepsAre, AddedSound
  <2>3. CASE WritePart(e)
    BY <1>2, <1>3, <1>4, <2>3, StepsAre, PartSound
  <2>4. CASE WriteLast(e)
    BY <1>2, <1>3, <1>4, <2>4, StepsAre, LastSound
  <2>5. CASE Retry(e)
    BY <1>2, <1>3, <1>4, <2>5, StepsAre, RetriedSound
  <2> QED
    BY <2>1, <2>2, <2>3, <2>4, <2>5
<1>6. ExportOf(e)'
  <2>1. Live' = Live /\ steady'[e] = steady[e] /\ pc'[e] = "data"
    BY <1>1 DEF Live
  <2> QED
    BY <1>3, <1>5, <2>1 DEF ExportOf
<1>7. \A k \in Exports : k # e => ExportOf(k)'
  BY <1>0, <1>1, SameExport
<1> QED
  BY <1>0, <1>6, <1>7 DEF Kept, Exporting, ExportOf

\* An export that is over remembers nothing.
LEMMA ForgetKept ==
    ASSUME Kept, Typed', NEW e \in Exports, NEW to, to # "archive", Forget(e),
           pc' = [pc EXCEPT ![e] = to], item' = item
    PROVE  Kept'
<1>0. Typed /\ \A k \in Exports : ExportOf(k)
  BY DEF Kept, Exporting, ExportOf
<1>1. /\ data'[e] = Blank /\ steady'[e] = {} /\ pc'[e] = to
      /\ \A k \in Exports : k # e =>
            data'[k] = data[k] /\ steady'[k] = steady[k] /\ pc'[k] = pc[k]
  BY <1>0 DEF Forget, Typed, RestTyped
<1>2. Sound(Blank, {})
  BY BlankSound
<1>3. ExportOf(e)'
  BY <1>1, <1>2 DEF ExportOf
<1>4. \A k \in Exports : k # e => ExportOf(k)'
  BY <1>0, <1>1, SameExport
<1> QED
  BY <1>3, <1>4 DEF Kept, Exporting, ExportOf

\* A step of one export that has no data.
LEMMA IdleKept ==
    ASSUME Kept, Typed', NEW e \in Exports, NEW to, to # "archive",
           pc' = [pc EXCEPT ![e] = to], data[e] = Blank, UNCHANGED <<item, data, steady>>
    PROVE  Kept'
<1>0. Typed /\ \A k \in Exports : ExportOf(k)
  BY DEF Kept, Exporting, ExportOf
<1>1. pc'[e] = to /\ \A k \in Exports : k # e => pc'[k] = pc[k]
  BY <1>0 DEF Typed, RestTyped
<1>2. ExportOf(e)'
  BY <1>0, <1>1, SameExport
<1>3. \A k \in Exports : k # e => ExportOf(k)'
  BY <1>0, <1>1, SameExport
<1> QED
  BY <1>2, <1>3 DEF Kept, Exporting, ExportOf

\* A step that no export's data nor items are part of.
LEMMA AllSame ==
    ASSUME Kept, Typed', UNCHANGED <<pc, item, data, steady>>
    PROVE  Kept'
<1>0. \A k \in Exports : ExportOf(k)
  BY DEF Kept, Exporting, ExportOf
<1>1. \A k \in Exports : ExportOf(k)'
  BY <1>0, SameExport
<1> QED
  BY <1>1 DEF Kept, Exporting, ExportOf

LEMMA BlankOutside ==
    ASSUME Kept, NEW e \in Exports, pc[e] \notin {"data", "archive"}
    PROVE  data[e] = Blank
BY DEF Kept, Exporting

LEMMA PageKept ==
    ASSUME Kept, NEW e \in Exports, Ask(e) \/ Queue(e) \/ CacheTask(e)
    PROVE  Kept'
<1>0. Typed'
  BY PageTyped DEF Kept
<1>1. CASE Ask(e)
  BY <1>0, <1>1, BlankOutside, IdleKept DEF Ask
<1>2. CASE Queue(e)
  BY <1>0, <1>2, BlankOutside, IdleKept DEF Queue
<1>3. CASE CacheTask(e)
  BY <1>0, <1>3, AllSame DEF CacheTask
<1> QED
  BY <1>1, <1>2, <1>3

LEMMA KilledKept ==
    ASSUME Kept, Cancel \/ \E e \in Exports : WorkerDies(e)
    PROVE  Kept'
<1>0. Typed' /\ Typed
  BY KilledTyped DEF Kept
<1>1. PICK e \in Exports, told \in {"revoked", "lost"} : Stop(e, told)
  BY <1>0 DEF Cancel, WorkerDies, Typed, RestTyped
<1> QED
  BY <1>0, <1>1, ForgetKept DEF Stop

LEMMA DropKept ==
    ASSUME Kept, NEW k \in Deleters, DropStep(k),
           drop[k].pc # "none" /\ k[1] = "start" => pc[k[2]] = "dropping"
    PROVE  Kept'
<1>0. Typed' /\ k[2] \in Exports
  BY DropTyped DEF Kept, Deleters
<1>1. UNCHANGED <<item, data, steady>> /\ drop[k].pc # "none"
  BY DEF DropStep, DropFind, DropKey, DropCommit
<1>2. pc' = pc \/ (k[1] = "start" /\ pc' = [pc EXCEPT ![k[2]] = "data"])
  BY DEF DropStep, DropFind, DropKey, DropCommit, After
<1>3. CASE pc' = pc
  BY <1>0, <1>1, <1>3, AllSame
<1>4. CASE k[1] = "start" /\ pc' = [pc EXCEPT ![k[2]] = "data"]
  BY <1>0, <1>1, <1>4, BlankOutside, IdleKept
<1> QED
  BY <1>2, <1>3, <1>4

LEMMA BeginKept ==
    ASSUME Kept, NEW e \in Exports, Begin(e)
    PROVE  Kept'
<1>0. Typed /\ Typed' /\ \A k \in Exports : ExportOf(k)
  BY BeginTyped DEF Kept, Exporting, ExportOf
<1>1. /\ UNCHANGED <<item, data>> /\ steady' = [steady EXCEPT ![e] = Live]
      /\ data[e] = Blank /\ Live' = Live
  BY BlankOutside DEF Begin, Live
<1>2. \A k \in Exports :
         /\ k # e => pc'[k] = pc[k] /\ steady'[k] = steady[k]
         /\ pc'[e] \in {"data", "dropping"} /\ steady'[e] = Live
  BY <1>0, <1>1 DEF Begin, Typed, RestTyped
<1>3. Sound(Blank, Live) /\ Live \in SUBSET Items
  <2>1. Live \in SUBSET Items
    BY DEF Live
  <2> QED
    BY <2>1, BlankSound
<1>4. ExportOf(e)'
  BY <1>1, <1>2, <1>3 DEF ExportOf
<1>5. \A k \in Exports : k # e => ExportOf(k)'
  BY <1>0, <1>1, <1>2, SameExport
<1> QED
  BY <1>0, <1>4, <1>5 DEF Kept, Exporting, ExportOf

LEMMA ArchiveKept ==
    ASSUME Kept, NEW e \in Exports, Archive(e)
    PROVE  Kept'
<1>0. Typed /\ Typed' /\ \A k \in Exports : ExportOf(k)
  BY EndTyped DEF Kept, Exporting, ExportOf
<1>1. /\ UNCHANGED <<item, data, steady>> /\ data[e].type = 0 /\ data[e].done = Types
      /\ pc' = [pc EXCEPT ![e] = "archive"]
  BY DEF Archive
<1>2. pc'[e] = "archive" /\ \A k \in Exports : k # e => pc'[k] = pc[k]
  BY <1>0, <1>1 DEF Typed, RestTyped
<1>3. ExportOf(e)'
  <2>1. Live' = Live
    BY <1>1 DEF Live
  <2> QED
    BY <1>0, <1>1, <1>2, <2>1 DEF ExportOf
<1>4. \A k \in Exports : k # e => ExportOf(k)'
  BY <1>0, <1>1, <1>2, SameExport
<1> QED
  BY <1>0, <1>3, <1>4 DEF Kept, Exporting, ExportOf

LEMMA EndKept ==
    ASSUME Kept, NEW e \in Exports,
           Timer(e) \/ GiveUp(e) \/ Store(e) \/ Offer(e) \/ Succeed(e) \/ OfferNothing(e)
    PROVE  Kept'
<1>0. Typed'
  BY EndTyped DEF Kept
<1>1. CASE GiveUp(e)
  BY <1>0, <1>1, ForgetKept DEF GiveUp
<1>2. CASE Store(e)
  BY <1>0, <1>2, ForgetKept DEF Store
<1>3. CASE Timer(e)
  BY <1>0, <1>3, BlankOutside, IdleKept DEF Timer
<1>4. CASE Offer(e)
  BY <1>0, <1>4, BlankOutside, IdleKept DEF Offer
<1>5. CASE Succeed(e)
  BY <1>0, <1>5, BlankOutside, IdleKept DEF Succeed
<1>6. CASE OfferNothing(e)
  BY <1>0, <1>6, BlankOutside, IdleKept DEF OfferNothing
<1> QED
  BY <1>1, <1>2, <1>3, <1>4, <1>5, <1>6

\* An item registered during an export need not be in it; one that is deleted is
\* no longer asked for.
LEMMA ItemKept ==
    ASSUME Kept, NEW i \in Items, Register(i) \/ Delete(i)
    PROVE  Kept'
<1>0. Typed /\ Typed' /\ \A e \in Exports : ExportOf(e)
  BY ItemTyped DEF Kept, Exporting, ExportOf
<1>1. UNCHANGED <<pc, data>>
  BY DEF Register, Delete
<1>2. ASSUME NEW e \in Exports
      PROVE  steady'[e] \subseteq steady[e] /\ steady'[e] \subseteq Live'
  <2>1. steady[e] \subseteq Live
    BY <1>0 DEF ExportOf
  <2>2. CASE Register(i)
    <3>1. steady' = steady /\ item' = [item EXCEPT ![i] = "live"]
      BY <2>2 DEF Register
    <3>2. Live \subseteq Live'
      BY <1>0, <3>1 DEF Live, Typed, RestTyped
    <3> QED
      BY <2>1, <3>1, <3>2
  <2>3. CASE Delete(i)
    <3>1. steady'[e] = steady[e] \ {i} /\ item' = [item EXCEPT ![i] = "deleted"]
      BY <2>3 DEF Delete
    <3>2. Live \ {i} \subseteq Live'
      BY <1>0, <3>1 DEF Live, Typed, RestTyped
    <3> QED
      BY <2>1, <3>1, <3>2
  <2> QED
    BY <2>2, <2>3
<1>3. ASSUME NEW e \in Exports PROVE ExportOf(e)'
  <2>1. NoneMissed(data[e], steady'[e])
    BY <1>0, <1>2 DEF ExportOf, Sound, NoneMissed
  <2>2. Sound(data'[e], steady'[e])
    BY <1>0, <1>1, <2>1 DEF ExportOf, Sound
  <2> QED
    BY <1>0, <1>1, <1>2, <2>2 DEF ExportOf
<1> QED
  BY <1>0, <1>3 DEF Kept, Exporting, ExportOf

LEMMA StepKept == Offered /\ Kept /\ [Next]_exportVars => Kept'
<1> SUFFICES ASSUME Offered, Kept, [Next]_exportVars PROVE Kept'
  OBVIOUS
<1>1. CASE UNCHANGED exportVars
  <2>1. Typed'
    BY StepTyped DEF Kept
  <2> QED
    BY <1>1, <2>1, AllSame DEF exportVars
<1>2. ASSUME NEW k \in Deleters, DropStep(k) PROVE Kept'
  BY <1>2, DropKept DEF Offered, DropsOffered
<1> QED
  BY <1>1, <1>2, PageKept, KilledKept, BeginKept, ArchiveKept, EndKept, ItemKept, GatherKept
     DEF Next, TaskStep

LEMMA InitKept == Init => Kept
<1> SUFFICES ASSUME Init PROVE Kept
  OBVIOUS
<1>1. \A e \in Exports : data[e] = Blank /\ steady[e] = {} /\ pc[e] = "none"
  BY DEF Init
<1>2. Sound(Blank, {})
  BY BlankSound
<1> QED
  BY <1>1, <1>2, InitTyped DEF Kept, Exporting

\* An archive holds every item that was there from the beginning of the export to
\* its end, in one file and one only, with no more than fit, whatever the number
\* of items, types and errors survived, and whatever is registered and deleted
\* while it is made.
THEOREM ArchiveComplete == Spec => []Complete
<1>1. Kept => Complete
  <2> SUFFICES ASSUME Kept, NEW e \in Exports, pc[e] = "archive"
               PROVE  /\ \A i \in steady[e] : \E f \in data[e].csv : i \in f.items
                      /\ \A f \in data[e].csv :
                          /\ Cardinality(f.items) <= Limit
                          /\ \A i \in f.items : TypeOf[i] = f.type
                          /\ \A g \in data[e].csv : f # g => f.items \cap g.items = {}
    BY DEF Complete
  <2>1. Sound(data[e], steady[e]) /\ data[e].done = Types /\ steady[e] \subseteq Items
    BY DEF Kept, Exporting, Live
  <2>2. \A i \in steady[e] : TypeOf[i] \in data[e].done
    BY <2>1, ExportAssumption
  <2>3. \A i \in steady[e] : \E f \in data[e].csv : i \in f.items
    BY <2>1, <2>2 DEF Sound, NoneMissed, InFiles
  <2> QED
    BY <2>1, <2>3 DEF Sound, FilesSound
<1> QED
  BY InitOffered, StepOffered, InitKept, StepKept, <1>1, PTL DEF Spec

===============================================================================
