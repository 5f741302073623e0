--------------------------- MODULE ActivityProofs ---------------------------
(***************************************************************************)
(* Theorems about Activity, for every flow. Typed is inductive with any    *)
(* number of workers, any faults and pages out of date.                    *)
(***************************************************************************)
EXTENDS Activity, TLAPS

\* What FlowAssumption says of the flow, ready to be used.
LEMMA FlowFacts ==
    /\ Last \in Nat /\ Last >= 3
    /\ Orders = 1 .. Last
    /\ \A o \in Orders : /\ Flow[o] \in Endpoints
                         /\ Flow[o] = "begin" <=> o = 1
                         /\ Flow[o] = "end" <=> o = Last
    /\ Flow[2] = "item_login"
BY FlowAssumption DEF Last, Orders

NextPcs == {"next_history", "next_status", "next_move", "next_doing"}
PrevPcs == {"prev_status", "prev_doing", "prev_move"}
StopPcs == {"cancel_status", "quit"}

\* Where a request stands in the flow: there is a step after it, or before.
\* Only an administrator's names the end where the activity has not come to it.
Bounded(w, r) ==
    /\ r.pc \in NextPcs => r.snap.order < Last
    /\ r.pc = "next_move" => r.snap.order + 1 < Last
    /\ r.pc = "prev_history" => r.action \notin {"begin", "end"}
    /\ r.pc \in PrevPcs /\ r.back = "reject" => r.snap.order > 1
    /\ r.pc = "cancel_clear" => r.action # "end"
    /\ r.pc \in StopPcs => r.snap.order < Last
    /\ r.pc = "end_named" => w \in Admins \/ r.snap.order = Last

Typed ==
    /\ TypeOK
    /\ "end" \notin pages
    /\ \A w \in Workers : req[w] # Idle => Bounded(w, req[w])

\* A request keeps its type when its program counter moves on.
LEMMA GotoTyped ==
    ASSUME TypeOK, NEW w \in Workers, req[w] # Idle, NEW STATE pc, pc \in Pcs \ {"idle"}, Goto(w, pc)
    PROVE  /\ req' \in [Workers -> Requests \cup {Idle}]
           /\ req' = [req EXCEPT ![w] = [req[w] EXCEPT !.pc = pc]]
           /\ req[w] \in Requests
           /\ req'[w] = [req[w] EXCEPT !.pc = pc]
           /\ \A x \in Workers : x # w => req'[x] = req[x]
<1>1. req[w] \in Requests
  BY DEF TypeOK
<1>2. [req[w] EXCEPT !.pc = pc] \in Requests
  BY <1>1 DEF Requests
<1>3. req' = [req EXCEPT ![w] = [req[w] EXCEPT !.pc = pc]]
  BY DEF Goto
<1> QED
  BY <1>1, <1>2, <1>3 DEF TypeOK

LEMMA AnswerTyped ==
    ASSUME TypeOK, NEW w \in Workers, Answer(w)
    PROVE  /\ req' \in [Workers -> Requests \cup {Idle}]
           /\ req'[w] = Idle
           /\ \A x \in Workers : x # w => req'[x] = req[x]
BY DEF TypeOK, Answer

\* The request an action begins.
LEMMA RequestTyped ==
    ASSUME TypeOK, NEW STATE a, a \in Endpoints, NEW STATE pc, pc \in Pcs \ {"idle"},
           NEW STATE back, back \in {"none", "reject", "return", "registration"}
    PROVE  /\ Request(pc, a, back) \in Requests
           /\ Request(pc, a, back).pc = pc
           /\ Request(pc, a, back).back = back
           /\ Request(pc, a, back).action = a
           /\ Request(pc, a, back).snap =
                [action |-> act.action, order |-> act.order, status |-> act.status,
                 state |-> act.state, deposit |-> item.status]
BY DEF TypeOK, Request, Requests, Snapshots

LEMMA BusyTyped ==
    ASSUME TypeOK, NEW w \in Workers, req[w] # Idle
    PROVE  /\ req[w].pc \in Pcs \ {"idle"} /\ req[w].action \in Endpoints
           /\ req[w].back \in {"none", "reject", "return", "registration"}
           /\ req[w].snap.action \in Endpoints /\ req[w].snap.order \in Orders
           /\ req[w].snap.status \in Status
<1>1. req[w] \in Requests
  BY DEF TypeOK
<1> QED
  BY <1>1 DEF Requests, Snapshots

LEMMA PcNotIdle == \A w : req[w].pc # "idle" => req[w] # Idle
BY DEF Idle

LEMMA MoveTyped ==
    ASSUME TypeOK, "end" \notin pages, NEW STATE o, o \in Orders, MoveTo(o)
    PROVE  /\ act' \in [action: Endpoints, order: Orders, status: Status,
                        state: States]
           /\ pages' \subseteq Endpoints /\ "end" \notin pages'
BY FlowFacts DEF TypeOK, MoveTo, Status, Endpoints

LEMMA RowTyped ==
    ASSUME TypeOK, NEW STATE o, o \in Orders, NEW STATE st, st \in Status, SetRow(o, st)
    PROVE  row' \in [Orders -> Status]
BY DEF TypeOK, SetRow

LEMMA HistoryTyped ==
    ASSUME TypeOK, NEW STATE l, NEW STATE a, a \in Endpoints, NEW STATE o, o \in Orders,
           NEW STATE st, st \in Status,
           RecordHistory(l, a, o, st)
    PROVE  /\ act' \in [action: Endpoints, order: Orders, status: Status,
                        state: States]
           /\ hist' \in [Orders -> Status \cup {"none"}]
<1>1. CASE l.action = a /\ l.status = st
  BY <1>1 DEF TypeOK, RecordHistory
<1>2. CASE ~(l.action = a /\ l.status = st)
  <2> DEFINE na == IF l.action = a THEN act.action ELSE a
             ns == IF l.status = st THEN act.status ELSE st
  <2>1. /\ act' = [act EXCEPT !.action = na, !.status = ns]
        /\ hist' = [hist EXCEPT ![o] = st]
    BY <1>2, Zenon DEF RecordHistory
  <2>2. na \in Endpoints /\ ns \in Status
    BY DEF TypeOK
  <2> HIDE DEF na, ns
  <2> QED
    BY <2>1, <2>2 DEF TypeOK
<1> QED
  BY <1>1, <1>2

LEMMA OthersBounded ==
    ASSUME Typed, NEW w \in Workers,
           req'[w] = Idle \/ Bounded(w, req'[w]),
           \A x \in Workers : x # w => req'[x] = req[x]
    PROVE  \A x \in Workers : req'[x] # Idle => Bounded(x, req'[x])
BY DEF Typed

\* A step of the history, the row and the activity for the request of w.
LEMMA StartTyped ==
    ASSUME Typed, NEW w \in Workers,
           UNCHANGED <<act, row, hist, item, pages>>, faults' \in Nat,
           \/ Answer(w)
           \/ \E a \in Endpoints, pc \in Pcs \ {"idle"},
                 back \in {"none", "reject", "return", "registration"} :
                 /\ req' = [req EXCEPT ![w] = Request(pc, a, back)]
                 /\ pc \in NextPcs => act.order < Last
                 /\ pc = "prev_history" => a \notin {"begin", "end"}
                 /\ pc = "cancel_clear" => a # "end"
                 /\ pc = "end_named" => w \in Admins \/ act.order = Last
                 /\ pc \notin PrevPcs \cup StopPcs \cup {"next_move"}
    PROVE  Typed'
<1>0. TypeOK
  BY DEF Typed
<1>1. CASE Answer(w)
  BY <1>0, <1>1, AnswerTyped, OthersBounded DEF Typed, TypeOK
<1>2. ASSUME NEW a \in Endpoints, NEW pc \in Pcs \ {"idle"},
             NEW back \in {"none", "reject", "return", "registration"},
             req' = [req EXCEPT ![w] = Request(pc, a, back)],
             pc \in NextPcs => act.order < Last,
             pc = "prev_history" => a \notin {"begin", "end"},
             pc = "cancel_clear" => a # "end",
             pc = "end_named" => w \in Admins \/ act.order = Last,
             pc \notin PrevPcs \cup StopPcs \cup {"next_move"}
      PROVE  Typed'
  <2>1. /\ Request(pc, a, back) \in Requests
        /\ Bounded(w, Request(pc, a, back))
    BY <1>0, <1>2, RequestTyped DEF Bounded
  <2>2. /\ req' \in [Workers -> Requests \cup {Idle}]
        /\ req'[w] = Request(pc, a, back)
        /\ \A x \in Workers : x # w => req'[x] = req[x]
    BY <1>0, <1>2, <2>1 DEF TypeOK
  <2> QED
    BY <1>0, <2>1, <2>2, OthersBounded DEF Typed, TypeOK
<1> QED
  BY <1>1, <1>2

LEMMA PagesTyped ==
    ASSUME Typed, NEW a \in OpenPages
    PROVE  a \in Endpoints /\ a # "end"
BY DEF Typed, TypeOK, OpenPages

LEMMA NextTyped ==
    ASSUME Typed, NEW w \in Workers,
           \/ NextStart(w) \/ NextInvalidIdentifier(w) \/ NextHistory(w)
           \/ NextStatus(w) \/ NextMove(w) \/ NextDoing(w)
    PROVE  Typed'
<1>0. TypeOK
  BY DEF Typed
<1>1. CASE NextStart(w)
  <2>1. PICK a \in OpenPages : /\ Matches(a, act.order)
                               /\ req' = [req EXCEPT ![w] = Request("next_history", a, "none")]
    BY <1>1 DEF NextStart
  <2>2. act.order < Last
    BY <1>0, <2>1, PagesTyped, FlowFacts DEF TypeOK, Matches
  <2>3. /\ a \in Endpoints /\ "next_history" \in Pcs \ {"idle"}
        /\ "next_history" \notin PrevPcs \cup StopPcs
    BY PagesTyped DEF Pcs, PrevPcs, StopPcs
  <2>4. UNCHANGED <<act, row, hist, item, pages>> /\ faults' \in Nat
    BY <1>0, <1>1 DEF NextStart, TypeOK
  <2> QED
    BY <2>1, <2>2, <2>3, <2>4, StartTyped
<1>2. CASE NextInvalidIdentifier(w)
  <2>1. UNCHANGED <<act, row, hist, item, pages>> /\ faults' \in Nat
    BY <1>0, <1>2 DEF NextInvalidIdentifier, TypeOK
  <2>2. /\ "identifier_grant" \in Endpoints /\ "prev_history" \in Pcs \ {"idle"}
        /\ "prev_history" \notin PrevPcs \cup StopPcs \cup NextPcs
    BY DEF Endpoints, Pcs, PrevPcs, StopPcs, NextPcs
  <2>3. \/ Answer(w)
        \/ req' = [req EXCEPT ![w] = Request("prev_history", "identifier_grant", "registration")]
    BY <1>2 DEF NextInvalidIdentifier, Answer
  <2> QED
    BY <2>1, <2>2, <2>3, StartTyped
<1>3. ASSUME req[w].pc \in NextPcs
      PROVE  /\ req[w] # Idle /\ req[w].snap.order \in Orders
             /\ req[w].snap.order + 1 \in Orders
             /\ req[w].action \in Endpoints
  <2>1. req[w] # Idle
    BY <1>3 DEF Idle, NextPcs
  <2> QED
    BY <1>0, <1>3, <2>1, BusyTyped, FlowFacts DEF Typed, Bounded
<1>4. ASSUME NEW pc \in Pcs \ {"idle"},
             pc \notin PrevPcs \cup StopPcs \cup {"prev_history", "cancel_clear", "end_named"},
             pc = "next_move" => req[w].snap.order + 1 < Last,
             req[w].pc \in NextPcs, Goto(w, pc)
      PROVE  /\ req' \in [Workers -> Requests \cup {Idle}]
             /\ \A x \in Workers : req'[x] # Idle => Bounded(x, req'[x])
  <2>1. /\ req' \in [Workers -> Requests \cup {Idle}]
        /\ req'[w] = [req[w] EXCEPT !.pc = pc] /\ req[w] \in Requests
        /\ \A x \in Workers : x # w => req'[x] = req[x]
    BY <1>0, <1>3, <1>4, GotoTyped
  <2>2. Bounded(w, req'[w])
    BY <1>3, <1>4, <2>1 DEF Typed, Bounded, Requests
  <2> QED
    BY <2>1, <2>2, OthersBounded
<1>5. CASE NextHistory(w)
  <2>1. /\ act' \in [action: Endpoints, order: Orders, status: Status,
                     state: States]
        /\ hist' \in [Orders -> Status \cup {"none"}]
    BY <1>0, <1>3, <1>5, HistoryTyped DEF NextHistory, NextPcs, Status
  <2> QED
    BY <1>0, <1>4, <1>5, <2>1 DEF NextHistory, Pcs, NextPcs, PrevPcs, StopPcs, Typed, TypeOK
<1>6. CASE NextStatus(w)
  <2>1. row' \in [Orders -> Status]
    BY <1>0, <1>3, <1>6, RowTyped DEF NextStatus, NextPcs, Status
  <2>2. req[w].snap.order + 1 # Last => req[w].snap.order + 1 < Last
    BY <1>3, <1>6, FlowFacts DEF NextStatus, NextPcs, Typed, Bounded
  <2> QED
    BY <1>0, <1>4, <1>6, <2>1, <2>2 DEF NextStatus, Pcs, NextPcs, PrevPcs, StopPcs, Typed, TypeOK
<1>7. CASE NextMove(w)
  <2>1. /\ act' \in [action: Endpoints, order: Orders, status: Status,
                     state: States]
        /\ pages' \subseteq Endpoints /\ "end" \notin pages'
    BY <1>0, <1>3, <1>7, MoveTyped DEF NextMove, NextPcs, Typed
  <2> QED
    BY <1>0, <1>4, <1>7, <2>1 DEF NextMove, Pcs, NextPcs, PrevPcs, StopPcs, Typed, TypeOK
<1>8. CASE NextDoing(w)
  <2>1. row' \in [Orders -> Status]
    BY <1>0, <1>3, <1>8, RowTyped DEF NextDoing, NextPcs, Status
  <2> QED
    BY <1>0, <1>8, <2>1, AnswerTyped, OthersBounded DEF NextDoing, Typed, TypeOK
<1> QED
  BY <1>1, <1>2, <1>5, <1>6, <1>7, <1>8

\* Moving a request on to a step that Bounded says nothing of, or says the
\* same of as before.
LEMMA GotoBounded ==
    ASSUME Typed, NEW w \in Workers, req[w] # Idle, NEW pc \in Pcs \ {"idle"}, Goto(w, pc),
           pc \in NextPcs => req[w].pc \in NextPcs,
           pc \notin {"next_move", "prev_history", "cancel_clear", "end_named"},
           pc \in PrevPcs /\ req[w].back = "reject" => req[w].snap.order > 1,
           pc \in StopPcs => req[w].snap.order < Last
    PROVE  /\ req' \in [Workers -> Requests \cup {Idle}]
           /\ \A x \in Workers : req'[x] # Idle => Bounded(x, req'[x])
<1>1. /\ req' \in [Workers -> Requests \cup {Idle}]
      /\ req'[w] = [req[w] EXCEPT !.pc = pc] /\ req[w] \in Requests
      /\ \A x \in Workers : x # w => req'[x] = req[x]
  BY GotoTyped DEF Typed
<1>2. Bounded(w, req'[w])
  BY <1>1 DEF Typed, Bounded, Requests
<1> QED
  BY <1>1, <1>2, OthersBounded

LEMMA AnswerBounded ==
    ASSUME Typed, NEW w \in Workers, Answer(w)
    PROVE  /\ req' \in [Workers -> Requests \cup {Idle}]
           /\ \A x \in Workers : req'[x] # Idle => Bounded(x, req'[x])
BY AnswerTyped, OthersBounded DEF Typed

LEMMA FinishTyped ==
    ASSUME Typed, NEW w \in Workers,
           FinishPublish(w) \/ FinishVersion(w) \/ FinishEnd(w)
    PROVE  Typed'
<1>0. TypeOK
  BY DEF Typed
<1>1. CASE FinishPublish(w)
  <2>1. /\ req' \in [Workers -> Requests \cup {Idle}]
        /\ \A x \in Workers : req'[x] # Idle => Bounded(x, req'[x])
    BY <1>1, AnswerBounded, GotoBounded DEF FinishPublish, Idle, Pcs, NextPcs, PrevPcs, StopPcs
  <2>2. item' \in [status: {"draft", "published"}, files: {"kept", "removed"}, versions: Nat]
    BY <1>0, <1>1 DEF FinishPublish, TypeOK
  <2> QED
    BY <1>0, <1>1, <2>1, <2>2 DEF FinishPublish, Typed, TypeOK
<1>2. CASE FinishVersion(w)
  <2>1. /\ req' \in [Workers -> Requests \cup {Idle}]
        /\ \A x \in Workers : req'[x] # Idle => Bounded(x, req'[x])
    BY <1>2, GotoBounded DEF FinishVersion, Idle, Pcs, NextPcs, PrevPcs, StopPcs
  <2>2. item' \in [status: {"draft", "published"}, files: {"kept", "removed"}, versions: Nat]
    BY <1>0, <1>2 DEF FinishVersion, TypeOK
  <2> QED
    BY <1>0, <1>2, <2>1, <2>2 DEF FinishVersion, Typed, TypeOK
<1>3. CASE FinishEnd(w)
  <2>1. /\ act' \in [action: Endpoints, order: Orders, status: Status,
                     state: States]
        /\ hist' \in [Orders -> Status \cup {"none"}]
    BY <1>0, <1>3, FlowFacts DEF FinishEnd, TypeOK, Endpoints, Status, States
  <2> QED
    BY <1>0, <1>3, <2>1, AnswerBounded DEF FinishEnd, Typed, TypeOK
<1> QED
  BY <1>1, <1>2, <1>3

\* The step an approval is sent back to exists, and is not the beginning.
LEMMA TargetTyped ==
    ASSUME Typed, NEW w \in Workers, req[w].pc \in PrevPcs
    PROVE  /\ Target(req[w].snap.order, req[w].back) \in Orders
           /\ BackStatus(w) \in Status /\ req[w].snap.order \in Orders
           /\ req[w] # Idle
<1>1. req[w] # Idle
  BY DEF PrevPcs, Idle
<1>2. req[w].snap.order \in Orders /\ Bounded(w, req[w])
  BY <1>1, BusyTyped DEF Typed
<1> QED
  BY <1>1, <1>2, FlowFacts DEF Bounded, Target, BackStatus, Status

LEMMA PrevTyped ==
    ASSUME Typed, NEW w \in Workers,
           PrevStart(w) \/ PrevHistory(w) \/ PrevStatus(w) \/ PrevDoing(w) \/ PrevMove(w)
    PROVE  Typed'
<1>0. TypeOK
  BY DEF Typed
<1>1. CASE PrevStart(w)
  <2>1. PICK back \in {"reject", "return"} :
            req' = [req EXCEPT ![w] = Request("prev_history", "approval", back)]
    BY <1>1 DEF PrevStart
  <2>2. /\ "approval" \in Endpoints /\ "prev_history" \in Pcs \ {"idle"}
        /\ "prev_history" \notin PrevPcs \cup StopPcs \cup NextPcs
    BY DEF Endpoints, Pcs, PrevPcs, StopPcs, NextPcs
  <2>3. UNCHANGED <<act, row, hist, item, pages>> /\ faults' \in Nat
    BY <1>0, <1>1 DEF PrevStart, TypeOK
  <2> QED
    BY <2>1, <2>2, <2>3, StartTyped
<1>2. CASE PrevHistory(w)
  <2>1. req[w] # Idle /\ req[w].action \in Endpoints /\ req[w].snap.order \in Orders
    BY <1>0, <1>2, BusyTyped DEF PrevHistory, Idle
  <2>2. /\ act' \in [action: Endpoints, order: Orders, status: Status,
                     state: States]
        /\ hist' \in [Orders -> Status \cup {"none"}]
    BY <1>0, <1>2, <2>1, HistoryTyped DEF PrevHistory, BackStatus, Status
  <2>3. Matches(req[w].action, req[w].snap.order) => req[w].snap.order > 1
    BY <1>2, <2>1, FlowFacts DEF PrevHistory, Matches, Typed, Bounded
  <2>4. req[w].pc \notin NextPcs
    BY <1>2 DEF PrevHistory, NextPcs
  <2> QED
    BY <1>0, <1>2, <2>1, <2>2, <2>3, <2>4, AnswerBounded, GotoBounded
    DEF PrevHistory, Pcs, NextPcs, PrevPcs, StopPcs, Typed, TypeOK
<1>3. CASE PrevStatus(w)
  <2>1. row' \in [Orders -> Status]
    BY <1>0, <1>3, TargetTyped, RowTyped DEF PrevStatus, PrevPcs
  <2>2. /\ req' \in [Workers -> Requests \cup {Idle}]
        /\ \A x \in Workers : req'[x] # Idle => Bounded(x, req'[x])
    BY <1>3, TargetTyped, GotoBounded DEF PrevStatus, Pcs, NextPcs, PrevPcs, StopPcs, Typed, Bounded
  <2> QED
    BY <1>0, <1>3, <2>1, <2>2 DEF PrevStatus, Typed, TypeOK
<1>4. CASE PrevDoing(w)
  <2>1. row' \in [Orders -> Status]
    BY <1>0, <1>4, TargetTyped, RowTyped DEF PrevDoing, PrevPcs, Status
  <2>2. /\ req' \in [Workers -> Requests \cup {Idle}]
        /\ \A x \in Workers : req'[x] # Idle => Bounded(x, req'[x])
    BY <1>4, TargetTyped, GotoBounded DEF PrevDoing, Pcs, NextPcs, PrevPcs, StopPcs, Typed, Bounded
  <2> QED
    BY <1>0, <1>4, <2>1, <2>2 DEF PrevDoing, Typed, TypeOK
<1>5. CASE PrevMove(w)
  <2>1. /\ act' \in [action: Endpoints, order: Orders, status: Status,
                     state: States]
        /\ pages' \subseteq Endpoints /\ "end" \notin pages'
    BY <1>0, <1>5, TargetTyped, MoveTyped DEF PrevMove, PrevPcs, Typed
  <2> QED
    BY <1>0, <1>5, <2>1, AnswerBounded DEF PrevMove, Typed, TypeOK
<1> QED
  BY <1>1, <1>2, <1>3, <1>4, <1>5

LEMMA CancelTyped ==
    ASSUME Typed, NEW w \in Workers,
           CancelStart(w) \/ CancelClear(w) \/ CancelStatus(w) \/ Quit(w)
    PROVE  Typed'
<1>0. TypeOK
  BY DEF Typed
<1>1. CASE CancelStart(w)
  <2>1. PICK a \in OpenPages : req' = [req EXCEPT ![w] = Request("cancel_clear", a, "none")]
    BY <1>1 DEF CancelStart
  <2>2. /\ a \in Endpoints /\ "cancel_clear" \in Pcs \ {"idle"}
        /\ a # "end" /\ "cancel_clear" \notin {"prev_history", "end_named"}
        /\ "cancel_clear" \notin PrevPcs \cup StopPcs \cup {"next_move"} \cup NextPcs
    BY PagesTyped DEF Pcs, PrevPcs, StopPcs, NextPcs
  <2>3. UNCHANGED <<act, row, hist, item, pages>> /\ faults' \in Nat
    BY <1>0, <1>1 DEF CancelStart, TypeOK
  <2> QED
    BY <2>1, <2>2, <2>3, StartTyped
<1>2. CASE CancelClear(w)
  <2>1. item' \in [status: {"draft", "published"}, files: {"kept", "removed"}, versions: Nat]
    BY <1>0, <1>2 DEF CancelClear, TypeOK
  <2>2. req[w] # Idle /\ req[w].snap.order \in Orders
    BY <1>0, <1>2, BusyTyped DEF CancelClear, Idle
  <2>3. Matches(req[w].action, req[w].snap.order) => req[w].snap.order < Last
    BY <1>2, <2>2, FlowFacts DEF CancelClear, Matches, Typed, Bounded
  <2>4. /\ req' \in [Workers -> Requests \cup {Idle}]
        /\ \A x \in Workers : req'[x] # Idle => Bounded(x, req'[x])
    BY <1>2, <2>2, <2>3, AnswerBounded, GotoBounded DEF CancelClear, Pcs, NextPcs, PrevPcs
  <2> QED
    BY <1>0, <1>2, <2>1, <2>4 DEF CancelClear, Typed, TypeOK
<1>3. CASE CancelStatus(w)
  <2>1. req[w] # Idle /\ req[w].snap.order \in Orders
    BY <1>0, <1>3, BusyTyped DEF CancelStatus, Idle
  <2>2. row' \in [Orders -> Status]
    BY <1>0, <1>3, <2>1, RowTyped DEF CancelStatus, Status
  <2>3. /\ req' \in [Workers -> Requests \cup {Idle}]
        /\ \A x \in Workers : req'[x] # Idle => Bounded(x, req'[x])
    BY <1>3, <2>1, GotoBounded DEF CancelStatus, Pcs, NextPcs, PrevPcs, StopPcs, Typed, Bounded
  <2> QED
    BY <1>0, <1>3, <2>2, <2>3 DEF CancelStatus, Typed, TypeOK
<1>4. CASE Quit(w)
  <2>1. req[w] # Idle /\ req[w].snap.order \in Orders /\ req[w].action \in Endpoints
    BY <1>0, <1>4, BusyTyped DEF Quit, Idle
  <2>2. /\ act' \in [action: Endpoints, order: Orders, status: Status,
                     state: States]
        /\ hist' \in [Orders -> Status \cup {"none"}]
    BY <1>0, <1>4, <2>1, FlowFacts DEF Quit, TypeOK, Status, States
  <2> QED
    BY <1>0, <1>4, <2>2, AnswerBounded DEF Quit, Typed, TypeOK
<1> QED
  BY <1>1, <1>2, <1>3, <1>4

LEMMA EndTyped ==
    ASSUME Typed, NEW w \in Workers, EndNamed(w) \/ EndAtOnce(w)
    PROVE  Typed'
<1>0. TypeOK
  BY DEF Typed
<1>1. CASE EndNamed(w)
  <2>1. w \in Admins \/ act.order = Last
    BY <1>0, <1>1, FlowFacts DEF EndNamed, Authorized, Matches, TypeOK
  <2>2. /\ "end" \in Endpoints /\ "end_named" \in Pcs \ {"idle"}
        /\ "end_named" \notin PrevPcs \cup StopPcs \cup NextPcs
    BY DEF Endpoints, Pcs, PrevPcs, StopPcs, NextPcs
  <2>3. UNCHANGED <<act, row, hist, item, pages>> /\ faults' \in Nat
    BY <1>0, <1>1 DEF EndNamed, TypeOK
  <2>4. req' = [req EXCEPT ![w] = Request("end_named", "end", "none")]
    BY <1>1 DEF EndNamed
  <2> QED
    BY <2>1, <2>2, <2>3, <2>4, StartTyped
<1>2. CASE EndAtOnce(w)
  <2>1. req[w].snap.order \in Orders
    BY <1>0, <1>2, BusyTyped, PcNotIdle DEF EndAtOnce
  <2>2. /\ act' \in [action: Endpoints, order: Orders, status: Status, state: States]
        /\ hist' \in [Orders -> Status \cup {"none"}]
    BY <1>0, <1>2, <2>1 DEF EndAtOnce, TypeOK, Endpoints, Status, States
  <2> QED
    BY <1>0, <1>2, <2>2, AnswerBounded DEF EndAtOnce, Typed, TypeOK
<1> QED
  BY <1>1, <1>2

LEMMA SaveTyped ==
    ASSUME Typed, SaveItem
    PROVE  Typed'
<1>1. item' \in [status: {"draft", "published"}, files: {"kept", "removed"}, versions: Nat]
  BY DEF SaveItem, Typed, TypeOK
<1> QED
  BY <1>1 DEF SaveItem, Typed, TypeOK

LEMMA FaultTyped ==
    ASSUME Typed, NEW w \in Workers, Crash(w) \/ FinishFails(w) \/ FinishFailsLate(w)
    PROVE  Typed'
<1>0. TypeOK /\ faults' \in Nat
  BY DEF Typed, TypeOK, Crash, FinishFails, FinishFailsLate, Fault
<1>1. CASE Crash(w) \/ FinishFails(w)
  BY <1>0, <1>1, AnswerBounded DEF Crash, FinishFails, Typed, TypeOK
<1>2. CASE FinishFailsLate(w)
  <2>1. /\ req' \in [Workers -> Requests \cup {Idle}]
        /\ \A x \in Workers : req'[x] # Idle => Bounded(x, req'[x])
    BY <1>2, GotoBounded DEF FinishFailsLate, Idle, Pcs, NextPcs, PrevPcs, StopPcs
  <2> QED
    BY <1>0, <1>2, <2>1 DEF FinishFailsLate, Typed, TypeOK
<1> QED
  BY <1>1, <1>2

LEMMA InitTyped == Init => Typed
<1> SUFFICES ASSUME Init PROVE Typed
  OBVIOUS
<1>1. act \in [action: Endpoints, order: Orders, status: Status,
               state: States]
  BY FlowFacts DEF Init, Status, States
<1>2. row \in [Orders -> Status] /\ hist \in [Orders -> Status \cup {"none"}]
  BY DEF Init, Status
<1>3. pages \subseteq Endpoints /\ "end" \notin pages
  BY FlowFacts DEF Init, Endpoints
<1> QED
  BY <1>1, <1>2, <1>3 DEF Init, Typed, TypeOK

LEMMA StepTyped == Typed /\ [Next]_vars => Typed'
<1> SUFFICES ASSUME Typed, [Next]_vars PROVE Typed'
  OBVIOUS
<1>1. CASE UNCHANGED vars
  BY <1>1 DEF vars, Typed, TypeOK, Bounded
<1>2. CASE SaveItem
  BY <1>2, SaveTyped
<1>3. ASSUME NEW w \in Workers, Step(w) PROVE Typed'
  BY <1>3, NextTyped, FinishTyped, EndTyped, PrevTyped, CancelTyped, FaultTyped DEF Step
<1> QED
  BY <1>1, <1>2, <1>3 DEF Next

\* Every row of an activity keeps to the values of its columns (act, row,
\* hist: weko_workflow/models.py), for every flow, any number of server
\* processes, any faults and pages out of date.
THEOREM TypeCorrect == Spec => []TypeOK
<1>1. Typed => TypeOK
  BY DEF Typed
<1> QED
  BY InitTyped, StepTyped, <1>1, PTL DEF Spec

-----------------------------------------------------------------------------
(* Any number of requests on one activity, interleaved commit by commit.   *)

\* A request about to end the activity has attached a version, and versions are
\* never taken away; one that names the end without being an administrator's has
\* found the activity ended.
Versioned ==
    /\ Typed
    /\ act.state = "making" => act.order < Last
    /\ \A w \in Workers :
        /\ req[w].pc = "end" => item.versions >= 1
        /\ req[w].pc = "end_named" /\ w \notin Admins => act.state # "making"

\* A step gives the item a version or leaves it those it has.
LEMMA VersionsGrow ==
    ASSUME TypeOK, NEW w \in Workers, Step(w)
    PROVE  item'.versions >= item.versions
<1>1. item.versions \in Nat
  BY DEF TypeOK
<1>2. CASE UNCHANGED item
  BY <1>1, <1>2
<1>3. CASE FinishPublish(w) \/ FinishVersion(w) \/ CancelClear(w)
  BY <1>1, <1>3 DEF FinishPublish, FinishVersion, CancelClear, TypeOK
<1> QED
  BY <1>2, <1>3
  DEF Step, NextStart, NextInvalidIdentifier, NextHistory, NextStatus, NextMove,
      NextDoing, FinishEnd, EndNamed, EndAtOnce, PrevStart, PrevHistory, PrevStatus,
      PrevDoing, PrevMove, CancelStart, CancelStatus, Quit, Crash, FinishFails,
      FinishFailsLate

\* Only FinishEnd finishes an activity, or a request naming the end. None is
\* ever begun again.
LEMMA OnlyEndFinishes ==
    ASSUME TypeOK, NEW w \in Workers, Step(w)
    PROVE  /\ act'.state = "finally" =>
                act.state = "finally" \/ req[w].pc = "end" \/ EndAtOnce(w)
           /\ act'.state = "making" => act.state = "making"
<1>1. CASE UNCHANGED act
  BY <1>1
<1>2. CASE NextHistory(w) \/ PrevHistory(w)
  <2>1. PICK l, a, o, st : RecordHistory(l, a, o, st)
    BY <1>2 DEF NextHistory, PrevHistory
  <2> QED
    BY <2>1 DEF RecordHistory, TypeOK
<1>3. CASE NextMove(w) \/ PrevMove(w)
  BY <1>3 DEF NextMove, PrevMove, MoveTo, TypeOK
<1>4. CASE FinishEnd(w)
  BY <1>4 DEF FinishEnd
<1>5. CASE EndAtOnce(w)
  <2>1. act'.state \in {act.state, "finally"}
    BY <1>5 DEF EndAtOnce, TypeOK
  <2> QED
    BY <1>5, <2>1
<1>6. CASE Quit(w)
  BY <1>6 DEF Quit, TypeOK
<1> QED
  BY <1>1, <1>2, <1>3, <1>4, <1>5, <1>6
  DEF Step, NextStart, NextInvalidIdentifier, NextStatus, NextDoing, FinishPublish,
      FinishVersion, EndNamed, PrevStart, PrevStatus, PrevDoing, CancelStart,
      CancelClear, CancelStatus, Crash, FinishFails, FinishFailsLate

\* While it is being made an activity does not come to the end of its flow.
LEMMA MakingShort ==
    ASSUME Versioned, NEW w \in Workers, Step(w), act'.state = "making"
    PROVE  act'.order < Last
<1>0. Typed /\ TypeOK /\ act.order \in Nat
  BY FlowFacts DEF Versioned, Typed, TypeOK
<1>1. act.state = "making" /\ act.order < Last
  BY <1>0, OnlyEndFinishes DEF Versioned
<1>2. CASE act'.order = act.order
  BY <1>1, <1>2
<1>3. CASE NextHistory(w) \/ PrevHistory(w)
  <2>1. PICK l, a, o, st : RecordHistory(l, a, o, st)
    BY <1>3 DEF NextHistory, PrevHistory
  <2> QED
    BY <1>0, <1>2, <2>1 DEF RecordHistory, TypeOK
<1>4. CASE NextMove(w)
  <2>1. req[w].snap.order + 1 < Last
    BY <1>0, <1>4, PcNotIdle DEF NextMove, Typed, Bounded
  <2> QED
    BY <1>0, <1>4, <2>1 DEF NextMove, MoveTo, TypeOK
<1>5. CASE PrevMove(w)
  <2>1. /\ req[w].snap.order \in Orders
        /\ act'.order = Target(req[w].snap.order, req[w].back)
    BY <1>0, <1>5, TargetTyped DEF PrevMove, MoveTo, PrevPcs, TypeOK
  <2> QED
    BY <2>1, FlowFacts DEF Target
<1>6. CASE EndAtOnce(w) \/ Quit(w)
  BY <1>0, <1>2, <1>6 DEF EndAtOnce, Quit, TypeOK
<1>7. ~FinishEnd(w)
  BY DEF FinishEnd
<1> QED
  BY <1>2, <1>3, <1>4, <1>5, <1>6, <1>7
  DEF Step, NextStart, NextInvalidIdentifier, NextStatus, NextDoing, FinishPublish,
      FinishVersion, EndNamed, PrevStart, PrevStatus, PrevDoing, CancelStart,
      CancelClear, CancelStatus, Crash, FinishFails, FinishFailsLate

\* Without a fault a request comes to the end by FinishVersion alone, or names it.
LEMMA EndBegins ==
    ASSUME MaxFaults = 0, TypeOK, NEW w \in Workers, Step(w),
           NEW v \in Workers, NEW p \in {"end", "end_named"}, req'[v].pc = p
    PROVE  \/ req[v].pc = p
           \/ p = "end" /\ FinishVersion(w)
           \/ p = "end_named" /\ v = w /\ EndNamed(w)
<1>1. /\ faults \in Nat /\ req \in [Workers -> Requests \cup {Idle}]
  BY DEF TypeOK
<1>2. ~Fault
  BY <1>1 DEF Fault
<1>3. CASE v # w
  <2>1. req'[v] = req[v]
    BY <1>1, <1>2, <1>3
    DEF Step, NextStart, NextInvalidIdentifier, NextHistory, NextStatus, NextMove,
        NextDoing, FinishPublish, FinishVersion, FinishEnd, EndNamed, EndAtOnce,
        PrevStart, PrevHistory, PrevStatus, PrevDoing, PrevMove, CancelStart,
        CancelClear, CancelStatus, Quit, Crash, FinishFails, FinishFailsLate, Goto, Answer
  <2> QED
    BY <2>1
<1>4. ~Answer(w) \/ v # w
  BY <1>1 DEF Answer, Idle
<1>5. ASSUME NEW pc \in Pcs \ {p}, Goto(w, pc), req[w] # Idle
      PROVE  v # w
  <2>1. req[w] \in Requests
    BY <1>1, <1>5
  <2>2. req'[w].pc = pc
    BY <1>1, <1>5, <2>1 DEF Goto, Requests
  <2> QED
    BY <1>5, <2>2
<1>6. ASSUME NEW pc \in Pcs \ {p}, NEW a, NEW back,
             req' = [req EXCEPT ![w] = Request(pc, a, back)]
      PROVE  v # w
  <2>1. Request(pc, a, back).pc # p
    BY <1>6 DEF Request
  <2> QED
    BY <1>1, <1>6, <2>1
<1>7. CASE NextStart(w) \/ PrevStart(w) \/ CancelStart(w)
  BY <1>3, <1>6, <1>7 DEF NextStart, PrevStart, CancelStart, Pcs
<1>8. CASE NextInvalidIdentifier(w)
  <2>1. \/ Answer(w)
        \/ req' = [req EXCEPT ![w] = Request("prev_history", "identifier_grant", "registration")]
    BY <1>8 DEF NextInvalidIdentifier, Answer
  <2> QED
    BY <1>3, <1>4, <1>6, <2>1 DEF Pcs
<1>9. CASE \/ NextHistory(w) \/ NextStatus(w) \/ NextMove(w) \/ FinishPublish(w)
           \/ PrevHistory(w) \/ PrevStatus(w) \/ PrevDoing(w)
           \/ CancelClear(w) \/ CancelStatus(w)
  <2>1. req[w] # Idle
    BY <1>9, PcNotIdle
    DEF NextHistory, NextStatus, NextMove, FinishPublish, PrevHistory, PrevStatus,
        PrevDoing, CancelClear, CancelStatus
  <2> QED
    BY <1>3, <1>4, <1>5, <1>9, <2>1
    DEF NextHistory, NextStatus, NextMove, FinishPublish, PrevHistory, PrevStatus,
        PrevDoing, CancelClear, CancelStatus, Pcs
<1>10. CASE FinishVersion(w)
  BY <1>3, <1>5, <1>10, PcNotIdle DEF FinishVersion, Pcs
<1>11. CASE EndNamed(w)
  BY <1>3, <1>6, <1>11 DEF EndNamed, Pcs
<1> QED
  BY <1>2, <1>3, <1>4, <1>7, <1>8, <1>9, <1>10, <1>11
  DEF Step, NextDoing, FinishEnd, EndAtOnce, PrevMove, Quit, Crash, FinishFails,
      FinishFailsLate

LEMMA StepVersioned == MaxFaults = 0 => (Versioned /\ [Next]_vars => Versioned')
<1> SUFFICES ASSUME MaxFaults = 0, Versioned, [Next]_vars PROVE Versioned'
  OBVIOUS
<1>0. Typed' /\ TypeOK /\ item.versions \in Nat
  BY StepTyped DEF Versioned, Typed, TypeOK
<1>1. CASE UNCHANGED vars
  BY <1>0, <1>1 DEF vars, Versioned
<1>2. CASE SaveItem
  BY <1>0, <1>2 DEF SaveItem, Versioned, TypeOK
<1>3. ASSUME NEW w \in Workers, Step(w) PROVE Versioned'
  <2>1. item'.versions \in Nat /\ item'.versions >= item.versions
    BY <1>0, <1>3, VersionsGrow DEF Typed, TypeOK
  <2>2. act'.state = "making" => act.state = "making"
    BY <1>0, <1>3, OnlyEndFinishes
  <2>3. ASSUME NEW v \in Workers, req'[v].pc = "end" PROVE item'.versions >= 1
    <3>1. req[v].pc = "end" \/ FinishVersion(w)
      BY <1>0, <1>3, <2>3, EndBegins
    <3> QED
      BY <1>0, <2>1, <3>1 DEF Versioned, FinishVersion, TypeOK
  <2>4. ASSUME NEW v \in Workers, req'[v].pc = "end_named", v \notin Admins
        PROVE  act'.state # "making"
    <3>1. req[v].pc = "end_named" \/ (v = w /\ EndNamed(w))
      BY <1>0, <1>3, <2>4, EndBegins
    <3>2. CASE v = w /\ EndNamed(w)
      <4>1. act.order = Last
        BY <1>0, <2>4, <3>2, FlowFacts DEF EndNamed, Authorized, Matches, TypeOK
      <4> QED
        BY <2>2, <4>1, FlowFacts DEF Versioned
    <3> QED
      BY <2>2, <2>4, <3>1, <3>2 DEF Versioned
  <2> QED
    BY <1>0, <1>3, <2>3, <2>4, MakingShort DEF Versioned
<1> QED
  BY <1>1, <1>2, <1>3 DEF Next

\* However many requests are interleaved on an activity, and from whatever page,
\* one that is being made is only finished (end_activity) by a request whose item
\* got a published version (handle_finish_workflow), as long as nothing fails; or
\* by an administrator's naming the end, which next_action passes on at once.
THEOREM EndsWithVersion == MaxFaults = 0 => (Spec => EndsPublished)
<1> SUFFICES ASSUME MaxFaults = 0 PROVE Spec => EndsPublished
  OBVIOUS
<1>1. Init => Versioned
  BY InitTyped, FlowFacts DEF Init, Versioned, Idle
<1>2. Versioned /\ [Next]_vars => Versioned'
  BY StepVersioned
<1>3. Versioned /\ [Next]_vars =>
          [act.state = "making" /\ act'.state = "finally" =>
               item.versions >= 1 \/ ForcedEnd]_vars
  <2> SUFFICES ASSUME Versioned, Next, act.state = "making", act'.state = "finally"
               PROVE  item.versions >= 1 \/ ForcedEnd
    OBVIOUS
  <2>1. ~SaveItem
    BY DEF SaveItem
  <2>2. PICK w \in Workers : Step(w)
    BY <2>1 DEF Next
  <2>3. req[w].pc = "end" \/ EndAtOnce(w)
    BY <2>2, OnlyEndFinishes DEF Versioned, Typed
  <2>4. EndAtOnce(w) => w \in Admins
    BY DEF EndAtOnce, Versioned
  <2> QED
    BY <2>3, <2>4 DEF Versioned, ForcedEnd
<1> QED
  BY <1>1, <1>2, <1>3, PTL DEF Spec, EndsPublished

-----------------------------------------------------------------------------
(* One request at a time: the walk along the flow, whatever crashes and    *)
(* whatever page a request comes from.                                     *)

OneWorker == \A v, w \in Workers : v = w

\* What a request under way knows of the activity row a and the history h.
Walking(r, a, h) ==
    /\ r.pc # "next_doing" => r.snap.order = a.order
    /\ r.pc \in {"next_history", "prev_history"} =>
        r.snap.action = a.action /\ r.snap.status = a.status
    /\ r.pc = "end_named" => r.snap.state = a.state
    /\ r.pc \in {"next_status", "next_move", "publish", "version", "end"} =>
        h[a.order] = "done"
    /\ r.pc \in {"publish", "version", "end"} => a.order + 1 = Last
    /\ r.pc \in PrevPcs => a.order < Last

\* The steps the activity has behind it are recorded as done.
Behind(a, h) ==
    /\ a.order = Last => a.state = "finally"
    /\ \A o \in 2 .. a.order - 1 : h[o] = "done"
    /\ a.status = "done" => h[a.order] = "done"

Walked ==
    /\ Typed
    /\ Behind(act, hist)
    /\ \A w \in Workers : req[w] # Idle => Walking(req[w], act, hist)

LEMMA AloneWalked ==
    ASSUME OneWorker, Typed', NEW w \in Workers, Behind(act', hist'),
           req'[w] = Idle \/ Walking(req'[w], act', hist')
    PROVE  Walked'
BY DEF OneWorker, Walked

\* A request that starts reads the activity row as it is.
LEMMA StartWalked ==
    ASSUME OneWorker, Walked, Typed', NEW w \in Workers, UNCHANGED <<act, hist>>,
           \/ Answer(w)
           \/ \E a \in Endpoints, pc \in {"next_history", "end_named", "prev_history", "cancel_clear"},
                 back \in {"none", "reject", "return", "registration"} :
                 req' = [req EXCEPT ![w] = Request(pc, a, back)]
    PROVE  Walked'
<1>0. TypeOK
  BY DEF Walked, Typed
<1>1. CASE Answer(w)
  BY <1>0, <1>1, AnswerTyped, AloneWalked DEF Walked
<1>2. ASSUME NEW a \in Endpoints, NEW pc \in {"next_history", "end_named", "prev_history", "cancel_clear"},
             NEW back \in {"none", "reject", "return", "registration"},
             req' = [req EXCEPT ![w] = Request(pc, a, back)]
      PROVE  Walked'
  <2>1. req'[w] = Request(pc, a, back)
    BY <1>0, <1>2 DEF TypeOK
  <2>2. Walking(Request(pc, a, back), act, hist)
    BY DEF Walking, Request, PrevPcs
  <2> QED
    BY <2>1, <2>2, AloneWalked DEF Walked
<1> QED
  BY <1>1, <1>2

\* A request that goes on, the activity row and its history staying.
LEMMA GotoWalked ==
    ASSUME OneWorker, Walked, Typed', NEW w \in Workers, UNCHANGED <<act, hist>>,
           \/ Answer(w)
           \/ \E pc \in Pcs \ {"idle"} :
                /\ req[w] # Idle /\ req[w].pc # "next_doing" /\ Goto(w, pc)
                /\ pc \notin {"next_doing", "next_history", "end_named", "prev_history"}
                /\ pc \in {"next_status", "next_move", "publish", "version", "end"} =>
                    req[w].pc \in {"next_status", "next_move", "publish", "version", "end"}
                /\ pc \in {"publish", "version", "end"} => act.order + 1 = Last
                /\ pc \in PrevPcs => act.order < Last
    PROVE  Walked'
<1>0. TypeOK
  BY DEF Walked, Typed
<1>1. CASE Answer(w)
  BY <1>0, <1>1, AnswerTyped, AloneWalked DEF Walked
<1>2. ASSUME NEW pc \in Pcs \ {"idle"}, req[w] # Idle, req[w].pc # "next_doing", Goto(w, pc),
             pc \notin {"next_doing", "next_history", "end_named", "prev_history"},
             pc \in {"next_status", "next_move", "publish", "version", "end"} =>
                 req[w].pc \in {"next_status", "next_move", "publish", "version", "end"},
             pc \in {"publish", "version", "end"} => act.order + 1 = Last,
             pc \in PrevPcs => act.order < Last
      PROVE  Walked'
  <2>1. req'[w] = [req[w] EXCEPT !.pc = pc] /\ req[w] \in Requests
    BY <1>0, <1>2, GotoTyped
  <2>2. req'[w].pc = pc /\ req'[w].snap = req[w].snap
    BY <2>1 DEF Requests
  <2>3. Walking(req'[w], act, hist)
    BY <1>2, <2>2 DEF Walked, Walking
  <2> QED
    BY <2>3, AloneWalked DEF Walked
<1> QED
  BY <1>1, <1>2

\* The activity row and the history after the handler has recorded the status
\* of the step the activity stands at.
LEMMA HistoryWalked ==
    ASSUME Walked, NEW STATE l, NEW STATE a, a \in Endpoints, NEW STATE st, st \in Status,
           l.action = act.action, l.status = act.status,
           RecordHistory(l, a, act.order, st)
    PROVE  /\ act'.order = act.order /\ act'.state = act.state
           /\ Behind(act', hist')
           /\ st = "done" => hist'[act.order] = "done"
<1>0. /\ act \in [action: Endpoints, order: Orders, status: Status,
                  state: States]
      /\ hist \in [Orders -> Status \cup {"none"}]
  BY DEF Walked, Typed, TypeOK
<1>1. CASE l.action = a /\ l.status = st
  BY <1>1 DEF Walked, Behind, RecordHistory
<1>2. CASE ~(l.action = a /\ l.status = st)
  <2> DEFINE na == IF l.action = a THEN act.action ELSE a
             ns == IF l.status = st THEN act.status ELSE st
  <2>1. /\ act' = [act EXCEPT !.action = na, !.status = ns]
        /\ hist' = [hist EXCEPT ![act.order] = st]
    BY <1>2, Zenon DEF RecordHistory
  <2>2. ns = st
    OBVIOUS
  <2>3. /\ act'.order = act.order /\ act'.state = act.state /\ act'.status = st
    BY <1>0, <2>1, <2>2
  <2> HIDE DEF na, ns
  <2>4. hist'[act.order] = st /\ \A o \in Orders \ {act.order} : hist'[o] = hist[o]
    BY <1>0, <2>1
  <2>5. \A o \in 2 .. act.order - 1 : o \in Orders \ {act.order}
    BY <1>0, FlowFacts
  <2> QED
    BY <1>0, <2>3, <2>4, <2>5 DEF Walked, Behind
<1> QED
  BY <1>1, <1>2

LEMMA NextWalked ==
    ASSUME OneWorker, Walked, Typed', NEW w \in Workers,
           \/ NextStart(w) \/ NextInvalidIdentifier(w) \/ NextHistory(w)
           \/ NextStatus(w) \/ NextMove(w) \/ NextDoing(w)
    PROVE  Walked'
<1>0. Typed /\ TypeOK
  BY DEF Walked, Typed
<1>1. CASE NextStart(w)
  <2>1. PICK a \in OpenPages : req' = [req EXCEPT ![w] = Request("next_history", a, "none")]
    BY <1>1 DEF NextStart
  <2> QED
    BY <1>0, <1>1, <2>1, PagesTyped, StartWalked DEF NextStart
<1>2. CASE NextInvalidIdentifier(w)
  <2>1. \/ Answer(w)
        \/ req' = [req EXCEPT ![w] = Request("prev_history", "identifier_grant", "registration")]
    BY <1>2 DEF NextInvalidIdentifier, Answer
  <2>2. UNCHANGED <<act, hist>> /\ "identifier_grant" \in Endpoints
    BY <1>2 DEF NextInvalidIdentifier, Endpoints
  <2> QED
    BY <2>1, <2>2, StartWalked
<1>3. CASE NextHistory(w)
  <2>1. req[w] # Idle /\ req[w].action \in Endpoints /\ req[w].pc = "next_history"
    BY <1>0, <1>3, BusyTyped DEF NextHistory, Idle
  <2>2. /\ req[w].snap.order = act.order
        /\ req[w].snap.action = act.action /\ req[w].snap.status = act.status
    BY <2>1 DEF Walked, Walking
  <2>0. PICK l \in {req[w].snap, act} :
            RecordHistory(l, req[w].action, req[w].snap.order, "done")
    BY <1>3 DEF NextHistory
  <2>3. l.action = act.action /\ l.status = act.status
    BY <2>2
  <2>4. RecordHistory(l, req[w].action, act.order, "done") /\ "done" \in Status
    BY <2>0, <2>2 DEF Status
  <2>5. /\ act'.order = act.order /\ Behind(act', hist')
        /\ hist'[act.order] = "done"
    BY <2>1, <2>3, <2>4, HistoryWalked
  <2>6. req'[w] = [req[w] EXCEPT !.pc = "next_status"] /\ req[w] \in Requests
    BY <1>0, <1>3, <2>1, GotoTyped DEF NextHistory, Pcs
  <2>7. req'[w].pc = "next_status" /\ req'[w].snap = req[w].snap
    BY <2>6 DEF Requests
  <2>8. Walking(req'[w], act', hist')
    BY <2>2, <2>5, <2>7 DEF Walking, PrevPcs
  <2> QED
    BY <2>5, <2>8, AloneWalked
<1>4. CASE NextStatus(w)
  <2>1. req[w] # Idle /\ req[w].pc = "next_status"
    BY <1>4 DEF NextStatus, Idle
  <2>2. req[w].snap.order = act.order
    BY <2>1 DEF Walked, Walking
  <2> QED
    BY <1>4, <2>1, <2>2, GotoWalked DEF NextStatus, Pcs, PrevPcs
<1>5. CASE NextMove(w)
  <2>1. req[w] # Idle /\ req[w].pc = "next_move"
    BY <1>5 DEF NextMove, Idle
  <2>2. /\ req[w].snap.order = act.order /\ hist[act.order] = "done"
        /\ act.order + 1 < Last
    BY <2>1 DEF Walked, Typed, Walking, Bounded
  <2>3. /\ act'.order = act.order + 1 /\ act'.status = "doing" /\ act'.state = act.state
        /\ hist' = hist
    BY <1>0, <1>5, <2>2 DEF NextMove, MoveTo, TypeOK
  <2>4. act.order \in Nat
    BY <1>0, FlowFacts DEF TypeOK
  <2>5. Behind(act', hist')
    BY <2>2, <2>3, <2>4 DEF Walked, Behind
  <2>6. req'[w] = [req[w] EXCEPT !.pc = "next_doing"] /\ req[w] \in Requests
    BY <1>0, <1>5, <2>1, GotoTyped DEF NextMove, Pcs
  <2>7. Walking(req'[w], act', hist')
    BY <2>6 DEF Walking, PrevPcs, Requests
  <2> QED
    BY <2>5, <2>7, AloneWalked
<1>6. CASE NextDoing(w)
  BY <1>6, GotoWalked DEF NextDoing
<1> QED
  BY <1>1, <1>2, <1>3, <1>4, <1>5, <1>6

LEMMA FinishWalked ==
    ASSUME OneWorker, Walked, Typed', NEW w \in Workers,
           FinishPublish(w) \/ FinishVersion(w) \/ FinishEnd(w)
    PROVE  Walked'
<1>0. TypeOK
  BY DEF Walked, Typed
<1>1. ASSUME req[w].pc \in {"publish", "version", "end"}
      PROVE  /\ req[w] # Idle /\ req[w].snap.order = act.order
             /\ act.order + 1 = Last /\ hist[act.order] = "done"
  <2>1. req[w] # Idle
    BY <1>1 DEF Idle
  <2> QED
    BY <1>1, <2>1 DEF Walked, Walking
<1>2. CASE FinishPublish(w)
  BY <1>1, <1>2, GotoWalked DEF FinishPublish, Pcs, PrevPcs
<1>3. CASE FinishVersion(w)
  BY <1>1, <1>3, GotoWalked DEF FinishVersion, Pcs, PrevPcs
<1>4. CASE FinishEnd(w)
  <2>1. /\ act' = [action |-> "end", order |-> Last, status |-> "done", state |-> "finally"]
        /\ hist' = [hist EXCEPT ![Last] = "done"]
    BY <1>4 DEF FinishEnd
  <2>2. /\ act.order + 1 = Last /\ hist[act.order] = "done" /\ act.order \in Nat
    BY <1>0, <1>1, <1>4, FlowFacts DEF FinishEnd, TypeOK
  <2>3. hist'[Last] = "done" /\ \A o \in Orders : o # Last => hist'[o] = hist[o]
    BY <1>0, <2>1, FlowFacts DEF TypeOK
  <2>4. \A o \in 2 .. Last - 1 : hist'[o] = "done"
    <3> SUFFICES ASSUME NEW o \in 2 .. Last - 1 PROVE hist[o] = "done"
      BY <2>3, FlowFacts
    <3> QED
      BY <2>2 DEF Walked, Behind
  <2>5. Behind(act', hist')
    BY <2>1, <2>3, <2>4 DEF Behind
  <2> QED
    BY <1>0, <1>4, <2>5, AnswerTyped, AloneWalked DEF FinishEnd
<1> QED
  BY <1>2, <1>3, <1>4

LEMMA PrevWalked ==
    ASSUME OneWorker, Walked, Typed', NEW w \in Workers,
           PrevStart(w) \/ PrevHistory(w) \/ PrevStatus(w) \/ PrevDoing(w) \/ PrevMove(w)
    PROVE  Walked'
<1>0. Typed /\ TypeOK
  BY DEF Walked, Typed
<1>1. CASE PrevStart(w)
  <2>1. PICK back \in {"reject", "return"} :
            req' = [req EXCEPT ![w] = Request("prev_history", "approval", back)]
    BY <1>1 DEF PrevStart
  <2>2. UNCHANGED <<act, hist>> /\ "approval" \in Endpoints
    BY <1>1 DEF PrevStart, Endpoints
  <2> QED
    BY <2>1, <2>2, StartWalked
<1>2. CASE PrevHistory(w)
  <2>1. req[w] # Idle /\ req[w].action \in Endpoints /\ req[w].pc = "prev_history"
    BY <1>0, <1>2, BusyTyped DEF PrevHistory, Idle
  <2>2. /\ req[w].snap.order = act.order /\ act.order \in Orders
        /\ req[w].snap.action = act.action /\ req[w].snap.status = act.status
    BY <1>0, <2>1 DEF Walked, Walking, TypeOK
  <2>3. /\ RecordHistory(req[w].snap, req[w].action, act.order, BackStatus(w))
        /\ BackStatus(w) \in Status
    BY <1>2, <2>2 DEF PrevHistory, BackStatus, Status
  <2>4. act'.order = act.order /\ Behind(act', hist')
    BY <2>1, <2>2, <2>3, HistoryWalked
  <2>5. CASE Matches(req[w].action, req[w].snap.order)
    <3>1. act.order < Last
      BY <1>0, <2>1, <2>2, <2>5, FlowFacts DEF Matches, Typed, Bounded
    <3>2. req'[w] = [req[w] EXCEPT !.pc = "prev_status"] /\ req[w] \in Requests
      BY <1>0, <1>2, <2>1, <2>5, GotoTyped DEF PrevHistory, Pcs
    <3>3. req'[w].pc = "prev_status" /\ req'[w].snap = req[w].snap
      BY <3>2 DEF Requests
    <3>4. Walking(req'[w], act', hist')
      BY <2>2, <2>4, <3>1, <3>3 DEF Walking
    <3> QED
      BY <2>4, <3>4, AloneWalked
  <2>6. CASE ~Matches(req[w].action, req[w].snap.order)
    BY <1>0, <1>2, <2>4, <2>6, AnswerTyped, AloneWalked DEF PrevHistory
  <2> QED
    BY <2>5, <2>6
<1>3. CASE PrevStatus(w)
  <2>1. req[w] # Idle /\ act.order < Last
    BY <1>3 DEF PrevStatus, Idle, Walked, Walking, PrevPcs, Typed, Bounded
  <2> QED
    BY <1>3, <2>1, GotoWalked DEF PrevStatus, Pcs, PrevPcs
<1>4. CASE PrevDoing(w)
  <2>1. req[w] # Idle /\ act.order < Last
    BY <1>4 DEF PrevDoing, Idle, Walked, Walking, PrevPcs
  <2> QED
    BY <1>4, <2>1, GotoWalked DEF PrevDoing, Pcs, PrevPcs
<1>5. CASE PrevMove(w)
  <2>1. req[w] # Idle /\ req[w].pc = "prev_move"
    BY <1>5 DEF PrevMove, Idle
  <2>2. /\ req[w].snap.order = act.order /\ act.order < Last
        /\ act.order \in Nat
    BY <1>0, <2>1, FlowFacts DEF Walked, Walking, PrevPcs, TypeOK
  <2> DEFINE to == Target(req[w].snap.order, req[w].back)
  <2>3. to \in Nat /\ (to = 2 \/ to = act.order - 1)
    BY <2>1, <2>2, <1>0, TargetTyped, FlowFacts DEF Target, PrevPcs
  <2>4. /\ act'.order = to /\ act'.status = "doing" /\ act'.state = act.state
        /\ hist' = hist
    BY <1>0, <1>5 DEF PrevMove, MoveTo, TypeOK
  <2> HIDE DEF to
  <2>5. \A o \in 2 .. to - 1 : o \in 2 .. act.order - 1
    BY <2>2, <2>3
  <2>6. to # Last
    BY <2>2, <2>3, FlowFacts
  <2>7. Behind(act', hist')
    BY <2>4, <2>5, <2>6 DEF Walked, Behind
  <2> QED
    BY <1>0, <1>5, <2>7, AnswerTyped, AloneWalked DEF PrevMove
<1> QED
  BY <1>1, <1>2, <1>3, <1>4, <1>5

LEMMA CancelWalked ==
    ASSUME OneWorker, Walked, Typed', NEW w \in Workers,
           CancelStart(w) \/ CancelClear(w) \/ CancelStatus(w) \/ Quit(w)
    PROVE  Walked'
<1>0. Typed /\ TypeOK
  BY DEF Walked, Typed
<1>1. CASE CancelStart(w)
  <2>1. PICK a \in OpenPages : req' = [req EXCEPT ![w] = Request("cancel_clear", a, "none")]
    BY <1>1 DEF CancelStart
  <2> QED
    BY <1>0, <1>1, <2>1, PagesTyped, StartWalked DEF CancelStart
<1>2. CASE CancelClear(w)
  BY <1>2, GotoWalked DEF CancelClear, Idle, Pcs, PrevPcs
<1>3. CASE CancelStatus(w)
  BY <1>3, GotoWalked DEF CancelStatus, Idle, Pcs, PrevPcs
<1>4. CASE Quit(w)
  <2>1. req[w] # Idle /\ req[w].pc = "quit"
    BY <1>4 DEF Quit, Idle
  <2>2. req[w].snap.order = act.order /\ act.order \in 1 .. Last /\ act.order # Last
    BY <1>0, <2>1, FlowFacts DEF Walked, Walking, Typed, Bounded, StopPcs, TypeOK
  <2>3. /\ act'.order = act.order /\ act'.status = "canceled" /\ act'.state = "cancel"
        /\ hist' = [hist EXCEPT ![act.order] = "canceled", ![Last] = "done"]
    BY <1>0, <1>4, <2>2 DEF Quit, TypeOK
  <2>4. \A o \in Orders \ {act.order, Last} : hist'[o] = hist[o]
    BY <1>0, <2>3 DEF TypeOK
  <2>5. \A o \in 2 .. act.order - 1 : o \in Orders \ {act.order, Last}
    BY <2>2, FlowFacts
  <2>6. Behind(act', hist')
    BY <2>2, <2>3, <2>4, <2>5 DEF Walked, Behind
  <2> QED
    BY <1>0, <1>4, <2>6, AnswerTyped, AloneWalked DEF Quit
<1> QED
  BY <1>1, <1>2, <1>3, <1>4

LEMMA EndWalked ==
    ASSUME OneWorker, Walked, Typed', NEW w \in Workers, EndNamed(w) \/ EndAtOnce(w)
    PROVE  Walked'
<1>0. TypeOK
  BY DEF Walked, Typed
<1>1. CASE EndNamed(w)
  <2>1. req' = [req EXCEPT ![w] = Request("end_named", "end", "none")]
    BY <1>1 DEF EndNamed
  <2>2. UNCHANGED <<act, hist>> /\ "end" \in Endpoints
    BY <1>1 DEF EndNamed, Endpoints
  <2> QED
    BY <2>1, <2>2, StartWalked
<1>2. CASE EndAtOnce(w)
  <2>1. req[w].snap.order = act.order /\ act.order \in Orders
    BY <1>0, <1>2, PcNotIdle DEF EndAtOnce, Walked, Walking, TypeOK
  <2>2. /\ act'.order = act.order /\ act'.state \in {act.state, "finally"}
        /\ hist' = [hist EXCEPT ![act.order] = "done"]
    BY <1>0, <1>2, <2>1 DEF EndAtOnce, TypeOK
  <2>3. /\ hist'[act.order] = "done"
        /\ \A o \in Orders : o # act.order => hist'[o] = hist[o]
    BY <1>0, <2>1, <2>2 DEF TypeOK
  <2>4. \A o \in 2 .. act.order - 1 : o \in Orders /\ o # act.order
    BY <2>1, FlowFacts
  <2>5. Behind(act', hist')
    BY <2>2, <2>3, <2>4 DEF Walked, Behind
  <2> QED
    BY <1>0, <1>2, <2>5, AnswerTyped, AloneWalked DEF EndAtOnce
<1> QED
  BY <1>1, <1>2

LEMMA FaultWalked ==
    ASSUME OneWorker, Walked, Typed', NEW w \in Workers,
           Crash(w) \/ FinishFails(w) \/ FinishFailsLate(w)
    PROVE  Walked'
<1>1. CASE Crash(w) \/ FinishFails(w)
  BY <1>1, GotoWalked DEF Crash, FinishFails
<1>2. CASE FinishFailsLate(w)
  <2>1. req[w] # Idle /\ act.order + 1 = Last
    BY <1>2 DEF FinishFailsLate, Idle, Walked, Walking
  <2> QED
    BY <1>2, <2>1, GotoWalked DEF FinishFailsLate, Pcs, PrevPcs
<1> QED
  BY <1>1, <1>2

LEMMA StepWalked == OneWorker => (Walked /\ [Next]_vars => Walked')
<1> SUFFICES ASSUME OneWorker, Walked, [Next]_vars PROVE Walked'
  OBVIOUS
<1>0. Typed'
  BY StepTyped DEF Walked
<1>1. CASE UNCHANGED vars
  BY <1>0, <1>1 DEF vars, Walked, Behind, Walking
<1>2. CASE SaveItem
  BY <1>0, <1>2 DEF SaveItem, Walked, Behind, Walking
<1>3. ASSUME NEW w \in Workers, Step(w) PROVE Walked'
  BY <1>0, <1>3, NextWalked, FinishWalked, EndWalked, PrevWalked, CancelWalked,
     FaultWalked DEF Step
<1> QED
  BY <1>1, <1>2, <1>3 DEF Next

LEMMA InitWalked == Init => Walked
<1> SUFFICES ASSUME Init PROVE Walked
  OBVIOUS
<1>1. Behind(act, hist)
  BY FlowFacts DEF Init, Behind
<1> QED
  BY <1>1, InitTyped DEF Init, Walked

\* When requests come one at a time, and whatever crashes, fails or comes from
\* a page out of date, an activity becomes finished only with every step between
\* the beginning and the end last recorded as done (workflow_action_history), or
\* by an administrator's request naming the end.
THEOREM NothingSkipped == OneWorker => (Spec => NoStepSkipped)
<1> SUFFICES ASSUME OneWorker PROVE Spec => NoStepSkipped
  OBVIOUS
<1>1. Walked /\ [Next]_vars => Walked'
  BY StepWalked
<1>2. Walked /\ Walked' /\ [Next]_vars =>
          [act.state # "finally" /\ act'.state = "finally" =>
               (\A o \in 2 .. Last - 1 : hist'[o] = "done") \/ ForcedEnd]_vars
  <2> SUFFICES ASSUME Walked, Walked', Next, act.state # "finally", act'.state = "finally",
                      ~ForcedEnd
               PROVE  \A o \in 2 .. Last - 1 : hist'[o] = "done"
    OBVIOUS
  <2>1. ~SaveItem
    BY DEF SaveItem
  <2>2. PICK w \in Workers : Step(w)
    BY <2>1 DEF Next
  <2>3. req[w].pc = "end" \/ EndAtOnce(w)
    BY <2>2, OnlyEndFinishes DEF Walked, Typed
  <2>4. ~EndAtOnce(w)
    <3> SUFFICES ASSUME EndAtOnce(w) PROVE FALSE
      OBVIOUS
    <3>1. w \notin Admins /\ req[w].pc = "end_named" /\ req[w] # Idle
      BY PcNotIdle DEF ForcedEnd, EndAtOnce
    <3>2. act.order = Last
      BY <3>1 DEF Walked, Walking, Typed, Bounded
    <3> QED
      BY <3>2 DEF Walked, Behind
  <2>5. FinishEnd(w) \/ Crash(w) \/ FinishFails(w)
    BY <2>2, <2>3, <2>4 DEF Step, NextStart, NextInvalidIdentifier, NextHistory, NextStatus,
       NextMove, NextDoing, FinishPublish, FinishVersion, EndNamed, PrevStart, PrevHistory,
       PrevStatus, PrevDoing, PrevMove, CancelStart, CancelClear, CancelStatus, Quit,
       FinishFailsLate, Idle
  <2>6. act'.order = Last
    BY <2>5 DEF FinishEnd, Crash, FinishFails
  <2> QED
    BY <2>6 DEF Walked, Behind
<1> QED
  BY InitWalked, <1>1, <1>2, PTL DEF Spec, NoStepSkipped

LEMMA StepForward ==
    ASSUME Walked, NEW w \in Workers, Step(w)
    PROVE  act'.order <= act.order + 1 \/ act'.state # "making"
<1>0. TypeOK /\ act.order \in Nat
  BY FlowFacts DEF Walked, Typed, TypeOK
<1>1. CASE UNCHANGED act
  BY <1>0, <1>1
<1>2. CASE NextHistory(w) \/ PrevHistory(w)
  <2>1. PICK l, a, o, st : RecordHistory(l, a, o, st)
    BY <1>2 DEF NextHistory, PrevHistory
  <2>2. act'.order = act.order
    BY <1>0, <2>1 DEF RecordHistory, TypeOK
  <2> QED
    BY <1>0, <2>2
<1>3. CASE NextMove(w)
  <2>1. req[w] # Idle /\ req[w].pc = "next_move"
    BY <1>3 DEF NextMove, Idle
  <2>2. req[w].snap.order = act.order
    BY <2>1 DEF Walked, Walking
  <2> QED
    BY <1>0, <1>3, <2>2 DEF NextMove, MoveTo, TypeOK
<1>4. CASE PrevMove(w)
  <2>1. req[w] # Idle /\ req[w].pc = "prev_move"
    BY <1>4 DEF PrevMove, Idle
  <2>2. req[w].snap.order = act.order /\ act.order < Last
    BY <2>1 DEF Walked, Walking, PrevPcs
  <2>3. Target(req[w].snap.order, req[w].back) <= act.order + 1
    BY <1>0, <2>1, <2>2, TargetTyped, FlowFacts DEF Target, PrevPcs, Walked
  <2> QED
    BY <1>0, <1>4, <2>3 DEF PrevMove, MoveTo, TypeOK
<1>5. CASE FinishEnd(w)
  BY <1>5 DEF FinishEnd
<1>6. CASE EndAtOnce(w)
  <2>1. act'.order = act.order
    BY <1>0, <1>6 DEF EndAtOnce, TypeOK
  <2> QED
    BY <1>0, <2>1
<1>7. CASE Quit(w)
  BY <1>0, <1>7 DEF Quit, TypeOK
<1> QED
  BY <1>1, <1>2, <1>3, <1>4, <1>5, <1>6, <1>7
  DEF Step, NextStart, NextInvalidIdentifier, NextStatus, NextDoing, FinishPublish,
      FinishVersion, EndNamed, PrevStart, PrevStatus, PrevDoing, CancelStart, CancelClear,
      CancelStatus, Crash, FinishFails, FinishFailsLate

\* When requests come one at a time, and whatever crashes, fails or comes from
\* a page out of date, next_action moves an activity by one step of its flow.
THEOREM ForwardByOne == OneWorker => (Spec => OneStepForward)
<1> SUFFICES ASSUME OneWorker PROVE Spec => OneStepForward
  OBVIOUS
<1>1. Walked /\ [Next]_vars => Walked'
  BY StepWalked
<1>2. Walked /\ [Next]_vars => [act'.order <= act.order + 1 \/ act'.state # "making"]_vars
  <2> SUFFICES ASSUME Walked, Next
               PROVE  act'.order <= act.order + 1 \/ act'.state # "making"
    OBVIOUS
  <2>1. ASSUME SaveItem PROVE act'.order <= act.order + 1
    BY <2>1, FlowFacts DEF SaveItem, Walked, Typed, TypeOK
  <2> QED
    BY <2>1, StepForward DEF Next
<1> QED
  BY InitWalked, <1>1, <1>2, PTL DEF Spec, OneStepForward

-----------------------------------------------------------------------------
(* The activity row names the flow action at its own order.                *)

\* check_authority refuses a page out of date, but not for an administrator: so
\* there is none of either.
Admitted == Admins = {} \/ ~StalePages

\* An end named by an administrator leaves action_order where it was; there is
\* no page any more then, unless it is out of date.
Coherent(a) ==
    \/ a.action = Flow[a.order]
    \/ ~StalePages /\ a.state # "making"

\* A request is then only let in at the step the activity stands at, and names
\* the flow action of the order it has read, unless it names the end.
LetIn(r, a) ==
    r.pc # "end_named" =>
        /\ r.action = Flow[r.snap.order]
        /\ ~StalePages => a.state = "making"

Standing ==
    /\ Walked
    /\ Coherent(act)
    /\ \A w \in Workers : req[w] # Idle => LetIn(req[w], act)

LEMMA AloneStanding ==
    ASSUME OneWorker, Walked', NEW w \in Workers, Coherent(act'),
           req'[w] = Idle \/ LetIn(req'[w], act')
    PROVE  Standing'
BY DEF OneWorker, Standing

\* A request that starts has been let in at the current step.
LEMMA StartStanding ==
    ASSUME OneWorker, Standing, Walked', NEW w \in Workers, UNCHANGED act,
           \/ Answer(w)
           \/ \E a \in Endpoints, pc \in Pcs, back \in {"none", "reject", "return", "registration"} :
                /\ pc = "end_named" \/ (a = Flow[act.order] /\ (~StalePages => act.state = "making"))
                /\ req' = [req EXCEPT ![w] = Request(pc, a, back)]
    PROVE  Standing'
<1>0. req \in [Workers -> Requests \cup {Idle}]
  BY DEF Standing, Walked, Typed, TypeOK
<1>1. CASE Answer(w)
  BY <1>0, <1>1, AnswerTyped, AloneStanding DEF Standing, Walked, Typed
<1>2. ASSUME NEW a \in Endpoints, NEW pc \in Pcs,
             NEW back \in {"none", "reject", "return", "registration"},
             pc = "end_named" \/ (a = Flow[act.order] /\ (~StalePages => act.state = "making")),
             req' = [req EXCEPT ![w] = Request(pc, a, back)]
      PROVE  Standing'
  <2>1. req'[w] = Request(pc, a, back)
    BY <1>0, <1>2
  <2>2. LetIn(req'[w], act')
    BY <1>2, <2>1 DEF Request, LetIn
  <2> QED
    BY <2>2, AloneStanding DEF Standing
<1> QED
  BY <1>1, <1>2

\* A request goes on with what it has read.
LEMMA OnStanding ==
    ASSUME Standing, NEW w \in Workers, req[w] # Idle, act'.state = act.state,
           \/ Answer(w)
           \/ req[w].pc # "end_named" /\ \E pc \in Pcs \ {"idle"} : Goto(w, pc)
    PROVE  req'[w] = Idle \/ LetIn(req'[w], act')
<1>0. TypeOK
  BY DEF Standing, Walked, Typed
<1>1. CASE Answer(w)
  BY <1>0, <1>1, AnswerTyped
<1>2. ASSUME NEW pc \in Pcs \ {"idle"}, Goto(w, pc), req[w].pc # "end_named"
      PROVE  LetIn(req'[w], act')
  <2>1. req'[w] = [req[w] EXCEPT !.pc = pc] /\ req[w] \in Requests
    BY <1>0, <1>2, GotoTyped
  <2>2. req'[w].action = req[w].action /\ req'[w].snap = req[w].snap
    BY <2>1 DEF Requests
  <2> QED
    BY <1>2, <2>2 DEF Standing, LetIn
<1> QED
  BY <1>1, <1>2

\* The status of a step is recorded: a pair of action and order that differs
\* from the one loaded is the one of the request's own step.
LEMMA HistoryStanding ==
    ASSUME Standing, NEW w \in Workers, req[w].pc \in {"next_history", "prev_history"},
           NEW STATE st,
           \E l \in {req[w].snap, act} : RecordHistory(l, req[w].action, req[w].snap.order, st)
    PROVE  Coherent(act') /\ act'.state = act.state
<1>1. req[w] # Idle /\ req[w].snap.order = act.order
  BY PcNotIdle DEF Standing, Walked, Walking, Idle
<1>2. req[w].action = Flow[act.order] /\ act.action = Flow[act.order]
  BY <1>1 DEF Standing, LetIn, Coherent
<1>3. act \in [action: Endpoints, order: Orders, status: Status,
               state: States]
  BY DEF Standing, Walked, Typed, TypeOK
<1>4. PICK l \in {req[w].snap, act} : RecordHistory(l, req[w].action, req[w].snap.order, st)
  OBVIOUS
<1> QED
  BY <1>2, <1>3, <1>4 DEF RecordHistory, Coherent

LEMMA StepStanding ==
    ASSUME OneWorker, Admitted, Standing, NEW w \in Workers, Step(w), Walked'
    PROVE  Standing'
<1>0. TypeOK /\ Last \in Nat
  BY FlowFacts DEF Standing, Walked, Typed
<1>1. act \in [action: Endpoints, order: Orders, status: Status,
               state: States]
  BY <1>0 DEF TypeOK
<1>2. OpenPages \subseteq Endpoints
  BY <1>0 DEF OpenPages, TypeOK
<1>3. \A a \in OpenPages : Authorized(w, a) => a = Flow[act.order]
  <2>1. CASE Admins = {}
    BY <2>1 DEF Authorized, Matches
  <2>2. CASE ~StalePages
    BY <2>2 DEF OpenPages, Standing, Coherent
  <2> QED
    BY <2>1, <2>2 DEF Admitted
<1>4. \A a \in OpenPages : ~StalePages => act.state = "making"
  BY DEF OpenPages
<1>5. CASE NextStart(w)
  <2>1. PICK a \in OpenPages : Authorized(w, a) /\ req' = [req EXCEPT ![w] = Request("next_history", a, "none")]
    BY <1>5 DEF NextStart
  <2>2. /\ a \in Endpoints /\ a = Flow[act.order] /\ UNCHANGED act
        /\ ~StalePages => act.state = "making"
    BY <1>2, <1>3, <1>5, <1>4, <2>1 DEF NextStart
  <2> QED
    BY <2>1, <2>2, StartStanding DEF Pcs
<1>6. CASE PrevStart(w)
  <2>1. PICK back \in {"reject", "return"} :
          req' = [req EXCEPT ![w] = Request("prev_history", "approval", back)]
    BY <1>6 DEF PrevStart
  <2>2. /\ "approval" = Flow[act.order] /\ UNCHANGED act
        /\ ~StalePages => act.state = "making"
    BY <1>3, <1>6, <1>4 DEF PrevStart
  <2> QED
    BY <2>1, <2>2, StartStanding DEF Endpoints, Pcs
<1>7. CASE CancelStart(w)
  <2>1. PICK a \in OpenPages : Authorized(w, a) /\ req' = [req EXCEPT ![w] = Request("cancel_clear", a, "none")]
    BY <1>7 DEF CancelStart
  <2>2. /\ a \in Endpoints /\ a = Flow[act.order] /\ UNCHANGED act
        /\ ~StalePages => act.state = "making"
    BY <1>2, <1>3, <1>7, <1>4, <2>1 DEF CancelStart
  <2> QED
    BY <2>1, <2>2, StartStanding DEF Pcs
<1>8. CASE NextInvalidIdentifier(w)
  <2>1. UNCHANGED act
    BY <1>8 DEF NextInvalidIdentifier
  <2>2. CASE Authorized(w, "identifier_grant")
    <3>1. req' = [req EXCEPT ![w] = Request("prev_history", "identifier_grant", "registration")]
      BY <1>8, <2>2 DEF NextInvalidIdentifier
    <3>2. "identifier_grant" = Flow[act.order] /\ (~StalePages => act.state = "making")
      BY <1>8, PcNotIdle DEF NextInvalidIdentifier, Standing, LetIn, Walked, Walking
    <3> QED
      BY <2>1, <3>1, <3>2, StartStanding DEF Endpoints, Pcs
  <2>3. CASE ~Authorized(w, "identifier_grant")
    BY <1>8, <2>1, <2>3, StartStanding DEF NextInvalidIdentifier, Answer
  <2> QED
    BY <2>2, <2>3
<1>9. CASE NextHistory(w)
  <2>1. req[w] # Idle
    BY <1>9, PcNotIdle DEF NextHistory
  <2>2. Coherent(act') /\ act'.state = act.state
    BY <1>9, HistoryStanding DEF NextHistory
  <2> QED
    BY <1>9, <2>1, <2>2, OnStanding, AloneStanding DEF NextHistory, Pcs
<1>10. CASE PrevHistory(w)
  <2>1. req[w] # Idle
    BY <1>10, PcNotIdle DEF PrevHistory
  <2>2. Coherent(act') /\ act'.state = act.state
    BY <1>10, HistoryStanding DEF PrevHistory
  <2>3. req[w].pc # "end_named" /\ (Answer(w) \/ Goto(w, "prev_status"))
    BY <1>10 DEF PrevHistory
  <2> QED
    BY <2>1, <2>2, <2>3, OnStanding, AloneStanding DEF Pcs
<1>11. CASE NextMove(w) \/ PrevMove(w)
  <2>1. PICK o : act' = [act EXCEPT !.action = Flow[o], !.order = o, !.status = "doing"]
    BY <1>11 DEF NextMove, PrevMove, MoveTo
  <2>2. Coherent(act') /\ act'.state = act.state
    BY <1>1, <2>1 DEF Coherent
  <2>3. req[w] # Idle
    BY <1>11, PcNotIdle DEF NextMove, PrevMove
  <2>4. req[w].pc # "end_named" /\ (Answer(w) \/ Goto(w, "next_doing"))
    BY <1>11 DEF NextMove, PrevMove
  <2> QED
    BY <2>2, <2>3, <2>4, OnStanding, AloneStanding DEF Pcs
<1>12. CASE FinishEnd(w)
  <2>1. Coherent(act')
    BY <1>12, FlowFacts DEF FinishEnd, Coherent
  <2> QED
    BY <1>0, <1>12, <2>1, AnswerTyped, AloneStanding DEF FinishEnd
<1>13. CASE Quit(w)
  <2>1. req[w] # Idle /\ req[w].pc = "quit"
    BY <1>13, PcNotIdle DEF Quit
  <2>2. req[w].action = Flow[act.order]
    BY <2>1 DEF Standing, LetIn, Walked, Walking
  <2>3. Coherent(act')
    BY <1>1, <1>13, <2>2 DEF Quit, Coherent
  <2> QED
    BY <1>0, <1>13, <2>3, AnswerTyped, AloneStanding DEF Quit
<1>14. ASSUME UNCHANGED act, req[w] # Idle,
              \/ Answer(w)
              \/ req[w].pc # "end_named" /\ \E pc \in Pcs \ {"idle"} : Goto(w, pc)
       PROVE  Standing'
  BY <1>14, OnStanding, AloneStanding DEF Standing
<1>15. CASE NextStatus(w) \/ NextDoing(w)
  BY <1>14, <1>15, PcNotIdle DEF NextStatus, NextDoing, Pcs
<1>16. CASE FinishPublish(w) \/ FinishVersion(w)
  BY <1>14, <1>16, PcNotIdle DEF FinishPublish, FinishVersion, Pcs
<1>17. CASE PrevStatus(w) \/ PrevDoing(w)
  BY <1>14, <1>17, PcNotIdle DEF PrevStatus, PrevDoing, Pcs
<1>18. CASE CancelClear(w) \/ CancelStatus(w)
  BY <1>14, <1>18, PcNotIdle DEF CancelClear, CancelStatus, Pcs
<1>19. CASE Crash(w) \/ FinishFails(w) \/ FinishFailsLate(w)
  BY <1>14, <1>19, PcNotIdle DEF Crash, FinishFails, FinishFailsLate, Pcs
<1>20. CASE EndNamed(w)
  <2>1. req' = [req EXCEPT ![w] = Request("end_named", "end", "none")] /\ UNCHANGED act
    BY <1>20 DEF EndNamed
  <2> QED
    BY <2>1, StartStanding DEF Endpoints, Pcs
<1>21. CASE EndAtOnce(w)
  <2>1. /\ req[w].pc = "end_named" /\ req[w].snap.state = act.state
        /\ w \in Admins \/ act.order = Last
    BY <1>21, PcNotIdle DEF EndAtOnce, Standing, Walked, Walking, Typed, Bounded
  <2>2. /\ act'.state = "finally" /\ act'.order = act.order
        /\ act'.action \in {act.action, "end"}
    BY <1>1, <1>21, <2>1 DEF EndAtOnce
  <2>3. Coherent(act')
    <3>1. CASE ~StalePages
      BY <2>2, <3>1 DEF Coherent
    <3>2. CASE StalePages
      <4>1. act.order = Last /\ act.action = Flow[act.order]
        BY <2>1, <3>2 DEF Admitted, Standing, Coherent
      <4> QED
        BY <2>2, <4>1, FlowFacts DEF Coherent
    <3> QED
      BY <3>1, <3>2
  <2> QED
    BY <1>0, <1>21, <2>3, AnswerTyped, AloneStanding DEF EndAtOnce
<1> QED
  BY <1>5, <1>6, <1>7, <1>8, <1>9, <1>10, <1>11, <1>12, <1>13, <1>15, <1>16, <1>17, <1>18,
     <1>19, <1>20, <1>21 DEF Step

LEMMA StandingStays ==
    OneWorker /\ Admitted => (Standing /\ [Next]_vars => Standing')
<1> SUFFICES ASSUME OneWorker, Admitted, Standing, [Next]_vars PROVE Standing'
  OBVIOUS
<1>1. Walked'
  BY StepWalked DEF Standing
<1>2. CASE UNCHANGED vars
  BY <1>1, <1>2 DEF vars, Standing, Coherent, LetIn
<1>3. CASE SaveItem
  BY <1>1, <1>3 DEF SaveItem, Standing
<1>4. ASSUME NEW w \in Workers, Step(w) PROVE Standing'
  BY <1>1, <1>4, StepStanding
<1> QED
  BY <1>2, <1>3, <1>4 DEF Next

\* When requests come one at a time, and no administrator acts from a page out
\* of date, the activity row always names the flow action at its own
\* action_order, whatever crashes or fails: without it check_authority raises
\* for every later request (views.py, previous_action commits the history before
\* it looks for the flow action).
THEOREM PositionKept == OneWorker /\ Admitted => (Spec => []PositionCoherent)
<1> SUFFICES ASSUME OneWorker, Admitted PROVE Spec => []PositionCoherent
  OBVIOUS
<1>1. Init => Standing
  BY InitWalked, FlowFacts DEF Init, Standing, Coherent
<1>2. Standing /\ [Next]_vars => Standing'
  BY StandingStays
<1>3. Standing => PositionCoherent
  BY DEF Standing, Coherent, PositionCoherent
<1> QED
  BY <1>1, <1>2, <1>3, PTL DEF Spec

-----------------------------------------------------------------------------
(* The flow: Activity implements ActivityFlow when its requests come one   *)
(* at a time, nothing fails and pages are up to date.                      *)

\* The last step before the end is no registration page: from there the item
\* could be saved again while it is being published.
Serial ==
    /\ OneWorker
    /\ MaxFaults = 0 /\ ~StalePages
    /\ Flow[Last - 1] # "item_login"

Publishing == {"version", "end"}

\* What a request under way relies on: the activity row a, whether the item
\* is published.
Serving(r, a, published) ==
    /\ r.pc = "end_named" => (published => a.state = "finally")
    /\ r.pc # "end_named" =>
        a.state = "making" /\ (published <=> r.pc \in Publishing)
    /\ r.pc = "next_history" => Flow[a.order] = r.action
    /\ r.pc \in {"next_status", "publish"} \cup Publishing =>
        a.action = r.action /\ Flow[a.order] = r.action
    /\ r.pc \in {"next_move", "next_doing"} => r.snap.order + 1 < Last
    /\ r.pc = "prev_history" => r.action # "item_login"
    /\ r.pc \in PrevPcs => a.order >= 3

Published == item.status = "published"

InFlow ==
    /\ Walked
    /\ \A w \in Workers : req[w] # Idle => Serving(req[w], act, Published)
    /\ (\A w \in Workers : req[w] = Idle) /\ Published => act.state = "finally"

\* One step of a request: the invariant after it, and what it is in the flow.
Maps == Flows!Next \/ UNCHANGED <<act.order, act.state, Published>>

LEMMA AloneInFlow ==
    ASSUME OneWorker, Walked', NEW w \in Workers,
           \/ req'[w] = Idle /\ (Published' => act'.state = "finally")
           \/ req'[w] # Idle /\ Serving(req'[w], act', Published')
    PROVE  InFlow'
BY DEF OneWorker, InFlow, Published

\* A request starts only on an activity that is being made and unpublished.
LEMMA StartInFlow ==
    ASSUME Serial, InFlow, Walked', NEW w \in Workers, UNCHANGED <<act, item>>,
           act.state = "making", ~Published,
           \/ Answer(w)
           \/ \E a \in Endpoints, pc \in {"next_history", "end_named", "prev_history", "cancel_clear"},
                 back \in {"none", "reject", "return", "registration"} :
                 /\ req' = [req EXCEPT ![w] = Request(pc, a, back)]
                 /\ pc = "next_history" => Flow[act.order] = a
                 /\ pc = "prev_history" => a # "item_login"
    PROVE  InFlow' /\ Maps
<1>0. TypeOK
  BY DEF InFlow, Walked, Typed
<1>1. Maps /\ Published' = Published
  BY DEF Maps, Published
<1>2. CASE Answer(w)
  BY <1>0, <1>1, <1>2, AnswerTyped, AloneInFlow DEF Serial
<1>3. ASSUME NEW a \in Endpoints, NEW pc \in {"next_history", "end_named", "prev_history", "cancel_clear"},
             NEW back \in {"none", "reject", "return", "registration"},
             req' = [req EXCEPT ![w] = Request(pc, a, back)],
             pc = "next_history" => Flow[act.order] = a,
             pc = "prev_history" => a # "item_login"
      PROVE  InFlow'
  <2>1. req'[w] = Request(pc, a, back)
    BY <1>0, <1>3 DEF TypeOK
  <2>2. /\ Request(pc, a, back) # Idle
        /\ Request(pc, a, back).pc = pc /\ Request(pc, a, back).action = a
    BY DEF Request, Idle
  <2>3. Serving(Request(pc, a, back), act, Published)
    BY <1>3, <2>2 DEF Serving, Publishing, PrevPcs
  <2> QED
    BY <1>1, <2>1, <2>2, <2>3, AloneInFlow DEF Serial
<1> QED
  BY <1>1, <1>2, <1>3

\* An open page belongs to an activity being made; between two requests its
\* item is not published yet.
LEMMA OpenInFlow ==
    ASSUME Serial, InFlow, NEW w \in Workers, req[w] = Idle, NEW a \in OpenPages
    PROVE  act.state = "making" /\ ~Published /\ a \in Endpoints
<1>1. act.state = "making"
  BY DEF Serial, OpenPages
<1>2. \A x \in Workers : req[x] = Idle
  BY DEF Serial, OneWorker
<1> QED
  BY <1>1, <1>2, PagesTyped DEF InFlow, Walked

\* What the invariant says of a request under way.
LEMMA BusyInFlow ==
    ASSUME InFlow, NEW w \in Workers, req[w].pc # "idle"
    PROVE  /\ req[w] # Idle /\ req[w] \in Requests
           /\ Serving(req[w], act, Published)
           /\ req[w].pc # "next_doing" => req[w].snap.order = act.order
           /\ act.order \in 1 .. Last /\ TypeOK
<1>1. req[w] # Idle
  BY DEF Idle
<1> QED
  BY <1>1, FlowFacts DEF InFlow, Walked, Walking, Typed, TypeOK

\* A request goes on to pc: it keeps what it names and has read.
LEMMA OnInFlow ==
    ASSUME InFlow, NEW w \in Workers, req[w].pc # "idle",
           NEW pc \in Pcs \ {"idle"}, Goto(w, pc)
    PROVE  /\ req'[w] # Idle /\ req'[w].pc = pc
           /\ req'[w].action = req[w].action /\ req'[w].snap = req[w].snap
<1>1. req'[w] = [req[w] EXCEPT !.pc = pc] /\ req[w] \in Requests
  BY BusyInFlow, GotoTyped
<1>2. req'[w].pc = pc /\ req'[w].action = req[w].action /\ req'[w].snap = req[w].snap
  BY <1>1 DEF Requests
<1> QED
  BY <1>2 DEF Idle

\* Recording the history of a step leaves the activity where it is.
LEMMA HistoryMaps ==
    ASSUME InFlow, NEW STATE l, NEW STATE a, NEW STATE o, NEW STATE st,
           l.action = act.action, RecordHistory(l, a, o, st)
    PROVE  act'.order = act.order /\ act'.state = act.state /\ act'.action = a
<1>0. act \in [action: Endpoints, order: Orders, status: Status,
               state: States]
  BY DEF InFlow, Walked, Typed, TypeOK
<1>1. CASE l.action = a /\ l.status = st
  BY <1>1 DEF RecordHistory
<1>2. CASE ~(l.action = a /\ l.status = st)
  <2> DEFINE na == IF l.action = a THEN act.action ELSE a
             ns == IF l.status = st THEN act.status ELSE st
  <2>1. act' = [act EXCEPT !.action = na, !.status = ns]
    BY <1>2, Zenon DEF RecordHistory
  <2>2. na = a
    OBVIOUS
  <2> HIDE DEF na, ns
  <2> QED
    BY <1>0, <2>1, <2>2
<1> QED
  BY <1>1, <1>2

LEMMA NextInFlow ==
    ASSUME Serial, InFlow, Walked', NEW w \in Workers,
           \/ NextStart(w) \/ NextInvalidIdentifier(w) \/ NextHistory(w)
           \/ NextStatus(w) \/ NextMove(w) \/ NextDoing(w)
    PROVE  InFlow' /\ Maps
<1>0. OneWorker
  BY DEF Serial
<1>1. CASE NextStart(w)
  <2>1. PICK a \in OpenPages : /\ Matches(a, act.order)
                               /\ req' = [req EXCEPT ![w] = Request("next_history", a, "none")]
    BY <1>1 DEF NextStart
  <2>2. act.state = "making" /\ ~Published /\ a \in Endpoints
    BY <1>1, OpenInFlow DEF NextStart
  <2> QED
    BY <1>1, <2>1, <2>2, StartInFlow DEF NextStart, Matches
<1>2. CASE NextInvalidIdentifier(w)
  <2>1. act.state = "making" /\ ~Published
    BY <1>2, BusyInFlow DEF NextInvalidIdentifier, Serving, Publishing
  <2>2. \/ Answer(w)
        \/ req' = [req EXCEPT ![w] = Request("prev_history", "identifier_grant", "registration")]
    BY <1>2 DEF NextInvalidIdentifier, Answer
  <2>3. UNCHANGED <<act, item>> /\ "identifier_grant" \in Endpoints
    BY <1>2 DEF NextInvalidIdentifier, Endpoints
  <2> QED
    BY <2>1, <2>2, <2>3, StartInFlow
<1>3. CASE NextHistory(w)
  <2>1. /\ req[w].pc = "next_history" /\ Serving(req[w], act, Published)
        /\ req[w].snap.action = act.action /\ TypeOK
    BY <1>3, BusyInFlow DEF NextHistory, InFlow, Walked, Walking
  <2>0. PICK l \in {req[w].snap, act} :
            RecordHistory(l, req[w].action, req[w].snap.order, "done")
    BY <1>3 DEF NextHistory
  <2>2. l.action = act.action /\ RecordHistory(l, req[w].action, req[w].snap.order, "done")
    BY <2>0, <2>1
  <2>3. act'.order = act.order /\ act'.state = act.state /\ act'.action = req[w].action
    BY <2>2, HistoryMaps
  <2>4. Published' = Published
    BY <1>3 DEF NextHistory, Published
  <2>5. req'[w] # Idle /\ req'[w].pc = "next_status" /\ req'[w].action = req[w].action
    BY <1>3, <2>1, OnInFlow DEF NextHistory, Pcs
  <2>6. Serving(req'[w], act', Published')
    BY <2>1, <2>3, <2>4, <2>5 DEF Serving, Publishing, PrevPcs
  <2> QED
    BY <1>0, <2>3, <2>4, <2>5, <2>6, AloneInFlow DEF Maps
<1>4. CASE NextStatus(w)
  <2>1. /\ req[w].pc = "next_status" /\ Serving(req[w], act, Published)
        /\ req[w].snap.order = act.order /\ act.order \in 1 .. Last
        /\ act.order < Last
    BY <1>4, BusyInFlow DEF NextStatus, InFlow, Walked, Typed, Bounded, NextPcs
  <2> DEFINE pc == IF req[w].snap.order + 1 = Last THEN "publish" ELSE "next_move"
  <2>2. UNCHANGED <<act, item>> /\ Goto(w, pc) /\ pc \in Pcs \ {"idle"}
    BY <1>4 DEF NextStatus, Pcs
  <2>3. /\ req'[w] # Idle /\ req'[w].pc = pc
        /\ req'[w].action = req[w].action /\ req'[w].snap = req[w].snap
    BY <2>1, <2>2, OnInFlow
  <2>4. Serving(req'[w], act, Published)
    BY <2>1, <2>3, FlowFacts DEF Serving, Publishing, PrevPcs
  <2> QED
    BY <1>0, <2>2, <2>3, <2>4, AloneInFlow DEF Maps, Published
<1>5. CASE NextMove(w)
  <2>1. /\ req[w].pc = "next_move" /\ Serving(req[w], act, Published)
        /\ req[w].snap.order = act.order /\ act.order \in 1 .. Last /\ TypeOK
    BY <1>5, BusyInFlow DEF NextMove
  <2>2. act.state = "making" /\ ~Published /\ act.order + 1 < Last
    BY <2>1 DEF Serving, Publishing
  <2>3. act'.order = act.order + 1 /\ act'.state = act.state /\ Published' = Published
    BY <1>5, <2>1 DEF NextMove, MoveTo, TypeOK, Published
  <2>4. Flows!Advance
    BY <2>2, <2>3 DEF Flows!Advance, Flows!Last, Last, Published
  <2>5. req'[w] # Idle /\ req'[w].pc = "next_doing" /\ req'[w].snap = req[w].snap
    BY <1>5, <2>1, OnInFlow DEF NextMove, Pcs
  <2>6. Serving(req'[w], act', Published')
    BY <2>1, <2>2, <2>3, <2>5 DEF Serving, Publishing, PrevPcs
  <2> QED
    BY <1>0, <2>4, <2>5, <2>6, AloneInFlow DEF Maps, Flows!Next
<1>6. CASE NextDoing(w)
  <2>1. ~Published /\ TypeOK /\ act.state = "making"
    BY <1>6, BusyInFlow DEF NextDoing, Serving, Publishing
  <2> QED
    BY <1>6, <2>1, StartInFlow DEF NextDoing
<1> QED
  BY <1>1, <1>2, <1>3, <1>4, <1>5, <1>6

LEMMA FinishInFlow ==
    ASSUME Serial, InFlow, Walked', NEW w \in Workers,
           FinishPublish(w) \/ FinishVersion(w) \/ FinishEnd(w)
    PROVE  InFlow' /\ Maps
<1>0. OneWorker
  BY DEF Serial
<1>1. /\ req[w].pc \in {"publish"} \cup Publishing /\ req[w].pc # "idle"
      /\ Serving(req[w], act, Published) /\ act.order \in 1 .. Last /\ TypeOK
  BY BusyInFlow DEF FinishPublish, FinishVersion, FinishEnd, Publishing
<1>2. act.order + 1 = Last
  BY <1>1 DEF Publishing, InFlow, Walked, Walking, Idle
<1>3. CASE FinishPublish(w) /\ req[w].snap.deposit = "draft"
  <2>1. /\ item' = [item EXCEPT !.status = "published"] /\ UNCHANGED act
        /\ Goto(w, "version") /\ req[w].pc = "publish"
    BY <1>3 DEF FinishPublish
  <2>2. Published' /\ ~Published
    BY <1>1, <2>1 DEF Published, TypeOK, Serving, Publishing
  <2>3. Flows!Publish
    BY <1>1, <1>2, <2>1, <2>2 DEF Flows!Publish, Flows!Last, Last, Published, Serving
  <2>4. req'[w] # Idle /\ req'[w].pc = "version" /\ req'[w].action = req[w].action
    BY <1>1, <2>1, OnInFlow DEF Pcs
  <2>5. Serving(req'[w], act', Published')
    BY <1>1, <2>1, <2>2, <2>4 DEF Serving, Publishing, PrevPcs
  <2> QED
    BY <1>0, <2>3, <2>4, <2>5, AloneInFlow DEF Maps, Flows!Next
<1>4. CASE FinishPublish(w) /\ req[w].snap.deposit # "draft"
  <2>1. ~Published /\ act.state = "making"
    BY <1>1, <1>4 DEF Serving, Publishing, FinishPublish
  <2> QED
    BY <1>4, <2>1, StartInFlow DEF FinishPublish
<1>5. CASE FinishVersion(w)
  <2>1. Published' = Published /\ UNCHANGED act /\ Goto(w, "end") /\ req[w].pc = "version"
    BY <1>1, <1>5 DEF FinishVersion, Published, TypeOK
  <2>2. req'[w] # Idle /\ req'[w].pc = "end" /\ req'[w].action = req[w].action
    BY <1>1, <2>1, OnInFlow DEF Pcs
  <2>3. Serving(req'[w], act', Published')
    BY <1>1, <2>1, <2>2 DEF Serving, Publishing, PrevPcs
  <2> QED
    BY <1>0, <2>1, <2>2, <2>3, AloneInFlow DEF Maps
<1>6. CASE FinishEnd(w)
  <2>1. /\ act' = [action |-> "end", order |-> Last, status |-> "done", state |-> "finally"]
        /\ UNCHANGED item /\ Answer(w) /\ req[w].pc = "end"
    BY <1>6 DEF FinishEnd
  <2>2. Published /\ Published' = Published /\ act.state = "making"
    BY <1>1, <2>1 DEF Serving, Publishing, Published
  <2>3. Flows!Finish
    BY <1>2, <2>1, <2>2 DEF Flows!Finish, Flows!Last, Last, Published
  <2> QED
    BY <1>0, <1>1, <2>1, <2>2, <2>3, AnswerTyped, AloneInFlow DEF Maps, Flows!Next
<1> QED
  BY <1>3, <1>4, <1>5, <1>6

LEMMA PrevInFlow ==
    ASSUME Serial, InFlow, Walked', NEW w \in Workers,
           PrevStart(w) \/ PrevHistory(w) \/ PrevStatus(w) \/ PrevDoing(w) \/ PrevMove(w)
    PROVE  InFlow' /\ Maps
<1>0. OneWorker
  BY DEF Serial
<1>1. ASSUME req[w].pc \in PrevPcs \cup {"prev_history"}
      PROVE  /\ req[w].pc # "idle" /\ Serving(req[w], act, Published)
             /\ req[w].snap.order = act.order /\ act.order \in 1 .. Last /\ TypeOK
             /\ act.state = "making" /\ ~Published
  BY <1>1, BusyInFlow DEF PrevPcs, Serving, Publishing
<1>2. CASE PrevStart(w)
  <2>1. PICK back \in {"reject", "return"} :
            req' = [req EXCEPT ![w] = Request("prev_history", "approval", back)]
    BY <1>2 DEF PrevStart
  <2>2. act.state = "making" /\ ~Published
    BY <1>2, OpenInFlow DEF PrevStart
  <2>3. UNCHANGED <<act, item>> /\ "approval" \in Endpoints
    BY <1>2 DEF PrevStart, Endpoints
  <2> QED
    BY <2>1, <2>2, <2>3, StartInFlow
<1>3. CASE PrevHistory(w)
  <2>1. req[w].pc = "prev_history"
    BY <1>3 DEF PrevHistory
  <2>2. act'.order = act.order /\ act'.state = act.state
    <3>1. req[w].snap.action = act.action
      BY <2>1 DEF InFlow, Walked, Walking, Idle
    <3> QED
      BY <1>3, <3>1, HistoryMaps DEF PrevHistory
  <2>3. Published' = Published
    BY <1>3 DEF PrevHistory, Published
  <2>4. CASE Matches(req[w].action, req[w].snap.order)
    <3>1. Flow[act.order] \notin {"begin", "end", "item_login"}
      BY <1>1, <2>1, <2>4 DEF Matches, InFlow, Walked, Typed, Bounded, Serving, Idle
    <3>2. act.order >= 3
      BY <1>1, <2>1, <3>1, FlowFacts
    <3>3. req'[w] # Idle /\ req'[w].pc = "prev_status"
      BY <1>1, <1>3, <2>1, <2>4, OnInFlow DEF PrevHistory, Pcs
    <3>4. Serving(req'[w], act', Published')
      BY <1>1, <2>1, <2>2, <2>3, <3>2, <3>3 DEF Serving, Publishing, PrevPcs
    <3> QED
      BY <1>0, <2>2, <2>3, <3>3, <3>4, AloneInFlow DEF Maps
  <2>5. CASE ~Matches(req[w].action, req[w].snap.order)
    BY <1>0, <1>1, <1>3, <2>1, <2>2, <2>3, <2>5, AnswerTyped, AloneInFlow
    DEF PrevHistory, Maps
  <2> QED
    BY <2>4, <2>5
<1>4. ASSUME NEW pc \in {"prev_doing", "prev_move"}, req[w].pc \in {"prev_status", "prev_doing"},
             Goto(w, pc), UNCHANGED <<act, item>>
      PROVE  InFlow' /\ Maps
  <2>1. req'[w] # Idle /\ req'[w].pc = pc
    BY <1>4, OnInFlow DEF Pcs
  <2>2. act.order >= 3
    BY <1>1, <1>4 DEF Serving, PrevPcs
  <2>3. Serving(req'[w], act', Published')
    BY <1>1, <1>4, <2>1, <2>2 DEF Serving, Publishing, PrevPcs, Published
  <2> QED
    BY <1>0, <1>4, <2>1, <2>3, AloneInFlow DEF Maps, Published
<1>5. CASE PrevStatus(w)
  BY <1>4, <1>5 DEF PrevStatus
<1>6. CASE PrevDoing(w)
  BY <1>4, <1>6 DEF PrevDoing
<1>7. CASE PrevMove(w)
  <2>1. req[w].pc = "prev_move"
    BY <1>7 DEF PrevMove
  <2> DEFINE to == Target(req[w].snap.order, req[w].back)
  <2>2. to \in 2 .. act.order
    BY <1>1, <2>1 DEF Target, Serving, PrevPcs
  <2>3. act'.order = to /\ act'.state = act.state /\ Published' = Published
    BY <1>1, <1>7, <2>1 DEF PrevMove, MoveTo, TypeOK, Published, PrevPcs
  <2> HIDE DEF to
  <2>4. Flows!SendBack
    BY <1>1, <2>1, <2>2, <2>3 DEF Flows!SendBack, Published, PrevPcs
  <2> QED
    BY <1>0, <1>1, <1>7, <2>1, <2>3, <2>4, AnswerTyped, AloneInFlow
    DEF PrevMove, Maps, Flows!Next, PrevPcs
<1> QED
  BY <1>2, <1>3, <1>5, <1>6, <1>7

LEMMA CancelInFlow ==
    ASSUME Serial, InFlow, Walked', NEW w \in Workers,
           CancelStart(w) \/ CancelClear(w) \/ CancelStatus(w) \/ Quit(w)
    PROVE  InFlow' /\ Maps
<1>0. OneWorker
  BY DEF Serial
<1>1. ASSUME req[w].pc \in {"cancel_clear", "cancel_status", "quit"}
      PROVE  /\ req[w].pc # "idle" /\ TypeOK
             /\ act.state = "making" /\ ~Published
  BY <1>1, BusyInFlow DEF Serving, Publishing
<1>2. CASE CancelStart(w)
  <2>1. PICK a \in OpenPages : req' = [req EXCEPT ![w] = Request("cancel_clear", a, "none")]
    BY <1>2 DEF CancelStart
  <2>2. act.state = "making" /\ ~Published /\ a \in Endpoints /\ UNCHANGED <<act, item>>
    BY <1>2, OpenInFlow DEF CancelStart
  <2> QED
    BY <2>1, <2>2, StartInFlow
<1>3. ASSUME NEW pc \in {"cancel_status", "quit"}, Goto(w, pc) \/ Answer(w), UNCHANGED act,
             Published' = Published, req[w].pc \in {"cancel_clear", "cancel_status"}
      PROVE  InFlow' /\ Maps
  <2>1. CASE Goto(w, pc)
    <3>1. req'[w] # Idle /\ req'[w].pc = pc
      BY <1>1, <1>3, <2>1, OnInFlow DEF Pcs
    <3>2. Serving(req'[w], act', Published')
      BY <1>1, <1>3, <3>1 DEF Serving, Publishing, PrevPcs
    <3> QED
      BY <1>0, <1>3, <3>1, <3>2, AloneInFlow DEF Maps
  <2>2. CASE Answer(w)
    BY <1>0, <1>1, <1>3, <2>2, AnswerTyped, AloneInFlow DEF Maps
  <2> QED
    BY <1>3, <2>1, <2>2
<1>4. CASE CancelClear(w)
  <2>1. Published' = Published
    BY <1>1, <1>4 DEF CancelClear, Published, TypeOK
  <2> QED
    BY <1>3, <1>4, <2>1 DEF CancelClear
<1>5. CASE CancelStatus(w)
  BY <1>3, <1>5 DEF CancelStatus, Published
<1>6. CASE Quit(w)
  <2>1. act'.order = act.order /\ act'.state = "cancel" /\ Published' = Published
    BY <1>1, <1>6 DEF Quit, TypeOK, Published
  <2>2. Flows!Cancel
    BY <1>1, <1>6, <2>1 DEF Flows!Cancel, Quit, Published
  <2> QED
    BY <1>0, <1>1, <1>6, <2>1, <2>2, AnswerTyped, AloneInFlow DEF Quit, Maps, Flows!Next
<1> QED
  BY <1>2, <1>4, <1>5, <1>6

LEMMA EndInFlow ==
    ASSUME Serial, InFlow, Walked', NEW w \in Workers, EndNamed(w) \/ EndAtOnce(w)
    PROVE  InFlow' /\ Maps
<1>0. OneWorker /\ TypeOK
  BY DEF Serial, InFlow, Walked, Typed
<1>1. CASE EndNamed(w)
  <2>1. Published => act.state = "finally"
    <3>1. \A v \in Workers : req[v] = Idle
      BY <1>0, <1>1 DEF EndNamed, OneWorker
    <3> QED
      BY <3>1 DEF InFlow
  <2>2. req'[w] = Request("end_named", "end", "none") /\ UNCHANGED <<act, item>>
    BY <1>0, <1>1 DEF EndNamed, TypeOK
  <2>3. req'[w] # Idle /\ req'[w].pc = "end_named"
    BY <2>2 DEF Request, Idle
  <2>4. Serving(req'[w], act', Published')
    BY <2>1, <2>2, <2>3 DEF Serving, Publishing, PrevPcs, Published
  <2> QED
    BY <1>0, <2>2, <2>3, <2>4, AloneInFlow DEF Maps, Published
<1>2. CASE EndAtOnce(w)
  <2>1. /\ req[w].pc = "end_named"
        /\ w \in Admins \/ act.order = Last
        /\ act.order = Last => act.state = "finally"
        /\ Published => act.state = "finally"
    <3>1. req[w].pc = "end_named" /\ req[w] # Idle
      BY <1>2, PcNotIdle DEF EndAtOnce
    <3>2. req[w].snap.order = act.order
      BY <3>1 DEF InFlow, Walked, Walking
    <3>3. w \in Admins \/ act.order = Last
      BY <3>1, <3>2 DEF InFlow, Walked, Typed, Bounded
    <3>4. act.order = Last => act.state = "finally"
      BY DEF InFlow, Walked, Behind
    <3> QED
      BY <3>1, <3>3, <3>4 DEF InFlow, Serving
  <2>2. act'.order = act.order /\ act'.state \in {act.state, "finally"}
    BY <1>0, <1>2 DEF EndAtOnce, TypeOK
  <2>3. Published' = Published
    BY <1>2 DEF EndAtOnce, Published
  <2>4. Maps
    <3>1. CASE act'.state = act.state
      BY <2>2, <2>3, <3>1 DEF Maps
    <3>2. CASE act'.state # act.state
      <4>1. Flows!End
        BY <2>1, <2>2, <2>3, <3>2 DEF Flows!End, Published
      <4> QED
        BY <4>1 DEF Maps, Flows!Next
    <3> QED
      BY <3>1, <3>2
  <2>5. InFlow'
    BY <1>0, <1>2, <2>1, <2>2, <2>3, AnswerTyped, AloneInFlow DEF EndAtOnce
  <2> QED
    BY <2>4, <2>5
<1> QED
  BY <1>1, <1>2

LEMMA StepInFlow == Serial => (InFlow /\ [Next]_vars => InFlow' /\ Maps)
<1> SUFFICES ASSUME Serial, InFlow, [Next]_vars PROVE InFlow' /\ Maps
  OBVIOUS
<1>0. Walked'
  BY StepWalked DEF Serial, InFlow
<1>1. CASE UNCHANGED vars
  BY <1>0, <1>1 DEF vars, InFlow, Published, Serving, Maps
<1>2. CASE SaveItem
  <2>1. Published /\ act.state = "making" /\ act.action = "item_login"
    BY <1>2 DEF SaveItem, InFlow, Walked, Typed, TypeOK, Published
  <2>2. PICK w \in Workers : req[w] # Idle /\ Serving(req[w], act, Published)
    BY <2>1 DEF InFlow
  <2>3. req[w].pc \in Publishing /\ Flow[act.order] = "item_login"
    BY <2>1, <2>2 DEF Serving
  <2>4. act.order + 1 = Last
    BY <2>2, <2>3 DEF InFlow, Walked, Walking, Publishing
  <2>5. act.order = Last - 1
    BY <2>2, <2>4, FlowFacts DEF InFlow, Walked, Typed, TypeOK
  <2> QED
    BY <2>3, <2>5 DEF Serial
<1>3. ASSUME NEW w \in Workers, Step(w) PROVE InFlow' /\ Maps
  <2>1. ~Fault
    BY DEF Fault, Serial, InFlow, Walked, Typed, TypeOK
  <2> QED
    BY <1>0, <1>3, <2>1, NextInFlow, FinishInFlow, EndInFlow, PrevInFlow,
       CancelInFlow
    DEF Step, Crash, FinishFails, FinishFailsLate
<1> QED
  BY <1>1, <1>2, <1>3 DEF Next

LEMMA InitInFlow == Init => InFlow /\ Flows!Init
<1> SUFFICES ASSUME Init PROVE InFlow /\ Flows!Init
  OBVIOUS
<1> QED
  BY InitWalked DEF Init, InFlow, Published, Flows!Init

\* Its requests one at a time and nothing failing, the program of Activity
\* walks an item through its flow as ActivityFlow promises: one step forward
\* at a time or back, published from the last step only, finished only when
\* published (or where an administrator ends it) and cancelled only when not.
THEOREM Refines == Serial => (Spec => ImplementsFlow)
<1> SUFFICES ASSUME Serial PROVE Spec => ImplementsFlow
  OBVIOUS
<1>1. InFlow /\ [Next]_vars => InFlow'
  BY StepInFlow
<1>2. InFlow /\ [Next]_vars => [Flows!Next]_(Flows!vars)
  BY StepInFlow DEF Maps, Flows!vars, Published
<1> QED
  BY InitInFlow, <1>1, <1>2, PTL DEF Spec, ImplementsFlow, Flows!Spec

-----------------------------------------------------------------------------
(* The step being done.                                                    *)

\* The steps that may be marked as being done while r is answered. While
\* nothing is answered it is the current one.
Doable(r, a) ==
    CASE r.pc \in {"next_move", "next_doing", "publish", "version", "end", "prev_doing",
                   "quit"} -> {}
      [] r.pc = "prev_move" -> {Target(r.snap.order, r.back)}
      [] OTHER -> {a.order}

Placed(r, a, rw) ==
    /\ \A o \in Orders : rw[o] = "doing" => o \in Doable(r, a)
    /\ r.pc = "next_doing" => a.order = r.snap.order + 1

DoingPlaced == InFlow /\ \A w \in Workers : Placed(req[w], act, row)

LEMMA AlonePlaced ==
    ASSUME OneWorker, InFlow', NEW w \in Workers, Placed(req'[w], act', row')
    PROVE  DoingPlaced'
BY DEF OneWorker, DoingPlaced

\* A handler that begins, or that is left, with the rows as they were.
LEMMA EndsPlaced ==
    ASSUME NEW r, r.pc \in {"idle", "next_history", "prev_history", "cancel_clear"},
           NEW a, NEW rw, \A o \in Orders : rw[o] = "doing" => o = a.order
    PROVE  Placed(r, a, rw)
BY DEF Placed, Doable

LEMMA NextPlaced ==
    ASSUME Serial, DoingPlaced, InFlow', NEW w \in Workers,
           \/ NextStart(w) \/ NextInvalidIdentifier(w) \/ NextHistory(w)
           \/ NextStatus(w) \/ NextMove(w) \/ NextDoing(w)
    PROVE  DoingPlaced'
<1>0. /\ OneWorker /\ TypeOK /\ Placed(req[w], act, row)
      /\ req[w].pc \notin {"idle", "next_doing"} => req[w].snap.order = act.order
      /\ req[w].pc # "idle" =>
             req[w] # Idle /\ req[w] \in Requests /\ req[w].snap.order \in Orders
  BY BusyInFlow DEF Serial, DoingPlaced, InFlow, Walked, Typed, Requests, Snapshots
<1>1. CASE NextStart(w)
  <2>1. PICK a \in OpenPages : req' = [req EXCEPT ![w] = Request("next_history", a, "none")]
    BY <1>1 DEF NextStart
  <2>2. req'[w].pc = "next_history" /\ UNCHANGED <<act, row>> /\ req[w].pc = "idle"
    BY <1>0, <1>1, <2>1 DEF NextStart, Request, TypeOK, Idle
  <2>3. \A o \in Orders : row'[o] = "doing" => o = act'.order
    BY <1>0, <2>2 DEF Placed, Doable
  <2> QED
    BY <1>0, <2>2, <2>3, EndsPlaced, AlonePlaced
<1>2. CASE NextInvalidIdentifier(w)
  <2>1. req'[w].pc \in {"idle", "prev_history"} /\ UNCHANGED <<act, row>>
    BY <1>0, <1>2 DEF NextInvalidIdentifier, Request, TypeOK, Idle
  <2>2. \A o \in Orders : row'[o] = "doing" => o = act'.order
    BY <1>0, <1>2, <2>1 DEF NextInvalidIdentifier, Placed, Doable
  <2> QED
    BY <1>0, <2>1, <2>2, EndsPlaced, AlonePlaced
<1>3. CASE NextHistory(w)
  <2>1. req'[w].pc = "next_status" /\ act'.order = act.order /\ row' = row
    <3>1. Goto(w, "next_status") /\ req[w].pc # "idle" /\ "next_status" \in Pcs \ {"idle"}
      BY <1>3 DEF NextHistory, Pcs
    <3>2. PICK l \in {req[w].snap, act} :
              RecordHistory(l, req[w].action, req[w].snap.order, "done")
      BY <1>3 DEF NextHistory
    <3>3. act'.order = act.order
      BY <1>0, <3>2 DEF RecordHistory, TypeOK
    <3> QED
      BY <1>3, <3>1, <3>3, OnInFlow DEF NextHistory, DoingPlaced
  <2> QED
    BY <1>0, <1>3, <2>1, AlonePlaced DEF NextHistory, Placed, Doable
<1>4. CASE NextStatus(w)
  <2>1. req'[w].pc \in {"publish", "next_move"} /\ act' = act
    <3> DEFINE pc == IF req[w].snap.order + 1 = Last THEN "publish" ELSE "next_move"
    <3>1. Goto(w, pc) /\ req[w].pc # "idle" /\ pc \in Pcs \ {"idle"} /\ act' = act
      BY <1>4 DEF NextStatus, Pcs
    <3>2. req'[w].pc = pc
      BY <3>1, OnInFlow DEF DoingPlaced
    <3> QED
      BY <3>1, <3>2
  <2>2. \A o \in Orders : row'[o] # "doing"
    BY <1>0, <1>4 DEF NextStatus, SetRow, TypeOK, Placed, Doable
  <2> QED
    BY <1>0, <2>1, <2>2, AlonePlaced DEF Placed
<1>5. CASE NextMove(w)
  <2>1. req'[w].pc = "next_doing" /\ req'[w].snap = req[w].snap
    BY <1>0, <1>5, OnInFlow DEF NextMove, Pcs, DoingPlaced
  <2>2. act'.order = req[w].snap.order + 1 /\ row' = row
    BY <1>0, <1>5 DEF NextMove, MoveTo, TypeOK
  <2> QED
    BY <1>0, <1>5, <2>1, <2>2, AlonePlaced DEF NextMove, Placed, Doable
<1>6. CASE NextDoing(w)
  <2>1. req'[w].pc = "idle" /\ act' = act
    BY <1>0, <1>6 DEF NextDoing, Answer, Idle, TypeOK
  <2>2. \A o \in Orders : row'[o] = "doing" => o = act.order
    BY <1>0, <1>6 DEF NextDoing, SetRow, TypeOK, Placed, Doable
  <2> QED
    BY <1>0, <2>1, <2>2, EndsPlaced, AlonePlaced
<1> QED
  BY <1>1, <1>2, <1>3, <1>4, <1>5, <1>6

LEMMA FinishPlaced ==
    ASSUME Serial, DoingPlaced, InFlow', NEW w \in Workers,
           FinishPublish(w) \/ FinishVersion(w) \/ FinishEnd(w)
    PROVE  DoingPlaced'
<1>0. /\ OneWorker /\ TypeOK /\ Placed(req[w], act, row)
      /\ req[w].pc \in {"publish", "version", "end"} /\ row' = row /\ req[w] # Idle
  BY PcNotIdle DEF Serial, DoingPlaced, InFlow, Walked, Typed, FinishPublish, FinishVersion, FinishEnd
<1>1. req'[w].pc \in {"version", "end", "idle"}
  <2>1. Answer(w) \/ \E pc \in {"version", "end"} : Goto(w, pc)
    BY DEF FinishPublish, FinishVersion, FinishEnd
  <2>2. CASE Answer(w)
    BY <1>0, <2>2 DEF Answer, Idle, TypeOK
  <2>3. ASSUME NEW pc \in {"version", "end"}, Goto(w, pc)
        PROVE  req'[w].pc = pc
    BY <1>0, <2>3, OnInFlow DEF DoingPlaced, Pcs
  <2> QED
    BY <2>1, <2>2, <2>3
<1>2. \A o \in Orders : row'[o] # "doing"
  BY <1>0 DEF Placed, Doable
<1> QED
  BY <1>0, <1>1, <1>2, AlonePlaced DEF Placed

LEMMA PrevPlaced ==
    ASSUME Serial, DoingPlaced, InFlow', NEW w \in Workers,
           PrevStart(w) \/ PrevHistory(w) \/ PrevStatus(w) \/ PrevDoing(w) \/ PrevMove(w)
    PROVE  DoingPlaced'
<1>0. /\ OneWorker /\ TypeOK /\ Placed(req[w], act, row)
      /\ req[w].pc \notin {"idle", "next_doing"} => req[w].snap.order = act.order
      /\ req[w].pc # "idle" =>
             req[w] # Idle /\ req[w] \in Requests /\ req[w].snap.order \in Orders
  BY BusyInFlow DEF Serial, DoingPlaced, InFlow, Walked, Typed, Requests, Snapshots
<1>1. CASE PrevStart(w)
  <2>1. PICK back : req' = [req EXCEPT ![w] = Request("prev_history", "approval", back)]
    BY <1>1 DEF PrevStart
  <2>2. req'[w].pc = "prev_history" /\ UNCHANGED <<act, row>> /\ req[w].pc = "idle"
    BY <1>0, <1>1, <2>1 DEF PrevStart, Request, TypeOK, Idle
  <2>3. \A o \in Orders : row'[o] = "doing" => o = act'.order
    BY <1>0, <2>2 DEF Placed, Doable
  <2> QED
    BY <1>0, <2>2, <2>3, EndsPlaced, AlonePlaced
<1>2. CASE PrevHistory(w)
  <2>1. /\ req'[w].pc \in {"idle", "prev_status"} /\ act'.order = act.order /\ row' = row
    <3>1. act'.order = act.order /\ row' = row /\ req[w].pc = "prev_history"
      BY <1>0, <1>2 DEF PrevHistory, RecordHistory, TypeOK
    <3>2. CASE Answer(w)
      BY <1>0, <3>1, <3>2 DEF Answer, Idle, TypeOK
    <3>3. CASE Goto(w, "prev_status")
      BY <1>0, <3>1, <3>3, OnInFlow DEF DoingPlaced, Pcs
    <3> QED
      BY <1>2, <3>1, <3>2, <3>3 DEF PrevHistory
  <2> QED
    BY <1>0, <1>2, <2>1, AlonePlaced DEF PrevHistory, Placed, Doable
<1>3. CASE PrevStatus(w)
  <2>1. req'[w].pc = "prev_doing"
    BY <1>0, <1>3, OnInFlow DEF PrevStatus, Pcs, DoingPlaced
  <2>2. \A o \in Orders : row'[o] # "doing"
    BY <1>0, <1>3 DEF PrevStatus, BackStatus, SetRow, TypeOK, Placed, Doable
  <2> QED
    BY <1>0, <2>1, <2>2, AlonePlaced DEF Placed
<1>4. CASE PrevDoing(w)
  <2>1. req'[w] = [req[w] EXCEPT !.pc = "prev_move"]
    BY <1>0, <1>4, GotoTyped DEF PrevDoing, Pcs
  <2>2. /\ req'[w].pc = "prev_move" /\ req'[w].snap = req[w].snap
        /\ req'[w].back = req[w].back
    BY <1>0, <1>4, <2>1 DEF PrevDoing, Requests
  <2>3. \A o \in Orders : row'[o] = "doing" => o = Target(req[w].snap.order, req[w].back)
    BY <1>0, <1>4 DEF PrevDoing, SetRow, TypeOK, Placed, Doable
  <2> QED
    BY <1>0, <2>2, <2>3, AlonePlaced DEF Placed, Doable
<1>5. CASE PrevMove(w)
  <2>1. req'[w].pc = "idle" /\ row' = row
    BY <1>0, <1>5 DEF PrevMove, Answer, Idle, TypeOK
  <2>2. act'.order = Target(req[w].snap.order, req[w].back)
    BY <1>0, <1>5 DEF PrevMove, MoveTo, TypeOK
  <2>3. \A o \in Orders : row'[o] = "doing" => o = act'.order
    BY <1>0, <1>5, <2>1, <2>2 DEF PrevMove, Placed, Doable
  <2> QED
    BY <1>0, <2>1, <2>3, EndsPlaced, AlonePlaced
<1> QED
  BY <1>1, <1>2, <1>3, <1>4, <1>5

LEMMA CancelPlaced ==
    ASSUME Serial, DoingPlaced, InFlow', NEW w \in Workers,
           CancelStart(w) \/ CancelClear(w) \/ CancelStatus(w) \/ Quit(w)
    PROVE  DoingPlaced'
<1>0. /\ OneWorker /\ TypeOK /\ Placed(req[w], act, row)
      /\ req[w].pc \notin {"idle", "next_doing"} => req[w].snap.order = act.order
      /\ req[w].pc # "idle" =>
             req[w] # Idle /\ req[w] \in Requests /\ req[w].snap.order \in Orders
  BY BusyInFlow DEF Serial, DoingPlaced, InFlow, Walked, Typed, Requests, Snapshots
<1>1. CASE CancelStart(w)
  <2>1. PICK a \in OpenPages : req' = [req EXCEPT ![w] = Request("cancel_clear", a, "none")]
    BY <1>1 DEF CancelStart
  <2>2. req'[w].pc = "cancel_clear" /\ UNCHANGED <<act, row>> /\ req[w].pc = "idle"
    BY <1>0, <1>1, <2>1 DEF CancelStart, Request, TypeOK, Idle
  <2>3. \A o \in Orders : row'[o] = "doing" => o = act'.order
    BY <1>0, <2>2 DEF Placed, Doable
  <2> QED
    BY <1>0, <2>2, <2>3, EndsPlaced, AlonePlaced
<1>2. CASE CancelClear(w)
  <2>1. req'[w].pc \in {"idle", "cancel_status"} /\ UNCHANGED <<act, row>>
    <3>1. UNCHANGED <<act, row>> /\ req[w].pc = "cancel_clear"
      BY <1>2 DEF CancelClear
    <3>2. CASE Answer(w)
      BY <1>0, <3>1, <3>2 DEF Answer, Idle, TypeOK
    <3>3. CASE Goto(w, "cancel_status")
      BY <1>0, <3>1, <3>3, OnInFlow DEF DoingPlaced, Pcs
    <3> QED
      BY <1>2, <3>1, <3>2, <3>3 DEF CancelClear
  <2> QED
    BY <1>0, <1>2, <2>1, AlonePlaced DEF CancelClear, Placed, Doable
<1>3. CASE CancelStatus(w)
  <2>1. req'[w].pc = "quit"
    BY <1>0, <1>3, OnInFlow DEF CancelStatus, Pcs, DoingPlaced
  <2>2. \A o \in Orders : row'[o] # "doing"
    BY <1>0, <1>3 DEF CancelStatus, SetRow, TypeOK, Placed, Doable
  <2> QED
    BY <1>0, <2>1, <2>2, AlonePlaced DEF Placed
<1>4. CASE Quit(w)
  <2>1. req'[w].pc = "idle" /\ row' = row
    BY <1>0, <1>4 DEF Quit, Answer, Idle, TypeOK
  <2> QED
    BY <1>0, <1>4, <2>1, AlonePlaced DEF Quit, Placed, Doable
<1> QED
  BY <1>1, <1>2, <1>3, <1>4

LEMMA EndPlaced ==
    ASSUME Serial, DoingPlaced, InFlow', NEW w \in Workers, EndNamed(w) \/ EndAtOnce(w)
    PROVE  DoingPlaced'
<1>0. OneWorker /\ TypeOK /\ Placed(req[w], act, row)
  BY DEF Serial, DoingPlaced, InFlow, Walked, Typed
<1>1. /\ req[w].pc \in {"idle", "end_named"} /\ req'[w].pc \in {"idle", "end_named"}
      /\ act'.order = act.order /\ row' = row
  <2>1. CASE EndNamed(w)
    BY <1>0, <2>1 DEF EndNamed, Request, Idle, TypeOK
  <2>2. CASE EndAtOnce(w)
    <3>1. act'.order = act.order
      BY <1>0, <2>2 DEF EndAtOnce, TypeOK
    <3> QED
      BY <1>0, <2>2, <3>1 DEF EndAtOnce, Answer, Idle, TypeOK
  <2> QED
    BY <2>1, <2>2
<1>2. Placed(req'[w], act', row')
  BY <1>0, <1>1 DEF Placed, Doable
<1> QED
  BY <1>0, <1>2, AlonePlaced

LEMMA StepPlaced == Serial => (DoingPlaced /\ [Next]_vars => DoingPlaced')
<1> SUFFICES ASSUME Serial, DoingPlaced, [Next]_vars PROVE DoingPlaced'
  OBVIOUS
<1>0. InFlow'
  BY StepInFlow DEF DoingPlaced
<1>1. CASE UNCHANGED vars \/ SaveItem
  BY <1>0, <1>1 DEF vars, SaveItem, DoingPlaced, Placed, Doable
<1>2. ASSUME NEW w \in Workers, Step(w) PROVE DoingPlaced'
  <2>1. ~Fault
    BY DEF Fault, Serial, DoingPlaced, InFlow, Walked, Typed, TypeOK
  <2> QED
    BY <1>0, <1>2, <2>1, NextPlaced, FinishPlaced, EndPlaced, PrevPlaced,
       CancelPlaced
    DEF Step, Crash, FinishFails, FinishFailsLate
<1> QED
  BY <1>1, <1>2 DEF Next

\* lock_activity finds one step that is being done, or none, at any moment of
\* the requests, and between them the one the activity stands at: previous_action
\* marks its target before it moves the activity there, next_action after.
THEOREM DoingOne == Serial /\ Workers # {} => (Spec => []DoingIsCurrent)
<1> SUFFICES ASSUME Serial, Workers # {} PROVE Spec => []DoingIsCurrent
  OBVIOUS
<1>1. Init => DoingPlaced
  BY InitInFlow DEF Init, DoingPlaced, Placed, Idle
<1>2. DoingPlaced /\ [Next]_vars => DoingPlaced'
  BY StepPlaced
<1>3. DoingPlaced => DoingIsCurrent
  <2> SUFFICES ASSUME DoingPlaced PROVE DoingIsCurrent
    OBVIOUS
  <2>1. PICK w \in Workers : TRUE
    OBVIOUS
  <2>2. Placed(req[w], act, row)
    BY DEF DoingPlaced
  <2>3. \A o, p \in Orders : row[o] = "doing" /\ row[p] = "doing" => o = p
    BY <2>2 DEF Placed, Doable
  <2>4. req[w] = Idle => \A o \in Orders : row[o] = "doing" => o = act.order
    BY <2>2 DEF Placed, Doable, Idle
  <2> QED
    BY <2>3, <2>4 DEF DoingIsCurrent
<1> QED
  BY <1>1, <1>2, <1>3, PTL DEF Spec

-----------------------------------------------------------------------------
(* What is published keeps its files while nothing fails.                  *)

\* The files only go once a cancellation has been let in, which then ends the
\* activity with the item a draft.
Cancelling == {"cancel_status", "quit"}

FilesFollow ==
    /\ InFlow /\ Standing
    /\ item.files = "removed" =>
        /\ ~Published
        /\ act.state # "making" \/ \E w \in Workers : req[w].pc \in Cancelling

LEMMA StepFollows ==
    ASSUME Serial, FilesFollow, NEW w \in Workers, Step(w), InFlow', Standing'
    PROVE  FilesFollow'
<1>0. TypeOK /\ OneWorker
  BY DEF FilesFollow, Standing, Walked, Typed, Serial
<1>1. req \in [Workers -> Requests \cup {Idle}]
      /\ item \in [status: {"draft", "published"}, files: {"kept", "removed"}, versions: Nat]
  BY <1>0 DEF TypeOK
<1>2. req[w] # Idle => Serving(req[w], act, Published)
  BY DEF FilesFollow, InFlow
<1>3. CASE item.files = "removed" /\ (EndNamed(w) \/ EndAtOnce(w))
  <2>1. ~Published /\ (act.state # "making" \/ req[w].pc \in Cancelling)
    BY <1>0, <1>3 DEF FilesFollow, OneWorker
  <2>2. act.state # "making"
    BY <1>3, <2>1 DEF EndNamed, EndAtOnce, Idle, Cancelling
  <2>3. act'.state # "making"
    BY <1>0, <2>2, OnlyEndFinishes
  <2> QED
    BY <1>3, <2>1, <2>3 DEF FilesFollow, EndNamed, EndAtOnce, Published
<1>4. CASE item.files = "removed" /\ ~(EndNamed(w) \/ EndAtOnce(w))
  <2>1. ~Published /\ (act.state # "making" \/ req[w].pc \in Cancelling)
    BY <1>0, <1>4 DEF FilesFollow, OneWorker
  <2>2. act.state # "making" => OpenPages = {}
    BY DEF OpenPages, Serial
  <2>3. ~Crash(w)
    BY <1>0 DEF Crash, Fault, Serial, TypeOK
  <2>4. req[w] # Idle /\ req[w].pc \in Cancelling
    <3>1. CASE req[w] = Idle
      <4>1. act.state # "making"
        BY <2>1, <3>1 DEF Idle, Cancelling
      <4>2. NextStart(w) \/ PrevStart(w) \/ CancelStart(w)
        BY <1>4, <3>1 DEF Step, Idle, NextInvalidIdentifier, NextHistory, NextStatus, NextMove,
           NextDoing, FinishPublish, FinishVersion, FinishEnd, PrevHistory, PrevStatus,
           PrevDoing, PrevMove, CancelClear, CancelStatus, Quit, Crash, FinishFails,
           FinishFailsLate
      <4> QED
        BY <2>2, <4>1, <4>2 DEF NextStart, PrevStart, CancelStart
    <3>2. CASE req[w] # Idle
      <4>1. req[w].pc # "end_named"
        BY <1>4, <2>3, <3>2 DEF Step, NextStart, PrevStart, CancelStart,
           NextInvalidIdentifier, NextHistory, NextStatus, NextMove, NextDoing,
           FinishPublish, FinishVersion, FinishEnd, PrevHistory, PrevStatus, PrevDoing,
           PrevMove, CancelClear, CancelStatus, Quit, FinishFails, FinishFailsLate
      <4> QED
        BY <1>2, <2>1, <3>2, <4>1 DEF Serving
    <3> QED
      BY <3>1, <3>2
  <2>5. CancelStatus(w) \/ Quit(w)
    BY <1>4, <2>3, <2>4 DEF Step, Cancelling, NextStart, PrevStart, CancelStart,
       NextInvalidIdentifier, NextHistory, NextStatus, NextMove, NextDoing, FinishPublish,
       FinishVersion, FinishEnd, PrevHistory, PrevStatus, PrevDoing, PrevMove, CancelClear,
       FinishFails, FinishFailsLate
  <2>6. UNCHANGED item
    BY <2>5 DEF CancelStatus, Quit
  <2>7. CASE CancelStatus(w)
    <3>1. req'[w].pc = "quit"
      <4>1. req'[w] = [req[w] EXCEPT !.pc = "quit"] /\ req[w] \in Requests
        BY <1>0, <2>4, <2>7, GotoTyped DEF CancelStatus, Pcs
      <4> QED
        BY <4>1 DEF Requests
    <3> QED
      BY <2>1, <2>6, <3>1 DEF FilesFollow, Published, Cancelling
  <2>8. CASE Quit(w)
    <3>1. act'.state = "cancel"
      BY <1>0, <2>8 DEF Quit, TypeOK
    <3> QED
      BY <2>1, <2>6, <3>1 DEF FilesFollow, Published
  <2> QED
    BY <2>5, <2>7, <2>8
<1>5. CASE item.files # "removed" /\ CancelClear(w)
  <2>1. req[w].pc = "cancel_clear" /\ req[w] # Idle
    BY <1>5, PcNotIdle DEF CancelClear
  <2>2. ~Published
    BY <1>2, <2>1 DEF Serving, Publishing
  <2>3. Goto(w, "cancel_status")
    BY <1>5, <2>1 DEF CancelClear, Matches, FilesFollow, Standing, LetIn
  <2>4. req'[w].pc = "cancel_status"
    <3>1. req'[w] = [req[w] EXCEPT !.pc = "cancel_status"] /\ req[w] \in Requests
      BY <1>0, <2>1, <2>3, GotoTyped DEF Pcs
    <3> QED
      BY <3>1 DEF Requests
  <2>5. item'.status = item.status
    BY <1>1, <1>5 DEF CancelClear
  <2> QED
    BY <2>2, <2>4, <2>5 DEF FilesFollow, Published, Cancelling
<1>6. CASE item.files # "removed" /\ ~CancelClear(w)
  <2>1. item'.files = item.files
    BY <1>1, <1>6 DEF Step, NextStart, PrevStart, CancelStart, NextInvalidIdentifier,
       NextHistory, NextStatus, NextMove, NextDoing, FinishPublish, FinishVersion, FinishEnd,
       EndNamed, EndAtOnce, PrevHistory, PrevStatus, PrevDoing, PrevMove, CancelStatus, Quit,
       Crash, FinishFails, FinishFailsLate
  <2> QED
    BY <1>6, <2>1 DEF FilesFollow
<1> QED
  BY <1>3, <1>4, <1>5, <1>6

\* With requests one at a time, no crash and no page out of date, an item that
\* is published keeps its files: a cancellation, which removes the bucket
\* whatever the deposit's status (cancel_action), never meets one.
THEOREM FilesKept == Serial => (Spec => []PublishedKeepsFiles)
<1> SUFFICES ASSUME Serial PROVE Spec => []PublishedKeepsFiles
  OBVIOUS
<1>0. OneWorker /\ Admitted
  BY DEF Serial, Admitted
<1>1. Init => FilesFollow
  BY InitInFlow, InitWalked, FlowFacts DEF Init, FilesFollow, Standing, Coherent
<1>2. FilesFollow /\ [Next]_vars => FilesFollow'
  <2> SUFFICES ASSUME FilesFollow, [Next]_vars PROVE FilesFollow'
    OBVIOUS
  <2>1. InFlow'
    BY StepInFlow DEF FilesFollow
  <2>2. Standing'
    BY <1>0, StandingStays DEF FilesFollow
  <2>3. CASE UNCHANGED vars
    BY <2>1, <2>2, <2>3 DEF vars, FilesFollow, Published
  <2>4. CASE SaveItem
    <3>1. item'.files = item.files /\ ~Published'
      BY <2>4 DEF SaveItem, Published, FilesFollow, Standing, Walked, Typed, TypeOK
    <3> QED
      BY <2>1, <2>2, <2>4, <3>1 DEF SaveItem, FilesFollow
  <2>5. ASSUME NEW w \in Workers, Step(w) PROVE FilesFollow'
    BY <2>1, <2>2, <2>5, StepFollows
  <2> QED
    BY <2>3, <2>4, <2>5 DEF Next
<1>3. FilesFollow => PublishedKeepsFiles
  BY DEF FilesFollow, PublishedKeepsFiles, Published, Standing, Walked, Typed, TypeOK
<1> QED
  BY <1>1, <1>2, <1>3, PTL DEF Spec
=============================================================================
