------------------------------ MODULE Activity ------------------------------
(***************************************************************************)
(* One activity of weko-workflow registering a new item: the rows          *)
(* workflow_activity (act), workflow_activity_action (row), the last       *)
(* workflow_action_history row of each step (hist), the item the activity  *)
(* works on (item), and the requests that move them. A request handler of  *)
(* views.py commits several times; each action below is one commit, with   *)
(* the statements that lead to it.                                         *)
(*                                                                         *)
(* An action_id is represented by its endpoint. A Worker is a server       *)
(* process answering a request; those in Admins answer users for whom      *)
(* check_authority_by_admin is true.                                       *)
(***************************************************************************)
EXTENDS Naturals, Sequences

CONSTANTS Flow,         \* endpoints in action_order, e.g. <<"begin", ..., "end">>
          Workers,
          Admins,
          StalePages,   \* whether a browser may act from a page out of date
          MaxFaults,    \* bound: crashes and failed publications in a behaviour
          MaxVersions   \* bound: versions the item gets in a behaviour

Endpoints == {"begin", "item_login", "item_link", "oa_policy", "identifier_grant",
              "approval", "end"}

ASSUME FlowAssumption ==
    /\ Flow \in Seq(Endpoints)
    /\ Len(Flow) >= 3
    /\ \A o \in 1 .. Len(Flow) :
        /\ Flow[o] = "begin" <=> o = 1
        /\ Flow[o] = "end" <=> o = Len(Flow)
    /\ Flow[2] = "item_login"

ASSUME WorkersAssumption ==
    /\ Admins \subseteq Workers
    /\ StalePages \in BOOLEAN
    /\ MaxFaults \in Nat /\ MaxVersions \in Nat

VARIABLES act,      \* [action, order, status, state]: the activity row
          row,      \* ActivityAction.action_status, by action_order
          hist,     \* the status last recorded in the history, by action_order
          item,     \* [status, files, versions]: the item's deposit
          pages,    \* the steps whose page has been shown
          req,      \* Workers -> the request being answered
          faults

vars == <<act, row, hist, item, pages, req, faults>>

Orders == 1 .. Len(Flow)
Last == Len(Flow)
Status == {"begin", "done", "doing", "thrown_out", "retry", "canceled"}

Idle == [pc |-> "idle"]

\* The pages a request can come from. The lock of lock_activity hides a page
\* from everyone but its holder; StalePages is when it does not help (two tabs
\* of the holder, a lock released by hand).
OpenPages ==
    IF StalePages THEN pages
    ELSE IF act.state = "making" THEN {act.action} \ {"end"} ELSE {}

\* Every request keeps what the session loaded first: snap is the activity
\* row as check_authority and the handler read it, so snap.order is the
\* handler's local action_order, and the status in the deposit's dictionary.
\* Only what differs from it is written when the handler sets an attribute.
Request(pc, a, back) ==
    [pc |-> pc, action |-> a, back |-> back,
     snap |-> [action |-> act.action, order |-> act.order, status |-> act.status,
               state |-> act.state, deposit |-> item.status]]

Goto(w, pc) == req' = [req EXCEPT ![w].pc = pc]
Answer(w) == req' = [req EXCEPT ![w] = Idle]

Init ==
    /\ act = [action |-> Flow[2], order |-> 2, status |-> "begin", state |-> "making"]
    /\ row = [o \in Orders |-> "done"]
    /\ hist = [o \in Orders |-> IF o = 1 THEN "done" ELSE "none"]
    /\ item = [status |-> "draft", files |-> "kept", versions |-> 0]
    /\ pages = {Flow[2]}
    /\ req = [w \in Workers |-> Idle]
    /\ faults = 0

-----------------------------------------------------------------------------
(* The parts the handlers share.                                           *)

\* Flow actions are looked up by (flow, action_id, action_order): none is
\* found when the request names another step than the activity's order.
Matches(a, order) == Flow[order] = a

\* A fault the runs must notice: a page out of date is let through.
AuthorizedAlways(w, a) == TRUE

\* check_authority: the role query of another step finds no flow action and
\* raises, unless the user is an administrator and it is never made.
Authorized(w, a) == w \in Admins \/ Matches(a, act.order)

\* create_activity_history: the row is compared with the values the session
\* holds (l) and only the attributes that differ from them are written.
RecordHistory(l, a, order, st) ==
    IF l.action = a /\ l.status = st
    THEN UNCHANGED <<act, hist>>
    ELSE /\ hist' = [hist EXCEPT ![order] = st]
         /\ act' = [act EXCEPT !.action = IF l.action = a THEN @ ELSE a,
                               !.status = IF l.status = st THEN @ ELSE st]

\* upt_activity_action_status
SetRow(o, st) == row' = [row EXCEPT ![o] = st]

\* upt_activity_action
MoveTo(o) ==
    /\ act' = [act EXCEPT !.action = Flow[o], !.order = o, !.status = "doing"]
    /\ pages' = pages \cup ({Flow[o]} \ {"end"})

\* A fault: returned to the beginning itself.
TargetIsBeginning(order, back) == IF back = "reject" THEN order - 1 ELSE 1

\* The flow action previous_action sends the activity back to.
Target(order, back) == IF back = "reject" THEN order - 1 ELSE 2

-----------------------------------------------------------------------------
(* next_action                                                             *)

NextStart(w) ==
    /\ req[w] = Idle
    /\ \E a \in OpenPages :
        /\ Authorized(w, a) /\ Matches(a, act.order)
        /\ req' = [req EXCEPT ![w] = Request("next_history", a, "none")]
    /\ UNCHANGED <<act, row, hist, item, pages, faults>>

\* A granted identifier that does not pass the DOI validation turns the
\* request into previous_action(req=-1), which reads the activity again.
NextInvalidIdentifier(w) ==
    /\ req[w].pc = "next_history" /\ req[w].action = "identifier_grant"
    /\ req' = [req EXCEPT ![w] =
                 IF Authorized(w, "identifier_grant")
                 THEN Request("prev_history", "identifier_grant", "registration")
                 ELSE Idle]
    /\ UNCHANGED <<act, row, hist, item, pages, faults>>

\* A fault: the history of the step that follows is written.
NextHistoryAhead(w) ==
    /\ req[w].pc = "next_history"
    /\ RecordHistory(req[w].snap, req[w].action, req[w].snap.order + 1, "done")
    /\ Goto(w, "next_status")
    /\ UNCHANGED <<row, item, pages, faults>>

\* What is saved with the step (an identifier, the links, the feedback mail)
\* is committed first; then the row compared with has been read again.
NextHistory(w) ==
    /\ req[w].pc = "next_history"
    /\ \E l \in {req[w].snap, act} :
        RecordHistory(l, req[w].action, req[w].snap.order, "done")
    /\ Goto(w, "next_status")
    /\ UNCHANGED <<row, item, pages, faults>>

\* A fault: the item is not published.
NextStatusUnpublished(w) ==
    /\ req[w].pc = "next_status"
    /\ SetRow(req[w].snap.order, "done")
    /\ Goto(w, IF req[w].snap.order + 1 = Last THEN "end" ELSE "next_move")
    /\ UNCHANGED <<act, hist, item, pages, faults>>

NextStatus(w) ==
    /\ req[w].pc = "next_status"
    /\ SetRow(req[w].snap.order, "done")
    /\ Goto(w, IF req[w].snap.order + 1 = Last THEN "publish" ELSE "next_move")
    /\ UNCHANGED <<act, hist, item, pages, faults>>

\* A fault: a step is passed over.
NextMoveSkips(w) ==
    /\ req[w].pc = "next_move"
    /\ MoveTo(req[w].snap.order + 2)
    /\ Goto(w, "next_doing")
    /\ UNCHANGED <<row, hist, item, faults>>

NextMove(w) ==
    /\ req[w].pc = "next_move"
    /\ MoveTo(req[w].snap.order + 1)
    /\ Goto(w, "next_doing")
    /\ UNCHANGED <<row, hist, item, faults>>

\* A fault: the step left is marked, not the one entered.
NextDoingBehind(w) ==
    /\ req[w].pc = "next_doing"
    /\ SetRow(req[w].snap.order, "doing")
    /\ Answer(w)
    /\ UNCHANGED <<act, hist, item, pages, faults>>

NextDoing(w) ==
    /\ req[w].pc = "next_doing"
    /\ SetRow(req[w].snap.order + 1, "doing")
    /\ Answer(w)
    /\ UNCHANGED <<act, hist, item, pages, faults>>

-----------------------------------------------------------------------------
(* handle_finish_workflow and end_activity                                 *)

\* deposit.publish(): only what was loaded as a draft; anything else raises
\* and the request answers code -1, the activity staying where it is.
FinishPublish(w) ==
    /\ req[w].pc = "publish"
    /\ IF req[w].snap.deposit = "draft"
       THEN item' = [item EXCEPT !.status = "published"] /\ Goto(w, "version")
       ELSE UNCHANGED item /\ Answer(w)
    /\ UNCHANGED <<act, row, hist, pages, faults>>

\* newversion() and its publish(), one commit.
FinishVersion(w) ==
    /\ req[w].pc = "version"
    /\ item.versions < MaxVersions
    /\ item' = [item EXCEPT !.versions = @ + 1]
    /\ Goto(w, "end")
    /\ UNCHANGED <<act, row, hist, pages, faults>>

FinishEnd(w) ==
    /\ req[w].pc = "end"
    /\ act' = [action |-> "end", order |-> Last, status |-> "done", state |-> "finally"]
    /\ hist' = [hist EXCEPT ![Last] = "done"]
    /\ Answer(w)
    /\ UNCHANGED <<row, item, pages, faults>>

-----------------------------------------------------------------------------
(* next_action naming the end itself. No page does, but any client may, at *)
(* any moment: check_authority lets it through where the activity stands   *)
(* at the end already, and everywhere for an administrator. (The beginning *)
(* may be named too; nothing is done then.)                                *)

EndNamed(w) ==
    /\ req[w] = Idle
    /\ Authorized(w, "end")
    /\ req' = [req EXCEPT ![w] = Request("end_named", "end", "none")]
    /\ UNCHANGED <<act, row, hist, item, pages, faults>>

\* end_activity with the order the request has read: no publication, no look at
\* the steps left or at the state of the activity, which may be cancelled.
EndAtOnce(w) ==
    /\ req[w].pc = "end_named"
    /\ LET l == req[w].snap
       IN /\ act' = [act EXCEPT !.action = IF l.action = "end" THEN @ ELSE "end",
                                !.status = IF l.status = "done" THEN @ ELSE "done",
                                !.state = IF l.state = "finally" THEN @ ELSE "finally"]
          /\ hist' = [hist EXCEPT ![l.order] = "done"]
    /\ Answer(w)
    /\ UNCHANGED <<row, item, pages, faults>>

-----------------------------------------------------------------------------
(* previous_action: the approval pages reject (to the step before) or      *)
(* return (to the step after the beginning).                               *)

PrevStart(w) ==
    /\ req[w] = Idle
    /\ "approval" \in OpenPages /\ Authorized(w, "approval")
    /\ \E back \in {"reject", "return"} :
        req' = [req EXCEPT ![w] = Request("prev_history", "approval", back)]
    /\ UNCHANGED <<act, row, hist, item, pages, faults>>

BackStatus(w) == IF req[w].back = "reject" THEN "thrown_out" ELSE "retry"

\* The history is committed before the flow action is looked up.
PrevHistory(w) ==
    /\ req[w].pc = "prev_history"
    /\ RecordHistory(req[w].snap, req[w].action, req[w].snap.order, BackStatus(w))
    /\ IF Matches(req[w].action, req[w].snap.order)
       THEN Goto(w, "prev_status")
       ELSE Answer(w)
    /\ UNCHANGED <<row, item, pages, faults>>

PrevStatus(w) ==
    /\ req[w].pc = "prev_status"
    /\ SetRow(req[w].snap.order, BackStatus(w))
    /\ Goto(w, "prev_doing")
    /\ UNCHANGED <<act, hist, item, pages, faults>>

PrevDoing(w) ==
    /\ req[w].pc = "prev_doing"
    /\ SetRow(Target(req[w].snap.order, req[w].back), "doing")
    /\ Goto(w, "prev_move")
    /\ UNCHANGED <<act, hist, item, pages, faults>>

PrevMove(w) ==
    /\ req[w].pc = "prev_move"
    /\ MoveTo(Target(req[w].snap.order, req[w].back))
    /\ Answer(w)
    /\ UNCHANGED <<row, hist, item, faults>>

-----------------------------------------------------------------------------
(* cancel_action                                                           *)

\* A fault: cancel_action without check_authority.
CancelStartUnchecked(w) ==
    /\ req[w] = Idle
    /\ \E a \in pages : req' = [req EXCEPT ![w] = Request("cancel_clear", a, "none")]
    /\ UNCHANGED <<act, row, hist, item, pages, faults>>

CancelStart(w) ==
    /\ req[w] = Idle
    /\ \E a \in OpenPages :
        /\ Authorized(w, a)
        /\ req' = [req EXCEPT ![w] = Request("cancel_clear", a, "none")]
    /\ UNCHANGED <<act, row, hist, item, pages, faults>>

\* The bucket is removed whatever the deposit's status; clear() alone looks
\* at it. The status row of another step is not found and the handler stops.
CancelClear(w) ==
    /\ req[w].pc = "cancel_clear"
    /\ item' = [item EXCEPT !.files = "removed"]
    /\ IF Matches(req[w].action, req[w].snap.order)
       THEN Goto(w, "cancel_status")
       ELSE Answer(w)
    /\ UNCHANGED <<act, row, hist, pages, faults>>

CancelStatus(w) ==
    /\ req[w].pc = "cancel_status"
    /\ SetRow(req[w].snap.order, "canceled")
    /\ Goto(w, "quit")
    /\ UNCHANGED <<act, hist, item, pages, faults>>

\* A fault: the action status is written where the activity status belongs.
QuitStatusMisplaced(w) ==
    /\ req[w].pc = "quit"
    /\ act' = [act EXCEPT !.action = req[w].action, !.state = "canceled"]
    /\ hist' = [hist EXCEPT ![req[w].snap.order] = "canceled", ![Last] = "done"]
    /\ Answer(w)
    /\ UNCHANGED <<row, item, pages, faults>>

\* quit_activity: the order stays, two history rows are added.
Quit(w) ==
    /\ req[w].pc = "quit"
    /\ act' = [act EXCEPT !.action = req[w].action, !.status = "canceled",
                          !.state = "cancel"]
    /\ hist' = [hist EXCEPT ![req[w].snap.order] = "canceled", ![Last] = "done"]
    /\ Answer(w)
    /\ UNCHANGED <<row, item, pages, faults>>

-----------------------------------------------------------------------------
(* The item is saved from the registration page: update() makes it a draft *)
(* again.                                                                  *)
SaveItem ==
    /\ act.state = "making" /\ act.action = "item_login"
    /\ item.status # "draft"
    /\ item' = [item EXCEPT !.status = "draft"]
    /\ UNCHANGED <<act, row, hist, pages, req, faults>>

-----------------------------------------------------------------------------
(* Faults                                                                  *)

Fault == faults < MaxFaults /\ faults' = faults + 1

\* The process answering w dies between two commits.
Crash(w) ==
    /\ Fault
    /\ req[w] # Idle
    /\ Answer(w)
    /\ UNCHANGED <<act, row, hist, item, pages>>

\* An exception in handle_finish_workflow before item_id is assigned: None
\* is returned and the request answers code -1.
FinishFails(w) ==
    /\ Fault
    /\ req[w].pc \in {"publish", "version"}
    /\ Answer(w)
    /\ UNCHANGED <<act, row, hist, item, pages>>

\* An exception after it: the transaction is rolled back, but the item_id is
\* returned and the activity goes on to its end.
FinishFailsLate(w) ==
    /\ Fault
    /\ req[w].pc = "version"
    /\ Goto(w, "end")
    /\ UNCHANGED <<act, row, hist, item, pages>>

-----------------------------------------------------------------------------
Step(w) ==
    \/ NextStart(w) \/ NextInvalidIdentifier(w) \/ NextHistory(w)
    \/ NextStatus(w) \/ NextMove(w) \/ NextDoing(w)
    \/ FinishPublish(w) \/ FinishVersion(w) \/ FinishEnd(w)
    \/ EndNamed(w) \/ EndAtOnce(w)
    \/ PrevStart(w) \/ PrevHistory(w) \/ PrevStatus(w) \/ PrevDoing(w) \/ PrevMove(w)
    \/ CancelStart(w) \/ CancelClear(w) \/ CancelStatus(w) \/ Quit(w)
    \/ Crash(w) \/ FinishFails(w) \/ FinishFailsLate(w)

Next == (\E w \in Workers : Step(w)) \/ SaveItem

Spec == Init /\ [][Next]_vars

-----------------------------------------------------------------------------
(* Properties                                                              *)

Pcs == {"idle", "next_history", "next_status", "next_move", "next_doing",
        "publish", "version", "end", "end_named", "prev_history", "prev_status",
        "prev_doing", "prev_move", "cancel_clear", "cancel_status", "quit"}

States == {"making", "finally", "cancel"}

Snapshots == [action: Endpoints, order: Orders, status: Status, state: States,
              deposit: {"draft", "published"}]

Requests == [pc: Pcs \ {"idle"}, action: Endpoints,
             back: {"none", "reject", "return", "registration"}, snap: Snapshots]

\* Every row holds values of its columns (the rows of weko_workflow/models.py).
TypeOK ==
    /\ act \in [action: Endpoints, order: Orders, status: Status, state: States]
    /\ row \in [Orders -> Status]
    /\ hist \in [Orders -> Status \cup {"none"}]
    /\ item \in [status: {"draft", "published"}, files: {"kept", "removed"},
                 versions: Nat]
    /\ pages \subseteq Endpoints
    /\ req \in [Workers -> Requests \cup {Idle}]
    /\ faults \in Nat

\* The activity row names the flow action at its own action_order: with any
\* other pair no flow action is ever found for it again, and check_authority
\* raises for every user.
PositionCoherent == act.state = "making" => act.action = Flow[act.order]

\* At most one step of the activity is being done: lock_activity looks for
\* it with one_or_none(), which raises when there are two. Between two requests
\* it is the step the activity stands at.
DoingIsCurrent ==
    /\ \A o, p \in Orders : row[o] = "doing" /\ row[p] = "doing" => o = p
    /\ (\A w \in Workers : req[w] = Idle) /\ act.state = "making" =>
           \A o \in Orders : row[o] = "doing" => o = act.order

\* The end an administrator may name from any step (views.py:881).
ForcedEnd == \E w \in Admins : EndAtOnce(w)

\* An activity becomes finished only with every step between the beginning and
\* the end last recorded as done: no approval can be left out, except by an
\* administrator's request that names the end.
NoStepSkipped ==
    [][act.state # "finally" /\ act'.state = "finally" =>
         (\A o \in 2 .. Last - 1 : hist'[o] = "done") \/ ForcedEnd]_vars

\* An activity under way is only ever finished by a request that has attached a
\* published version to its item, or by an administrator's that names the end.
EndsPublished ==
    [][act.state = "making" /\ act'.state = "finally" =>
         item.versions >= 1 \/ ForcedEnd]_vars

\* What has been published keeps its files.
PublishedKeepsFiles == item.status = "published" => item.files = "kept"

\* The activity row goes forward one step at a time.
OneStepForward ==
    [][act'.order <= act.order + 1 \/ act'.state # "making"]_vars

\* The program, its requests one at a time, is the activity of ActivityFlow.
Flows == INSTANCE ActivityFlow
            WITH pos <- act.order, state <- act.state,
                 published <- (item.status = "published"), Forced <- (Admins # {})

ImplementsFlow == Flows!Spec
=============================================================================
