------------------------------- MODULE PageLock -------------------------------
(***************************************************************************)
(* The lock of an activity's page: lock_activity.js in each browser tab,   *)
(* lock_activity and unlock_activity of weko_workflow/views.py in the      *)
(* server, a value in the cache between them. A tab asks for the lock when *)
(* its page has loaded and gives it back with a beacon when the page is    *)
(* left; requests arrive late and in any order. The server gets the value  *)
(* from the cache and sets it in two calls.                                *)
(***************************************************************************)
EXTENDS Integers, FiniteSets

CONSTANTS Tabs, Activities, Users,
          TabUser,      \* who is logged in in a tab
          Registrant,   \* whose activity it is: action_handler of its steps
          None,         \* no value (null, 0 and "" in the code)
          OneRequest,   \* whether the server answers the requests about an
                        \* activity one at a time: an assumption, which one
                        \* process with one thread gives and several do not
          MaxStamp,     \* bound: locks created
          MaxRequests   \* bound: requests under way

ASSUME LockAssumption ==
    /\ TabUser \in [Tabs -> Users] /\ Registrant \in [Activities -> Users]
    /\ OneRequest \in BOOLEAN
    /\ MaxStamp \in Nat /\ MaxRequests \in Nat

\* locked_value: the id of a user and a time, which no two locks share.
Values == [user : Users, stamp : Nat]

ASSUME NoneAssumption == None \notin Values \cup Tabs

Held == Values \cup {None}

VARIABLES cache,     \* the value kept for each activity
          tab,       \* what each tab shows, and the page's variable locked_value
          stored,    \* locked_value in the sessionStorage of each tab
          requests,  \* requests on their way, being answered, and answers
          clock,     \* the last time used for a value
          given,     \* <<activity, value>> a tab has sent to be unlocked
          lapsed     \* values that timed out or that the registrant went past

lockVars == <<cache, tab, stored, requests, clock, given, lapsed>>

\* view: "waiting" shows the page before the answer, "open" after success,
\* "locked" hides it, "away" is any page without this script or with nothing to
\* edit; offer: the lock of the same user that the page offers to remove.
TabStates == [view : {"away", "waiting", "open", "locked"},
              page : Activities \cup {None}, held : Held, offer : Held]

Away == [view |-> "away", page |-> None, held |-> None, offer |-> None]

\* asker: the tab that waits for the answer, None when there is none; value:
\* what is sent, then what is answered; seen: what the handler got from the
\* cache.
Requests == [kind : {"lock", "unlock"}, act : Activities, user : Users,
             asker : Tabs \cup {None}, value : Held, seen : Held,
             pc : {"sent", "read", "bypass", "granted", "refused"}]

PageLockTypeOK ==
    /\ cache \in [Activities -> Held]
    /\ tab \in [Tabs -> TabStates]
    /\ stored \in [Tabs -> Held]
    /\ requests \subseteq Requests
    /\ clock \in Nat
    /\ given \subseteq Activities \X Values
    /\ lapsed \subseteq Values

Init ==
    /\ cache = [a \in Activities |-> None]
    /\ tab = [t \in Tabs |-> Away]
    /\ stored = [t \in Tabs |-> None]
    /\ requests = {} /\ clock = 0 /\ given = {} /\ lapsed = {}

-----------------------------------------------------------------------------
(* The page.                                                               *)

LockRequest(t, a) ==
    [kind |-> "lock", act |-> a, user |-> TabUser[t], asker |-> t,
     value |-> stored[t], seen |-> None, pc |-> "sent"]

\* unlock_activity of the page: a beacon for each value there is. The same
\* beacon once more would find nothing to unlock.
Unlocks(t, a, vals) ==
    {[kind |-> "unlock", act |-> a, user |-> TabUser[t], asker |-> None,
      value |-> v, seen |-> None, pc |-> "sent"] : v \in vals \ {None}}

IsAnswer(r) == r.pc \in {"granted", "refused"}

\* A tab has gone: nobody waits for its request, or has heard the answer.
Unheard(t) ==
    {r \in requests : r.asker # t} \cup
    {[r EXCEPT !.asker = None] : r \in {q \in requests : q.asker = t /\ ~IsAnswer(q)}}

\* A fault: "no value" is sent as well.
GiveBackAny(t, a, vals) == given' = given \cup ({a} \X vals)

GiveBack(t, a, vals) == given' = given \cup ({a} \X (vals \ {None}))

\* Bounds: so many requests under way, and no request for the lock twice.
Room == Cardinality(requests') <= MaxRequests
Other(r) == {r, [r EXCEPT !.asker = None]} \cap requests = {}

\* A page of the activity that is to be edited: neither its end, nor without
\* permission, nor a guest's.
Load(t, a) ==
    /\ tab[t].view = "away" /\ Other(LockRequest(t, a))
    /\ tab' = [tab EXCEPT ![t] = [view |-> "waiting", page |-> a,
                                  held |-> stored[t], offer |-> None]]
    /\ requests' = requests \cup {LockRequest(t, a)} /\ Room
    /\ UNCHANGED <<cache, stored, clock, given, lapsed>>

\* A page of the activity that is only shown gives back what the tab has. (It
\* does so again when it is left.)
LoadPlain(t, a) ==
    /\ tab[t].view = "away" /\ stored[t] # None
    /\ requests' = requests \cup Unlocks(t, a, {stored[t]}) /\ Room
    /\ GiveBack(t, a, {stored[t]})
    /\ stored' = [stored EXCEPT ![t] = None]
    /\ UNCHANGED <<cache, tab, clock, lapsed>>

\* A button that ends or saves the step: the lock is kept for the next page.
Click(t) ==
    /\ tab[t].view \in {"waiting", "open"}
    /\ tab' = [tab EXCEPT ![t].held = None]
    /\ UNCHANGED <<cache, stored, requests, clock, given, lapsed>>

\* The page goes away; sent are the values to unlock.
Depart(t, sent) ==
    /\ tab' = [tab EXCEPT ![t] = Away]
    /\ requests' = Unheard(t) \cup Unlocks(t, tab[t].page, sent) /\ Room
    /\ GiveBack(t, tab[t].page, sent)
    /\ stored' = IF sent \ {None} = {} THEN stored ELSE [stored EXCEPT ![t] = None]
    /\ UNCHANGED <<cache, clock, lapsed>>

\* beforeunload.
Leave(t) ==
    /\ tab[t].view # "away"
    /\ Depart(t, {tab[t].held})

\* "Do you want to unlock this activity?", asked of the user who has locked it
\* elsewhere; then the page is loaded again.
Unlock(t) ==
    /\ tab[t].offer # None
    /\ Depart(t, {tab[t].offer, tab[t].held})

\* The answer to the request for the lock.
Answered(t) ==
    \E r \in requests :
        /\ r.asker = t /\ IsAnswer(r)
        /\ requests' = requests \ {r}
        /\ IF r.pc = "granted"
           THEN /\ tab' = [tab EXCEPT ![t].view = "open", ![t].held = r.value]
                /\ stored' = [stored EXCEPT ![t] = r.value]
           ELSE /\ tab' = [tab EXCEPT ![t].view = "locked",
                    ![t].offer = IF r.value.user = TabUser[t] THEN r.value ELSE None]
                /\ UNCHANGED stored
        /\ UNCHANGED <<cache, clock, given, lapsed>>

-----------------------------------------------------------------------------
(* The server and the cache.                                               *)

Answering(a) == \E r \in requests : r.act = a /\ r.pc \in {"read", "bypass"}

\* get_cache_data, and is_approval_user: whether the user is the action_handler
\* of the step being done, which is the registrant but for approvals.
Read(r) ==
    /\ r.pc = "sent" /\ (OneRequest => ~Answering(r.act))
    /\ \E pc \in {"read", "bypass"} :
        /\ pc = "bypass" => /\ r.kind = "lock" /\ cache[r.act] # None
                            /\ r.user = Registrant[r.act]
        /\ requests' = (requests \ {r}) \cup
                {[r EXCEPT !.seen = cache[r.act], !.pc = pc]}
    /\ UNCHANGED <<cache, tab, stored, clock, given, lapsed>>

\* The answer goes to the tab that waits for it, if one does.
Reply(r, pc, v) ==
    requests' = (requests \ {r}) \cup
        {a \in {[r EXCEPT !.pc = pc, !.value = v]} : a.asker # None}

\* The value the registrant goes past. What another request has set since this
\* one got None is overwritten all the same, but it has not lapsed.
GonePast(r) == {v \in {cache[r.act]} : r.pc = "bypass" /\ v # None}

\* A fault: the handler keeps the value it was sent.
CreateLockAsSent(r) ==
    LET v == IF r.value = None THEN [user |-> r.user, stamp |-> clock + 1] ELSE r.value
    IN /\ clock < MaxStamp
       /\ r.kind = "lock" /\ (r.pc = "bypass" \/ (r.pc = "read" /\ r.seen = None))
       /\ clock' = clock + 1
       /\ cache' = [cache EXCEPT ![r.act] = v]
       /\ lapsed' = lapsed \cup (GonePast(r) \ {v})
       /\ Reply(r, "granted", v)
       /\ UNCHANGED <<tab, stored, given>>

NewValue(r) == [user |-> r.user, stamp |-> clock + 1]

\* Nothing is locked, or the user goes past the lock.
CreateLock(r) ==
    /\ clock < MaxStamp
    /\ r.kind = "lock" /\ (r.pc = "bypass" \/ (r.pc = "read" /\ r.seen = None))
    /\ clock' = clock + 1
    /\ cache' = [cache EXCEPT ![r.act] = NewValue(r)]
    /\ lapsed' = lapsed \cup GonePast(r)
    /\ Reply(r, "granted", NewValue(r))
    /\ UNCHANGED <<tab, stored, given>>

\* The same value: the lock is set again, for another session lifetime.
RefreshLock(r) ==
    /\ r.kind = "lock" /\ r.pc = "read" /\ r.seen # None /\ r.value = r.seen
    /\ cache' = [cache EXCEPT ![r.act] = r.value]
    /\ Reply(r, "granted", r.value)
    /\ UNCHANGED <<tab, stored, clock, given, lapsed>>

RefuseLock(r) ==
    /\ r.kind = "lock" /\ r.pc = "read" /\ r.seen # None /\ r.value # r.seen
    /\ Reply(r, "refused", r.seen)
    /\ UNCHANGED <<cache, tab, stored, clock, given, lapsed>>

\* A fault: the values are not compared.
UnlockWhatever(r) ==
    /\ r.kind = "unlock" /\ r.pc = "read"
    /\ cache' = [cache EXCEPT ![r.act] = None]
    /\ requests' = requests \ {r}
    /\ UNCHANGED <<tab, stored, clock, given, lapsed>>

\* unlock_activity: delete_cache_data, if the value is the one in the cache.
ServeUnlock(r) ==
    /\ r.kind = "unlock" /\ r.pc = "read"
    /\ cache' = IF r.seen = r.value THEN [cache EXCEPT ![r.act] = None] ELSE cache
    /\ requests' = requests \ {r}
    /\ UNCHANGED <<tab, stored, clock, given, lapsed>>

\* The session lifetime has passed since the value was set.
Timeout(a) ==
    /\ cache[a] # None
    /\ lapsed' = lapsed \cup {cache[a]}
    /\ cache' = [cache EXCEPT ![a] = None]
    /\ UNCHANGED <<tab, stored, requests, clock, given>>

Next ==
    \/ \E t \in Tabs, a \in Activities : Load(t, a) \/ LoadPlain(t, a)
    \/ \E t \in Tabs : Click(t) \/ Leave(t) \/ Unlock(t) \/ Answered(t)
    \/ \E r \in requests : Read(r) \/ CreateLock(r) \/ RefreshLock(r)
                           \/ RefuseLock(r) \/ ServeUnlock(r)
    \/ \E a \in Activities : Timeout(a)

Spec == Init /\ [][Next]_lockVars

-----------------------------------------------------------------------------
(* What the lock promises.                                                 *)

\* A lock of an activity that is no longer to be relied on: its own user has
\* given it back in some tab, it timed out, or the registrant went past it.
Ended(a, v) == v \in lapsed \/ <<a, v>> \in given

Editing(t, a) == tab[t].view = "open" /\ tab[t].page = a

\* Whoever has a page to edit holds its lock, as long as the lock has not ended
\* in one of these ways: no late or stale request of somebody else takes it away.
\* It assumes OneRequest: of two requests that both got None the later set takes
\* the lock of the earlier (lock_activity gets and sets in two calls).
EditorHoldsLock ==
    \A a \in Activities, t \in Tabs :
        Editing(t, a) => Ended(a, stored[t]) \/ stored[t] = cache[a]

\* A lock that was given back is not in the cache, whatever requests for it wait
\* or arrive late, unless the request to unlock it is under way. It assumes
\* OneRequest: a refresh that got the value before the unlock sets it again.
LeftIsUnlocked ==
    \A a \in Activities :
        <<a, cache[a]>> \in given =>
            \E r \in requests : r.kind = "unlock" /\ r.act = a /\ r.value = cache[a]
=============================================================================
