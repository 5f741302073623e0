--------------------------- MODULE PageLockProofs ---------------------------
(***************************************************************************)
(* Theorems about PageLock: types for any tabs and users, and, while the   *)
(* server answers the requests about an activity one at a time, who edits  *)
(* holds the lock and what was given back is unlocked.                     *)
(***************************************************************************)
EXTENDS PageLock, TLAPS

Serving(r) == r.pc \in {"read", "bypass"}

\* A tab that shows a page of an activity, and a tab that does not.
PagesOK ==
    \A t \in Tabs : IF tab[t].view = "away" THEN tab[t] = Away
                    ELSE tab[t].page \in Activities

\* Who waits for an answer has one request for the page it shows, and only a
\* request for the lock is answered.
AskersOK ==
    /\ \A r \in requests :
        /\ r.asker # None => /\ r.kind = "lock" /\ tab[r.asker].view = "waiting"
                             /\ tab[r.asker].page = r.act
        /\ IsAnswer(r) => r.asker # None /\ r.value \in Values
    /\ \A r, q \in requests : r.asker # None /\ r.asker = q.asker => r = q

\* One request at a time, which knows what is in the cache unless it has timed
\* out since.
ServedAlone ==
    /\ \A r, q \in requests : Serving(r) /\ Serving(q) /\ r.act = q.act => r = q
    /\ \A r \in requests : Serving(r) =>
        cache[r.act] = r.seen \/ (cache[r.act] = None /\ r.seen \in lapsed)

\* The lock granted to a page that has not yet heard of it.
GrantsHold ==
    \A r \in requests : r.pc = "granted" =>
        Ended(r.act, r.value) \/ r.value = cache[r.act]

OpenStored == \A t \in Tabs : tab[t].view = "open" => stored[t] \in Values

\* What is to be unlocked was given back; what was given back is unlocked by
\* some request before it can be refreshed.
Unlocking(a, v) == \E r \in requests : r.kind = "unlock" /\ r.act = a /\ r.value = v

GivenOK ==
    /\ \A r \in requests : r.kind = "unlock" => <<r.act, r.value>> \in given
    /\ \A a \in Activities : <<a, cache[a]>> \in given => Unlocking(a, cache[a])
    /\ \A r \in requests :
        r.kind = "lock" /\ r.pc = "read" /\ <<r.act, r.seen>> \in given =>
            Unlocking(r.act, r.seen)

\* No value is from the future.
Past(v) == v # None => v.stamp <= clock

StampsOK ==
    /\ \A a \in Activities : Past(cache[a])
    /\ \A t \in Tabs : Past(stored[t]) /\ Past(tab[t].held) /\ Past(tab[t].offer)
    /\ \A r \in requests : Past(r.value) /\ Past(r.seen)
    /\ \A a \in Activities, v \in Values : <<a, v>> \in given => v.stamp <= clock

Locked ==
    /\ PageLockTypeOK /\ PagesOK /\ AskersOK /\ ServedAlone /\ GrantsHold
    /\ OpenStored /\ EditorHoldsLock /\ GivenOK /\ StampsOK

-----------------------------------------------------------------------------
(* Types.                                                                  *)

LEMMA UnlocksTyped ==
    ASSUME NEW t \in Tabs, NEW a \in Activities, NEW vals \in SUBSET Held
    PROVE  /\ Unlocks(t, a, vals) \subseteq Requests
           /\ {a} \X (vals \ {None}) \subseteq Activities \X Values
           /\ \A r \in Unlocks(t, a, vals) :
                /\ r.kind = "unlock" /\ r.act = a /\ r.value \in vals \ {None}
                /\ r.seen = None /\ r.asker = None /\ r.pc = "sent"
           /\ \A v \in vals \ {None} : \E r \in Unlocks(t, a, vals) :
                r.kind = "unlock" /\ r.act = a /\ r.value = v
<1> DEFINE U(v) == [kind |-> "unlock", act |-> a, user |-> TabUser[t], asker |-> None,
                    value |-> v, seen |-> None, pc |-> "sent"]
<1>1. ASSUME NEW v \in vals \ {None} PROVE U(v) \in Requests
  BY LockAssumption DEF Requests, Held
<1>2. Unlocks(t, a, vals) = {U(v) : v \in vals \ {None}}
  BY DEF Unlocks
<1>3. \A r \in Unlocks(t, a, vals) : \E v \in vals \ {None} : r = U(v)
  BY <1>2
<1>4. \A r \in Unlocks(t, a, vals) : r \in Requests
  BY <1>1, <1>3
<1>5. \A v \in vals \ {None} : U(v) \in Unlocks(t, a, vals)
  BY <1>2
<1>6. {a} \X (vals \ {None}) \subseteq Activities \X Values
  BY DEF Held
<1>7. \A r \in Unlocks(t, a, vals) :
        /\ r.kind = "unlock" /\ r.act = a /\ r.value \in vals \ {None}
        /\ r.seen = None /\ r.asker = None /\ r.pc = "sent"
  BY <1>3
<1>8. \A v \in vals \ {None} : U(v).kind = "unlock" /\ U(v).act = a /\ U(v).value = v
  OBVIOUS
<1> HIDE DEF U
<1> QED
  BY <1>4, <1>5, <1>6, <1>7, <1>8

LEMMA UnheardTyped ==
    ASSUME requests \subseteq Requests, NEW t \in Tabs
    PROVE  /\ Unheard(t) \subseteq Requests
           /\ \A r \in Unheard(t) :
                \/ r \in requests /\ r.asker # t
                \/ \E q \in requests :
                    /\ q.asker = t /\ ~IsAnswer(q)
                    /\ r = [q EXCEPT !.asker = None]
           /\ \A q \in requests : q.asker # t => q \in Unheard(t)
BY DEF Unheard, Requests

LEMMA RequestTyped ==
    ASSUME PageLockTypeOK, NEW t \in Tabs, NEW a \in Activities
    PROVE  LockRequest(t, a) \in Requests
BY LockAssumption DEF PageLockTypeOK, LockRequest, Requests, Held

LEMMA ReplyTyped ==
    ASSUME PageLockTypeOK, NEW r \in requests, NEW v \in Held,
           NEW pc \in {"granted", "refused"}, Reply(r, pc, v)
    PROVE  /\ requests' \subseteq Requests
           /\ r \in Requests
           /\ \A q \in requests' :
                \/ q \in requests /\ q # r
                \/ r.asker # None /\ q = [r EXCEPT !.pc = pc, !.value = v]
           /\ \A q \in requests : q # r => q \in requests'
BY DEF PageLockTypeOK, Reply, Requests

LEMMA NewValueTyped ==
    ASSUME PageLockTypeOK, NEW r \in requests
    PROVE  NewValue(r) \in Values /\ NewValue(r).stamp = clock + 1
BY DEF PageLockTypeOK, NewValue, Values, Requests

LEMMA DepartTyped ==
    ASSUME PageLockTypeOK, NEW t \in Tabs, NEW sent \in SUBSET Held,
           tab[t].page \in Activities, Depart(t, sent)
    PROVE  PageLockTypeOK'
<1>1. Away \in TabStates
  BY DEF Away, TabStates, Held
<1>2. requests' \subseteq Requests
  BY UnlocksTyped, UnheardTyped, SMTT(30) DEF PageLockTypeOK, Depart
<1>3. given' \subseteq Activities \X Values
  BY UnlocksTyped DEF PageLockTypeOK, Depart, GiveBack
<1>4. stored' \in [Tabs -> Held]
  BY DEF PageLockTypeOK, Depart, Held
<1> QED
  BY <1>1, <1>2, <1>3, <1>4 DEF PageLockTypeOK, Depart

LEMMA PageStep ==
    ASSUME PageLockTypeOK, PagesOK, NEW t \in Tabs, NEW a \in Activities,
           Load(t, a) \/ LoadPlain(t, a) \/ Click(t) \/ Leave(t) \/ Unlock(t) \/ Answered(t)
    PROVE  PageLockTypeOK'
<1> USE DEF PageLockTypeOK
<1>1. CASE Load(t, a)
  <2>1. [view |-> "waiting", page |-> a, held |-> stored[t], offer |-> None] \in TabStates
    BY DEF TabStates, Held
  <2> QED
    BY <1>1, <2>1, RequestTyped DEF Load
<1>2. CASE LoadPlain(t, a)
  <2>1. {stored[t]} \in SUBSET Held
    OBVIOUS
  <2> QED
    BY <1>2, <2>1, UnlocksTyped DEF LoadPlain, GiveBack, Held
<1>3. CASE Click(t)
  BY <1>3 DEF Click, TabStates, Held
<1>4. CASE Leave(t)
  <2>1. {tab[t].held} \in SUBSET Held
    BY DEF TabStates
  <2>2. tab[t].page \in Activities
    BY <1>4 DEF Leave, PagesOK
  <2> QED
    BY <1>4, <2>1, <2>2, DepartTyped DEF Leave
<1>5. CASE Unlock(t)
  <2>1. {tab[t].offer, tab[t].held} \in SUBSET Held
    BY DEF TabStates
  <2>2. tab[t].page \in Activities
    <3>1. tab[t] # Away
      BY <1>5 DEF Unlock, Away
    <3> QED
      BY <3>1 DEF PagesOK
  <2> QED
    BY <1>5, <2>1, <2>2, DepartTyped DEF Unlock
<1>6. CASE Answered(t)
  <2>1. PICK r \in requests :
            /\ requests' = requests \ {r}
            /\ \/ /\ tab' = [tab EXCEPT ![t].view = "open", ![t].held = r.value]
                  /\ stored' = [stored EXCEPT ![t] = r.value]
               \/ /\ tab' = [tab EXCEPT ![t].view = "locked",
                        ![t].offer = IF r.value.user = TabUser[t] THEN r.value ELSE None]
                  /\ stored' = stored
    BY <1>6 DEF Answered
  <2>2. r.value \in Held
    BY DEF Requests
  <2>3. tab[t] \in TabStates
    OBVIOUS
  <2>4. [tab[t] EXCEPT !.view = "open", !.held = r.value] \in TabStates
    BY <2>2, <2>3 DEF TabStates
  <2>5. [tab[t] EXCEPT !.view = "locked",
            !.offer = IF r.value.user = TabUser[t] THEN r.value ELSE None] \in TabStates
    BY <2>2, <2>3 DEF TabStates, Held
  <2>6. tab' \in [Tabs -> TabStates]
    BY <2>1, <2>4, <2>5
  <2>7. stored' \in [Tabs -> Held]
    BY <2>1, <2>2
  <2> QED
    BY <1>6, <2>1, <2>6, <2>7 DEF Answered
<1> QED
  BY <1>1, <1>2, <1>3, <1>4, <1>5, <1>6

LEMMA ServerStep ==
    ASSUME PageLockTypeOK, NEW r \in requests,
           Read(r) \/ CreateLock(r) \/ RefreshLock(r) \/ RefuseLock(r) \/ ServeUnlock(r)
    PROVE  PageLockTypeOK'
<1> USE DEF PageLockTypeOK
<1> r \in Requests
  OBVIOUS
<1>1. CASE Read(r)
  <2>1. PICK pc \in {"read", "bypass"} :
            requests' = (requests \ {r}) \cup {[r EXCEPT !.seen = cache[r.act], !.pc = pc]}
    BY <1>1 DEF Read
  <2>2. [r EXCEPT !.seen = cache[r.act], !.pc = pc] \in Requests
    BY DEF Requests
  <2> QED
    BY <1>1, <2>1, <2>2 DEF Read
<1>2. CASE CreateLock(r)
  <2>1. NewValue(r) \in Values /\ NewValue(r) \in Held
    BY NewValueTyped DEF Held
  <2>2. requests' \subseteq Requests
    BY <1>2, <2>1, ReplyTyped DEF CreateLock
  <2>3. cache' \in [Activities -> Held] /\ lapsed' \subseteq Values
    BY <1>2, <2>1 DEF CreateLock, Requests, Held, GonePast
  <2> QED
    BY <1>2, <2>2, <2>3 DEF CreateLock
<1>3. CASE RefreshLock(r)
  BY <1>3, ReplyTyped DEF RefreshLock, Requests
<1>4. CASE RefuseLock(r)
  BY <1>4, ReplyTyped DEF RefuseLock, Requests
<1>5. CASE ServeUnlock(r)
  BY <1>5 DEF ServeUnlock, Requests, Held
<1> QED
  BY <1>1, <1>2, <1>3, <1>4, <1>5

LEMMA TimeoutStep ==
    ASSUME PageLockTypeOK, NEW a \in Activities, Timeout(a)
    PROVE  PageLockTypeOK'
BY DEF PageLockTypeOK, Timeout, Held

-----------------------------------------------------------------------------
(* The invariant, action by action.                                        *)

\* What the steps below use of the types, field by field.
LEMMA FieldsTyped ==
    ASSUME PageLockTypeOK
    PROVE  /\ \A r \in requests :
                /\ r \in Requests /\ r.act \in Activities
                /\ r.asker \in Tabs \cup {None} /\ r.value \in Held /\ r.seen \in Held
                /\ r.kind \in {"lock", "unlock"}
           /\ \A t \in Tabs : /\ tab[t].held \in Held /\ tab[t].offer \in Held
                              /\ stored[t] \in Held
           /\ \A a \in Activities : cache[a] \in Held
           /\ \A p \in given : p[1] \in Activities /\ p[2] \in Values
           /\ None \notin Values /\ None \notin Tabs
BY NoneAssumption DEF PageLockTypeOK, Requests, TabStates

LEMMA DepartKeeps ==
    ASSUME Locked, NEW t \in Tabs, NEW sent \in SUBSET Held,
           \A v \in sent : Past(v), NEW a \in Activities, a = tab[t].page, Depart(t, sent)
    PROVE  Locked'
<1>0. PageLockTypeOK /\ PageLockTypeOK'
  BY DepartTyped DEF Locked
<1> requests \subseteq Requests
  BY <1>0 DEF PageLockTypeOK
<1>1. \A r \in requests' :
        \/ /\ r.kind = "unlock" /\ r.act = a /\ r.value \in sent \ {None}
           /\ r.seen = None /\ r.asker = None /\ r.pc = "sent"
        \/ r \in requests /\ r.asker # t
        \/ \E q \in requests : /\ q.asker = t /\ ~IsAnswer(q)
                               /\ r = [q EXCEPT !.asker = None]
  BY UnlocksTyped, UnheardTyped DEF Depart
<1>2. \A q \in requests : q.asker # t => q \in requests'
  BY UnheardTyped DEF Depart
<1>3. \A v \in sent \ {None} : Unlocking(a, v)'
  BY UnlocksTyped DEF Depart, Unlocking
<1>4. given' = given \cup ({a} \X (sent \ {None}))
  BY DEF Depart, GiveBack
<1>5. \A q \in requests : \A r : r = [q EXCEPT !.asker = None] =>
        /\ r.kind = q.kind /\ r.act = q.act /\ r.value = q.value /\ r.seen = q.seen
        /\ r.pc = q.pc /\ r.asker = None
  BY DEF Requests
<1>6. \A b, v : Unlocking(b, v) => Unlocking(b, v)'
  BY <1>2, FieldsTyped DEF Unlocking, Locked, AskersOK
<1>7. UNCHANGED <<cache, clock, lapsed>> /\ tab' = [tab EXCEPT ![t] = Away]
  BY DEF Depart
<1>8. \A s \in Tabs : s # t => stored'[s] = stored[s] /\ tab'[s] = tab[s]
  BY <1>0, <1>7 DEF Depart, PageLockTypeOK
<1>9. tab'[t] = Away /\ (stored'[t] = stored[t] \/ stored'[t] = None)
  BY <1>0, <1>7 DEF Depart, PageLockTypeOK
<1>10. PagesOK'
  BY <1>8, <1>9 DEF Locked, PagesOK, Away
<1>11. AskersOK'
  <2>1. \A r \in requests' : r.asker # None => r \in requests /\ r.asker # t
    BY <1>1, <1>5
  <2>2. \A r \in requests' : IsAnswer(r) => r \in requests
    BY <1>1, <1>5 DEF IsAnswer
  <2>3. \A r \in requests : r.asker \in Tabs \cup {None}
    BY FieldsTyped, <1>0
  <2> QED
    BY <2>1, <2>2, <2>3, <1>8 DEF Locked, AskersOK
<1>12. ServedAlone'
  <2>1. \A r \in requests' : Serving(r) =>
            \E q \in requests : /\ Serving(q) /\ q.act = r.act /\ q.seen = r.seen
                                /\ r = IF q.asker = t THEN [q EXCEPT !.asker = None] ELSE q
    BY <1>1, <1>5 DEF Serving
  <2> QED
    BY <2>1, <1>7 DEF Locked, ServedAlone
<1>13. GrantsHold'
  <2>1. \A r \in requests' : r.pc = "granted" => r \in requests
    BY <1>1, <1>5 DEF IsAnswer
  <2> QED
    BY <2>1, <1>4, <1>7 DEF Locked, GrantsHold, Ended
<1>14. OpenStored'
  BY <1>8, <1>9 DEF Locked, OpenStored, Away
<1>15. EditorHoldsLock'
  BY <1>4, <1>7, <1>8, <1>9 DEF Locked, EditorHoldsLock, Editing, Ended, Away
<1>16. GivenOK'
  <2>1. \A r \in requests' : r.kind = "unlock" => <<r.act, r.value>> \in given'
    BY <1>1, <1>4, <1>5 DEF Locked, GivenOK
  <2>2. \A b, v : <<b, v>> \in given' /\ (<<b, v>> \in given => Unlocking(b, v))
            => Unlocking(b, v)'
    <3>1. \A b, v : <<b, v>> \in given' =>
            <<b, v>> \in given \/ (b = a /\ v \in sent \ {None})
      BY <1>4
    <3> QED
      BY <3>1, <1>3, <1>6
  <2>3. \A b \in Activities : <<b, cache[b]>> \in given' => Unlocking(b, cache[b])'
    BY <2>2, <1>7 DEF Locked, GivenOK
  <2>4. \A r \in requests' : r.kind = "lock" /\ r.pc = "read" =>
            \E q \in requests : /\ q.kind = "lock" /\ q.pc = "read"
                                /\ q.act = r.act /\ q.seen = r.seen
    BY <1>1, <1>5
  <2>5. \A r \in requests' :
            r.kind = "lock" /\ r.pc = "read" /\ <<r.act, r.seen>> \in given' =>
                Unlocking(r.act, r.seen)'
    BY <2>2, <2>4 DEF Locked, GivenOK
  <2> QED
    BY <2>1, <2>3, <2>5, <1>7 DEF GivenOK
<1>17. StampsOK'
  <2>1. \A r \in requests' : Past(r.value) /\ Past(r.seen)
    BY <1>1, <1>5 DEF Locked, StampsOK, Past
  <2>2. \A s \in Tabs : Past(stored'[s]) /\ Past(tab'[s].held) /\ Past(tab'[s].offer)
    BY <1>8, <1>9 DEF Locked, StampsOK, Past, Away
  <2>3. \A b \in Activities, v \in Values : <<b, v>> \in given' => v.stamp <= clock
    BY <1>4 DEF Locked, StampsOK, Past
  <2> QED
    BY <2>1, <2>2, <2>3, <1>7 DEF Locked, StampsOK, Past
<1> QED
  BY <1>0, <1>10, <1>11, <1>12, <1>13, <1>14, <1>15, <1>16, <1>17 DEF Locked

LEMMA LoadKeeps ==
    ASSUME Locked, NEW t \in Tabs, NEW a \in Activities, Load(t, a)
    PROVE  Locked'
<1>0. PageLockTypeOK /\ PageLockTypeOK'
  BY PageStep DEF Locked
<1>1. PICK n \in Requests : /\ requests' = requests \cup {n}
                            /\ n.kind = "lock" /\ n.act = a /\ n.asker = t
                            /\ n.value = stored[t] /\ n.seen = None /\ n.pc = "sent"
  BY <1>0, RequestTyped DEF Load, LockRequest
<1>2. /\ tab[t] = Away /\ tab'[t].view = "waiting" /\ tab'[t].page = a
      /\ tab'[t].held = stored[t] /\ tab'[t].offer = None
      /\ \A s \in Tabs : s # t => tab'[s] = tab[s]
  BY <1>0 DEF Load, PageLockTypeOK, Locked, PagesOK
<1>3. UNCHANGED <<cache, stored, clock, given, lapsed>>
  BY DEF Load
<1>4. \A b, v : Unlocking(b, v) => Unlocking(b, v)'
  BY <1>1 DEF Unlocking
<1>5. PagesOK'
  BY <1>2 DEF Locked, PagesOK
<1>6. AskersOK'
  <2>1. \A r \in requests : r.asker # t /\ r.asker \in Tabs \cup {None}
    BY <1>0, <1>2, FieldsTyped DEF Locked, AskersOK, Away
  <2> QED
    BY <1>1, <1>2, <2>1 DEF Locked, AskersOK, IsAnswer
<1>7. ServedAlone'
  BY <1>1, <1>3 DEF Locked, ServedAlone, Serving
<1>8. GrantsHold'
  BY <1>1, <1>3 DEF Locked, GrantsHold, Ended
<1>9. OpenStored' /\ EditorHoldsLock'
  BY <1>2, <1>3 DEF Locked, OpenStored, EditorHoldsLock, Editing, Ended
<1>10. GivenOK'
  BY <1>1, <1>3, <1>4 DEF Locked, GivenOK
<1>11. StampsOK'
  BY <1>1, <1>2, <1>3 DEF Locked, StampsOK, Past
<1> QED
  BY <1>0, <1>5, <1>6, <1>7, <1>8, <1>9, <1>10, <1>11 DEF Locked

LEMMA LoadPlainKeeps ==
    ASSUME Locked, NEW t \in Tabs, NEW a \in Activities, NEW v \in Values,
           v = stored[t], LoadPlain(t, a)
    PROVE  Locked'
<1>0. PageLockTypeOK /\ PageLockTypeOK' /\ {v} \in SUBSET Held /\ v # None
  BY PageStep, NoneAssumption DEF Locked, PageLockTypeOK, Held
<1>1. \A r \in requests' :
        \/ r \in requests
        \/ /\ r.kind = "unlock" /\ r.act = a /\ r.value = v
           /\ r.seen = None /\ r.asker = None /\ r.pc = "sent"
  BY <1>0, UnlocksTyped DEF LoadPlain
<1>2. \A b, w : Unlocking(b, w) => Unlocking(b, w)'
  BY DEF LoadPlain, Unlocking
<1>3. Unlocking(a, v)'
  BY <1>0, UnlocksTyped DEF LoadPlain, Unlocking
<1>4. given' = given \cup {<<a, v>>}
  BY <1>0 DEF LoadPlain, GiveBack
<1>5. UNCHANGED <<cache, tab, clock, lapsed>>
  BY DEF LoadPlain
<1>6. \A s \in Tabs : stored'[s] = stored[s] \/ (stored'[s] = None /\ tab[s].view = "away")
  BY <1>0 DEF LoadPlain, PageLockTypeOK
<1>7. \A b, w : <<b, w>> \in given' => <<b, w>> \in given \/ (b = a /\ w = v)
  BY <1>4
<1>8. PagesOK' /\ AskersOK'
  BY <1>1, <1>5 DEF Locked, PagesOK, AskersOK, IsAnswer
<1>9. ServedAlone' /\ GrantsHold'
  BY <1>1, <1>4, <1>5 DEF Locked, ServedAlone, GrantsHold, Serving, Ended
<1>10. OpenStored' /\ EditorHoldsLock'
  BY <1>4, <1>5, <1>6 DEF Locked, OpenStored, EditorHoldsLock, Editing, Ended
<1>11. GivenOK'
  <2>1. \A r \in requests' : r.kind = "unlock" => <<r.act, r.value>> \in given'
    BY <1>1, <1>4 DEF Locked, GivenOK
  <2>2. \A b \in Activities : <<b, cache[b]>> \in given' => Unlocking(b, cache[b])'
    BY <1>2, <1>3, <1>5, <1>7 DEF Locked, GivenOK
  <2>3. \A r \in requests' :
            r.kind = "lock" /\ r.pc = "read" /\ <<r.act, r.seen>> \in given' =>
                Unlocking(r.act, r.seen)'
    BY <1>1, <1>2, <1>3, <1>7 DEF Locked, GivenOK
  <2> QED
    BY <2>1, <2>2, <2>3, <1>5 DEF GivenOK
<1>12. StampsOK'
  BY <1>0, <1>1, <1>5, <1>6, <1>7 DEF Locked, StampsOK, Past
<1> QED
  BY <1>0, <1>8, <1>9, <1>10, <1>11, <1>12 DEF Locked

LEMMA ClickKeeps ==
    ASSUME Locked, NEW t \in Tabs, NEW a \in Activities, Click(t)
    PROVE  Locked'
<1>0. PageLockTypeOK /\ PageLockTypeOK'
  BY PageStep DEF Locked
<1>1. UNCHANGED <<cache, stored, requests, clock, given, lapsed>>
  BY DEF Click
<1>2. \A s \in Tabs : /\ tab'[s].view = tab[s].view /\ tab'[s].page = tab[s].page
                      /\ tab'[s].offer = tab[s].offer
                      /\ tab'[s].held = tab[s].held \/ tab'[s].held = None
                      /\ tab[s].view = "away" => tab'[s] = tab[s]
  BY <1>0 DEF Click, PageLockTypeOK, TabStates
<1>3. PagesOK'
  BY <1>2 DEF Locked, PagesOK
<1>4. AskersOK'
  BY <1>0, <1>1, <1>2, FieldsTyped DEF Locked, AskersOK
<1>5. ServedAlone' /\ GrantsHold' /\ GivenOK'
  BY <1>1 DEF Locked, ServedAlone, GrantsHold, GivenOK, Ended, Unlocking
<1>6. OpenStored' /\ EditorHoldsLock'
  BY <1>1, <1>2 DEF Locked, OpenStored, EditorHoldsLock, Editing, Ended
<1>7. StampsOK'
  BY <1>1, <1>2 DEF Locked, StampsOK, Past
<1> QED
  BY <1>0, <1>3, <1>4, <1>5, <1>6, <1>7 DEF Locked

LEMMA AnsweredKeeps ==
    ASSUME Locked, NEW t \in Tabs, NEW a \in Activities, Answered(t)
    PROVE  Locked'
<1>0. PageLockTypeOK /\ PageLockTypeOK'
  BY PageStep DEF Locked
<1>1. PICK r \in requests :
        /\ r.asker = t /\ IsAnswer(r) /\ requests' = requests \ {r}
        /\ \/ /\ r.pc = "granted"
              /\ tab' = [tab EXCEPT ![t].view = "open", ![t].held = r.value]
              /\ stored' = [stored EXCEPT ![t] = r.value]
           \/ /\ tab' = [tab EXCEPT ![t].view = "locked",
                    ![t].offer = IF r.value.user = TabUser[t] THEN r.value ELSE None]
              /\ stored' = stored
  BY DEF Answered
<1>2. UNCHANGED <<cache, clock, given, lapsed>>
  BY DEF Answered
<1>3. /\ tab[t].view = "waiting" /\ tab[t].page = r.act /\ r.kind = "lock"
      /\ r.value \in Values /\ Past(r.value) /\ r.act \in Activities
  BY <1>0, <1>1, FieldsTyped DEF Locked, AskersOK, StampsOK
<1>4. /\ tab'[t].page = r.act /\ tab'[t].view \in {"open", "locked"}
      /\ \A s \in Tabs : s # t => tab'[s] = tab[s] /\ stored'[s] = stored[s]
      /\ tab'[t].view = "open" => stored'[t] = r.value /\ r.pc = "granted"
      /\ \A s \in Tabs : stored'[s] = stored[s] \/ stored'[s] = r.value
      /\ tab'[t].held \in {r.value, tab[t].held}
      /\ tab'[t].offer \in {r.value, None, tab[t].offer}
  BY <1>0, <1>1, <1>3 DEF PageLockTypeOK, TabStates
<1>5. PagesOK'
  BY <1>3, <1>4 DEF Locked, PagesOK
<1>6. AskersOK'
  <2>1. \A q \in requests' : q \in requests /\ q.asker # t
    BY <1>1, <1>3, FieldsTyped, <1>0 DEF Locked, AskersOK
  <2>2. \A q \in requests : q.asker \in Tabs \cup {None}
    BY <1>0, FieldsTyped
  <2> QED
    BY <2>1, <2>2, <1>4 DEF Locked, AskersOK
<1>7. ServedAlone' /\ GrantsHold'
  BY <1>1, <1>2 DEF Locked, ServedAlone, GrantsHold, Ended
<1>8. GivenOK'
  <2>1. \A b, v : Unlocking(b, v) => Unlocking(b, v)'
    BY <1>1, <1>3 DEF Unlocking
  <2> QED
    BY <2>1, <1>1, <1>2 DEF Locked, GivenOK
<1>9. OpenStored' /\ EditorHoldsLock'
  <2>1. tab'[t].view = "open" => Ended(r.act, r.value) \/ r.value = cache[r.act]
    BY <1>1, <1>4 DEF Locked, GrantsHold
  <2>2. \A b, v : Ended(b, v)' <=> Ended(b, v)
    BY <1>2 DEF Ended
  <2> QED
    BY <2>1, <2>2, <1>2, <1>3, <1>4 DEF Locked, OpenStored, EditorHoldsLock, Editing
<1>10. StampsOK'
  BY <1>1, <1>2, <1>3, <1>4 DEF Locked, StampsOK, Past
<1> QED
  BY <1>0, <1>5, <1>6, <1>7, <1>8, <1>9, <1>10 DEF Locked

\* What every step of the server keeps: the tabs, and who waits for what.
LEMMA ServerTabs ==
    ASSUME Locked, NEW r \in requests, PageLockTypeOK', UNCHANGED <<tab, stored>>,
           NEW q \in Requests, q.act = r.act, q.kind = r.kind, q.asker = r.asker,
           \A p \in requests' :
                \/ p \in requests /\ p # r
                \/ p = q /\ (IsAnswer(q) => q.asker # None /\ q.value \in Values)
    PROVE  PagesOK' /\ AskersOK' /\ OpenStored'
<1>1. PagesOK' /\ OpenStored'
  BY DEF Locked, PagesOK, OpenStored
<1>2. \A p \in requests' : p.asker # None =>
        p.kind = "lock" /\ tab[p.asker].view = "waiting" /\ tab[p.asker].page = p.act
  BY DEF Locked, AskersOK
<1>3. \A p \in requests' : IsAnswer(p) => p.asker # None /\ p.value \in Values
  BY DEF Locked, AskersOK
<1>4. \A p, s \in requests' : p.asker # None /\ p.asker = s.asker => p = s
  BY DEF Locked, AskersOK
<1> QED
  BY <1>1, <1>2, <1>3, <1>4 DEF AskersOK

LEMMA ReadKeeps ==
    ASSUME Locked, OneRequest, NEW r \in requests, Read(r)
    PROVE  Locked'
<1>0. PageLockTypeOK /\ PageLockTypeOK' /\ r \in Requests
  BY ServerStep DEF Locked, PageLockTypeOK
<1>1. PICK pc \in {"read", "bypass"} :
        requests' = (requests \ {r}) \cup {[r EXCEPT !.seen = cache[r.act], !.pc = pc]}
  BY DEF Read
<1>2. PICK q \in Requests :
        /\ requests' = (requests \ {r}) \cup {q} /\ q.pc \in {"read", "bypass"}
        /\ q.kind = r.kind /\ q.act = r.act /\ q.asker = r.asker
        /\ q.value = r.value /\ q.seen = cache[r.act]
  BY <1>0, <1>1 DEF Requests, PageLockTypeOK
<1>3. UNCHANGED <<cache, tab, stored, clock, given, lapsed>> /\ r.pc = "sent"
  BY DEF Read
<1>4. PagesOK' /\ AskersOK' /\ OpenStored'
  BY <1>0, <1>2, <1>3, ServerTabs DEF IsAnswer
<1>5. ServedAlone'
  <2>1. \A p \in requests : Serving(p) => p.act # r.act
    BY DEF Read, Answering, Serving
  <2> QED
    BY <2>1, <1>2, <1>3 DEF Locked, ServedAlone, Serving
<1>6. GrantsHold'
  BY <1>2, <1>3 DEF Locked, GrantsHold, Ended
<1>7. EditorHoldsLock'
  BY <1>3 DEF Locked, EditorHoldsLock, Editing, Ended
<1>8. GivenOK'
  <2>1. \A b, v : Unlocking(b, v) => Unlocking(b, v)'
    BY <1>2 DEF Unlocking
  <2>2. r.act \in Activities
    BY <1>0, FieldsTyped
  <2> QED
    BY <2>1, <2>2, <1>2, <1>3 DEF Locked, GivenOK
<1>9. StampsOK'
  BY <1>0, <1>2, <1>3, FieldsTyped DEF Locked, StampsOK, Past
<1> QED
  BY <1>0, <1>4, <1>5, <1>6, <1>7, <1>8, <1>9 DEF Locked

\* A reply leaves only answers that somebody waits for.
LEMMA ReplyShape ==
    ASSUME PageLockTypeOK, NEW r \in requests, NEW v \in Values,
           NEW pc \in {"granted", "refused"}, Reply(r, pc, v)
    PROVE  \E q \in Requests :
            /\ q.kind = r.kind /\ q.act = r.act /\ q.asker = r.asker
            /\ q.value = v /\ q.seen = r.seen /\ q.pc = pc
            /\ \A p \in requests' : (p \in requests /\ p # r) \/ (p = q /\ q.asker # None)
            /\ \A p \in requests : p # r => p \in requests'
<1>1. r \in Requests /\ v \in Held
  BY DEF PageLockTypeOK, Held
<1>2. [r EXCEPT !.pc = pc, !.value = v] \in Requests
  BY <1>1 DEF Requests
<1> DEFINE q == [r EXCEPT !.pc = pc, !.value = v]
<1>3. /\ q.kind = r.kind /\ q.act = r.act /\ q.asker = r.asker
      /\ q.value = v /\ q.seen = r.seen /\ q.pc = pc
  BY <1>1 DEF Requests
<1>4. requests' = (requests \ {r}) \cup {p \in {q} : p.asker # None}
  BY DEF Reply
<1> HIDE DEF q
<1>5. q \in Requests
  BY <1>2 DEF q
<1> QED
  BY <1>3, <1>4, <1>5

LEMMA CreateKeeps ==
    ASSUME Locked, NEW r \in requests, NEW n \in Values, n = NewValue(r), CreateLock(r)
    PROVE  Locked'
<1>0. /\ PageLockTypeOK /\ PageLockTypeOK' /\ r \in Requests /\ r.act \in Activities
      /\ r.kind = "lock" /\ clock' = clock + 1 /\ n.stamp = clock + 1 /\ clock \in Nat
      /\ UNCHANGED <<tab, stored, given>>
  BY ServerStep, NewValueTyped, FieldsTyped DEF Locked, PageLockTypeOK, CreateLock
<1>1. PICK q \in Requests :
        /\ q.kind = r.kind /\ q.act = r.act /\ q.asker = r.asker
        /\ q.value = n /\ q.seen = r.seen /\ q.pc = "granted"
        /\ \A p \in requests' : (p \in requests /\ p # r) \/ (p = q /\ q.asker # None)
        /\ \A p \in requests : p # r => p \in requests'
  BY <1>0, ReplyShape DEF CreateLock
<1>2. /\ cache'[r.act] = n
      /\ \A b \in Activities : b # r.act => cache'[b] = cache[b]
      /\ lapsed' = lapsed \cup GonePast(r)
      /\ lapsed \subseteq lapsed'
  BY <1>0 DEF CreateLock, PageLockTypeOK
<1>3. \A b, v : Ended(b, v) => Ended(b, v)'
  BY <1>0, <1>2 DEF Ended
<1>4. \A v \in Values : v = cache[r.act] => Ended(r.act, v)'
  <2>1. CASE r.pc = "bypass"
    BY <2>1, <1>2, NoneAssumption DEF Ended, GonePast
  <2>2. CASE r.pc = "read" /\ r.seen = None
    BY <2>2, NoneAssumption DEF Locked, ServedAlone, Serving
  <2> QED
    BY <2>1, <2>2 DEF CreateLock
<1>5. PagesOK' /\ AskersOK' /\ OpenStored'
  BY <1>0, <1>1, ServerTabs DEF IsAnswer
<1>6. ServedAlone'
  <2>1. \A p \in requests' : Serving(p) => p \in requests /\ p.act # r.act
    BY <1>1 DEF Serving, CreateLock, Locked, ServedAlone
  <2>2. \A p \in requests : p.act \in Activities
    BY <1>0, FieldsTyped
  <2> QED
    BY <2>1, <2>2, <1>2 DEF Locked, ServedAlone
<1>7. GrantsHold'
  <2>1. \A p \in requests : p.pc = "granted" => p.value \in Values /\ p.act \in Activities
    BY <1>0, FieldsTyped DEF Locked, AskersOK, IsAnswer
  <2> QED
    BY <2>1, <1>1, <1>2, <1>3, <1>4 DEF Locked, GrantsHold
<1>8. EditorHoldsLock'
  BY <1>0, <1>2, <1>3, <1>4 DEF Locked, EditorHoldsLock, Editing, OpenStored
<1>9. GivenOK'
  <2>1. \A b, v : Unlocking(b, v) => Unlocking(b, v)'
    BY <1>0, <1>1 DEF Unlocking
  <2>2. <<r.act, n>> \notin given
    BY <1>0 DEF Locked, StampsOK
  <2> QED
    BY <2>1, <2>2, <1>0, <1>1, <1>2 DEF Locked, GivenOK
<1>10. StampsOK'
  <2> DEFINE Now(v) == v # None => v.stamp <= clock'
  <2>1. \A v \in Held : Past(v) => Now(v)
    BY <1>0 DEF Past, Held, Values
  <2>2. Now(n)
    BY <1>0
  <2> HIDE DEF Now
  <2>3. \A b \in Activities, v \in Values : <<b, v>> \in given' => v.stamp <= clock'
    BY <1>0 DEF Locked, StampsOK, Values
  <2>4. \A p \in requests' : Now(p.value) /\ Now(p.seen)
    BY <2>1, <2>2, <1>0, <1>1, FieldsTyped DEF Locked, StampsOK
  <2>5. \A b \in Activities : Now(cache'[b])
    BY <2>1, <2>2, <1>0, <1>2, FieldsTyped DEF Locked, StampsOK
  <2>6. \A s \in Tabs : Now(stored'[s]) /\ Now(tab'[s].held) /\ Now(tab'[s].offer)
    BY <2>1, <1>0, FieldsTyped DEF Locked, StampsOK
  <2> QED
    BY <2>3, <2>4, <2>5, <2>6 DEF StampsOK, Past, Now
<1> QED
  BY <1>0, <1>5, <1>6, <1>7, <1>8, <1>9, <1>10 DEF Locked

LEMMA AnswersKeep ==
    ASSUME Locked, NEW r \in requests, RefreshLock(r) \/ RefuseLock(r)
    PROVE  Locked'
<1>0. /\ PageLockTypeOK /\ PageLockTypeOK' /\ r.act \in Activities
      /\ r.kind = "lock" /\ r.pc = "read" /\ r.seen \in Values
      /\ UNCHANGED <<tab, stored, clock, given, lapsed>>
  BY ServerStep, FieldsTyped DEF Locked, RefreshLock, RefuseLock, Held
<1>1. PICK q \in Requests :
        /\ q.kind = r.kind /\ q.act = r.act /\ q.asker = r.asker
        /\ q.value = r.seen /\ q.seen = r.seen /\ q.pc \in {"granted", "refused"}
        /\ q.pc = "granted" => cache'[r.act] = r.seen
        /\ \A p \in requests' : (p \in requests /\ p # r) \/ (p = q /\ q.asker # None)
        /\ \A p \in requests : p # r => p \in requests'
  BY <1>0, ReplyShape DEF RefreshLock, RefuseLock, PageLockTypeOK
<1>2. /\ cache'[r.act] = r.seen \/ cache'[r.act] = cache[r.act]
      /\ \A b \in Activities : b # r.act => cache'[b] = cache[b]
      /\ cache[r.act] = r.seen \/ (cache[r.act] = None /\ r.seen \in lapsed)
  BY <1>0 DEF RefreshLock, RefuseLock, PageLockTypeOK, Locked, ServedAlone, Serving
<1>3. \A b, v : Ended(b, v) <=> Ended(b, v)'
  BY <1>0 DEF Ended
<1>4. PagesOK' /\ AskersOK' /\ OpenStored'
  BY <1>0, <1>1, ServerTabs
<1>5. ServedAlone'
  <2>1. \A p \in requests' : Serving(p) => p \in requests /\ p.act # r.act
    BY <1>0, <1>1 DEF Serving, Locked, ServedAlone
  <2>2. \A p \in requests : p.act \in Activities
    BY <1>0, FieldsTyped
  <2> QED
    BY <2>1, <2>2, <1>0, <1>2 DEF Locked, ServedAlone
<1>6. GrantsHold'
  <2>1. \A p \in requests : p.pc = "granted" => p.value \in Values /\ p.act \in Activities
    BY <1>0, FieldsTyped DEF Locked, AskersOK, IsAnswer
  <2> QED
    BY <2>1, <1>1, <1>2, <1>3, NoneAssumption DEF Locked, GrantsHold
<1>7. EditorHoldsLock'
  BY <1>0, <1>2, <1>3, NoneAssumption DEF Locked, EditorHoldsLock, Editing, OpenStored
<1>8. GivenOK'
  <2>1. \A b, v : Unlocking(b, v) => Unlocking(b, v)'
    BY <1>0, <1>1 DEF Unlocking
  <2>2. <<r.act, r.seen>> \in given => Unlocking(r.act, r.seen)
    BY <1>0 DEF Locked, GivenOK
  <2>3. \A b \in Activities : <<b, cache'[b]>> \in given => Unlocking(b, cache'[b])
    BY <2>2, <1>2 DEF Locked, GivenOK
  <2>4. \A p \in requests' : p.kind = "unlock" \/ p.pc = "read" => p \in requests
    BY <1>0, <1>1
  <2> QED
    BY <2>1, <2>3, <2>4, <1>0 DEF Locked, GivenOK
<1>9. StampsOK'
  BY <1>0, <1>1, <1>2 DEF Locked, StampsOK, Past
<1> QED
  BY <1>0, <1>4, <1>5, <1>6, <1>7, <1>8, <1>9 DEF Locked

LEMMA UnlockKeeps ==
    ASSUME Locked, NEW r \in requests, ServeUnlock(r)
    PROVE  Locked'
<1>0. /\ PageLockTypeOK /\ PageLockTypeOK' /\ r \in Requests /\ r.act \in Activities
      /\ r.kind = "unlock" /\ r.pc = "read" /\ requests' = requests \ {r}
      /\ UNCHANGED <<tab, stored, clock, given, lapsed>>
  BY ServerStep, FieldsTyped DEF Locked, PageLockTypeOK, ServeUnlock
<1>1. /\ cache'[r.act] = cache[r.act] \/ (cache'[r.act] = None /\ r.seen = r.value)
      /\ r.seen = r.value => cache'[r.act] = None
      /\ \A b \in Activities : b # r.act => cache'[b] = cache[b]
      /\ cache[r.act] = r.seen \/ (cache[r.act] = None /\ r.seen \in lapsed)
  BY <1>0 DEF ServeUnlock, PageLockTypeOK, Locked, ServedAlone, Serving
<1>2. <<r.act, r.value>> \in given
  BY <1>0 DEF Locked, GivenOK
<1>3. \A b, v : Ended(b, v) <=> Ended(b, v)'
  BY <1>0 DEF Ended
<1>4. \A v : v = cache[r.act] /\ v # cache'[r.act] => Ended(r.act, v) \/ v = None
  BY <1>1, <1>2 DEF Ended
<1>5. PagesOK' /\ AskersOK' /\ OpenStored'
  BY <1>0 DEF Locked, PagesOK, AskersOK, OpenStored
<1>6. ServedAlone'
  <2>1. \A p \in requests' : Serving(p) => p \in requests /\ p.act # r.act
    BY <1>0 DEF Serving, Locked, ServedAlone
  <2>2. \A p \in requests : p.act \in Activities
    BY <1>0, FieldsTyped
  <2> QED
    BY <2>1, <2>2, <1>0, <1>1 DEF Locked, ServedAlone
<1>7. GrantsHold'
  <2>1. \A p \in requests : p.pc = "granted" => p.value \in Values /\ p.act \in Activities
    BY <1>0, FieldsTyped DEF Locked, AskersOK, IsAnswer
  <2> QED
    BY <2>1, <1>0, <1>1, <1>3, <1>4, NoneAssumption DEF Locked, GrantsHold
<1>8. EditorHoldsLock'
  BY <1>0, <1>1, <1>3, <1>4, NoneAssumption DEF Locked, EditorHoldsLock, Editing, OpenStored
<1>9. GivenOK'
  <2>1. \A b, v : Unlocking(b, v) =>
            Unlocking(b, v)' \/ (b = r.act /\ v = r.value)
    BY <1>0 DEF Unlocking
  <2>2. \A p \in given : p[2] # None
    BY <1>0, FieldsTyped
  <2>3. \A b \in Activities : <<b, cache'[b]>> \in given =>
            cache'[b] = cache[b] /\ (b = r.act => cache'[b] # r.value)
    BY <1>1, <2>2
  <2>4. \A p \in requests' : p.kind = "lock" /\ p.pc = "read" =>
            p \in requests /\ p.act # r.act
    BY <1>0 DEF Locked, ServedAlone, Serving
  <2> QED
    BY <2>1, <2>3, <2>4, <1>0 DEF Locked, GivenOK
<1>10. StampsOK'
  BY <1>0, <1>1 DEF Locked, StampsOK, Past
<1> QED
  BY <1>0, <1>5, <1>6, <1>7, <1>8, <1>9, <1>10 DEF Locked

LEMMA TimeoutKeeps ==
    ASSUME Locked, NEW a \in Activities, Timeout(a)
    PROVE  Locked'
<1>0. /\ PageLockTypeOK /\ PageLockTypeOK' /\ UNCHANGED <<tab, stored, requests, clock, given>>
      /\ cache'[a] = None /\ cache[a] # None /\ cache[a] \in lapsed' /\ lapsed \subseteq lapsed'
      /\ \A b \in Activities : b # a => cache'[b] = cache[b]
  BY TimeoutStep DEF Locked, PageLockTypeOK, Timeout
<1>1. \A b, v : Ended(b, v) => Ended(b, v)'
  BY <1>0 DEF Ended
<1>2. \A b \in Activities, v \in Values : v = cache[b] => v = cache'[b] \/ Ended(b, v)'
  BY <1>0 DEF Ended
<1>3. PagesOK' /\ AskersOK' /\ OpenStored'
  BY <1>0 DEF Locked, PagesOK, AskersOK, OpenStored
<1>4. ServedAlone'
  BY <1>0, FieldsTyped DEF Locked, ServedAlone
<1>5. GrantsHold'
  BY <1>0, <1>1, <1>2, FieldsTyped DEF Locked, GrantsHold, AskersOK, IsAnswer
<1>6. EditorHoldsLock'
  BY <1>0, <1>1, <1>2 DEF Locked, EditorHoldsLock, Editing, OpenStored
<1>7. GivenOK'
  <2>1. \A p \in given : p[2] # None
    BY <1>0, FieldsTyped
  <2>2. \A b, v : Unlocking(b, v) => Unlocking(b, v)'
    BY <1>0 DEF Unlocking
  <2>3. \A b \in Activities : <<b, cache'[b]>> \in given => cache'[b] = cache[b]
    BY <2>1, <1>0
  <2> QED
    BY <2>2, <2>3, <1>0 DEF Locked, GivenOK
<1>8. StampsOK'
  BY <1>0 DEF Locked, StampsOK, Past
<1> QED
  BY <1>0, <1>3, <1>4, <1>5, <1>6, <1>7, <1>8 DEF Locked

-----------------------------------------------------------------------------
LEMMA LockedInit ==
    ASSUME Init
    PROVE  Locked
<1>1. Away \in TabStates /\ None \in Held
  BY DEF Away, TabStates, Held
<1>2. PageLockTypeOK
  BY <1>1 DEF Init, PageLockTypeOK
<1>3. \A t \in Tabs : tab[t] = Away /\ tab[t].view = "away" /\ stored[t] = None
  BY DEF Init, Away
<1>4. PagesOK /\ OpenStored /\ EditorHoldsLock
  BY <1>3 DEF PagesOK, OpenStored, EditorHoldsLock, Editing
<1>5. AskersOK /\ ServedAlone /\ GrantsHold /\ GivenOK
  BY DEF Init, AskersOK, ServedAlone, GrantsHold, GivenOK
<1>6. StampsOK
  BY <1>3 DEF Init, StampsOK, Past, Away
<1> QED
  BY <1>2, <1>4, <1>5, <1>6 DEF Locked

LEMMA LockedStep ==
    ASSUME Locked, OneRequest, [Next]_lockVars
    PROVE  Locked'
<1>1. ASSUME NEW t \in Tabs, NEW a \in Activities,
             Load(t, a) \/ LoadPlain(t, a) \/ Click(t) \/ Leave(t) \/ Unlock(t) \/ Answered(t)
      PROVE  Locked'
  <2>1. /\ stored[t] \in Held /\ tab[t].held \in Held /\ tab[t].offer \in Held
        /\ Past(tab[t].held) /\ Past(tab[t].offer)
        /\ tab[t] # Away => tab[t].page \in Activities
    BY FieldsTyped DEF Locked, StampsOK, PagesOK
  <2>2. CASE LoadPlain(t, a)
    BY <2>1, <2>2, LoadPlainKeeps DEF LoadPlain, Held
  <2>3. CASE Leave(t)
    BY <2>1, <2>3, DepartKeeps DEF Leave, Away
  <2>4. CASE Unlock(t)
    <3>1. tab[t] # Away /\ {tab[t].offer, tab[t].held} \in SUBSET Held
      BY <2>1, <2>4 DEF Unlock, Away
    <3> QED
      BY <2>1, <2>4, <3>1, DepartKeeps DEF Unlock
  <2> QED
    BY <1>1, <2>2, <2>3, <2>4, LoadKeeps, ClickKeeps, AnsweredKeeps
<1>2. ASSUME NEW t \in Tabs, Click(t) \/ Leave(t) \/ Unlock(t) \/ Answered(t)
      PROVE  Locked'
  <2>1. \E a : a \in Activities
    <3>1. tab[t] # Away
      BY <1>2, FieldsTyped DEF Click, Leave, Unlock, Answered, Away, Locked, AskersOK
    <3> QED
      BY <3>1 DEF Locked, PagesOK
  <2> QED
    BY <1>1, <1>2, <2>1
<1>3. ASSUME NEW r \in requests,
             Read(r) \/ CreateLock(r) \/ RefreshLock(r) \/ RefuseLock(r) \/ ServeUnlock(r)
      PROVE  Locked'
  <2>1. NewValue(r) \in Values
    BY NewValueTyped DEF Locked
  <2> QED
    BY <1>3, <2>1, ReadKeeps, CreateKeeps, AnswersKeep, UnlockKeeps
<1>4. CASE UNCHANGED lockVars
  BY <1>4 DEF lockVars, Locked, PageLockTypeOK, PagesOK, AskersOK, ServedAlone, Serving,
              GrantsHold, OpenStored, EditorHoldsLock, Editing, GivenOK, Unlocking,
              StampsOK, Past, Ended, IsAnswer
<1> QED
  BY <1>1, <1>2, <1>3, <1>4, TimeoutKeeps DEF Next

\* While the server answers the requests about an activity one at a time: the
\* types of the cache, the tabs and the requests under way.
THEOREM TypeCorrect == ASSUME OneRequest PROVE Spec => []PageLockTypeOK
<1>1. Spec => []Locked
  BY LockedInit, LockedStep, PTL DEF Spec
<1> QED
  BY <1>1, PTL DEF Locked

\* lock_activity and unlock_activity, the requests about one activity answered
\* one at a time: an open page holds the lock of its activity, unless that has
\* been given back, timed out or the registrant went past it.
THEOREM HoldsLock == ASSUME OneRequest PROVE Spec => []EditorHoldsLock
<1>1. Spec => []Locked
  BY LockedInit, LockedStep, PTL DEF Spec
<1> QED
  BY <1>1, PTL DEF Locked

\* beforeunload against a late request for the lock, the requests about one
\* activity answered one at a time: what a tab has given back does not stay in
\* the cache without a request to unlock it.
THEOREM LeftUnlocked == ASSUME OneRequest PROVE Spec => []LeftIsUnlocked
<1>1. Spec => []Locked
  BY LockedInit, LockedStep, PTL DEF Spec
<1>2. Locked => LeftIsUnlocked
  BY DEF Locked, GivenOK, Unlocking, LeftIsUnlocked
<1> QED
  BY <1>1, <1>2, PTL
=============================================================================
