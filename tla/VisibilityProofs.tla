-------------------------- MODULE VisibilityProofs --------------------------
(***************************************************************************)
(* With auto-fail on and writes that succeed, every lock has a timer: for  *)
(* every number of clients, messages and deliveries and every timeout.     *)
(*                                                                         *)
(* LockIsTimed is not inductive.  When a timer fires and finds its message *)
(* in nobody's lock list it leaves the queue alone, and only               *)
(* HolderCanRelease tells that the message is then not locked by its       *)
(* client; when it finds it, only StoredInOrder tells that unlock does not *)
(* give up on an empty order.  So the invariant contains that of           *)
(* BrokerProofs.                                                           *)
(***************************************************************************)
EXTENDS Visibility, BrokerProofs

\* What every method of the queue except lock_to_read and update_config does:
\* it locks nothing, and leaves the configuration alone.
LocksNothing(x, y) ==
    /\ y.auto_fail = x.auto_fail /\ y.fail_timeout = x.fail_timeout
    /\ \A id \in DOMAIN y.queue :
         y.queue[id].locked_by # None =>
             id \in DOMAIN x.queue /\ x.queue[id].locked_by = y.queue[id].locked_by

\* Methods that lock nothing, one after the other, lock nothing.
LEMMA LocksNothingTransitive ==
    ASSUME NEW x, NEW y, NEW z, LocksNothing(x, y), LocksNothing(y, z)
    PROVE  LocksNothing(x, z)
  BY DEF LocksNothing

\* A method that leaves the queue alone.
LEMMA LocksNothingReflexive == \A x : LocksNothing(x, x)
  BY DEF LocksNothing

\* A new message is not locked, even when it overwrites a locked one.
LEMMA EnqueueLocksNothing ==
    ASSUME NEW x, Good(x), NEW payload
    PROVE  LocksNothing(x, enqueue(x, payload))
<1> DEFINE id == new_id(x.order)
           m == [payload |-> payload, locked_by |-> None]
           queue == Insert(x.queue, id, m)
           y == enqueue(x, payload)
<1>1. y.queue = queue /\ y.auto_fail = x.auto_fail /\ y.fail_timeout = x.fail_timeout
  BY DEF enqueue, Good, IsQueue
<1>2. /\ DOMAIN queue = DOMAIN x.queue \cup {id} /\ queue[id].locked_by = None
      /\ \A i \in DOMAIN x.queue \ {id} : queue[i] = x.queue[i]
  <2> HIDE DEF id
  <2> QED BY DEF Insert
<1> HIDE DEF id, queue, y
<1>3. LocksNothing(x, y)
  BY <1>1, <1>2 DEF LocksNothing
<1> QED BY <1>3 DEF y

\* Removing a message locks none.
LEMMA DequeueLocksNothing ==
    ASSUME NEW x, Good(x), NEW c, NEW id
    PROVE  LocksNothing(x, dequeue(x, c, id).q)
<1>1. ASSUME NEW i, NEW y, y.queue = Remove(x.queue, i),
             y.auto_fail = x.auto_fail, y.fail_timeout = x.fail_timeout
      PROVE  LocksNothing(x, y)
  <2>1. DOMAIN y.queue \subseteq DOMAIN x.queue /\ \A j \in DOMAIN y.queue : y.queue[j] = x.queue[j]
    BY <1>1 DEF Remove, Restrict
  <2> QED BY <1>1, <2>1 DEF LocksNothing
<1>2. LocksNothing(x, dequeue_id(x, c, id))
  <2> DEFINE y == dequeue_id(x, c, id)
  <2>1. /\ y.queue = Remove(x.queue, id)
        /\ y.auto_fail = x.auto_fail /\ y.fail_timeout = x.fail_timeout
    BY DEF dequeue_id, Good, IsQueue
  <2> HIDE DEF y
  <2>2. LocksNothing(x, y)
    BY <1>1, <2>1
  <2> QED BY <2>2 DEF y
<1>3. LocksNothing(x, dequeue_held(x, c))
  <2> DEFINE y == dequeue_held(x, c)
  <2>1. /\ y.queue = Remove(x.queue, Head(x.locked[c]))
        /\ y.auto_fail = x.auto_fail /\ y.fail_timeout = x.fail_timeout
    BY DEF dequeue_held, Good, IsQueue
  <2> HIDE DEF y
  <2>2. LocksNothing(x, y)
    BY <1>1, <2>1
  <2> QED BY <2>2 DEF y
<1> QED
  BY <1>2, <1>3, LocksNothingReflexive DEF dequeue, Result

\* unlock_id locks nothing, and unlocks the message it names.
LEMMA UnlockIdUnlocks ==
    ASSUME NEW x, Good(x), NEW c, NEW id
    PROVE  /\ LocksNothing(x, unlock_id(x, c, id))
           /\ id \in DOMAIN unlock_id(x, c, id).queue =>
                unlock_id(x, c, id).queue[id].locked_by = None
<1> DEFINE m == [x.queue[id] EXCEPT !.locked_by = None]
           queue == IF id \in DOMAIN x.queue THEN [x.queue EXCEPT ![id] = m] ELSE x.queue
           y == unlock_id(x, c, id)
<1>1. y.queue = queue /\ y.auto_fail = x.auto_fail /\ y.fail_timeout = x.fail_timeout
  BY DEF unlock_id, Good, IsQueue
<1>2. id \in DOMAIN x.queue => m.locked_by = None
  BY DEF Good, IsQueue, MessageSet
<1>3. /\ DOMAIN queue = DOMAIN x.queue
      /\ id \in DOMAIN queue => queue[id].locked_by = None
      /\ \A i \in DOMAIN queue \ {id} : queue[i] = x.queue[i]
  <2> HIDE DEF m
  <2> QED BY <1>2 DEF Good, IsQueue
<1> HIDE DEF queue, y
<1>4. LocksNothing(x, y) /\ (id \in DOMAIN y.queue => y.queue[id].locked_by = None)
  BY <1>1, <1>3 DEF LocksNothing
<1> QED BY <1>4 DEF y

\* unlock
LEMMA UnlockLocksNothing ==
    ASSUME NEW x, Good(x), NEW c, NEW id
    PROVE  LocksNothing(x, unlock(x, c, id).q)
  BY UnlockIdUnlocks, LocksNothingReflexive DEF unlock, Result

\* requeue
LEMMA RequeueLocksNothing ==
    ASSUME NEW x, Good(x), NEW c \in Clients, NEW id
    PROVE  LocksNothing(x, requeue(x, c, id).q)
<1>1. CASE x.order = << >> \/ id \notin DOMAIN x.queue
  BY <1>1, LocksNothingReflexive DEF requeue, Result
<1>2. CASE ~(x.order = << >> \/ id \notin DOMAIN x.queue)
  <2> DEFINE y == enqueue(x, x.queue[id].payload)
  <2>1. x.queue[id].payload \in Payloads
    BY <1>2 DEF Good, IsQueue, MessageSet
  <2>2. Good(y) /\ LocksNothing(x, y)
    BY <2>1, EnqueueGood, EnqueueLocksNothing
  <2>3. requeue(x, c, id) = dequeue(y, c, id)
    BY <1>2 DEF requeue
  <2> HIDE DEF y
  <2> QED BY <2>2, <2>3, DequeueLocksNothing, LocksNothingTransitive
<1> QED BY <1>1, <1>2

\* update_message
LEMMA UpdateMessageLocksNothing ==
    ASSUME NEW x, Good(x), NEW id, NEW payload
    PROVE  LocksNothing(x, update_message(x, id, payload).q)
<1>1. CASE x.order = << >> \/ id \notin DOMAIN x.queue
  BY <1>1, LocksNothingReflexive DEF update_message, Result
<1>2. CASE ~(x.order = << >> \/ id \notin DOMAIN x.queue)
  <2> DEFINE m == [x.queue[id] EXCEPT !.payload = payload]
             queue == [x.queue EXCEPT ![id] = m]
             y == [x EXCEPT !.queue = queue]
  <2>1. update_message(x, id, payload).q = y
    BY <1>2 DEF update_message, Result
  <2>2. m.locked_by = x.queue[id].locked_by
    BY <1>2 DEF Good, IsQueue, MessageSet
  <2>3. y.queue = queue /\ y.auto_fail = x.auto_fail /\ y.fail_timeout = x.fail_timeout
    BY DEF Good, IsQueue
  <2>4. DOMAIN queue = DOMAIN x.queue /\ \A i \in DOMAIN queue : queue[i].locked_by = x.queue[i].locked_by
    <3> HIDE DEF m
    <3> QED BY <1>2, <2>2 DEF Good, IsQueue
  <2> HIDE DEF queue, y
  <2> QED BY <2>1, <2>3, <2>4 DEF LocksNothing
<1> QED BY <1>1, <1>2

\* find_biggest_payloads
LEMMA FindBiggestLocksNothing ==
    ASSUME NEW x, Good(x)
    PROVE  LocksNothing(x, find_biggest_payloads(x))
<1> DEFINE y == find_biggest_payloads(x)
<1>1. y.queue = x.queue /\ y.auto_fail = x.auto_fail /\ y.fail_timeout = x.fail_timeout
  BY DEF find_biggest_payloads, Good, IsQueue
<1> HIDE DEF y
<1>2. LocksNothing(x, y)
  BY <1>1 DEF LocksNothing
<1> QED BY <1>2 DEF y

\* lock_to_read locks the message under the cursor for c, and nothing else.
LEMMA LockToReadLocksNext ==
    ASSUME NEW x, Good(x), NEW c \in Clients, lock_to_read(x, c).ret = "Ok"
    PROVE  LET y == lock_to_read(x, c).q
           IN  /\ y.auto_fail = x.auto_fail /\ y.fail_timeout = x.fail_timeout
               /\ DOMAIN y.queue = DOMAIN x.queue
               /\ x.next_id \in DOMAIN x.queue /\ y.queue[x.next_id].locked_by = c
               /\ \A id \in DOMAIN y.queue \ {x.next_id} : y.queue[id] = x.queue[id]
<1> DEFINE id == x.next_id
           m == [x.queue[id] EXCEPT !.locked_by = c]
           queue == [x.queue EXCEPT ![id] = m]
           y == lock_next(x, c)
<1>1. lock_to_read(x, c).q = y /\ id \in DOMAIN x.queue
  BY DEF lock_to_read, Result
<1>2. y.queue = queue /\ y.auto_fail = x.auto_fail /\ y.fail_timeout = x.fail_timeout
  BY DEF lock_next, Good, IsQueue
<1>3. m.locked_by = c
  BY <1>1 DEF Good, IsQueue, MessageSet
<1>4. DOMAIN queue = DOMAIN x.queue /\ queue[id] = m /\ \A i \in DOMAIN queue \ {id} : queue[i] = x.queue[i]
  <2> HIDE DEF m
  <2> QED BY <1>1 DEF Good, IsQueue
<1> HIDE DEF m, queue, y
<1> QED BY <1>1, <1>2, <1>3, <1>4

-----------------------------------------------------------------------------
(***************************************************************************)
(* The actions.                                                            *)
(***************************************************************************)

\* The queue is configured to fail messages by itself.
AutoFails(x) == x.auto_fail = TRUE /\ x.fail_timeout # 0

\* The inductive invariant.
TimedInv == IInv /\ AutoFails(q) /\ LockIsTimed

\* A step that locks nothing and ends no delivery leaves every lock timed.
LEMMA TimersStay ==
    ASSUME TimedInv, LocksNothing(q, q'),
           \A d \in Deliveries : /\ delivery'[d].client = delivery[d].client
                                 /\ delivery'[d].mid = delivery[d].mid
    PROVE  AutoFails(q') /\ LockIsTimed'
<1>1. AutoFails(q')
  BY DEF TimedInv, AutoFails, LocksNothing
<1>2. ASSUME NEW id \in DOMAIN q'.queue, q'.queue[id].locked_by # None
      PROVE  \E d \in Deliveries : delivery'[d].client = q'.queue[id].locked_by /\ delivery'[d].mid = id
  <2>1. id \in DOMAIN q.queue /\ q.queue[id].locked_by = q'.queue[id].locked_by
    BY <1>2 DEF LocksNothing
  <2> QED BY <1>2, <2>1 DEF TimedInv, LockIsTimed
<1> QED BY <1>1, <1>2 DEF LockIsTimed

\* A step that leaves the deliveries alone and locks nothing.
LEMMA QueueStepTimed ==
    ASSUME TimedInv, LocksNothing(q, q'), UNCHANGED delivery
    PROVE  AutoFails(q') /\ LockIsTimed'
  BY TimersStay

\* A Dequeue starts the delivery that times the lock it takes, in a slot no
\* other lock depends on.
LEMMA DequeueTimed ==
    ASSUME TimedInv, NEW d \in Deliveries, NEW c \in Clients, Dequeue(d, c)
    PROVE  AutoFails(q') /\ LockIsTimed'
<1> DEFINE result == lock_to_read(q, c)
<1>1. Good(q) /\ delivery \in [Deliveries -> Tasks] /\ delivery[d] = Idle
  BY DEF TimedInv, IInv, TypeOK, Tasks, Dequeue
<1>2. CASE result.ret # "Ok"
  <2>1. result.q = q
    BY <1>2 DEF lock_to_read, Result
  <2>2. q' = q /\ delivery' = delivery
    BY <1>2, <2>1 DEF Dequeue
  <2> QED BY <2>2, QueueStepTimed, LocksNothingReflexive
<1>3. CASE result.ret = "Ok"
  <2> DEFINE new == [stage |-> "write", client |-> c, mid |-> q.next_id]
  <2>1. q' = result.q /\ delivery' = [delivery EXCEPT ![d] = new]
    BY <1>3 DEF Dequeue
  <2>2. /\ q'.auto_fail = q.auto_fail /\ q'.fail_timeout = q.fail_timeout
        /\ DOMAIN q'.queue = DOMAIN q.queue
        /\ q.next_id \in DOMAIN q.queue /\ q'.queue[q.next_id].locked_by = c
        /\ \A id \in DOMAIN q'.queue \ {q.next_id} : q'.queue[id] = q.queue[id]
    BY <1>1, <1>3, <2>1, LockToReadLocksNext
  <2>3. /\ delivery'[d].client = c /\ delivery'[d].mid = q.next_id
        /\ \A e \in Deliveries \ {d} : delivery'[e] = delivery[e]
    BY <1>1, <2>1
  <2> HIDE DEF result, new
  <2>4. AutoFails(q')
    BY <2>2 DEF TimedInv, AutoFails
  <2>5. ASSUME NEW id \in DOMAIN q'.queue, q'.queue[id].locked_by # None
        PROVE  \E e \in Deliveries : delivery'[e].client = q'.queue[id].locked_by /\ delivery'[e].mid = id
    <3>1. CASE id = q.next_id
      BY <2>2, <2>3, <3>1
    <3>2. CASE id # q.next_id
      <4>1. q'.queue[id] = q.queue[id] /\ id \in DOMAIN q.queue
        BY <2>2, <3>2
      <4>2. PICK e \in Deliveries : delivery[e].client = q.queue[id].locked_by /\ delivery[e].mid = id
        BY <2>5, <4>1 DEF TimedInv, LockIsTimed
      <4>3. e # d
        BY <1>1, <2>5, <4>1, <4>2 DEF Idle
      <4> QED BY <2>3, <4>1, <4>2, <4>3
    <3> QED BY <3>1, <3>2
  <2> QED BY <2>4, <2>5 DEF LockIsTimed
<1> QED BY <1>2, <1>3

\* Writing the message and going to sleep keep the delivery: the queue says
\* so, and does not change its mind.
LEMMA DeliveryTimed ==
    ASSUME TimedInv, NEW d \in Deliveries, Deliver(d) \/ ReadConfig(d)
    PROVE  AutoFails(q') /\ LockIsTimed'
<1>1. delivery \in [Deliveries -> Tasks] /\ q' = q
  BY DEF TimedInv, IInv, TypeOK, Tasks, Deliver, ReadConfig
<1>2. PICK s \in {"config", "sleep"} :
        delivery[d].stage \in {"write", "config"} /\ delivery' = [delivery EXCEPT ![d].stage = s]
  BY DEF TimedInv, AutoFails, Deliver, ReadConfig
<1>3. delivery[d] \in [stage : {"write", "config", "sleep"}, client : Clients, mid : Ids]
  BY <1>1, <1>2 DEF Tasks, Idle
<1>4. \A e \in Deliveries : /\ delivery'[e].client = delivery[e].client
                            /\ delivery'[e].mid = delivery[e].mid
  BY <1>1, <1>2, <1>3
<1> QED BY <1>1, <1>4, TimersStay, LocksNothingReflexive

\* The timer ends with its message unlocked, or locked by another client
\* whose own timer is running.
LEMMA AutoFailTimed ==
    ASSUME TimedInv, NEW d \in Deliveries, AutoFail(d)
    PROVE  AutoFails(q') /\ LockIsTimed'
<1> DEFINE c == delivery[d].client
           mid == delivery[d].mid
<1>1. Good(q) /\ delivery \in [Deliveries -> Tasks]
  BY DEF TimedInv, IInv, TypeOK, Tasks
<1>2. /\ q' = IF is_locked(q, c, mid) THEN unlock(q, c, mid).q ELSE q
      /\ \A e \in Deliveries \ {d} : delivery'[e] = delivery[e]
  BY <1>1 DEF AutoFail
<1>3. c \in Clients /\ mid \in Ids
  BY <1>1 DEF AutoFail, Tasks, Idle
<1> HIDE DEF c, mid
<1>4. LocksNothing(q, q')
  BY <1>1, <1>2, UnlockLocksNothing, LocksNothingReflexive
<1>5. mid \in DOMAIN q'.queue => q'.queue[mid].locked_by # c
  <2>1. CASE ~is_locked(q, c, mid)
    <3>1. q' = q
      BY <1>2, <2>1
    <3>2. c # None
      BY <1>3, QueueAssumption
    <3> QED BY <1>1, <2>1, <3>1, <3>2 DEF Good, Releasable, is_locked
  <2>2. CASE is_locked(q, c, mid) /\ q.order = << >>
    <3>1. DOMAIN q.queue = {}
      <4>1. Range(q.order) = {}
        BY <2>2 DEF Range
      <4> QED BY <1>1, <4>1 DEF Good
    <3>2. q' = q
      BY <1>2, <2>2 DEF unlock, Result
    <3> QED BY <3>1, <3>2
  <2>3. CASE is_locked(q, c, mid) /\ q.order # << >>
    <3>1. mid # None /\ c # None
      BY <1>3, QueueAssumption DEF Ids
    <3>2. c \in DOMAIN q.locked
      BY <2>3 DEF is_locked, Held, Range
    <3>3. q' = unlock_id(q, c, mid)
      BY <1>2, <2>3, <3>1, <3>2 DEF unlock, Result
    <3> QED BY <1>1, <3>1, <3>3, UnlockIdUnlocks
  <2> QED BY <2>1, <2>2, <2>3
<1>6. AutoFails(q')
  BY <1>4 DEF TimedInv, AutoFails, LocksNothing
<1>7. ASSUME NEW id \in DOMAIN q'.queue, q'.queue[id].locked_by # None
      PROVE  \E e \in Deliveries : delivery'[e].client = q'.queue[id].locked_by /\ delivery'[e].mid = id
  <2>1. id \in DOMAIN q.queue /\ q.queue[id].locked_by = q'.queue[id].locked_by
    BY <1>4, <1>7 DEF LocksNothing
  <2>2. PICK e \in Deliveries : delivery[e].client = q.queue[id].locked_by /\ delivery[e].mid = id
    BY <1>7, <2>1 DEF TimedInv, LockIsTimed
  <2>3. e # d
    BY <1>5, <1>7, <2>1, <2>2 DEF c, mid
  <2> QED BY <1>2, <2>1, <2>2, <2>3
<1> QED BY <1>6, <1>7 DEF LockIsTimed

\* Every other request locks nothing and leaves the deliveries alone.
LEMMA SettleTimed ==
    ASSUME TimedInv, NEW c \in Clients,
           \/ \E p \in Payloads : Enqueue(c, p)
           \/ \E id \in RequestIds \cup {None} : DeleteM(c, id) \/ Requeue(c, id)
           \/ \E id \in RequestIds \cup {None}, p \in Payloads : UpdateM(c, id, p)
           \/ Succeeded(c)
           \/ Failed(c)
    PROVE  AutoFails(q') /\ LockIsTimed'
<1>1. Good(q)
  BY DEF TimedInv, IInv
<1>2. ASSUME NEW p \in Payloads, Enqueue(c, p)
      PROVE  LocksNothing(q, q') /\ UNCHANGED delivery
  BY <1>1, <1>2, EnqueueLocksNothing DEF Enqueue
<1>3. ASSUME NEW id, DeleteM(c, id)
      PROVE  LocksNothing(q, q') /\ UNCHANGED delivery
  BY <1>1, <1>3, DequeueLocksNothing, LocksNothingReflexive DEF DeleteM
<1>4. ASSUME NEW id, Requeue(c, id)
      PROVE  LocksNothing(q, q') /\ UNCHANGED delivery
  BY <1>1, <1>4, RequeueLocksNothing, LocksNothingReflexive DEF Requeue
<1>5. ASSUME NEW id, NEW p, UpdateM(c, id, p)
      PROVE  LocksNothing(q, q') /\ UNCHANGED delivery
  BY <1>1, <1>5, UpdateMessageLocksNothing, LocksNothingReflexive DEF UpdateM
<1>6. ASSUME Failed(c)
      PROVE  LocksNothing(q, q') /\ UNCHANGED delivery
  BY <1>1, <1>6, UnlockLocksNothing DEF Failed
<1>7. ASSUME Succeeded(c)
      PROVE  LocksNothing(q, q') /\ UNCHANGED delivery
  <2> DEFINE y == dequeue(q, c, None).q
  <2>1. Good(y) /\ LocksNothing(q, y)
    BY <1>1, DequeueGood, DequeueLocksNothing
  <2>2. (q' = y \/ q' = find_biggest_payloads(y)) /\ UNCHANGED delivery
    BY <1>7 DEF Succeeded
  <2> HIDE DEF y
  <2> QED BY <2>1, <2>2, FindBiggestLocksNothing, LocksNothingTransitive
<1> QED BY <1>2, <1>3, <1>4, <1>5, <1>6, <1>7, QueueStepTimed

-----------------------------------------------------------------------------
(***************************************************************************)
(* The theorem.                                                            *)
(***************************************************************************)

\* Nothing is locked at first.
LEMMA InitTimedInv == TimedInit => TimedInv
<1> SUFFICES ASSUME TimedInit PROVE TimedInv
  OBVIOUS
<1>1. PICK timeout \in Timeouts \ {0}, c \in Clients :
        /\ q = update_config(QueueNew, TRUE, timeout)
        /\ delivery = [d \in Deliveries |-> Idle]
        /\ locked_size = 0
        /\ reply = [cmd |-> "UpdateQ", client |-> c, id |-> None, code |-> "Succeeded"]
  BY DEF TimedInit
<1> DEFINE x == QueueNew
           a == TRUE
           y == [x EXCEPT !.auto_fail = a, !.fail_timeout = timeout]
<1>2. None # a /\ None # timeout
  <2>1. None # a
    BY QueueAssumption, Zenon
  <2> QED BY <1>1, <2>1, QueueAssumption
<1>3. IsQueue(x) /\ Good(x) /\ DOMAIN x.queue = {}
  <2>1. IsQueue(x) /\ DOMAIN x.queue = {}
    BY QueueAssumption DEF IsQueue, QueueNew
  <2> QED BY <2>1 DEF Good, Releasable
<1>4. q = update_config(x, a, timeout) /\ a \in BOOLEAN
  BY <1>1
<1> HIDE DEF x, a
<1>5. q = y
  BY <1>2, <1>4 DEF update_config
<1>6. Good(q)
  BY <1>3, <1>4, UpdateConfigGood
<1>7. q.auto_fail = a /\ q.fail_timeout = timeout /\ q.queue = x.queue
  BY <1>3, <1>5 DEF IsQueue
<1>8. TypeOK
  <2>1. IsQueue(q) /\ locked_size \in Nat
    BY <1>1, <1>6 DEF Good
  <2>2. delivery \in [Deliveries -> Tasks]
    BY <1>1 DEF Tasks
  <2>3. reply \in [cmd : Requests \cup {None}, client : Clients \cup {None},
                   id : RequestIds \cup {None}, code : Codes \cup {None}]
    BY <1>1 DEF Requests, Codes
  <2> QED BY <2>1, <2>2, <2>3 DEF TypeOK, Tasks
<1>9. AutoFails(q)
  BY <1>1, <1>7 DEF AutoFails, a
<1>10. LockIsTimed
  BY <1>3, <1>7 DEF LockIsTimed
<1> QED BY <1>6, <1>8, <1>9, <1>10 DEF TimedInv, IInv

\* The inductive step: no request reconfigures the queue, and no write fails.
LEMMA NextTimedInv ==
    ASSUME "UpdateQ" \notin Commands, WritesFail = FALSE, TimedInv, [Next]_vars
    PROVE  TimedInv'
<1>1. IInv'
  BY NextIInv DEF TimedInv
<1>2. ASSUME NEW c \in Clients, Request(c)
      PROVE  AutoFails(q') /\ LockIsTimed'
  BY <1>2, DequeueTimed, SettleTimed DEF Request
<1>3. ASSUME NEW d \in Deliveries, Progress(d) \/ DeliveryFails(d)
      PROVE  AutoFails(q') /\ LockIsTimed'
  <2>1. ~DeliveryFails(d)
    BY DEF DeliveryFails
  <2> QED BY <1>3, <2>1, DeliveryTimed, AutoFailTimed DEF Progress
<1>4. ASSUME UNCHANGED vars
      PROVE  AutoFails(q') /\ LockIsTimed'
  BY <1>4, QueueStepTimed, LocksNothingReflexive DEF vars
<1>5. AutoFails(q') /\ LockIsTimed'
  BY <1>2, <1>3, <1>4 DEF Next
<1> QED BY <1>1, <1>5 DEF TimedInv, AutoFails

\* While a queue fails messages by itself and writes succeed, no lock is ever
\* left without a Dequeue handler that will release it, for any number of
\* clients, messages, reused ids and concurrent deliveries.
THEOREM EveryLockIsTimed ==
    ASSUME "UpdateQ" \notin Commands, WritesFail = FALSE
    PROVE  TimedSpec => []LockIsTimed
<1>1. TimedInv /\ [Next]_vars => TimedInv'
  BY NextTimedInv
<1>2. TimedInv => LockIsTimed
  BY DEF TimedInv
<1> QED BY <1>1, <1>2, InitTimedInv, PTL DEF TimedSpec
=============================================================================
