------------------------------- MODULE Broker -------------------------------
(***************************************************************************)
(* The request handlers of the server that work on one queue (read_buffer, *)
(* lock_and_dequeue_message, dequeue_message_sent of src/src/net/server.rs)*)
(* over the queue of module Queue.                                         *)
(*                                                                         *)
(* Every request runs in a task of its own and holds the queue's mutex     *)
(* while it works on the queue, so a handler is one step.  Dequeue is the  *)
(* exception: it gives the mutex up before it writes the message to the    *)
(* client, takes it again to read the configuration, gives it up while it  *)
(* sleeps for fail_timeout and takes it a third time to release the        *)
(* message.  Each of these is a step of a delivery, and the handlers of    *)
(* all other requests run in between.                                      *)
(*                                                                         *)
(* Handlers run in any order: tasks of one connection are not ordered, and *)
(* a client id may be used on several connections.                         *)
(***************************************************************************)
EXTENDS Queue

CONSTANTS
    Commands,     \* the requests clients send
    Deliveries,   \* slots for Dequeue handlers in progress (a bound)
    WritesFail,   \* whether writing a response may fail (a broken connection)
    Capacity,     \* size of the arena (GLOBAL.allocated)
    MaxOrder,     \* bound: no request adds to a longer order vector
    MaxHeld       \* bound: no Dequeue by a client with a longer lock list

ASSUME BrokerAssumption ==
    /\ WritesFail \in BOOLEAN
    /\ Capacity \in Nat /\ MaxOrder \in Nat /\ MaxHeld \in Nat

VARIABLES
    q,            \* the queue
    delivery,     \* what each Dequeue handler is doing
    locked_size,  \* LOCKED_SIZE, the arena's tail reservation
    reply         \* the last response: which request of whom, and its code

vars == <<q, delivery, locked_size, reply>>

\* 0 stands for any id that is never assigned.
RequestIds == 0..IdMax

Idle == [stage |-> "idle", client |-> None, mid |-> None]

Codes == {"Succeeded", "ResponseFailedError", "QueueIsEmpty", "PayloadMissingMessageId",
          "NoSuchMessageId", "MessageAlreadyLocked", "NoSuchMessageIdLocked",
          "MessageNotLockedByClient", "MessageNotInQueue", "InvalidConfigPayloadSize",
          "ConfigBytesEmpty", "NoResponse"}

Requests == {"Enqueue", "Dequeue", "DeleteM", "Succeeded", "Failed", "Requeue",
             "UpdateM", "UpdateQ"}

Respond(cmd, c, id, code) == reply' = [cmd |-> cmd, client |-> c, id |-> id, code |-> code]

\* The code a handler sends: `failure` for an error, nothing when it panicked.
CodeOf(ret, failure) ==
    CASE ret = "Ok" -> "Succeeded" [] ret = "Err" -> failure [] ret = "Panic" -> "NoResponse"

Init ==
    /\ q = QueueNew
    /\ delivery = [d \in Deliveries |-> Idle]
    /\ locked_size = 0
    /\ reply = [cmd |-> None, client |-> None, id |-> None, code |-> None]

-----------------------------------------------------------------------------
(***************************************************************************)
(* The tail reservation.  `used` belongs to the allocator and changes all  *)
(* the time: any value.  The check and the store of set_locked_size are    *)
(* two steps in the code and in module Arena; here they are one, since a   *)
(* queue never reads the reservation.                                      *)
(***************************************************************************)

\* (size as f64 * SIZE_FACTOR) as usize, SIZE_FACTOR = 2.25
Scaled(size) == (9 * size) \div 4

set_locked_size(size) ==
    \E used \in 0..Capacity :
        locked_size' = IF used + size > Capacity THEN locked_size ELSE size

\* Enqueue raises the reservation to fit the new message.
RaiseReservation(size) ==
    IF Scaled(size) > locked_size THEN set_locked_size(Scaled(size))
                                  ELSE UNCHANGED locked_size

-----------------------------------------------------------------------------
(***************************************************************************)
(* The handlers.                                                           *)
(***************************************************************************)

Enqueue(c, payload) ==
    /\ Len(q.order) < MaxOrder
    /\ q' = enqueue(q, payload)
    /\ RaiseReservation(PayloadLen[payload])
    /\ Respond("Enqueue", c, None, "Succeeded")
    /\ UNCHANGED delivery

\* lock_and_dequeue_message up to the first release of the mutex.
Dequeue(d, c) ==
    /\ delivery[d] = Idle
    /\ Len(Held(q, c)) < MaxHeld
    /\ LET result == lock_to_read(q, c)
       IN  /\ q' = result.q
           /\ IF result.ret = "Ok"
                THEN /\ delivery' = [delivery EXCEPT ![d] =
                                       [stage |-> "write", client |-> c, mid |-> q.next_id]]
                     /\ UNCHANGED reply
                ELSE /\ Respond("Dequeue", c, None, result.ret)
                     /\ UNCHANGED delivery
    /\ UNCHANGED locked_size

\* write_all of the message, without the mutex.
Deliver(d) ==
    /\ delivery[d].stage = "write"
    /\ delivery' = [delivery EXCEPT ![d].stage = "config"]
    /\ Respond("Dequeue", delivery[d].client, delivery[d].mid, "Succeeded")
    /\ UNCHANGED <<q, locked_size>>

\* write_all fails: the handler ends, the message stays locked.
DeliveryFails(d) ==
    /\ WritesFail
    /\ delivery[d].stage = "write"
    /\ delivery' = [delivery EXCEPT ![d] = Idle]
    /\ Respond("Dequeue", delivery[d].client, delivery[d].mid, "ResponseFailedError")
    /\ UNCHANGED <<q, locked_size>>

\* Bug variant: one millisecond counts as no timeout.
ReadConfig_over_one(d) ==
    /\ delivery[d].stage = "config"
    /\ delivery' = [delivery EXCEPT ![d] =
                      IF q.auto_fail /\ q.fail_timeout > 1
                        THEN [@ EXCEPT !.stage = "sleep"] ELSE Idle]
    /\ UNCHANGED <<q, locked_size, reply>>

\* The handler sleeps if the queue fails unacknowledged messages by itself.
ReadConfig(d) ==
    /\ delivery[d].stage = "config"
    /\ delivery' = [delivery EXCEPT ![d] =
                      IF q.auto_fail /\ q.fail_timeout # 0
                        THEN [@ EXCEPT !.stage = "sleep"] ELSE Idle]
    /\ UNCHANGED <<q, locked_size, reply>>

\* Bug variant: the timer goes round until the client settles the message.
AutoFail_waits(d) ==
    /\ delivery[d].stage = "sleep" /\ ~is_locked(q, delivery[d].client, delivery[d].mid)
    /\ delivery' = [delivery EXCEPT ![d] = Idle]
    /\ UNCHANGED <<q, locked_size, reply>>

\* fail_timeout has passed: release the message unless it is settled.
AutoFail(d) ==
    /\ delivery[d].stage = "sleep"
    /\ q' = IF is_locked(q, delivery[d].client, delivery[d].mid)
              THEN unlock(q, delivery[d].client, delivery[d].mid).q
              ELSE q
    /\ delivery' = [delivery EXCEPT ![d] = Idle]
    /\ UNCHANGED <<locked_size, reply>>

\* id = None: the payload is too short to hold an id.
DeleteM(c, id) ==
    /\ IF id = None
         THEN UNCHANGED q /\ Respond("DeleteM", c, id, "PayloadMissingMessageId")
         ELSE LET result == dequeue(q, c, id)
              IN  /\ q' = result.q
                  /\ Respond("DeleteM", c, id, CodeOf(result.ret, "NoSuchMessageId"))
    /\ UNCHANGED <<delivery, locked_size>>

\* dequeue_message_sent: acknowledges the oldest lock of c.  Removing a
\* message as large as the reservation shrinks it to the largest payload
\* known before this rescan.
Succeeded(c) ==
    LET result == dequeue(q, c, None)
        target == dequeue_target(q, c, None)
        shrink == result.ret = "Ok" /\ Scaled(PayloadLen[q.queue[target].payload]) >= locked_size
    IN  /\ q' = IF shrink THEN find_biggest_payloads(result.q) ELSE result.q
        /\ IF shrink THEN set_locked_size(q.biggest) ELSE UNCHANGED locked_size
        /\ Respond("Succeeded", c, target, CodeOf(result.ret, "NoSuchMessageIdLocked"))
        /\ UNCHANGED delivery

\* Releases the oldest lock of c.
Failed(c) ==
    LET result == unlock(q, c, None)
    IN  /\ q' = result.q
        /\ Respond("Failed", c, None, CodeOf(result.ret, "MessageNotLockedByClient"))
        /\ UNCHANGED <<delivery, locked_size>>

Requeue(c, id) ==
    /\ IF id = None
         THEN UNCHANGED q /\ Respond("Requeue", c, id, "PayloadMissingMessageId")
         ELSE LET result == requeue(q, c, id)
              IN  /\ result.ret = "Ok" => Len(q.order) < MaxOrder
                  /\ q' = result.q
                  /\ Respond("Requeue", c, id, CodeOf(result.ret, "MessageNotInQueue"))
    /\ UNCHANGED <<delivery, locked_size>>

UpdateM(c, id, payload) ==
    /\ IF id = None
         THEN UNCHANGED q /\ Respond("UpdateM", c, id, "PayloadMissingMessageId")
         ELSE LET result == update_message(q, id, payload)
              IN  /\ q' = result.q
                  /\ Respond("UpdateM", c, id, CodeOf(result.ret, "MessageNotInQueue"))
    /\ UNCHANGED <<delivery, locked_size>>

UpdateQ(c, auto_fail, fail_timeout) ==
    /\ q' = update_config(q, auto_fail, fail_timeout)
    /\ Respond("UpdateQ", c, None, "Succeeded")
    /\ UNCHANGED <<delivery, locked_size>>

\* An empty UpdateQ payload, or one that ends inside a field it announces.
UpdateQRejected(c) ==
    /\ \/ Respond("UpdateQ", c, None, "InvalidConfigPayloadSize")
       \/ Respond("UpdateQ", c, None, "ConfigBytesEmpty")
    /\ UNCHANGED <<q, delivery, locked_size>>

-----------------------------------------------------------------------------
Request(c) ==
    \/ "Enqueue"   \in Commands /\ \E p \in Payloads : Enqueue(c, p)
    \/ "Dequeue"   \in Commands /\ \E d \in Deliveries : Dequeue(d, c)
    \/ "DeleteM"   \in Commands /\ \E id \in RequestIds \cup {None} : DeleteM(c, id)
    \/ "Succeeded" \in Commands /\ Succeeded(c)
    \/ "Failed"    \in Commands /\ Failed(c)
    \/ "Requeue"   \in Commands /\ \E id \in RequestIds \cup {None} : Requeue(c, id)
    \/ "UpdateM"   \in Commands /\ \E id \in RequestIds \cup {None}, p \in Payloads : UpdateM(c, id, p)
    \/ "UpdateQ"   \in Commands /\ \E a \in BOOLEAN \cup {None}, t \in Timeouts \cup {None} :
                                      UpdateQ(c, a, t)
    \/ "UpdateQ"   \in Commands /\ UpdateQRejected(c)

\* The steps of a Dequeue handler after the first.
Progress(d) == Deliver(d) \/ ReadConfig(d) \/ AutoFail(d)

Next ==
    \/ \E c \in Clients : Request(c)
    \/ \E d \in Deliveries : Progress(d) \/ DeliveryFails(d)

Spec == Init /\ [][Next]_vars

\* No step of a delivery waits for ever while the connection it belongs to
\* stays open: the worker's runtime polls a ready task again, a write to a
\* client that reads completes, and a timer fires.  Module Disconnect drops
\* the assumption on the connection.
Fairness == \A d \in Deliveries : WF_vars(Progress(d))

FairSpec == Spec /\ Fairness

-----------------------------------------------------------------------------
(***************************************************************************)
(* What holds of every queue, whatever clients send.                       *)
(***************************************************************************)

\* Type invariant.  Among others next_id, the stored ids and the ids in lock
\* lists are never the tombstone 0 (queue.rs:195, 241, 276).
TypeOK ==
    /\ IsQueue(q)
    /\ delivery \in [Deliveries -> [stage : {"write", "config", "sleep"},
                                    client : Clients, mid : Ids] \cup {Idle}]
    /\ locked_size \in Nat
    /\ reply \in [cmd : Requests \cup {None}, client : Clients \cup {None},
                  id : RequestIds \cup {None}, code : Codes \cup {None}]

\* Every stored message has an entry in order: no drain of tombstones
\* (remove_zeroes, queue.rs:470) and no overwriting of one id by another
\* ever cuts a message off from the cursor, which only walks order.
StoredInOrder == DOMAIN q.queue \subseteq Range(q.order)

\* The client a message is locked by has the message in its lock list, so its
\* Succeeded, its Failed or the auto-fail timer can find it: a lock nobody
\* can release would keep the message out of circulation for ever
\* (lock_to_read queue.rs:221-229, unlock 336, is_locked 321).
HolderCanRelease ==
    \A id \in DOMAIN q.queue :
        q.queue[id].locked_by # None => is_locked(q, q.queue[id].locked_by, id)

\* The locked total NetStats reports (queue.rs:460) never misses a locked
\* message, although lock lists are updated by four different methods.
StatsCoverLocks ==
    Cardinality({id \in DOMAIN q.queue : q.queue[id].locked_by # None})
        <= get_total_messages_locked(q)

\* The messages under all ids but these are still stored, with the payload
\* and the lock they had.
Agree(before, after, ids) ==
    \A id \in DOMAIN before \ ids : id \in DOMAIN after /\ after[id] = before[id]

KeepsAllBut(ids) == Agree(q.queue, q'.queue, ids)

\* At most locks have changed.
OnlyLocksDiffer(before, after) ==
    /\ DOMAIN after = DOMAIN before
    /\ \A id \in DOMAIN before : after[id].payload = before[id].payload

\* The message client c was handed first, of those it has not settled.
Oldest(c) == IF Held(q, c) = << >> THEN None ELSE Head(Held(q, c))

\* A requeued message is stored again, unlocked, under the id its copy got,
\* unless that is the id it had.
Moved(id) ==
    id \in DOMAIN q.queue /\ new_id(q.order) # id =>
        /\ new_id(q.order) \in DOMAIN q'.queue
        /\ q'.queue[new_id(q.order)] = [payload |-> q.queue[id].payload, locked_by |-> None]

\* What a request of c may take out, replace, change, lock or unlock.
RequestTouches(c) ==
    \/ \E p \in Payloads : Enqueue(c, p) /\ KeepsAllBut({new_id(q.order)})
    \/ \E d \in Deliveries : /\ Dequeue(d, c) /\ q.queue[q.next_id].locked_by = None
                             /\ KeepsAllBut({q.next_id}) /\ OnlyLocksDiffer(q.queue, q'.queue)
    \/ \E id \in RequestIds :
         DeleteM(c, id) /\ KeepsAllBut({IF id \in DOMAIN q.queue THEN id ELSE Oldest(c)})
    \/ Succeeded(c) /\ KeepsAllBut({Oldest(c)})
    \/ Failed(c) /\ KeepsAllBut({Oldest(c)}) /\ OnlyLocksDiffer(q.queue, q'.queue)
    \/ \E id \in RequestIds :
         Requeue(c, id) /\ KeepsAllBut({id, new_id(q.order)}) /\ Moved(id)
    \/ \E id \in RequestIds, p \in Payloads : UpdateM(c, id, p) /\ KeepsAllBut({id})

AnsweredUnlessGone ==
    reply' # reply /\ reply'.code = "NoResponse" =>
        Head(Held(q, reply'.client)) \notin DOMAIN q.queue

Touches ==
    /\ \/ KeepsAllBut({})
       \/ \E c \in Clients : RequestTouches(c)
       \/ \E d \in Deliveries : /\ AutoFail(d) /\ KeepsAllBut({delivery[d].mid})
                                /\ OnlyLocksDiffer(q.queue, q'.queue)
    /\ AnsweredUnlessGone

\* Every step leaves every stored message exactly as it was, payload and lock,
\* except these (queue.rs:183-429):
\*   - the one a DeleteM, Requeue or UpdateM names, if it is stored;
\*   - the oldest its client was handed, in a Succeeded, a Failed, and a DeleteM
\*     of an id that is not stored (KeepsUnnamed is the claim against that);
\*   - the one stored under the id that an Enqueue or Requeue takes, which it
\*     overwrites: behind a trailing tombstone ids begin again at 1;
\*   - the one under the cursor, which a Dequeue locks and which was not locked;
\*   - the one a timer was started for.
\* Failed, Dequeue and timers change locks only.  A Requeue "moves a message to
\* the back of the queue" (CHANGELOG.md:216) and does not lose it, unless the
\* copy takes the id of the original: then both are removed (queue.rs:392).  And
\* a request is left without a response only when the message its client holds
\* was removed by another (message.unwrap(), queue.rs:319).
OthersUntouched == [][Touches]_vars

-----------------------------------------------------------------------------
(***************************************************************************)
(* A promise of the repository that the code does not keep.                *)
(***************************************************************************)

\* DeleteM takes out no message but the one it names: "DeleteM on a message
\* the client does NOT hold a lock on must not drop the client's lock on a
\* different message" (server_tests.rs:572).  An id that is not stored falls
\* through to the caller's lock list (queue.rs:297).
KeepsUnnamed ==
    [][\A c \in Clients, id \in RequestIds : DeleteM(c, id) => KeepsAllBut({id})]_vars
=============================================================================
