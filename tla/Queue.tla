------------------------------- MODULE Queue -------------------------------
(***************************************************************************)
(* One message queue of the broker: `Queue` of src/src/net/queue.rs.       *)
(*                                                                         *)
(* A queue is the record of the Rust structure:                            *)
(*   order    the ids in arrival order; a removed id becomes the tombstone *)
(*            0 until remove_zeroes drains the leading tombstones          *)
(*   queue    HashMap id -> message, a function on the stored ids          *)
(*   locked   HashMap client -> ids the client has been handed, oldest     *)
(*            first; a client with no entry never locked anything          *)
(*   next_id  the id the next Dequeue hands out, or None                   *)
(*   auto_fail, fail_timeout   the QueueConfig                             *)
(*   biggest  slot 4 of biggest_payloads, the only slot any code reads     *)
(*                                                                         *)
(* Every method is an operator from a queue to the queue it leaves and the *)
(* result it returns.  All of them run under the queue's mutex, so each is *)
(* one atomic step of the modules that use this one.  publisher_id and     *)
(* timestamp are carried by the code and never looked at: left out.        *)
(***************************************************************************)
EXTENDS Integers, Sequences, FiniteSets, FiniteSetsExt, Functions

CONSTANTS
    Clients,      \* client ids
    Payloads,     \* message payloads
    PayloadLen,   \* length of each payload, in bytes
    MaxPayload,   \* longest payload a request may declare (MAX_PAYLOAD_SIZE)
    IdMax,        \* u128::MAX, the largest message id
    DrainVec,     \* MAGIC_DRAIN_VEC
    Timeouts,     \* values of fail_timeout, in milliseconds
    None          \* Option::None

ASSUME QueueAssumption ==
    /\ IdMax \in Nat \ {0} /\ IsFiniteSet(Clients)
    /\ DrainVec \in Nat \ {0}
    /\ MaxPayload \in Nat
    /\ PayloadLen \in [Payloads -> 0..MaxPayload]
    /\ Timeouts \subseteq Nat /\ 0 \in Timeouts
    /\ None \notin Nat /\ None \notin BOOLEAN /\ None \notin Clients

Ids == 1..IdMax

MessageSet == [payload : Payloads, locked_by : Clients \cup {None}]

\* The type of a queue: the cursor is never the tombstone 0, and neither is a
\* stored or a locked id.
IsQueue(q) ==
    /\ q \in [order : Seq(0..IdMax),
              queue : [DOMAIN q.queue -> MessageSet],
              locked : [DOMAIN q.locked -> Seq(Ids)],
              next_id : Ids \cup {None},
              auto_fail : BOOLEAN,
              fail_timeout : Timeouts,
              biggest : 0..MaxPayload]
    /\ DOMAIN q.queue \subseteq Ids
    /\ DOMAIN q.locked \subseteq Clients

(***************************************************************************)
(* Vec and HashMap.                                                        *)
(***************************************************************************)

\* Index of the first occurrence of x in s, for an x that occurs.
Position(s, x) == Min({i \in 1..Len(s) : s[i] = x})

\* Vec::remove of the first occurrence of x.
RemoveOne(s, x) ==
    SubSeq(s, 1, Position(s, x) - 1) \o SubSeq(s, Position(s, x) + 1, Len(s))

\* HashMap::insert, which overwrites, and HashMap::remove.
Insert(f, k, v) == [x \in DOMAIN f \cup {k} |-> IF x = k THEN v ELSE f[x]]
Remove(f, k) == Restrict(f, DOMAIN f \ {k})

\* The ids in a client's lock list, empty for a client without one.
Held(q, c) == IF c \in DOMAIN q.locked THEN q.locked[c] ELSE << >>

\* What a method returns: the queue it leaves and its Result.
Result(q, ret) == [q |-> q, ret |-> ret]

(***************************************************************************)
(* The order vector.                                                       *)
(***************************************************************************)

\* Indices of the entries that are not tombstones.
LiveIndices(order) == {i \in 1..Len(order) : order[i] # 0}

\* order.iter().find(|&&x| x != 0)
FirstLive(order) ==
    IF LiveIndices(order) = {} THEN None ELSE order[Min(LiveIndices(order))]

\* The entry after the first occurrence of id, tombstone or not.
Successor(order, id) ==
    IF id \in Range(order) /\ Position(order, id) < Len(order)
      THEN order[Position(order, id) + 1]
      ELSE None

\* A cursor that lands on a tombstone restarts at the first live entry.
SkipTombstone(order, next) == IF next = 0 THEN FirstLive(order) ELSE next

\* order[pos] = 0 for the first occurrence of id, if there is one.
Tombstone(order, id) ==
    IF id \in Range(order) THEN [order EXCEPT ![Position(order, id)] = 0] ELSE order

\* Bug variant: the drain also takes the first live entry.
remove_zeroes_takes_one_more(order) ==
    LET live == LiveIndices(order)
    IN  IF Len(order) < DrainVec THEN order
        ELSE IF live = {} THEN << >>
        ELSE IF Min(live) < DrainVec THEN order
        ELSE SubSeq(order, Min(live) + 1, Len(order))

\* Drains the leading tombstones once there are MAGIC_DRAIN_VEC - 1 of them,
\* or everything when nothing is live.
remove_zeroes(order) ==
    LET live == LiveIndices(order)
    IN  IF Len(order) < DrainVec THEN order
        ELSE IF live = {} THEN << >>
        ELSE IF Min(live) < DrainVec THEN order
        ELSE SubSeq(order, Min(live), Len(order))

(***************************************************************************)
(* The methods.                                                            *)
(***************************************************************************)

QueueNew ==
    [order |-> << >>, queue |-> [i \in {} |-> None], locked |-> [c \in {} |-> << >>],
     next_id |-> None, auto_fail |-> FALSE, fail_timeout |-> 0, biggest |-> 0]

\* u128::overflowing_add(1)
overflowing_add_one(n) == IF n = IdMax THEN 0 ELSE n + 1

\* One more than the last entry, tombstone included; never 0.
new_id(order) ==
    LET sum == overflowing_add_one(order[Len(order)])
    IN  IF order = << >> \/ sum = 0 THEN 1 ELSE sum

enqueue(q, payload) ==
    LET id == new_id(q.order)
    IN  [q EXCEPT !.next_id = IF @ = None THEN id ELSE @,
                  !.order   = Append(@, id),
                  !.queue   = Insert(@, id, [payload |-> payload, locked_by |-> None])]

\* Bug variant: the message is locked before the client's list is looked up,
\* and only an existing list records it.
lock_next_unlisted(q, c) ==
    LET id   == q.next_id
        next == SkipTombstone(q.order, Successor(q.order, id))
    IN  [q EXCEPT !.queue   = [@ EXCEPT ![id].locked_by = c],
                  !.locked  = IF c \in DOMAIN @ THEN Insert(@, c, Append(Held(q, c), id)) ELSE @,
                  !.next_id = next,
                  !.order   = IF next = None THEN remove_zeroes(@) ELSE @]

\* Locks the message under the cursor for c and moves the cursor on.
lock_next(q, c) ==
    LET id   == q.next_id
        next == SkipTombstone(q.order, Successor(q.order, id))
    IN  [q EXCEPT !.queue   = [@ EXCEPT ![id].locked_by = c],
                  !.locked  = Insert(@, c, Append(Held(q, c), id)),
                  !.next_id = next,
                  !.order   = IF next = None THEN remove_zeroes(@) ELSE @]

lock_to_read(q, c) ==
    IF q.order = << >> \/ q.next_id = None THEN Result(q, "QueueIsEmpty")
    ELSE IF q.next_id \notin DOMAIN q.queue THEN Result(q, "NoSuchMessageId")
    ELSE IF q.queue[q.next_id].locked_by # None THEN Result(q, "MessageAlreadyLocked")
    ELSE Result(lock_next(q, c), "Ok")

\* Bug variant: a cursor moved onto a tombstone stays there.
dequeue_id_no_skip(q, c, id) ==
    LET next  == IF q.next_id = id THEN Successor(q.order, id) ELSE q.next_id
        order == Tombstone(q.order, id)
        holds == id \in Range(Held(q, c))
    IN  [q EXCEPT !.order   = IF holds THEN remove_zeroes(order) ELSE order,
                  !.next_id = next,
                  !.queue   = Remove(q.queue, id),
                  !.locked  = IF holds THEN [q.locked EXCEPT ![c] = RemoveOne(q.locked[c], id)]
                                       ELSE q.locked]

\* Bug variant: the path of acknowledgements is taken as well.
dequeue_id_falls_through(q, c, id) ==
    LET next  == IF q.next_id = id THEN Successor(q.order, id) ELSE q.next_id
        order == Tombstone(q.order, id)
        gone  == {id} \cup IF Held(q, c) = << >> THEN {} ELSE {Head(Held(q, c))}
    IN  [q EXCEPT !.order   = order,
                  !.next_id = SkipTombstone(order, next),
                  !.queue   = Restrict(q.queue, DOMAIN q.queue \ gone)]

\* dequeue of a stored id: any client may remove any message.  Only the
\* caller's own lock list forgets the id.
dequeue_id(q, c, id) ==
    LET found == id \in Range(q.order)
        next  == IF q.next_id = id THEN Successor(q.order, id) ELSE q.next_id
        order == Tombstone(q.order, id)
        holds == id \in Range(Held(q, c))
    IN  [q EXCEPT !.order   = IF holds THEN remove_zeroes(order) ELSE order,
                  !.next_id = IF found THEN SkipTombstone(order, next) ELSE q.next_id,
                  !.queue   = Remove(q.queue, id),
                  !.locked  = IF holds THEN [q.locked EXCEPT ![c] = RemoveOne(q.locked[c], id)]
                                       ELSE q.locked]

\* dequeue of the oldest id in the caller's lock list; next_id is left alone.
dequeue_held(q, c) ==
    LET id == Head(q.locked[c])
    IN  [q EXCEPT !.order  = remove_zeroes(Tombstone(q.order, id)),
                  !.queue  = Remove(q.queue, id),
                  !.locked = [q.locked EXCEPT ![c] = Tail(q.locked[c])]]

\* The id a dequeue call removes, None when it returns an error.  An id that
\* is not stored falls through to the caller's lock list, as None does.
dequeue_target(q, c, id) ==
    IF q.order = << >> THEN None
    ELSE IF id \in DOMAIN q.queue THEN id
    ELSE IF Held(q, c) # << >> THEN Head(Held(q, c)) ELSE None

\* "Panic" is message.unwrap() on a message another client already removed.
dequeue(q, c, id) ==
    LET target == dequeue_target(q, c, id)
    IN  IF target = None THEN Result(q, "Err")
        ELSE IF id \in DOMAIN q.queue THEN Result(dequeue_id(q, c, id), "Ok")
        ELSE Result(dequeue_held(q, c), IF target \in DOMAIN q.queue THEN "Ok" ELSE "Panic")

is_locked(q, c, id) == id \in Range(Held(q, c))

\* Bug variant: the list entry goes, the message stays locked.
unlock_id_keeps_lock(q, c, id) ==
    [q EXCEPT !.locked  = [q.locked EXCEPT ![c] = RemoveOne(q.locked[c], id)],
              !.next_id = IF @ = None \/ id < @ THEN id ELSE @]

\* Bug variant: the cursor stays past the released message.
unlock_id_keeps_cursor(q, c, id) ==
    [q EXCEPT !.locked  = [q.locked EXCEPT ![c] = RemoveOne(q.locked[c], id)],
              !.queue   = IF id \in DOMAIN @ THEN [@ EXCEPT ![id].locked_by = None] ELSE @,
              !.next_id = IF @ = None THEN id ELSE @]

\* Drops id from c's list, unlocks the message whoever holds it, and moves
\* the cursor back to it when it is the smaller id.
unlock_id(q, c, id) ==
    [q EXCEPT !.locked  = [q.locked EXCEPT ![c] = RemoveOne(q.locked[c], id)],
              !.queue   = IF id \in DOMAIN @ THEN [@ EXCEPT ![id].locked_by = None] ELSE @,
              !.next_id = IF @ = None \/ id < @ THEN id ELSE @]

\* id = None releases the oldest entry of the list.
unlock(q, c, id) ==
    IF q.order = << >> \/ c \notin DOMAIN q.locked \/ (id # None /\ ~is_locked(q, c, id))
      THEN Result(q, "Err")
    ELSE IF id = None /\ q.locked[c] = << >>
      THEN Result(q, "Ok")
    ELSE Result(unlock_id(q, c, IF id = None THEN Head(q.locked[c]) ELSE id), "Ok")

\* Appends a copy under a new id, then removes the original.
requeue(q, c, id) ==
    IF q.order = << >> \/ id \notin DOMAIN q.queue THEN Result(q, "Err")
    ELSE dequeue(enqueue(q, q.queue[id].payload), c, id)

update_message(q, id, payload) ==
    IF q.order = << >> \/ id \notin DOMAIN q.queue THEN Result(q, "Err")
    ELSE Result([q EXCEPT !.queue = [@ EXCEPT ![id].payload = payload]], "Ok")

\* UpdateQ sets each of the two fields the request carries.
update_config(q, auto_fail, fail_timeout) ==
    [q EXCEPT !.auto_fail    = IF auto_fail = None THEN @ ELSE auto_fail,
              !.fail_timeout = IF fail_timeout = None THEN @ ELSE fail_timeout]

\* Rescans the stored messages; earlier values are never cleared.
find_biggest_payloads(q) ==
    [q EXCEPT !.biggest = Max({@} \cup {PayloadLen[q.queue[id].payload] : id \in DOMAIN q.queue})]

\* Bug variant: counts the lock lists, not their entries.
get_total_messages_locked_lists(q) == Cardinality(DOMAIN q.locked)

get_total_messages_locked(q) == MapThenSumSet(LAMBDA c : Len(q.locked[c]), DOMAIN q.locked)
=============================================================================
