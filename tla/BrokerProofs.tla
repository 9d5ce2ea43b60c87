---------------------------- MODULE BrokerProofs ----------------------------
(***************************************************************************)
(* Proofs that the invariants of module Broker hold for every number of    *)
(* clients, messages and concurrent deliveries, every id width and every   *)
(* MAGIC_DRAIN_VEC.                                                        *)
(*                                                                         *)
(* Good is the inductive invariant of a queue: its type, StoredInOrder and *)
(* HolderCanRelease.  There is one lemma per method of the queue, which    *)
(* says that the method leaves a Good queue behind, and one per action.    *)
(***************************************************************************)
EXTENDS Broker, Facts

-----------------------------------------------------------------------------
(***************************************************************************)
(* Least elements and sequences.                                           *)
(***************************************************************************)

\* Position is the index of an occurrence.
LEMMA PositionIsIndex ==
    ASSUME NEW T, NEW s \in Seq(T), NEW x \in Range(s)
    PROVE  /\ Position(s, x) \in 1..Len(s)
           /\ s[Position(s, x)] = x
<1> DEFINE S == {i \in 1..Len(s) : s[i] = x}
<1>1. S \in SUBSET Nat
  OBVIOUS
<1>2. S # {}
  BY DEF Range
<1>3. Min(S) \in S
  <2> HIDE DEF S
  <2> QED BY <1>1, <1>2, MinIsLeast
<1> QED
  BY <1>3 DEF Position

\* The elements of a sequence are in its set of values.
LEMMA ElementInRange ==
    ASSUME NEW T, NEW s \in Seq(T), NEW i \in 1..Len(s)
    PROVE  s[i] \in Range(s) /\ s[i] \in T
  BY DEF Range

\* Removing one occurrence of x keeps every other element.
LEMMA RemoveOneKeepsOthers ==
    ASSUME NEW T, NEW s \in Seq(T), NEW x \in Range(s)
    PROVE  /\ RemoveOne(s, x) \in Seq(T)
           /\ \A y \in Range(s) \ {x} : y \in Range(RemoveOne(s, x))
<1> DEFINE p == Position(s, x)
           a == SubSeq(s, 1, p - 1)
           b == SubSeq(s, p + 1, Len(s))
<1>1. p \in 1..Len(s) /\ s[p] = x /\ Len(s) \in Nat
  BY PositionIsIndex
<1>2. /\ a \in Seq(T) /\ Len(a) = p - 1
      /\ \A i \in 1..(p - 1) : a[i] = s[i]
  <2> HIDE DEF p
  <2> QED BY <1>1
<1>3. /\ b \in Seq(T) /\ Len(b) = Len(s) - p
      /\ \A i \in 1..(Len(s) - p) : b[i] = s[p + i]
  <2> HIDE DEF p
  <2> QED BY <1>1
<1>4. RemoveOne(s, x) = a \o b
  BY DEF RemoveOne
<1>5. /\ a \o b \in Seq(T) /\ Len(a \o b) = Len(s) - 1
      /\ \A i \in 1..(p - 1) : (a \o b)[i] = s[i]
      /\ \A i \in p..(Len(s) - 1) : (a \o b)[i] = s[i + 1]
  <2> HIDE DEF p, a, b
  <2>1. a \o b \in Seq(T) /\ Len(a \o b) = Len(s) - 1
    BY <1>1, <1>2, <1>3, ConcatProperties
  <2>2. \A i \in 1..(Len(s) - 1) :
            (a \o b)[i] = IF i <= Len(a) THEN a[i] ELSE b[i - Len(a)]
    BY <1>1, <1>2, <1>3, ConcatProperties
  <2>3. ASSUME NEW i \in 1..(p - 1)
        PROVE  (a \o b)[i] = s[i]
    BY <1>1, <1>2, <2>2
  <2>4. ASSUME NEW i \in p..(Len(s) - 1)
        PROVE  (a \o b)[i] = s[i + 1]
    BY <1>1, <1>2, <1>3, <2>2
  <2> QED BY <2>1, <2>3, <2>4
<1>6. ASSUME NEW y \in Range(s) \ {x}
      PROVE  y \in Range(a \o b)
  <2>1. PICK j \in 1..Len(s) : s[j] = y
    BY DEF Range
  <2>2. CASE j < p
    <3>1. (a \o b)[j] = y /\ j \in 1..Len(a \o b)
      <4> HIDE DEF p, a, b
      <4> QED BY <2>1, <2>2, <1>1, <1>5
    <3> HIDE DEF a, b
    <3> QED BY <3>1, <1>5, ElementInRange
  <2>3. CASE j > p
    <3> DEFINE k == j - 1
    <3>1. k \in p..(Len(s) - 1) /\ k \in 1..(Len(s) - 1) /\ k + 1 = j
      <4> HIDE DEF p
      <4> QED BY <2>1, <2>3, <1>1
    <3> HIDE DEF k, p, a, b
    <3>2. (a \o b)[k] = s[k + 1]
      BY <3>1, <1>5
    <3>3. k \in 1..Len(a \o b)
      BY <3>1, <1>5
    <3> QED BY <3>1, <3>2, <3>3, <2>1, <1>5, ElementInRange
  <2>4. j # p
    BY <2>1, <1>1
  <2> HIDE DEF p
  <2> QED BY <1>1, <2>1, <2>2, <2>3, <2>4
<1> HIDE DEF a, b
<1> QED
  BY <1>4, <1>5, <1>6

-----------------------------------------------------------------------------
(***************************************************************************)
(* The order vector.                                                       *)
(***************************************************************************)

\* A tombstone replaces one occurrence of id and nothing else.
LEMMA TombstoneKeepsOthers ==
    ASSUME NEW order \in Seq(0..IdMax), NEW id
    PROVE  /\ Tombstone(order, id) \in Seq(0..IdMax)
           /\ \A y \in Range(order) \ {id} : y \in Range(Tombstone(order, id))
<1>1. CASE id \notin Range(order)
  BY <1>1 DEF Tombstone
<1>2. CASE id \in Range(order)
  <2> DEFINE p == Position(order, id)
             t == [order EXCEPT ![p] = 0]
  <2>1. p \in 1..Len(order) /\ order[p] = id
    BY <1>2, PositionIsIndex
  <2>2. Tombstone(order, id) = t
    BY <1>2 DEF Tombstone
  <2>3. 0 \in 0..IdMax
    BY QueueAssumption
  <2>4. t \in Seq(0..IdMax) /\ Len(t) = Len(order)
    <3> HIDE DEF p
    <3> QED BY <2>1, <2>3
  <2>5. ASSUME NEW y \in Range(order) \ {id}
        PROVE  y \in Range(t)
    <3>1. PICK j \in 1..Len(order) : order[j] = y
      BY DEF Range
    <3>2. t[j] = y
      <4> HIDE DEF p
      <4> QED BY <2>1, <3>1
    <3> HIDE DEF t
    <3> QED BY <3>1, <3>2, <2>4, ElementInRange
  <2> HIDE DEF t
  <2> QED BY <2>2, <2>4, <2>5
<1> QED BY <1>1, <1>2

\* Draining tombstones drops no id.
LEMMA RemoveZeroesKeepsIds ==
    ASSUME NEW order \in Seq(0..IdMax)
    PROVE  /\ remove_zeroes(order) \in Seq(0..IdMax)
           /\ \A y \in Range(order) \ {0} : y \in Range(remove_zeroes(order))
<1> DEFINE live == LiveIndices(order)
<1>1. live \in SUBSET Nat /\ live \subseteq 1..Len(order)
  BY DEF LiveIndices
<1>2. CASE remove_zeroes(order) = order
  BY <1>2
<1>3. CASE live = {} /\ remove_zeroes(order) = << >>
  <2>1. \A i \in 1..Len(order) : order[i] = 0
    BY <1>3 DEF LiveIndices
  <2>2. Range(order) \subseteq {0}
    BY <2>1 DEF Range
  <2> QED BY <1>3, <2>2
<1>4. CASE live # {} /\ remove_zeroes(order) = SubSeq(order, Min(live), Len(order))
  <2> DEFINE m == Min(live)
             t == SubSeq(order, m, Len(order))
  <2>1. m \in live /\ \A i \in live : m <= i
    <3> HIDE DEF live
    <3> QED BY <1>1, <1>4, MinIsLeast
  <2>2. m \in 1..Len(order)
    BY <2>1, <1>1
  <2>3. /\ t \in Seq(0..IdMax) /\ Len(t) = Len(order) - m + 1
        /\ \A i \in 1..(Len(order) - m + 1) : t[i] = order[m + i - 1]
    <3> HIDE DEF m
    <3>1. ASSUME NEW i \in m..Len(order)
          PROVE  order[i] \in 0..IdMax
      <4>1. i \in 1..Len(order)
        BY <2>2
      <4> QED BY <4>1, ElementInRange
    <3> QED BY <2>2, <3>1, SubSeqProperties
  <2>4. ASSUME NEW y \in Range(order) \ {0}
        PROVE  y \in Range(t)
    <3>1. PICK j \in 1..Len(order) : order[j] = y
      BY DEF Range
    <3>2. m <= j
      BY <3>1, <2>1 DEF LiveIndices
    <3>3. j - m + 1 \in 1..(Len(order) - m + 1) /\ m + (j - m + 1) - 1 = j
      <4> HIDE DEF m
      <4> QED BY <3>1, <3>2, <2>2
    <3>4. t[j - m + 1] = y
      <4> HIDE DEF m, t
      <4> QED BY <3>1, <3>3, <2>3
    <3> HIDE DEF m, t
    <3> QED BY <3>3, <3>4, <2>3, ElementInRange
  <2> HIDE DEF m, t
  <2> QED BY <1>4, <2>3, <2>4 DEF m, t
<1> HIDE DEF live
<1> QED BY <1>2, <1>3, <1>4 DEF remove_zeroes, live

\* The first live entry is an id.
LEMMA FirstLiveIsId ==
    ASSUME NEW order \in Seq(0..IdMax)
    PROVE  FirstLive(order) \in Ids \cup {None}
<1> DEFINE live == LiveIndices(order)
<1>1. live \in SUBSET Nat
  BY DEF LiveIndices
<1>2. CASE live = {}
  BY <1>2 DEF FirstLive
<1>3. CASE live # {}
  <2>1. Min(live) \in live
    <3> HIDE DEF live
    <3> QED BY <1>1, <1>3, MinIsLeast
  <2>2. order[Min(live)] \in 0..IdMax /\ order[Min(live)] # 0
    BY <2>1, ElementInRange DEF LiveIndices
  <2> QED BY <1>3, <2>2, QueueAssumption DEF FirstLive, Ids
<1> QED BY <1>2, <1>3

\* The entry after an occurrence is an entry, if there is one.
LEMMA SuccessorIsEntry ==
    ASSUME NEW order \in Seq(0..IdMax), NEW id
    PROVE  Successor(order, id) \in (0..IdMax) \cup {None}
<1>1. CASE id \in Range(order) /\ Position(order, id) < Len(order)
  <2>1. Position(order, id) \in 1..Len(order)
    BY <1>1, PositionIsIndex
  <2>2. Position(order, id) + 1 \in 1..Len(order)
    BY <2>1, <1>1
  <2> QED BY <2>2, <1>1, ElementInRange DEF Successor
<1> QED BY <1>1 DEF Successor

\* A cursor that has skipped tombstones is an id or None.
LEMMA SkipTombstoneIsId ==
    ASSUME NEW order \in Seq(0..IdMax), NEW next \in (0..IdMax) \cup {None}
    PROVE  SkipTombstone(order, next) \in Ids \cup {None}
  BY FirstLiveIsId, QueueAssumption DEF SkipTombstone, Ids

\* A new id is never the tombstone.
LEMMA NewIdIsId ==
    ASSUME NEW order \in Seq(0..IdMax)
    PROVE  new_id(order) \in Ids
<1>1. CASE order = << >>
  BY <1>1, QueueAssumption DEF new_id, Ids
<1>2. CASE order # << >>
  <2>1. Len(order) \in 1..Len(order)
    BY <1>2, EmptySeq
  <2>2. order[Len(order)] \in 0..IdMax
    BY <2>1, ElementInRange
  <2> QED BY <1>2, <2>2, QueueAssumption DEF new_id, Ids, overflowing_add_one
<1> QED BY <1>1, <1>2

-----------------------------------------------------------------------------
(***************************************************************************)
(* The methods of the queue.                                               *)
(***************************************************************************)

\* A message that is locked is in the lock list of the client it is locked by.
Releasable(x) ==
    \A id \in DOMAIN x.queue :
        x.queue[id].locked_by # None => id \in Range(Held(x, x.queue[id].locked_by))

\* The part of the invariant that is about the queue.
Good(x) ==
    /\ IsQueue(x)
    /\ DOMAIN x.queue \subseteq Range(x.order)
    /\ Releasable(x)

\* A lock list is a sequence of ids.
LEMMA HeldIsList ==
    ASSUME NEW x, IsQueue(x), NEW c
    PROVE  Held(x, c) \in Seq(Ids)
  BY DEF IsQueue, Held

\* enqueue keeps a queue good, even when the new id overwrites a message.
LEMMA EnqueueGood ==
    ASSUME NEW x, Good(x), NEW payload \in Payloads
    PROVE  Good(enqueue(x, payload))
<1> DEFINE id == new_id(x.order)
           m == [payload |-> payload, locked_by |-> None]
           order == Append(x.order, id)
           queue == Insert(x.queue, id, m)
           next == IF x.next_id = None THEN id ELSE x.next_id
           y == enqueue(x, payload)
<1>1. IsQueue(x)
  BY DEF Good
<1>2. id \in Ids
  BY <1>1, NewIdIsId DEF IsQueue
<1>3. y = [x EXCEPT !.next_id = next, !.order = order, !.queue = queue]
  BY DEF enqueue
<1> HIDE DEF y, next
<1>fields. /\ y.order = order /\ y.queue = queue /\ y.next_id = next /\ y.locked = x.locked
  BY <1>1, <1>3 DEF IsQueue
<1>4. order \in Seq(0..IdMax) /\ \A i \in Range(x.order) \cup {id} : i \in Range(order)
  <2> HIDE DEF id
  <2>1. x.order \in Seq(0..IdMax) /\ id \in 0..IdMax
    BY <1>1, <1>2, QueueAssumption DEF IsQueue, Ids
  <2>2. /\ order \in Seq(0..IdMax) /\ Len(order) = Len(x.order) + 1
        /\ order[Len(x.order) + 1] = id
        /\ \A i \in 1..Len(x.order) : order[i] = x.order[i]
    BY <2>1, AppendProperties
  <2> QED BY <2>1, <2>2 DEF Range
<1>5. /\ DOMAIN queue = DOMAIN x.queue \cup {id} /\ queue[id] = m
      /\ \A i \in DOMAIN x.queue \ {id} : queue[i] = x.queue[i]
  <2> HIDE DEF id, m
  <2> QED BY DEF Insert
<1>6. m \in MessageSet
  BY DEF MessageSet
<1>7. queue \in [DOMAIN queue -> MessageSet]
  <2> HIDE DEF id, m
  <2> QED BY <1>1, <1>5, <1>6 DEF Insert, IsQueue
<1>8. IsQueue(y)
  <2>1. next \in Ids \cup {None}
    BY <1>1, <1>2 DEF next, IsQueue
  <2>2. DOMAIN queue \subseteq Ids
    <3> HIDE DEF id, queue
    <3> QED BY <1>1, <1>2, <1>5 DEF IsQueue
  <2> HIDE DEF id, m, order, queue
  <2> QED BY <1>1, <1>3, <1>fields, <1>4, <1>7, <2>1, <2>2 DEF IsQueue
<1>9. DOMAIN y.queue \subseteq Range(y.order)
  <2> HIDE DEF id, m, order, queue
  <2> QED BY <1>fields, <1>4, <1>5 DEF Good
<1>10. Releasable(y)
  <2> HIDE DEF id, order, queue
  <2>1. \A c : Held(y, c) = Held(x, c)
    BY <1>fields DEF Held
  <2> QED BY <1>fields, <1>5, <2>1 DEF Good, Releasable
<1> QED BY <1>8, <1>9, <1>10 DEF Good, y

\* Replacing the message under a stored id keeps the map of messages typed.
LEMMA ReplaceMessage ==
    ASSUME NEW x, IsQueue(x), NEW id \in DOMAIN x.queue, NEW m \in MessageSet,
           NEW queue, queue = [x.queue EXCEPT ![id] = m]
    PROVE  /\ DOMAIN queue = DOMAIN x.queue
           /\ queue \in [DOMAIN queue -> MessageSet]
           /\ queue[id] = m
           /\ \A i \in DOMAIN queue \ {id} : queue[i] = x.queue[i]
  BY DEF IsQueue

\* The order that the drain may have shortened still has every stored id.
LEMMA DrainKeepsStored ==
    ASSUME NEW order \in Seq(0..IdMax), NEW S \in SUBSET Ids, S \subseteq Range(order)
    PROVE  remove_zeroes(order) \in Seq(0..IdMax) /\ S \subseteq Range(remove_zeroes(order))
<1>1. 0 \notin S
  BY DEF Ids
<1> QED BY <1>1, RemoveZeroesKeepsIds

\* lock_to_read keeps a queue good: the lock and the list entry come together.
LEMMA LockNextGood ==
    ASSUME NEW x, Good(x), NEW c \in Clients, x.next_id \in DOMAIN x.queue
    PROVE  Good(lock_next(x, c))
<1> DEFINE id == x.next_id
           m == [x.queue[id] EXCEPT !.locked_by = c]
           queue == [x.queue EXCEPT ![id] = m]
           list == Append(Held(x, c), id)
           locked == Insert(x.locked, c, list)
           next == SkipTombstone(x.order, Successor(x.order, id))
           order == IF next = None THEN remove_zeroes(x.order) ELSE x.order
           y == lock_next(x, c)
<1>1. /\ IsQueue(x) /\ x.order \in Seq(0..IdMax)
      /\ DOMAIN x.queue \subseteq Ids /\ DOMAIN x.queue \subseteq Range(x.order)
  BY DEF Good, IsQueue
<1>2. y = [x EXCEPT !.queue = queue, !.locked = locked, !.next_id = next, !.order = order]
  BY DEF lock_next
<1>3. m \in MessageSet /\ m.locked_by = c
  BY <1>1 DEF IsQueue, MessageSet
<1>4. /\ DOMAIN queue = DOMAIN x.queue
      /\ queue \in [DOMAIN queue -> MessageSet]
      /\ queue[id] = m
      /\ \A i \in DOMAIN queue \ {id} : queue[i] = x.queue[i]
  <2>1. x.queue \in [DOMAIN x.queue -> MessageSet] /\ id \in DOMAIN x.queue
    BY <1>1 DEF IsQueue
  <2> HIDE DEF m, id
  <2> QED BY <1>3, <2>1
<1>5. next \in Ids \cup {None}
  BY <1>1, SuccessorIsEntry, SkipTombstoneIsId
<1>6. order \in Seq(0..IdMax) /\ DOMAIN x.queue \subseteq Range(order)
  <2> HIDE DEF next
  <2> QED BY <1>1, DrainKeepsStored
<1>7. /\ list \in Seq(Ids)
      /\ id \in Range(list)
      /\ \A i \in Range(Held(x, c)) : i \in Range(list)
  <2>1. Held(x, c) \in Seq(Ids) /\ id \in Ids
    BY <1>1, HeldIsList
  <2> DEFINE h == Held(x, c)
  <2> HIDE DEF h, id
  <2>2. /\ list \in Seq(Ids) /\ Len(list) = Len(h) + 1
        /\ list[Len(h) + 1] = id
        /\ \A i \in 1..Len(h) : list[i] = h[i]
    BY <2>1, AppendProperties DEF h
  <2> QED BY <2>1, <2>2 DEF Range, h
<1>8. /\ DOMAIN locked = DOMAIN x.locked \cup {c}
      /\ locked \in [DOMAIN locked -> Seq(Ids)]
      /\ locked[c] = list
      /\ \A d \in DOMAIN x.locked \ {c} : locked[d] = x.locked[d]
  <2> HIDE DEF list
  <2> QED BY <1>1, <1>7 DEF Insert, IsQueue
<1> HIDE DEF y, queue, locked, next, order, m, list
<1>fields. /\ y.order = order /\ y.queue = queue /\ y.next_id = next /\ y.locked = locked
  BY <1>1, <1>2 DEF IsQueue
<1>9. IsQueue(y)
  BY <1>1, <1>2, <1>fields, <1>4, <1>5, <1>6, <1>8 DEF IsQueue
<1>10. DOMAIN y.queue \subseteq Range(y.order)
  BY <1>fields, <1>4, <1>6
<1>11. \A d : \A i \in Range(Held(x, d)) : i \in Range(Held(y, d))
  BY <1>fields, <1>7, <1>8 DEF Held
<1>12. id \in Range(Held(y, c))
  BY <1>fields, <1>7, <1>8 DEF Held
<1>13. Releasable(y)
  <2> SUFFICES ASSUME NEW i \in DOMAIN y.queue, y.queue[i].locked_by # None
               PROVE  i \in Range(Held(y, y.queue[i].locked_by))
    BY DEF Releasable
  <2>1. CASE i = id
    BY <2>1, <1>fields, <1>3, <1>4, <1>12
  <2>2. CASE i # id
    BY <2>2, <1>fields, <1>4, <1>11 DEF Good, Releasable
  <2> QED BY <2>1, <2>2
<1> QED BY <1>9, <1>10, <1>13 DEF Good, y

\* lock_to_read, with its error paths.
LEMMA LockToReadGood ==
    ASSUME NEW x, Good(x), NEW c \in Clients
    PROVE  /\ Good(lock_to_read(x, c).q)
           /\ lock_to_read(x, c).ret = "Ok" => x.next_id \in Ids
           /\ lock_to_read(x, c).ret \in {"Ok", "QueueIsEmpty", "NoSuchMessageId", "MessageAlreadyLocked"}
  BY LockNextGood DEF lock_to_read, Result, Good, IsQueue

\* Removing an entry of the map of messages keeps the others.
LEMMA RemoveMessage ==
    ASSUME NEW x, IsQueue(x), NEW id
    PROVE  /\ DOMAIN Remove(x.queue, id) = DOMAIN x.queue \ {id}
           /\ Remove(x.queue, id) \in [DOMAIN x.queue \ {id} -> MessageSet]
           /\ \A i \in DOMAIN x.queue \ {id} : Remove(x.queue, id)[i] = x.queue[i]
  BY DEF IsQueue, Remove, Restrict

\* A client's list may lose entries of id; every other list is the same.
LEMMA ShortenList ==
    ASSUME NEW x, IsQueue(x), NEW c \in DOMAIN x.locked, NEW list \in Seq(Ids), NEW id,
           \A i \in Range(x.locked[c]) \ {id} : i \in Range(list),
           NEW y, y.locked = [x.locked EXCEPT ![c] = list]
    PROVE  /\ DOMAIN y.locked \subseteq Clients
           /\ y.locked \in [DOMAIN y.locked -> Seq(Ids)]
           /\ \A d : \A i \in Range(Held(x, d)) \ {id} : i \in Range(Held(y, d))
  BY DEF IsQueue, Held

\* dequeue of a stored id: only that id is dropped, from the map, from order
\* and from the caller's list.
LEMMA DequeueIdGood ==
    ASSUME NEW x, Good(x), NEW c \in Clients, NEW id \in DOMAIN x.queue
    PROVE  Good(dequeue_id(x, c, id))
<1> DEFINE found == id \in Range(x.order)
           cursor == IF x.next_id = id THEN Successor(x.order, id) ELSE x.next_id
           holes == Tombstone(x.order, id)
           holds == id \in Range(Held(x, c))
           order == IF holds THEN remove_zeroes(holes) ELSE holes
           next == IF found THEN SkipTombstone(holes, cursor) ELSE x.next_id
           queue == Remove(x.queue, id)
           locked == IF holds THEN [x.locked EXCEPT ![c] = RemoveOne(x.locked[c], id)]
                              ELSE x.locked
           y == dequeue_id(x, c, id)
<1>1. /\ IsQueue(x) /\ x.order \in Seq(0..IdMax) /\ x.next_id \in Ids \cup {None}
      /\ DOMAIN x.queue \subseteq Ids /\ DOMAIN x.queue \subseteq Range(x.order)
  BY DEF Good, IsQueue
<1>2. y = [x EXCEPT !.order = order, !.next_id = next, !.queue = queue, !.locked = locked]
  BY DEF dequeue_id
<1>3. /\ DOMAIN queue = DOMAIN x.queue \ {id}
      /\ queue \in [DOMAIN queue -> MessageSet]
      /\ \A i \in DOMAIN queue : queue[i] = x.queue[i]
  BY <1>1, RemoveMessage
<1>4. holes \in Seq(0..IdMax) /\ DOMAIN x.queue \ {id} \subseteq Range(holes)
  BY <1>1, TombstoneKeepsOthers
<1>5. order \in Seq(0..IdMax) /\ DOMAIN x.queue \ {id} \subseteq Range(order)
  <2> HIDE DEF holes
  <2> QED BY <1>1, <1>4, DrainKeepsStored
<1>6. next \in Ids \cup {None}
  <2>1. cursor \in (0..IdMax) \cup {None}
    BY <1>1, SuccessorIsEntry DEF Ids
  <2> HIDE DEF cursor, holes
  <2> QED BY <1>1, <1>4, <2>1, SkipTombstoneIsId
<1> HIDE DEF y, order, queue, next
<1>fields. /\ y.order = order /\ y.queue = queue /\ y.next_id = next /\ y.locked = locked
  <2> HIDE DEF locked
  <2> QED BY <1>1, <1>2 DEF IsQueue
<1>7. /\ DOMAIN y.locked \subseteq Clients
      /\ y.locked \in [DOMAIN y.locked -> Seq(Ids)]
      /\ \A d : \A i \in Range(Held(x, d)) \ {id} : i \in Range(Held(y, d))
  <2>1. CASE ~holds
    BY <2>1, <1>1, <1>fields DEF IsQueue, Held
  <2>2. CASE holds
    <3>1. c \in DOMAIN x.locked /\ Held(x, c) = x.locked[c]
      BY <2>2 DEF Held, Range
    <3>2. x.locked[c] \in Seq(Ids) /\ id \in Range(x.locked[c])
      BY <2>2, <3>1, <1>1, HeldIsList
    <3> DEFINE list == RemoveOne(x.locked[c], id)
    <3>3. list \in Seq(Ids) /\ \A i \in Range(x.locked[c]) \ {id} : i \in Range(list)
      BY <3>2, RemoveOneKeepsOthers
    <3>4. y.locked = [x.locked EXCEPT ![c] = list]
      BY <1>fields, <2>2
    <3> HIDE DEF list, locked, holds
    <3> QED BY <1>1, <3>1, <3>3, <3>4, ShortenList
  <2> QED BY <2>1, <2>2
<1>8. IsQueue(y)
  <2> HIDE DEF locked
  <2> QED BY <1>1, <1>2, <1>fields, <1>3, <1>5, <1>6, <1>7 DEF IsQueue
<1>9. DOMAIN y.queue \subseteq Range(y.order)
  BY <1>fields, <1>3, <1>5
<1>10. Releasable(y)
  BY <1>fields, <1>3, <1>7 DEF Good, Releasable
<1> QED BY <1>8, <1>9, <1>10 DEF Good, y

\* dequeue of the oldest entry of the caller's list.
LEMMA DequeueHeldGood ==
    ASSUME NEW x, Good(x), NEW c \in DOMAIN x.locked, x.locked[c] # << >>
    PROVE  Good(dequeue_held(x, c))
<1> DEFINE id == Head(x.locked[c])
           holes == Tombstone(x.order, id)
           order == remove_zeroes(holes)
           queue == Remove(x.queue, id)
           list == Tail(x.locked[c])
           locked == [x.locked EXCEPT ![c] = list]
           y == dequeue_held(x, c)
<1>1. /\ IsQueue(x) /\ x.order \in Seq(0..IdMax) /\ x.next_id \in Ids \cup {None}
      /\ DOMAIN x.queue \subseteq Ids /\ DOMAIN x.queue \subseteq Range(x.order)
      /\ x.locked[c] \in Seq(Ids)
  BY DEF Good, IsQueue
<1>2. y = [x EXCEPT !.order = order, !.queue = queue, !.locked = locked]
  BY DEF dequeue_held
<1>3. /\ DOMAIN queue = DOMAIN x.queue \ {id}
      /\ queue \in [DOMAIN queue -> MessageSet]
      /\ \A i \in DOMAIN queue : queue[i] = x.queue[i]
  BY <1>1, RemoveMessage
<1>4. holes \in Seq(0..IdMax) /\ DOMAIN x.queue \ {id} \subseteq Range(holes)
  BY <1>1, TombstoneKeepsOthers
<1>5. order \in Seq(0..IdMax) /\ DOMAIN x.queue \ {id} \subseteq Range(order)
  <2> HIDE DEF holes
  <2> QED BY <1>1, <1>4, DrainKeepsStored
<1>6. list \in Seq(Ids) /\ \A i \in Range(x.locked[c]) \ {id} : i \in Range(list)
  <2> DEFINE h == x.locked[c]
  <2>1. /\ list \in Seq(Ids) /\ Len(list) = Len(h) - 1 /\ Len(h) \in Nat
        /\ h[1] = id
        /\ \A i \in 1..Len(list) : list[i] = h[i + 1]
    BY <1>1, HeadTailProperties
  <2>2. ASSUME NEW i \in Range(h) \ {id}
        PROVE  i \in Range(list)
    <3>1. PICK j \in 1..Len(h) : h[j] = i
      BY <1>1 DEF Range
    <3> DEFINE k == j - 1
    <3>2. j # 1
      BY <2>1, <3>1
    <3> HIDE DEF list, id, h
    <3>3. k \in 1..Len(list) /\ k + 1 = j
      BY <2>1, <3>1, <3>2
    <3> HIDE DEF k
    <3>4. list[k] = i
      BY <2>1, <3>1, <3>3
    <3> QED BY <2>1, <3>3, <3>4, ElementInRange
  <2> QED BY <2>1, <2>2
<1> HIDE DEF y, order, queue, list
<1>fields. /\ y.order = order /\ y.queue = queue /\ y.next_id = x.next_id /\ y.locked = locked
  <2> HIDE DEF locked
  <2> QED BY <1>1, <1>2 DEF IsQueue
<1>7. /\ DOMAIN y.locked \subseteq Clients
      /\ y.locked \in [DOMAIN y.locked -> Seq(Ids)]
      /\ \A d : \A i \in Range(Held(x, d)) \ {id} : i \in Range(Held(y, d))
  <2> HIDE DEF id
  <2> QED BY <1>1, <1>6, <1>fields, ShortenList
<1>8. IsQueue(y)
  <2> HIDE DEF locked
  <2> QED BY <1>1, <1>2, <1>fields, <1>3, <1>5, <1>7 DEF IsQueue
<1>9. DOMAIN y.queue \subseteq Range(y.order)
  BY <1>fields, <1>3, <1>5
<1>10. Releasable(y)
  BY <1>fields, <1>3, <1>7 DEF Good, Releasable
<1> QED BY <1>8, <1>9, <1>10 DEF Good, y

\* dequeue, with its fall-through to the caller's list and its error paths.
\* The id it removes is one the response may name.
LEMMA DequeueGood ==
    ASSUME NEW x, Good(x), NEW c \in Clients, NEW id
    PROVE  /\ Good(dequeue(x, c, id).q)
           /\ dequeue(x, c, id).ret \in {"Ok", "Err", "Panic"}
           /\ dequeue_target(x, c, id) \in Ids \cup {None}
           /\ dequeue(x, c, id).ret = "Ok" => dequeue_target(x, c, id) \in DOMAIN x.queue
<1> DEFINE target == dequeue_target(x, c, id)
<1>1. IsQueue(x) /\ DOMAIN x.queue \subseteq Ids /\ Held(x, c) \in Seq(Ids)
  BY HeldIsList DEF Good, IsQueue
<1>2. CASE target = None
  <2>1. dequeue(x, c, id) = Result(x, "Err")
    BY <1>2 DEF dequeue
  <2> HIDE DEF target
  <2> QED BY <1>2, <2>1 DEF Result, target
<1>3. CASE target # None /\ id \in DOMAIN x.queue
  <2>1. dequeue(x, c, id) = Result(dequeue_id(x, c, id), "Ok")
    BY <1>3 DEF dequeue
  <2>2. target = id
    BY <1>3 DEF dequeue_target
  <2> HIDE DEF target
  <2> QED BY <1>1, <1>3, <2>1, <2>2, DequeueIdGood DEF Result, target
<1>4. CASE target # None /\ id \notin DOMAIN x.queue
  <2> DEFINE ret == IF target \in DOMAIN x.queue THEN "Ok" ELSE "Panic"
  <2>1. dequeue(x, c, id) = Result(dequeue_held(x, c), ret)
    BY <1>4 DEF dequeue
  <2>2. Held(x, c) # << >> /\ target = Head(Held(x, c))
    BY <1>4 DEF dequeue_target
  <2>3. c \in DOMAIN x.locked /\ x.locked[c] # << >>
    BY <2>2 DEF Held
  <2>4. target \in Ids
    BY <1>1, <2>2, HeadTailProperties
  <2>5. Good(dequeue_held(x, c))
    BY <2>3, DequeueHeldGood
  <2> HIDE DEF target
  <2> QED BY <2>1, <2>4, <2>5 DEF Result, target
<1> QED BY <1>2, <1>3, <1>4

\* Releasing an entry of a client's list keeps a queue good, although the
\* message it unlocks may be locked by another client.
LEMMA UnlockIdGood ==
    ASSUME NEW x, Good(x), NEW c \in DOMAIN x.locked, NEW id \in Range(x.locked[c])
    PROVE  Good(unlock_id(x, c, id))
<1> DEFINE list == RemoveOne(x.locked[c], id)
           locked == [x.locked EXCEPT ![c] = list]
           m == [x.queue[id] EXCEPT !.locked_by = None]
           queue == IF id \in DOMAIN x.queue THEN [x.queue EXCEPT ![id] = m] ELSE x.queue
           next == IF x.next_id = None \/ id < x.next_id THEN id ELSE x.next_id
           y == unlock_id(x, c, id)
<1>1. /\ IsQueue(x) /\ x.next_id \in Ids \cup {None}
      /\ DOMAIN x.queue \subseteq Ids /\ DOMAIN x.queue \subseteq Range(x.order)
      /\ x.locked[c] \in Seq(Ids)
  BY DEF Good, IsQueue
<1>2. y = [x EXCEPT !.locked = locked, !.queue = queue, !.next_id = next]
  BY DEF unlock_id
<1>3. id \in Ids
  BY <1>1 DEF Range
<1>4. list \in Seq(Ids) /\ \A i \in Range(x.locked[c]) \ {id} : i \in Range(list)
  BY <1>1, RemoveOneKeepsOthers
<1>5. /\ DOMAIN queue = DOMAIN x.queue
      /\ queue \in [DOMAIN queue -> MessageSet]
      /\ id \in DOMAIN queue => queue[id].locked_by = None
      /\ \A i \in DOMAIN queue \ {id} : queue[i] = x.queue[i]
  <2>1. CASE id \in DOMAIN x.queue
    <3>1. m \in MessageSet /\ m.locked_by = None
      BY <1>1, <2>1 DEF IsQueue, MessageSet
    <3> HIDE DEF m
    <3> QED BY <1>1, <2>1, <3>1, ReplaceMessage
  <2>2. CASE id \notin DOMAIN x.queue
    BY <1>1, <2>2 DEF IsQueue
  <2> QED BY <2>1, <2>2
<1>6. next \in Ids \cup {None}
  BY <1>1, <1>3
<1> HIDE DEF y, queue, next, list
<1>fields. /\ y.order = x.order /\ y.queue = queue /\ y.next_id = next /\ y.locked = locked
  <2> HIDE DEF locked
  <2> QED BY <1>1, <1>2 DEF IsQueue
<1>7. /\ DOMAIN y.locked \subseteq Clients
      /\ y.locked \in [DOMAIN y.locked -> Seq(Ids)]
      /\ \A d : \A i \in Range(Held(x, d)) \ {id} : i \in Range(Held(y, d))
  BY <1>1, <1>4, <1>fields, ShortenList
<1>8. IsQueue(y)
  <2> HIDE DEF locked
  <2> QED BY <1>1, <1>2, <1>fields, <1>5, <1>6, <1>7 DEF IsQueue
<1>9. DOMAIN y.queue \subseteq Range(y.order)
  BY <1>1, <1>fields, <1>5
<1>10. Releasable(y)
  BY <1>fields, <1>5, <1>7 DEF Good, Releasable
<1> QED BY <1>8, <1>9, <1>10 DEF Good, y

\* unlock, with its error paths.
LEMMA UnlockGood ==
    ASSUME NEW x, Good(x), NEW c, NEW id
    PROVE  Good(unlock(x, c, id).q) /\ unlock(x, c, id).ret \in {"Ok", "Err"}
<1> DEFINE oldest == IF id = None THEN Head(x.locked[c]) ELSE id
<1>1. CASE x.order = << >> \/ c \notin DOMAIN x.locked \/ (id # None /\ ~is_locked(x, c, id))
  BY <1>1 DEF unlock, Result
<1>2. CASE /\ c \in DOMAIN x.locked /\ id = None /\ x.locked[c] = << >>
  BY <1>2 DEF unlock, Result
<1>3. CASE /\ ~(x.order = << >> \/ c \notin DOMAIN x.locked \/ (id # None /\ ~is_locked(x, c, id)))
           /\ ~(id = None /\ x.locked[c] = << >>)
  <2>1. unlock(x, c, id) = Result(unlock_id(x, c, oldest), "Ok")
    BY <1>3 DEF unlock
  <2>2. x.locked[c] \in Seq(Ids) /\ c \in DOMAIN x.locked
    BY <1>3 DEF Good, IsQueue
  <2>3. oldest \in Range(x.locked[c])
    <3>1. CASE id # None
      BY <1>3, <3>1 DEF is_locked, Held
    <3>2. CASE id = None
      <4>1. x.locked[c] # << >>
        BY <1>3, <3>2
      <4>2. Head(x.locked[c]) = x.locked[c][1] /\ 1 \in 1..Len(x.locked[c])
        BY <2>2, <4>1
      <4> QED BY <3>2, <4>2, <2>2, ElementInRange
    <3> QED BY <3>1, <3>2
  <2>4. Good(unlock_id(x, c, oldest))
    <3> HIDE DEF oldest
    <3> QED BY <2>2, <2>3, UnlockIdGood
  <2> HIDE DEF oldest
  <2> QED BY <2>1, <2>4 DEF Result
<1> QED BY <1>1, <1>2, <1>3

\* requeue: a copy under a new id, then a dequeue of the original.
LEMMA RequeueGood ==
    ASSUME NEW x, Good(x), NEW c \in Clients, NEW id
    PROVE  Good(requeue(x, c, id).q) /\ requeue(x, c, id).ret \in {"Ok", "Err", "Panic"}
<1>1. CASE x.order = << >> \/ id \notin DOMAIN x.queue
  BY <1>1 DEF requeue, Result
<1>2. CASE ~(x.order = << >> \/ id \notin DOMAIN x.queue)
  <2> DEFINE y == enqueue(x, x.queue[id].payload)
  <2>1. x.queue[id].payload \in Payloads
    BY <1>2 DEF Good, IsQueue, MessageSet
  <2>2. Good(y)
    BY <2>1, EnqueueGood
  <2>3. requeue(x, c, id) = dequeue(y, c, id)
    BY <1>2 DEF requeue
  <2> HIDE DEF y
  <2> QED BY <2>2, <2>3, DequeueGood
<1> QED BY <1>1, <1>2

\* update_message replaces a payload and nothing else.
LEMMA UpdateMessageGood ==
    ASSUME NEW x, Good(x), NEW id, NEW payload \in Payloads
    PROVE  /\ Good(update_message(x, id, payload).q)
           /\ update_message(x, id, payload).ret \in {"Ok", "Err"}
<1>1. CASE x.order = << >> \/ id \notin DOMAIN x.queue
  BY <1>1 DEF update_message, Result
<1>2. CASE ~(x.order = << >> \/ id \notin DOMAIN x.queue)
  <2> DEFINE m == [x.queue[id] EXCEPT !.payload = payload]
             queue == [x.queue EXCEPT ![id] = m]
             y == [x EXCEPT !.queue = queue]
  <2>1. update_message(x, id, payload) = Result(y, "Ok")
    BY <1>2 DEF update_message
  <2>2. IsQueue(x)
    BY DEF Good
  <2>3. m \in MessageSet /\ m.locked_by = x.queue[id].locked_by
    BY <1>2, <2>2 DEF IsQueue, MessageSet
  <2>4. /\ DOMAIN queue = DOMAIN x.queue
        /\ queue \in [DOMAIN queue -> MessageSet]
        /\ \A i \in DOMAIN queue : queue[i].locked_by = x.queue[i].locked_by
    <3> HIDE DEF m
    <3> QED BY <1>2, <2>2, <2>3, ReplaceMessage
  <2> HIDE DEF queue
  <2>5. y.order = x.order /\ y.queue = queue /\ y.locked = x.locked
    BY <2>2 DEF IsQueue
  <2>6. IsQueue(y)
    BY <2>2, <2>4, <2>5 DEF IsQueue
  <2> HIDE DEF y
  <2>7. Good(y)
    BY <2>4, <2>5, <2>6 DEF Good, Releasable, Held
  <2> QED BY <2>1, <2>7 DEF Result
<1> QED BY <1>1, <1>2

\* A queue that differs in its configuration or its largest payload only.
LEMMA OtherFields ==
    ASSUME NEW x, Good(x), NEW y, IsQueue(y),
           y.order = x.order, y.queue = x.queue, y.locked = x.locked
    PROVE  Good(y)
  BY DEF Good, Releasable, Held

\* update_config sets the fields the request carries.
LEMMA UpdateConfigGood ==
    ASSUME NEW x, Good(x), NEW a \in BOOLEAN \cup {None}, NEW t \in Timeouts \cup {None}
    PROVE  Good(update_config(x, a, t))
<1> DEFINE auto_fail == IF a = None THEN x.auto_fail ELSE a
           fail_timeout == IF t = None THEN x.fail_timeout ELSE t
           y == [x EXCEPT !.auto_fail = auto_fail, !.fail_timeout = fail_timeout]
<1>1. update_config(x, a, t) = y
  BY DEF update_config
<1>2. IsQueue(x)
  BY DEF Good
<1>3. auto_fail \in BOOLEAN /\ fail_timeout \in Timeouts
  BY <1>2 DEF IsQueue
<1> HIDE DEF auto_fail, fail_timeout
<1>4. y.order = x.order /\ y.queue = x.queue /\ y.locked = x.locked
  BY <1>2 DEF IsQueue
<1>5. IsQueue(y)
  BY <1>2, <1>3, <1>4 DEF IsQueue
<1> HIDE DEF y
<1> QED BY <1>1, <1>4, <1>5, OtherFields

\* Max of a nonempty set of naturals with an upper bound is in the set.
LEMMA MaxIsElement ==
    ASSUME NEW n \in Nat, NEW S \in SUBSET (0..n), S # {}
    PROVE  Max(S) \in S
<1> DEFINE bounds == {u \in 0..n : \A y \in S : u >= y}
           b == Min(bounds)
<1>1. bounds \in SUBSET Nat /\ n \in bounds
  OBVIOUS
<1>2. b \in bounds /\ \A u \in bounds : b <= u
  <2> HIDE DEF bounds
  <2> QED BY <1>1, MinIsLeast
<1> HIDE DEF b
<1>3. b \in S
  <2> SUFFICES ASSUME b \notin S
               PROVE  FALSE
    OBVIOUS
  <2> DEFINE u == b - 1
  <2>1. \A y \in S : y \in 0..n /\ b \in 0..n /\ y < b
    BY <1>2
  <2>2. u \in 0..n /\ u < b /\ \A y \in S : u >= y
    <3> HIDE DEF bounds
    <3>1. PICK z \in S : TRUE
      OBVIOUS
    <3>2. b \in 0..n /\ b > 0
      BY <2>1, <3>1
    <3>3. u \in 0..n /\ u < b
      BY <3>2
    <3>4. ASSUME NEW y \in S
          PROVE  u >= y
      <4>1. y \in 0..n /\ y < b
        BY <2>1
      <4> QED BY <3>2, <4>1
    <3> QED BY <3>3, <3>4
  <2> HIDE DEF u
  <2>3. u \in bounds
    BY <2>2
  <2> QED BY <1>2, <2>2, <2>3
<1>4. \A y \in S : b >= y
  BY <1>2
<1> HIDE DEF bounds
<1> QED BY <1>3, <1>4 DEF Max

\* The largest payload is the length of a payload.
LEMMA FindBiggestGood ==
    ASSUME NEW x, Good(x)
    PROVE  Good(find_biggest_payloads(x))
<1> DEFINE S == {x.biggest} \cup {PayloadLen[x.queue[id].payload] : id \in DOMAIN x.queue}
           biggest == Max(S)
           y == [x EXCEPT !.biggest = biggest]
<1>1. find_biggest_payloads(x) = y
  BY DEF find_biggest_payloads
<1>2. IsQueue(x)
  BY DEF Good
<1>3. S \in SUBSET (0..MaxPayload) /\ S # {} /\ MaxPayload \in Nat
  <2>1. \A id \in DOMAIN x.queue : PayloadLen[x.queue[id].payload] \in 0..MaxPayload
    BY <1>2, QueueAssumption DEF IsQueue, MessageSet
  <2>2. x.biggest \in 0..MaxPayload
    BY <1>2 DEF IsQueue
  <2> QED BY <2>1, <2>2, QueueAssumption
<1>4. biggest \in 0..MaxPayload
  <2> HIDE DEF S
  <2> QED BY <1>3, MaxIsElement
<1> HIDE DEF biggest
<1>5. y.order = x.order /\ y.queue = x.queue /\ y.locked = x.locked
  BY <1>2 DEF IsQueue
<1>6. IsQueue(y)
  BY <1>2, <1>4, <1>5 DEF IsQueue
<1> HIDE DEF y
<1> QED BY <1>1, <1>5, <1>6, OtherFields

\* A sequence has at most as many different elements as places.
LEMMA RangeBound ==
    ASSUME NEW T, NEW s \in Seq(T)
    PROVE  IsFiniteSet(Range(s)) /\ Cardinality(Range(s)) <= Len(s)
<1>1. IsFiniteSet(1..Len(s)) /\ Cardinality(1..Len(s)) = Len(s) /\ Len(s) \in Nat
  <2>1. Len(s) \in Nat
    OBVIOUS
  <2>2. PICK n \in Nat : n = Len(s)
    BY <2>1
  <2>3. IsFiniteSet(1..n) /\ Cardinality(1..n) = IF 1 > n THEN 0 ELSE n - 1 + 1
    BY FS_Interval
  <2>4. Cardinality(1..n) = n
    BY <2>3
  <2> QED BY <2>2, <2>3, <2>4
<1>2. s \in Surjection(1..Len(s), Range(s))
  <2>1. s \in [1..Len(s) -> Range(s)]
    BY DEF Range
  <2>2. \A t \in Range(s) : \E i \in 1..Len(s) : s[i] = t
    BY DEF Range
  <2> QED BY <2>1, <2>2, Zenon DEF Surjection
<1>3. PICK R : R = Range(s)
  OBVIOUS
<1>4. IsFiniteSet(R) /\ Cardinality(R) <= Cardinality(1..Len(s))
  BY <1>1, <1>2, <1>3, FS_Surjection
<1> QED BY <1>1, <1>3, <1>4

\* Every locked message is an entry of a lock list, so the lengths of the lists
\* add up to at least the number of locked messages.
LEMMA TotalCoversLocks ==
    ASSUME NEW x, Good(x)
    PROVE  Cardinality({id \in DOMAIN x.queue : x.queue[id].locked_by # None})
             <= get_total_messages_locked(x)
<1> DEFINE D == DOMAIN x.locked
           f == [c \in D |-> Len(x.locked[c])]
           L == [c \in D |-> Range(x.locked[c])]
           locked == {id \in DOMAIN x.queue : x.queue[id].locked_by # None}
           listed == UNION {L[c] : c \in D}
<1>1. IsQueue(x) /\ D \subseteq Clients /\ \A c \in D : x.locked[c] \in Seq(Ids)
  BY DEF Good, IsQueue
<1>2. IsFiniteSet(D)
  BY <1>1, QueueAssumption, FS_Subset
<1>3. get_total_messages_locked(x) = SetSum(f, D)
  BY DEF get_total_messages_locked, SetSum, MapThenSumSet, MapThenFoldSet
<1>4. \A c \in D : f[c] \in Nat /\ IsFiniteSet(L[c]) /\ Cardinality(L[c]) <= f[c]
  BY <1>1, RangeBound
<1>5. locked \subseteq listed
  <2>1. SUFFICES ASSUME NEW id \in locked
                 PROVE  id \in listed
    OBVIOUS
  <2>2. id \in Range(Held(x, x.queue[id].locked_by))
    BY DEF Good, Releasable
  <2>3. PICK c : c = x.queue[id].locked_by
    OBVIOUS
  <2>4. c \in D /\ Held(x, c) = x.locked[c]
    <3>1. Range(<< >>) = {}
      BY DEF Range
    <3> QED BY <2>2, <2>3, <3>1 DEF Held
  <2> QED BY <2>2, <2>3, <2>4
<1> HIDE DEF f, L, D, locked
<1>6. IsFiniteSet(listed) /\ Cardinality(listed) <= SetSum(f, D)
  BY <1>2, <1>4, UnionBound
<1> HIDE DEF listed
<1>7. Cardinality(locked) <= Cardinality(listed) /\ IsFiniteSet(locked)
  BY <1>5, <1>6, FS_Subset
<1>8. Cardinality(locked) \in Nat /\ Cardinality(listed) \in Nat /\ SetSum(f, D) \in Nat
  BY <1>2, <1>4, <1>6, <1>7, FS_CardinalityType, SetSumStep
<1>9. Cardinality(locked) <= get_total_messages_locked(x)
  BY <1>3, <1>6, <1>7, <1>8
<1> QED BY <1>9 DEF locked

-----------------------------------------------------------------------------
(***************************************************************************)
(* Which messages a method removes, replaces or changes.                   *)
(***************************************************************************)

\* A field of a queue after one or more fields were set.
LEMMA QueueField ==
    ASSUME NEW x, IsQueue(x), NEW queue
    PROVE  /\ \A n, o : [x EXCEPT !.next_id = n, !.order = o, !.queue = queue].queue = queue
           /\ \A l, n, o : [x EXCEPT !.queue = queue, !.locked = l, !.next_id = n, !.order = o].queue = queue
           /\ \A o, n, l : [x EXCEPT !.order = o, !.next_id = n, !.queue = queue, !.locked = l].queue = queue
           /\ \A o, l : [x EXCEPT !.order = o, !.queue = queue, !.locked = l].queue = queue
           /\ \A l, n : [x EXCEPT !.locked = l, !.queue = queue, !.next_id = n].queue = queue
           /\ [x EXCEPT !.queue = queue].queue = queue
  BY DEF IsQueue

\* What happens to the map of messages when one lock or one payload is set.
SetLock(f, id, l) == [f EXCEPT ![id].locked_by = l]
SetPayload(f, id, p) == [f EXCEPT ![id].payload = p]

LEMMA SetOne ==
    ASSUME NEW x, IsQueue(x), NEW id, NEW l, NEW p
    PROVE  /\ Agree(x.queue, SetLock(x.queue, id, l), {id})
           /\ OnlyLocksDiffer(x.queue, SetLock(x.queue, id, l))
           /\ Agree(x.queue, SetPayload(x.queue, id, p), {id})
<1>1. PICK f : f = x.queue
  OBVIOUS
<1>2. f \in [DOMAIN f -> MessageSet]
  BY <1>1 DEF IsQueue
<1>3. Agree(f, SetLock(f, id, l), {id}) /\ Agree(f, SetPayload(f, id, p), {id})
  BY <1>2 DEF Agree, SetLock, SetPayload
<1>4. OnlyLocksDiffer(f, SetLock(f, id, l))
  BY <1>2 DEF OnlyLocksDiffer, SetLock, MessageSet
<1> QED BY <1>1, <1>3, <1>4

\* Nothing changes when the map stays as it is.
LEMMA NothingChanges ==
    \A f, ids : Agree(f, f, ids) /\ OnlyLocksDiffer(f, f)
  BY DEF Agree, OnlyLocksDiffer

\* enqueue adds one message, or overwrites it.
LEMMA EnqueueKeeps ==
    ASSUME NEW x, IsQueue(x), NEW payload
    PROVE  Agree(x.queue, enqueue(x, payload).queue, {new_id(x.order)})
<1>1. PICK queue : queue = Insert(x.queue, new_id(x.order), [payload |-> payload, locked_by |-> None])
  OBVIOUS
<1>2. enqueue(x, payload).queue = queue
  BY <1>1, QueueField DEF enqueue
<1> QED BY <1>1, <1>2 DEF Insert, Agree

\* lock_to_read locks the message under the cursor, which was not locked.
LEMMA LockToReadKeeps ==
    ASSUME NEW x, IsQueue(x), NEW c
    PROVE  \/ lock_to_read(x, c).q = x
           \/ /\ x.queue[x.next_id].locked_by = None
              /\ Agree(x.queue, lock_to_read(x, c).q.queue, {x.next_id})
              /\ OnlyLocksDiffer(x.queue, lock_to_read(x, c).q.queue)
<1>1. PICK queue : queue = SetLock(x.queue, x.next_id, c)
  OBVIOUS
<1>2. lock_next(x, c).queue = queue
  BY <1>1, QueueField DEF lock_next, SetLock
<1>3. Agree(x.queue, queue, {x.next_id}) /\ OnlyLocksDiffer(x.queue, queue)
  BY <1>1, SetOne
<1>4. \/ lock_to_read(x, c).q = x
      \/ x.queue[x.next_id].locked_by = None /\ lock_to_read(x, c).q = lock_next(x, c)
  BY DEF lock_to_read, Result
<1> QED BY <1>2, <1>3, <1>4

\* unlock releases the message of the id it is given, or of the oldest entry.
LEMMA UnlockKeeps ==
    ASSUME NEW x, IsQueue(x), NEW c, NEW id
    PROVE  /\ OnlyLocksDiffer(x.queue, unlock(x, c, id).q.queue)
           /\ \/ Agree(x.queue, unlock(x, c, id).q.queue, {})
              \/ /\ Held(x, c) # << >> \/ id # None
                 /\ Agree(x.queue, unlock(x, c, id).q.queue,
                          {IF id = None THEN Head(Held(x, c)) ELSE id})
<1>1. ASSUME NEW i
      PROVE  /\ Agree(x.queue, unlock_id(x, c, i).queue, {i})
             /\ OnlyLocksDiffer(x.queue, unlock_id(x, c, i).queue)
  <2>1. PICK queue : queue = IF i \in DOMAIN x.queue THEN SetLock(x.queue, i, None) ELSE x.queue
    OBVIOUS
  <2>2. unlock_id(x, c, i).queue = queue
    BY <2>1, QueueField DEF unlock_id, SetLock
  <2> QED BY <2>1, <2>2, SetOne, NothingChanges
<1>2. PICK i : i = IF id = None THEN Head(Held(x, c)) ELSE id
  OBVIOUS
<1>3. \/ unlock(x, c, id).q = x
      \/ /\ Held(x, c) # << >> \/ id # None
         /\ unlock(x, c, id).q = unlock_id(x, c, i)
  BY <1>2 DEF unlock, Result, Held
<1> QED BY <1>1, <1>2, <1>3, NothingChanges

LEMMA UpdateMessageKeeps ==
    ASSUME NEW x, IsQueue(x), NEW id, NEW payload
    PROVE  Agree(x.queue, update_message(x, id, payload).q.queue, {id})
<1>1. PICK queue : queue = SetPayload(x.queue, id, payload)
  OBVIOUS
<1>2. [x EXCEPT !.queue = queue].queue = queue
  BY QueueField
<1>3. \/ update_message(x, id, payload).q = x
      \/ update_message(x, id, payload).q = [x EXCEPT !.queue = queue]
  BY <1>1 DEF update_message, Result, SetPayload
<1>4. update_message(x, id, payload).q.queue \in {x.queue, queue}
  BY <1>2, <1>3
<1>5. Agree(x.queue, queue, {id})
  BY <1>1, SetOne
<1> QED BY <1>4, <1>5, NothingChanges

\* dequeue removes the id it was given when that is stored, otherwise the oldest
\* id its client holds; it panics when that one is gone.
LEMMA DequeueKeeps ==
    ASSUME NEW x, IsQueue(x), NEW c, NEW id
    PROVE  /\ \/ dequeue(x, c, id).q = x
              \/ /\ id \in DOMAIN x.queue \/ Held(x, c) # << >>
                 /\ Agree(x.queue, dequeue(x, c, id).q.queue,
                          {IF id \in DOMAIN x.queue THEN id ELSE Head(Held(x, c))})
           /\ dequeue(x, c, id).ret \in {"Ok", "Err", "Panic"}
           /\ dequeue(x, c, id).ret = "Panic" => Head(Held(x, c)) \notin DOMAIN x.queue
<1>1. \A i : Agree(x.queue, Remove(x.queue, i), {i})
  BY DEF Agree, Remove, Restrict
<1>2. dequeue_id(x, c, id).queue = Remove(x.queue, id)
  BY QueueField DEF dequeue_id
<1>3. dequeue_held(x, c).queue = Remove(x.queue, Head(x.locked[c]))
  BY QueueField DEF dequeue_held
<1>4. CASE dequeue_target(x, c, id) = None
  BY <1>4 DEF dequeue, Result
<1>5. CASE dequeue_target(x, c, id) # None /\ id \in DOMAIN x.queue
  <2>1. dequeue(x, c, id) = Result(dequeue_id(x, c, id), "Ok")
    BY <1>5 DEF dequeue
  <2>2. dequeue(x, c, id).q = dequeue_id(x, c, id) /\ dequeue(x, c, id).ret = "Ok"
    BY <2>1 DEF Result
  <2> QED BY <1>1, <1>2, <1>5, <2>2
<1>6. CASE dequeue_target(x, c, id) # None /\ id \notin DOMAIN x.queue
  <2>1. PICK ret : ret = IF dequeue_target(x, c, id) \in DOMAIN x.queue THEN "Ok" ELSE "Panic"
    OBVIOUS
  <2>2. dequeue(x, c, id) = Result(dequeue_held(x, c), ret)
    BY <1>6, <2>1 DEF dequeue
  <2>3. dequeue_target(x, c, id) = Head(Held(x, c)) /\ Held(x, c) = x.locked[c] /\ Held(x, c) # << >>
    BY <1>6 DEF dequeue_target, Held
  <2>4. dequeue(x, c, id).q = dequeue_held(x, c) /\ dequeue(x, c, id).ret = ret
    BY <2>2 DEF Result
  <2> QED BY <1>1, <1>3, <1>6, <2>1, <2>3, <2>4
<1> QED BY <1>4, <1>5, <1>6

\* requeue adds or overwrites one message and removes the one it was given, which
\* is then stored under the new id, if that is another one.
LEMMA RequeueKeepsOthers ==
    ASSUME NEW x, Good(x), NEW c, NEW id
    PROVE  /\ Agree(x.queue, requeue(x, c, id).q.queue, {id, new_id(x.order)})
           /\ id \in DOMAIN x.queue /\ new_id(x.order) # id =>
                /\ new_id(x.order) \in DOMAIN requeue(x, c, id).q.queue
                /\ requeue(x, c, id).q.queue[new_id(x.order)]
                     = [payload |-> x.queue[id].payload, locked_by |-> None]
           /\ requeue(x, c, id).ret \in {"Ok", "Err"}
<1>1. CASE x.order = << >> \/ id \notin DOMAIN x.queue
  <2>1. requeue(x, c, id).q = x /\ requeue(x, c, id).ret = "Err"
    BY <1>1 DEF requeue, Result
  <2>2. id \notin DOMAIN x.queue
    <3>1. x.order = << >> => Range(x.order) = {}
      BY DEF Range
    <3> QED BY <1>1, <3>1 DEF Good
  <2> QED BY <2>1, <2>2, NothingChanges
<1>2. CASE ~(x.order = << >> \/ id \notin DOMAIN x.queue)
  <2>1. PICK y : y = enqueue(x, x.queue[id].payload)
    OBVIOUS
  <2>2. requeue(x, c, id) = dequeue(y, c, id)
    BY <1>2, <2>1 DEF requeue
  <2>3. PICK n : n = new_id(x.order)
    OBVIOUS
  <2>4. Agree(x.queue, y.queue, {n})
    BY <2>1, <2>3, EnqueueKeeps DEF Good
  <2>5. IsQueue(y)
    <3>1. x.queue[id].payload \in Payloads
      BY <1>2 DEF Good, IsQueue, MessageSet
    <3> QED BY <2>1, <3>1, EnqueueGood DEF Good
  <2>6. PICK copy : copy = [payload |-> x.queue[id].payload, locked_by |-> None]
    OBVIOUS
  <2>7. n \in DOMAIN y.queue /\ y.queue[n] = copy
    <3>1. PICK queue : queue = Insert(x.queue, n, copy)
      OBVIOUS
    <3>2. y.queue = queue
      BY <2>1, <2>3, <2>6, <3>1, QueueField DEF enqueue, Good
    <3> QED BY <3>1, <3>2 DEF Insert
  <2>8. id \in DOMAIN y.queue
    <3>1. CASE id = n
      BY <2>7, <3>1
    <3>2. CASE id # n
      BY <1>2, <2>4, <3>2 DEF Agree
    <3> QED BY <3>1, <3>2
  <2>9. dequeue(y, c, id).q = y \/ Agree(y.queue, dequeue(y, c, id).q.queue, {id})
    BY <2>5, <2>8, DequeueKeeps
  <2>10. dequeue(y, c, id).ret \in {"Ok", "Err"}
    BY <2>8 DEF dequeue, Result
  <2>11. Agree(x.queue, dequeue(y, c, id).q.queue, {id, n})
    BY <2>4, <2>9 DEF Agree
  <2>12. n # id => /\ n \in DOMAIN dequeue(y, c, id).q.queue
                   /\ dequeue(y, c, id).q.queue[n] = copy
    BY <2>9, <2>7 DEF Agree
  <2> QED BY <2>2, <2>3, <2>10, <2>11, <2>6, <2>12
<1> QED BY <1>1, <1>2

-----------------------------------------------------------------------------
(***************************************************************************)
(* The actions.                                                            *)
(***************************************************************************)

\* The inductive invariant.
IInv == TypeOK /\ Good(q)

\* The states of a Dequeue handler.
Tasks == [stage : {"write", "config", "sleep"}, client : Clients, mid : Ids] \cup {Idle}

\* A response is well typed.
LEMMA RespondOK ==
    ASSUME NEW cmd \in Requests, NEW c \in Clients, NEW id \in RequestIds \cup {None},
           NEW code \in Codes, Respond(cmd, c, id, code)
    PROVE  reply' \in [cmd : Requests \cup {None}, client : Clients \cup {None},
                       id : RequestIds \cup {None}, code : Codes \cup {None}]
  BY DEF Respond

\* An id, or none, may be named in a response.
LEMMA NamedIds == None \in RequestIds \cup {None} /\ Ids \cup {None} \subseteq RequestIds \cup {None}
  BY QueueAssumption DEF Ids, RequestIds

\* The code of a result.
LEMMA CodeOfOK ==
    ASSUME NEW ret \in {"Ok", "Err", "Panic"}, NEW failure \in Codes
    PROVE  CodeOf(ret, failure) \in Codes
  BY DEF CodeOf, Codes

\* The invariant follows from its parts.
LEMMA IInvParts ==
    ASSUME Good(q'), delivery' \in [Deliveries -> Tasks], locked_size' \in Nat,
           reply' \in [cmd : Requests \cup {None}, client : Clients \cup {None},
                       id : RequestIds \cup {None}, code : Codes \cup {None}]
    PROVE  IInv'
  BY DEF IInv, TypeOK, Good, Tasks

\* The reservation stays a size.
LEMMA ReservationOK ==
    ASSUME locked_size \in Nat, NEW size \in Nat, set_locked_size(size)
    PROVE  locked_size' \in Nat
  BY DEF set_locked_size

\* A scaled reservation is a number.
LEMMA ScaledOK == \A size \in Nat : Scaled(size) \in Nat
  BY DEF Scaled

\* The empty queue.
LEMMA InitIInv == Init => IInv
<1> SUFFICES ASSUME Init PROVE IInv
  OBVIOUS
<1>1. IsQueue(QueueNew)
  BY QueueAssumption DEF IsQueue, QueueNew
<1>2. Good(QueueNew)
  BY <1>1 DEF Good, Releasable, QueueNew
<1>3. q = QueueNew /\ locked_size \in Nat
  BY DEF Init
<1>4. delivery \in [Deliveries -> Tasks]
  BY DEF Init, Tasks
<1>5. reply \in [cmd : Requests \cup {None}, client : Clients \cup {None},
                 id : RequestIds \cup {None}, code : Codes \cup {None}]
  BY DEF Init
<1> HIDE DEF Init
<1> QED BY <1>1, <1>2, <1>3, <1>4, <1>5 DEF IInv, TypeOK, Tasks

\* Enqueue: a new id at the end of order, and a message under it.
LEMMA EnqueueIInv ==
    ASSUME IInv, NEW c \in Clients, NEW p \in Payloads, Enqueue(c, p)
    PROVE  IInv'
<1>1. Good(q')
  BY EnqueueGood DEF Enqueue, IInv
<1>2. locked_size' \in Nat
  <2>1. PayloadLen[p] \in Nat
    BY QueueAssumption
  <2>2. Scaled(PayloadLen[p]) \in Nat /\ locked_size \in Nat
    BY <2>1, ScaledOK DEF IInv, TypeOK
  <2> QED BY <2>2, ReservationOK DEF Enqueue, RaiseReservation
<1>3. "Enqueue" \in Requests /\ "Succeeded" \in Codes
  BY DEF Requests, Codes
<1>4. reply' \in [cmd : Requests \cup {None}, client : Clients \cup {None},
                  id : RequestIds \cup {None}, code : Codes \cup {None}]
  BY <1>3, RespondOK, NamedIds DEF Enqueue
<1>5. delivery' \in [Deliveries -> Tasks]
  BY DEF Enqueue, IInv, TypeOK, Tasks
<1> QED BY <1>1, <1>2, <1>4, <1>5, IInvParts

\* Dequeue: a message is locked and its delivery begins, or nothing is.
LEMMA DequeueIInv ==
    ASSUME IInv, NEW d \in Deliveries, NEW c \in Clients, Dequeue(d, c)
    PROVE  IInv'
<1> DEFINE result == lock_to_read(q, c)
<1>1. /\ Good(result.q)
      /\ result.ret = "Ok" => q.next_id \in Ids
      /\ result.ret \in {"Ok", "QueueIsEmpty", "NoSuchMessageId", "MessageAlreadyLocked"}
  BY LockToReadGood DEF IInv
<1> HIDE DEF result
<1>2. Good(q') /\ locked_size' \in Nat
  BY <1>1 DEF Dequeue, result, IInv, TypeOK
<1>3. delivery \in [Deliveries -> Tasks]
  BY DEF IInv, TypeOK, Tasks
<1>4. CASE result.ret = "Ok"
  <2>1. [stage |-> "write", client |-> c, mid |-> q.next_id] \in Tasks
    BY <1>1, <1>4 DEF Tasks
  <2>2. delivery' \in [Deliveries -> Tasks] /\ reply' = reply
    BY <1>3, <1>4, <2>1 DEF Dequeue, result
  <2> QED BY <1>2, <2>2, IInvParts DEF IInv, TypeOK
<1>5. CASE result.ret # "Ok"
  <2>1. "Dequeue" \in Requests /\ result.ret \in Codes
    BY <1>1, <1>5 DEF Requests, Codes
  <2>2. Respond("Dequeue", c, None, result.ret) /\ delivery' = delivery
    BY <1>5 DEF Dequeue, result
  <2> QED BY <1>2, <1>3, <2>1, <2>2, RespondOK, NamedIds, IInvParts
<1> QED BY <1>4, <1>5

\* The steps of a delivery that leave the queue alone.
LEMMA DeliveryIInv ==
    ASSUME IInv, NEW d \in Deliveries, Deliver(d) \/ DeliveryFails(d) \/ ReadConfig(d)
    PROVE  IInv'
<1>1. delivery \in [Deliveries -> Tasks]
  BY DEF IInv, TypeOK, Tasks
<1>2. Good(q') /\ locked_size' \in Nat
  BY DEF IInv, TypeOK, Deliver, DeliveryFails, ReadConfig
<1>3. delivery' \in [Deliveries -> Tasks]
  <2>1. Idle \in Tasks
    BY DEF Tasks
  <2>2. ASSUME NEW s \in {"config", "sleep"}, delivery[d].stage \in {"write", "config"}
        PROVE  [delivery[d] EXCEPT !.stage = s] \in Tasks
    BY <1>1, <2>2 DEF Tasks, Idle
  <2> QED BY <1>1, <2>1, <2>2 DEF Deliver, DeliveryFails, ReadConfig
<1>4. CASE ReadConfig(d)
  BY <1>2, <1>3, <1>4, IInvParts DEF IInv, TypeOK, ReadConfig
<1>5. CASE Deliver(d) \/ DeliveryFails(d)
  <2>1. delivery[d].client \in Clients /\ delivery[d].mid \in Ids
    BY <1>1, <1>5 DEF Tasks, Idle, Deliver, DeliveryFails
  <2>2. "Dequeue" \in Requests /\ "Succeeded" \in Codes /\ "ResponseFailedError" \in Codes
    BY DEF Requests, Codes
  <2>3. reply' \in [cmd : Requests \cup {None}, client : Clients \cup {None},
                    id : RequestIds \cup {None}, code : Codes \cup {None}]
    BY <1>5, <2>1, <2>2, RespondOK, NamedIds DEF Deliver, DeliveryFails
  <2> QED BY <1>2, <1>3, <2>3, IInvParts
<1> QED BY <1>4, <1>5

\* The timer of a delivery ends.
LEMMA AutoFailIInv ==
    ASSUME IInv, NEW d \in Deliveries, AutoFail(d)
    PROVE  IInv'
<1>1. Good(q')
  BY UnlockGood DEF AutoFail, IInv
<1>2. delivery' \in [Deliveries -> Tasks]
  BY DEF AutoFail, IInv, TypeOK, Tasks
<1> QED BY <1>1, <1>2, IInvParts DEF AutoFail, IInv, TypeOK

\* A handler that only works on the queue and answers.
LEMMA QueueOnly ==
    ASSUME IInv, Good(q'), UNCHANGED <<delivery, locked_size>>,
           NEW cmd \in Requests, NEW c \in Clients, NEW id \in RequestIds \cup {None},
           NEW code \in Codes, Respond(cmd, c, id, code)
    PROVE  IInv'
<1>1. delivery' \in [Deliveries -> Tasks] /\ locked_size' \in Nat
  BY DEF IInv, TypeOK, Tasks
<1>2. reply' \in [cmd : Requests \cup {None}, client : Clients \cup {None},
                  id : RequestIds \cup {None}, code : Codes \cup {None}]
  BY RespondOK
<1> QED BY <1>1, <1>2, IInvParts

\* DeleteM: the message leaves, or the handler panics or refuses.
LEMMA DeleteMIInv ==
    ASSUME IInv, NEW c \in Clients, NEW id \in RequestIds \cup {None}, DeleteM(c, id)
    PROVE  IInv'
<1>1. /\ "DeleteM" \in Requests /\ "PayloadMissingMessageId" \in Codes
      /\ "NoSuchMessageId" \in Codes
  BY DEF Requests, Codes
<1>2. Good(q) /\ UNCHANGED <<delivery, locked_size>>
  BY DEF IInv, DeleteM
<1>3. CASE id = None
  <2>1. q' = q /\ Respond("DeleteM", c, id, "PayloadMissingMessageId")
    BY <1>3 DEF DeleteM
  <2> QED BY <1>1, <1>2, <2>1, QueueOnly
<1>4. CASE id # None
  <2> DEFINE result == dequeue(q, c, id)
             code == CodeOf(result.ret, "NoSuchMessageId")
  <2>1. q' = result.q /\ Respond("DeleteM", c, id, code)
    BY <1>4 DEF DeleteM
  <2>2. Good(result.q) /\ code \in Codes
    BY <1>1, <1>2, DequeueGood, CodeOfOK
  <2> HIDE DEF result, code
  <2> QED BY <1>1, <1>2, <2>1, <2>2, QueueOnly
<1> QED BY <1>3, <1>4

\* Succeeded: the oldest message the client holds leaves.
LEMMA SucceededIInv ==
    ASSUME IInv, NEW c \in Clients, Succeeded(c)
    PROVE  IInv'
<1> DEFINE result == dequeue(q, c, None)
           target == dequeue_target(q, c, None)
           code == CodeOf(result.ret, "NoSuchMessageIdLocked")
           shrink == result.ret = "Ok" /\ Scaled(PayloadLen[q.queue[target].payload]) >= locked_size
<1>1. "Succeeded" \in Requests /\ "NoSuchMessageIdLocked" \in Codes
  BY DEF Requests, Codes
<1>2. Good(result.q) /\ code \in Codes /\ target \in RequestIds \cup {None}
  BY <1>1, DequeueGood, CodeOfOK, NamedIds DEF IInv
<1> HIDE DEF result, target, code
<1>3. /\ q' = IF shrink THEN find_biggest_payloads(result.q) ELSE result.q
      /\ IF shrink THEN set_locked_size(q.biggest) ELSE UNCHANGED locked_size
      /\ Respond("Succeeded", c, target, code)
      /\ UNCHANGED delivery
  BY DEF Succeeded, result, target, code
<1> HIDE DEF shrink
<1>4. Good(q')
  BY <1>2, <1>3, FindBiggestGood
<1>5. locked_size' \in Nat
  <2>1. locked_size \in Nat /\ q.biggest \in Nat
    BY DEF IInv, TypeOK, IsQueue
  <2> QED BY <1>3, <2>1, ReservationOK
<1>6. reply' \in [cmd : Requests \cup {None}, client : Clients \cup {None},
                  id : RequestIds \cup {None}, code : Codes \cup {None}]
  BY <1>1, <1>2, <1>3, RespondOK
<1>7. delivery' \in [Deliveries -> Tasks]
  BY <1>3 DEF IInv, TypeOK, Tasks
<1> QED BY <1>4, <1>5, <1>6, <1>7, IInvParts

\* Failed: a lock is given up.
LEMMA FailedIInv ==
    ASSUME IInv, NEW c \in Clients, Failed(c)
    PROVE  IInv'
<1> DEFINE result == unlock(q, c, None)
           code == CodeOf(result.ret, "MessageNotLockedByClient")
<1>1. "Failed" \in Requests /\ "MessageNotLockedByClient" \in Codes
  BY DEF Requests, Codes
<1>2. Good(result.q) /\ code \in Codes
  BY <1>1, UnlockGood, CodeOfOK DEF IInv
<1>3. q' = result.q /\ Respond("Failed", c, None, code) /\ UNCHANGED <<delivery, locked_size>>
  BY DEF Failed
<1> HIDE DEF result, code
<1> QED BY <1>1, <1>2, <1>3, NamedIds, QueueOnly

\* RequeueM: an enqueue and a dequeue under one hold of the mutex.
LEMMA RequeueIInv ==
    ASSUME IInv, NEW c \in Clients, NEW id \in RequestIds \cup {None}, Requeue(c, id)
    PROVE  IInv'
<1>1. /\ "Requeue" \in Requests /\ "PayloadMissingMessageId" \in Codes
      /\ "MessageNotInQueue" \in Codes
  BY DEF Requests, Codes
<1>2. Good(q) /\ UNCHANGED <<delivery, locked_size>>
  BY DEF IInv, Requeue
<1>3. CASE id = None
  <2>1. q' = q /\ Respond("Requeue", c, id, "PayloadMissingMessageId")
    BY <1>3 DEF Requeue
  <2> QED BY <1>1, <1>2, <2>1, QueueOnly
<1>4. CASE id # None
  <2> DEFINE result == requeue(q, c, id)
             code == CodeOf(result.ret, "MessageNotInQueue")
  <2>1. q' = result.q /\ Respond("Requeue", c, id, code)
    BY <1>4 DEF Requeue
  <2>2. Good(result.q) /\ code \in Codes
    BY <1>1, <1>2, RequeueGood, CodeOfOK
  <2> HIDE DEF result, code
  <2> QED BY <1>1, <1>2, <2>1, <2>2, QueueOnly
<1> QED BY <1>3, <1>4

\* UpdateM: the payload of a stored message changes.
LEMMA UpdateMIInv ==
    ASSUME IInv, NEW c \in Clients, NEW id \in RequestIds \cup {None}, NEW p \in Payloads,
           UpdateM(c, id, p)
    PROVE  IInv'
<1>1. /\ "UpdateM" \in Requests /\ "PayloadMissingMessageId" \in Codes
      /\ "MessageNotInQueue" \in Codes
  BY DEF Requests, Codes
<1>2. Good(q) /\ UNCHANGED <<delivery, locked_size>>
  BY DEF IInv, UpdateM
<1>3. CASE id = None
  <2>1. q' = q /\ Respond("UpdateM", c, id, "PayloadMissingMessageId")
    BY <1>3 DEF UpdateM
  <2> QED BY <1>1, <1>2, <2>1, QueueOnly
<1>4. CASE id # None
  <2> DEFINE result == update_message(q, id, p)
             code == CodeOf(result.ret, "MessageNotInQueue")
  <2>1. q' = result.q /\ Respond("UpdateM", c, id, code)
    BY <1>4 DEF UpdateM
  <2>2. Good(result.q) /\ code \in Codes
    BY <1>1, <1>2, UpdateMessageGood, CodeOfOK
  <2> HIDE DEF result, code
  <2> QED BY <1>1, <1>2, <2>1, <2>2, QueueOnly
<1> QED BY <1>3, <1>4

\* UpdateQ: the configuration changes.
LEMMA UpdateQIInv ==
    ASSUME IInv, NEW c \in Clients, NEW a \in BOOLEAN \cup {None}, NEW t \in Timeouts \cup {None},
           UpdateQ(c, a, t)
    PROVE  IInv'
<1>1. "UpdateQ" \in Requests /\ "Succeeded" \in Codes
  BY DEF Requests, Codes
<1>2. Good(q')
  BY UpdateConfigGood DEF UpdateQ, IInv
<1> QED BY <1>1, <1>2, NamedIds, QueueOnly DEF UpdateQ

\* UpdateQ with a payload that cannot be parsed.
LEMMA UpdateQRejectedIInv ==
    ASSUME IInv, NEW c \in Clients, UpdateQRejected(c)
    PROVE  IInv'
<1>1. /\ "UpdateQ" \in Requests /\ "InvalidConfigPayloadSize" \in Codes
      /\ "ConfigBytesEmpty" \in Codes
  BY DEF Requests, Codes
<1>2. Good(q') /\ UNCHANGED <<delivery, locked_size>>
  BY DEF UpdateQRejected, IInv
<1> QED BY <1>1, <1>2, NamedIds, QueueOnly DEF UpdateQRejected

\* The inductive step, one case per action.
LEMMA NextIInv == IInv /\ [Next]_vars => IInv'
<1> SUFFICES ASSUME IInv, [Next]_vars PROVE IInv'
  OBVIOUS
<1>1. ASSUME NEW c \in Clients, Request(c)
      PROVE  IInv'
  BY <1>1, EnqueueIInv, DequeueIInv, DeleteMIInv, SucceededIInv, FailedIInv, RequeueIInv,
     UpdateMIInv, UpdateQIInv, UpdateQRejectedIInv DEF Request
<1>2. ASSUME NEW d \in Deliveries, Progress(d) \/ DeliveryFails(d)
      PROVE  IInv'
  BY <1>2, DeliveryIInv, AutoFailIInv DEF Progress
<1>3. CASE UNCHANGED vars
  BY <1>3 DEF vars, IInv, TypeOK
<1> QED BY <1>1, <1>2, <1>3 DEF Next

\* The fields of a response.
LEMMA RespondFields ==
    ASSUME NEW cmd, NEW c, NEW id, NEW code, Respond(cmd, c, id, code)
    PROVE  reply'.cmd = cmd /\ reply'.client = c /\ reply'.id = id /\ reply'.code = code
  BY DEF Respond

\* Only a panic leaves a request without a response.
LEMMA CodeOfPanic ==
    ASSUME NEW ret \in {"Ok", "Err", "Panic"}, NEW failure, failure # "NoResponse",
           CodeOf(ret, failure) = "NoResponse"
    PROVE  ret = "Panic"
  BY DEF CodeOf

\* A step that answers, or leaves the response to a later one.
LEMMA Answered ==
    ASSUME reply' = reply \/ reply'.code # "NoResponse"
    PROVE  AnsweredUnlessGone
  BY DEF AnsweredUnlessGone

\* DeleteM and Succeeded: the message dequeue removes, and the response.
LEMMA DequeueTouches ==
    ASSUME IsQueue(q), NEW c, NEW id, NEW cmd, NEW rid, NEW failure, failure # "NoResponse",
           q'.queue = dequeue(q, c, id).q.queue,
           Respond(cmd, c, rid, CodeOf(dequeue(q, c, id).ret, failure))
    PROVE  /\ KeepsAllBut({IF id \in DOMAIN q.queue THEN id ELSE Oldest(c)})
           /\ AnsweredUnlessGone
<1>1. reply'.client = c /\ reply'.code = CodeOf(dequeue(q, c, id).ret, failure)
  BY RespondFields
<1>2. /\ \/ dequeue(q, c, id).q = q
         \/ /\ id \in DOMAIN q.queue \/ Held(q, c) # << >>
            /\ Agree(q.queue, q'.queue, {IF id \in DOMAIN q.queue THEN id ELSE Head(Held(q, c))})
      /\ dequeue(q, c, id).ret \in {"Ok", "Err", "Panic"}
      /\ dequeue(q, c, id).ret = "Panic" => Head(Held(q, c)) \notin DOMAIN q.queue
  BY DequeueKeeps
<1>3. AnsweredUnlessGone
  BY <1>1, <1>2, CodeOfPanic DEF AnsweredUnlessGone
<1>4. KeepsAllBut({IF id \in DOMAIN q.queue THEN id ELSE Oldest(c)})
  BY <1>2, NothingChanges DEF KeepsAllBut, Oldest
<1> QED BY <1>3, <1>4

\* Every step of a request.
LEMMA RequestReach ==
    ASSUME IInv, NEW c \in Clients, Request(c)
    PROVE  (KeepsAllBut({}) \/ RequestTouches(c)) /\ AnsweredUnlessGone
<1> DEFINE Fine == (KeepsAllBut({}) \/ RequestTouches(c)) /\ AnsweredUnlessGone
<1>1. IsQueue(q) /\ Good(q) /\ DOMAIN q.queue \subseteq Ids
  BY DEF IInv, Good, IsQueue
<1>2. ASSUME NEW p \in Payloads, Enqueue(c, p)
      PROVE  Fine
  <2>1. KeepsAllBut({new_id(q.order)})
    BY <1>1, <1>2, EnqueueKeeps DEF Enqueue, KeepsAllBut
  <2>2. AnsweredUnlessGone
    BY <1>2, RespondFields, Answered DEF Enqueue
  <2> QED BY <1>2, <2>1, <2>2 DEF RequestTouches
<1>3. ASSUME NEW d \in Deliveries, Dequeue(d, c)
      PROVE  Fine
  <2>1. q' = lock_to_read(q, c).q
    BY <1>3 DEF Dequeue
  <2>2. \/ KeepsAllBut({})
        \/ /\ q.queue[q.next_id].locked_by = None
           /\ KeepsAllBut({q.next_id}) /\ OnlyLocksDiffer(q.queue, q'.queue)
    BY <1>1, <2>1, LockToReadKeeps, NothingChanges DEF KeepsAllBut
  <2>3. lock_to_read(q, c).ret # "NoResponse"
    BY <1>1, LockToReadGood
  <2>4. AnsweredUnlessGone
    BY <1>3, <2>3, RespondFields, Answered DEF Dequeue
  <2> QED BY <1>3, <2>2, <2>4 DEF RequestTouches
<1>4. ASSUME NEW id \in RequestIds \cup {None}, DeleteM(c, id)
      PROVE  Fine
  <2>1. CASE id = None
    <3>1. q' = q
      BY <1>4, <2>1 DEF DeleteM
    <3>2. KeepsAllBut({})
      BY <3>1, NothingChanges DEF KeepsAllBut
    <3> QED BY <1>4, <2>1, <3>2, RespondFields, Answered DEF DeleteM
  <2>2. CASE id # None
    <3>1. /\ q' = dequeue(q, c, id).q
          /\ Respond("DeleteM", c, id, CodeOf(dequeue(q, c, id).ret, "NoSuchMessageId"))
      BY <1>4, <2>2 DEF DeleteM
    <3>2. /\ KeepsAllBut({IF id \in DOMAIN q.queue THEN id ELSE Oldest(c)})
          /\ AnsweredUnlessGone
      BY <1>1, <3>1, DequeueTouches
    <3> QED BY <1>4, <2>2, <3>2 DEF RequestTouches
  <2> QED BY <2>1, <2>2
<1>5. ASSUME Succeeded(c)
      PROVE  Fine
  <2>1. PICK y : y = dequeue(q, c, None).q
    OBVIOUS
  <2>2. q' = y \/ q' = find_biggest_payloads(y)
    BY <1>5, <2>1 DEF Succeeded
  <2>3. find_biggest_payloads(y).queue = y.queue
    <3>1. IsQueue(y)
      BY <1>1, <2>1, DequeueGood DEF Good
    <3> QED BY <3>1 DEF find_biggest_payloads, IsQueue
  <2>4. q'.queue = dequeue(q, c, None).q.queue
    BY <2>1, <2>2, <2>3
  <2>5. Respond("Succeeded", c, dequeue_target(q, c, None),
                CodeOf(dequeue(q, c, None).ret, "NoSuchMessageIdLocked"))
    BY <1>5 DEF Succeeded
  <2>6. None \notin DOMAIN q.queue
    BY <1>1, QueueAssumption DEF Ids
  <2>7. KeepsAllBut({IF None \in DOMAIN q.queue THEN None ELSE Oldest(c)}) /\ AnsweredUnlessGone
    BY <1>1, <2>4, <2>5, DequeueTouches
  <2> QED BY <1>5, <2>6, <2>7 DEF RequestTouches
<1>6. ASSUME Failed(c)
      PROVE  Fine
  <2>1. q' = unlock(q, c, None).q
    BY <1>6 DEF Failed
  <2>2. OnlyLocksDiffer(q.queue, q'.queue) /\ (KeepsAllBut({}) \/ KeepsAllBut({Oldest(c)}))
    BY <1>1, <2>1, UnlockKeeps DEF KeepsAllBut, Oldest
  <2>3. unlock(q, c, None).ret \in {"Ok", "Err"}
    BY <1>1, UnlockGood
  <2>4. CodeOf(unlock(q, c, None).ret, "MessageNotLockedByClient") # "NoResponse"
    BY <2>3, CodeOfPanic
  <2>5. AnsweredUnlessGone
    BY <1>6, <2>4, RespondFields, Answered DEF Failed
  <2> QED BY <1>6, <2>2, <2>5 DEF RequestTouches
<1>7. ASSUME NEW id \in RequestIds \cup {None}, Requeue(c, id)
      PROVE  Fine
  <2>1. CASE id = None
    <3>1. q' = q
      BY <1>7, <2>1 DEF Requeue
    <3>2. KeepsAllBut({})
      BY <3>1, NothingChanges DEF KeepsAllBut
    <3> QED BY <1>7, <2>1, <3>2, RespondFields, Answered DEF Requeue
  <2>2. CASE id # None
    <3>1. /\ q' = requeue(q, c, id).q
          /\ Respond("Requeue", c, id, CodeOf(requeue(q, c, id).ret, "MessageNotInQueue"))
      BY <1>7, <2>2 DEF Requeue
    <3>2. /\ KeepsAllBut({id, new_id(q.order)}) /\ Moved(id)
          /\ requeue(q, c, id).ret \in {"Ok", "Err"}
      BY <1>1, <3>1, RequeueKeepsOthers DEF KeepsAllBut, Moved
    <3>3. CodeOf(requeue(q, c, id).ret, "MessageNotInQueue") # "NoResponse"
      BY <3>2, CodeOfPanic
    <3>4. AnsweredUnlessGone
      BY <3>1, <3>3, RespondFields, Answered
    <3> QED BY <1>7, <2>2, <3>2, <3>4 DEF RequestTouches
  <2> QED BY <2>1, <2>2
<1>8. ASSUME NEW id \in RequestIds \cup {None}, NEW p \in Payloads, UpdateM(c, id, p)
      PROVE  Fine
  <2>1. CASE id = None
    <3>1. q' = q
      BY <1>8, <2>1 DEF UpdateM
    <3>2. KeepsAllBut({})
      BY <3>1, NothingChanges DEF KeepsAllBut
    <3> QED BY <1>8, <2>1, <3>2, RespondFields, Answered DEF UpdateM
  <2>2. CASE id # None
    <3>1. /\ q' = update_message(q, id, p).q
          /\ Respond("UpdateM", c, id, CodeOf(update_message(q, id, p).ret, "MessageNotInQueue"))
      BY <1>8, <2>2 DEF UpdateM
    <3>2. KeepsAllBut({id})
      BY <1>1, <3>1, UpdateMessageKeeps DEF KeepsAllBut
    <3>3. update_message(q, id, p).ret \in {"Ok", "Err"}
      BY <1>1, UpdateMessageGood
    <3>4. CodeOf(update_message(q, id, p).ret, "MessageNotInQueue") # "NoResponse"
      BY <3>3, CodeOfPanic
    <3>5. AnsweredUnlessGone
      BY <3>1, <3>4, RespondFields, Answered
    <3> QED BY <1>8, <2>2, <3>2, <3>5 DEF RequestTouches
  <2> QED BY <2>1, <2>2
<1>9. ASSUME NEW a \in BOOLEAN \cup {None}, NEW t \in Timeouts \cup {None}, UpdateQ(c, a, t)
      PROVE  Fine
  <2>1. q'.queue = q.queue
    BY <1>1, <1>9 DEF UpdateQ, update_config, IsQueue
  <2>2. KeepsAllBut({})
    BY <2>1, NothingChanges DEF KeepsAllBut
  <2> QED BY <1>9, <2>2, RespondFields, Answered DEF UpdateQ
<1>10. ASSUME UpdateQRejected(c)
       PROVE  Fine
  <2>1. KeepsAllBut({})
    BY <1>10, NothingChanges DEF UpdateQRejected, KeepsAllBut
  <2> QED BY <1>10, <2>1, RespondFields, Answered DEF UpdateQRejected
<1> HIDE DEF Fine
<1>11. Fine
  BY <1>2, <1>3, <1>4, <1>5, <1>6, <1>7, <1>8, <1>9, <1>10 DEF Request
<1> QED BY <1>11 DEF Fine

\* Every step of a delivery.
LEMMA DeliveryReach ==
    ASSUME IInv, NEW d \in Deliveries, Progress(d) \/ DeliveryFails(d)
    PROVE  Touches
<1>1. IsQueue(q)
  BY DEF IInv, Good
<1>2. AnsweredUnlessGone
  BY RespondFields, Answered DEF Progress, DeliveryFails, Deliver, ReadConfig, AutoFail
<1>3. CASE AutoFail(d)
  <2>1. CASE q' = q
    BY <1>2, <2>1, NothingChanges DEF Touches, KeepsAllBut
  <2>2. CASE q' # q
    <3>1. PICK mid, client : mid = delivery[d].mid /\ client = delivery[d].client
      OBVIOUS
    <3>2. q' = unlock(q, client, mid).q /\ is_locked(q, client, mid)
      BY <1>3, <2>2, <3>1 DEF AutoFail
    <3>3. mid # None
      <4>1. delivery[d].mid \in Ids
        BY <1>3 DEF IInv, TypeOK, AutoFail, Idle
      <4> QED BY <3>1, <4>1, QueueAssumption DEF Ids
    <3>4. KeepsAllBut({}) \/ KeepsAllBut({mid})
      BY <1>1, <3>2, <3>3, UnlockKeeps DEF KeepsAllBut
    <3>5. OnlyLocksDiffer(q.queue, q'.queue)
      BY <1>1, <3>2, UnlockKeeps
    <3> QED BY <1>2, <1>3, <3>1, <3>4, <3>5 DEF Touches
  <2> QED BY <2>1, <2>2
<1>4. CASE ~AutoFail(d)
  <2>1. q' = q
    BY <1>4 DEF Progress, DeliveryFails, Deliver, ReadConfig
  <2> QED BY <1>2, <2>1, NothingChanges DEF Touches, KeepsAllBut
<1> QED BY <1>3, <1>4

-----------------------------------------------------------------------------
(***************************************************************************)
(* The theorems.                                                           *)
(***************************************************************************)

\* The inductive invariant holds of every behaviour of the broker.
THEOREM BrokerInvariant == Spec => []IInv
  BY InitIInv, NextIInv, PTL DEF Spec

\* Whatever requests clients send and however handlers interleave, the queue
\* is well formed: no id, cursor or lock-list entry is the tombstone 0.
THEOREM TypeCorrect == Spec => []TypeOK
<1>1. IInv => TypeOK
  BY DEF IInv
<1> QED BY <1>1, BrokerInvariant, PTL

\* No message is ever cut off from the order vector, for every drain
\* threshold and every id width: wrapped and reused ids included.
THEOREM NoMessageCutOff == Spec => []StoredInOrder
<1>1. IInv => StoredInOrder
  BY DEF IInv, Good, StoredInOrder
<1> QED BY <1>1, BrokerInvariant, PTL

\* No lock is ever orphaned: the holder of a locked message can acknowledge
\* it, reject it, or have it released by the auto-fail timer.
THEOREM NoOrphanedLock == Spec => []HolderCanRelease
<1>1. IInv => HolderCanRelease
  BY DEF IInv, Good, Releasable, HolderCanRelease, is_locked
<1> QED BY <1>1, BrokerInvariant, PTL

\* The locked total that NetStats reports counts every locked message, for any
\* number of clients and lock lists.
THEOREM StatsNeverMissALock == Spec => []StatsCoverLocks
<1>1. IInv => StatsCoverLocks
  BY TotalCoversLocks DEF IInv, StatsCoverLocks
<1> QED BY <1>1, BrokerInvariant, PTL

\* Every step leaves every stored message as it was, payload and lock, but for
\* the one its request names or falls back on, the one whose id it reuses, and
\* the one it locks or releases; a request goes unanswered only when the message
\* its client holds is gone.
THEOREM OthersAreUntouched == Spec => OthersUntouched
<1>1. IInv /\ [Next]_vars => [Touches]_vars
  <2>1. ASSUME IInv, NEW c \in Clients, Request(c)
        PROVE  Touches
    BY <2>1, RequestReach DEF Touches
  <2>2. ASSUME IInv, NEW d \in Deliveries, Progress(d) \/ DeliveryFails(d)
        PROVE  Touches
    BY <2>2, DeliveryReach
  <2> QED BY <2>1, <2>2 DEF Next
<1> QED BY <1>1, BrokerInvariant, PTL DEF Spec, OthersUntouched
=============================================================================
