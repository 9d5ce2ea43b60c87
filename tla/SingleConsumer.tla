--------------------------- MODULE SingleConsumer ---------------------------
(***************************************************************************)
(* A use of the queue under which it is a FIFO: one consumer, which        *)
(* refuses a message only while it holds no other; any number of           *)
(* producers, and rewriting of messages by id; no removal by id.  Without  *)
(* them the cursor may rest on a message that is locked or gone.           *)
(***************************************************************************)
EXTENDS Broker

CONSTANT Consumer

ASSUME ConsumerAssumption == Consumer \in Clients /\ None \notin Codes

held == Held(q, Consumer)

\* Bound: 2^128 ids are not used up while the queue is never empty.
NoWrap == q.order # << >> => q.order[Len(q.order)] # IdMax

DisciplinedNext ==
    \/ \E c \in Clients, p \in Payloads : NoWrap /\ Enqueue(c, p)
    \/ \E c \in Clients, id \in RequestIds, p \in Payloads : UpdateM(c, id, p)
    \/ \E d \in Deliveries : Dequeue(d, Consumer)
    \/ Succeeded(Consumer)
    \/ Len(held) <= 1 /\ Failed(Consumer)
    \/ \E d \in Deliveries : Progress(d)

DisciplinedSpec == Init /\ [][DisciplinedNext]_vars

-----------------------------------------------------------------------------
\* The payload of a message, None if it is not stored.
PayloadOf(id) == IF id \in DOMAIN q.queue THEN q.queue[id].payload ELSE None

\* The entries of order from the cursor on.
Ahead ==
    IF q.next_id \in Range(q.order)
      THEN SubSeq(q.order, Position(q.order, q.next_id), Len(q.order)) ELSE << >>

fifo == INSTANCE Fifo WITH
    pending  <- [i \in 1..Len(Ahead) |-> PayloadOf(Ahead[i])],
    inflight <- [i \in 1..Len(held) |-> PayloadOf(held[i])],
    answer   <- IF reply.code = None THEN "none" ELSE reply.code

\* The queue implements the FIFO: arrival order is kept across tombstones,
\* drains and restarted ids, every failure is for want of a message, and no
\* handler panics (enqueue, lock_to_read, dequeue, unlock, queue.rs:183-379).
ImplementsFifo == fifo!Spec

\* A message is in exactly one place: handed out, or ahead of the cursor; and
\* an id is used for one message at a time.
Partition ==
    /\ Range(held) \cap Range(Ahead) = {}
    /\ Range(held) \cup Range(Ahead) = DOMAIN q.queue
    /\ Len(held) + Len(Ahead) = Cardinality(DOMAIN q.queue)
=============================================================================
