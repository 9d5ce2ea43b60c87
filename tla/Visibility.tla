----------------------------- MODULE Visibility -----------------------------
(***************************************************************************)
(* The visibility timeout: a queue whose first request is an UpdateQ that  *)
(* turns auto_fail on with a timeout, and that is not reconfigured later.  *)
(* A message nobody settles in time is to go back to the queue             *)
(* (lock_and_dequeue_message, server.rs:334-356).                          *)
(***************************************************************************)
EXTENDS Broker

\* The state the first UpdateQ leaves.
TimedInit ==
    \E timeout \in Timeouts \ {0}, c \in Clients :
        /\ q = update_config(QueueNew, TRUE, timeout)
        /\ delivery = [d \in Deliveries |-> Idle]
        /\ locked_size = 0
        /\ reply = [cmd |-> "UpdateQ", client |-> c, id |-> None, code |-> "Succeeded"]

TimedSpec == TimedInit /\ [][Next]_vars /\ Fairness

\* While a message is locked, a handler of a Dequeue of that message by its
\* holder is still on its way to the timer or sleeping: a lock is never left
\* without a timer (the mutex is given up three times in between, and locks,
\* acknowledgements, refusals and reused ids interleave).
LockIsTimed ==
    \A id \in DOMAIN q.queue :
        q.queue[id].locked_by # None =>
            \E d \in Deliveries : delivery[d].client = q.queue[id].locked_by /\ delivery[d].mid = id

\* No message stays locked for ever: "if the client doesn't ack in time, the
\* message goes back on the queue for redelivery" (CHANGELOG.md:88).  It takes
\* writes that succeed: a handler whose write fails ends before the timer.
LocksExpire ==
    \A id \in Ids : []<>(id \in DOMAIN q.queue => q.queue[id].locked_by = None)
=============================================================================
