----------------------------- MODULE Disconnect -----------------------------
(***************************************************************************)
(* A consumer's connection ends while a Dequeue handler is under way.      *)
(*                                                                         *)
(* A worker thread owns a current_thread runtime and enters it with        *)
(* block_on(connection) (Pool::new, server.rs:46-56).  The handlers that   *)
(* the connection spawned run on the same runtime, so they make progress   *)
(* only while the worker is serving some connection: when it ends they are *)
(* frozen, a sleeping timer included, until the worker is given another.   *)
(***************************************************************************)
EXTENDS Visibility

VARIABLE frozen     \* deliveries whose worker serves no connection

allVars == <<vars, frozen>>

DisconnectInit == TimedInit /\ frozen = {}

\* read_buf returns 0 or an error: read_buffer returns and block_on with it.
\* (A connection that ends before the message is written is DeliveryFails.)
ConnectionEnds(d) ==
    /\ delivery[d].stage \in {"config", "sleep"} /\ d \notin frozen
    /\ frozen' = frozen \cup {d}
    /\ UNCHANGED vars

\* The pool hands the worker another connection.
WorkerReused(d) ==
    /\ d \in frozen
    /\ frozen' = frozen \ {d}
    /\ UNCHANGED vars

Polled(d) == d \notin frozen /\ Progress(d) /\ UNCHANGED frozen

DisconnectNext ==
    \/ \E c \in Clients : Request(c) /\ UNCHANGED frozen
    \/ \E d \in Deliveries :
         Polled(d) \/ ConnectionEnds(d) \/ WorkerReused(d)

\* A worker that serves a connection polls the handlers of its runtime.
DisconnectSpec ==
    /\ DisconnectInit /\ [][DisconnectNext]_allVars
    /\ \A d \in Deliveries : WF_allVars(Polled(d))

\* A consumer that goes away does not keep a message: "if the client doesn't
\* ack in time, the message goes back on the queue for redelivery"
\* (CHANGELOG.md:88).
LocksExpireAfterDisconnect == LocksExpire
=============================================================================
