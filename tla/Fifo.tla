-------------------------------- MODULE Fifo --------------------------------
(***************************************************************************)
(* What a queue promises its one consumer: messages are handed out in the  *)
(* order in which they arrived, each until it is acknowledged or refused,  *)
(* and a request fails only for want of a message.                         *)
(***************************************************************************)
EXTENDS Sequences, Naturals

CONSTANT Payloads

VARIABLES
    pending,    \* waiting to be handed out
    inflight,   \* handed out and neither acknowledged nor refused
    answer      \* the code of the last response

vars == <<pending, inflight, answer>>

Init == pending = << >> /\ inflight = << >> /\ answer = "none"

Put(payload) ==
    /\ pending' = Append(pending, payload)
    /\ answer' = "Succeeded"
    /\ UNCHANGED inflight

\* A message leaves for the consumer; the response follows.
Take ==
    /\ pending # << >>
    /\ pending' = Tail(pending)
    /\ inflight' = Append(inflight, Head(pending))
    /\ UNCHANGED answer

Arrive == answer' = "Succeeded" /\ UNCHANGED <<pending, inflight>>

TakeNothing == pending = << >> /\ answer' = "QueueIsEmpty" /\ UNCHANGED <<pending, inflight>>

Ack ==
    /\ inflight # << >>
    /\ inflight' = Tail(inflight)
    /\ answer' = "Succeeded"
    /\ UNCHANGED pending

AckNothing ==
    inflight = << >> /\ answer' = "NoSuchMessageIdLocked" /\ UNCHANGED <<pending, inflight>>

\* The refused message is the next one out again.
Nack ==
    /\ Len(inflight) = 1
    /\ pending' = inflight \o pending
    /\ inflight' = << >>
    /\ answer' = "Succeeded"

NackNothing ==
    /\ inflight = << >>
    /\ answer' \in {"Succeeded", "MessageNotLockedByClient"}
    /\ UNCHANGED <<pending, inflight>>

\* The payload of one message is replaced in place.
Rewrite(payload) ==
    /\ answer' = "Succeeded"
    /\ \/ \E i \in 1..Len(pending) :
            pending' = [pending EXCEPT ![i] = payload] /\ UNCHANGED inflight
       \/ \E i \in 1..Len(inflight) :
            inflight' = [inflight EXCEPT ![i] = payload] /\ UNCHANGED pending

RewriteNothing == answer' = "MessageNotInQueue" /\ UNCHANGED <<pending, inflight>>

Next ==
    \/ \E payload \in Payloads : Put(payload) \/ Rewrite(payload)
    \/ Take \/ Arrive \/ TakeNothing
    \/ Ack \/ AckNothing
    \/ Nack \/ NackNothing
    \/ RewriteNothing

Spec == Init /\ [][Next]_vars
=============================================================================
