------------------------------ MODULE MCBroker ------------------------------
(* Instances of Broker for TLC. *)
EXTENDS Broker, TLC

\* Payloads without a size: the reservation stays out of the state.
NoLen == [p \in Payloads |-> 0]

\* The last response is observed by the properties and read by no action.
View == <<q, delivery, locked_size>>

Symmetry == Permutations(Clients) \cup Permutations(Deliveries)
=============================================================================
