---------------------------- MODULE MCVisibility ----------------------------
(* Instance of Visibility for TLC. *)
EXTENDS Visibility

\* Payloads without a size: the reservation stays out of the state.
NoLen == [p \in Payloads |-> 0]
=============================================================================
