-------------------------- MODULE MCSingleConsumer --------------------------
(* Instance of SingleConsumer for TLC. *)
EXTENDS SingleConsumer

NoLen == [p \in Payloads |-> 0]
=============================================================================
