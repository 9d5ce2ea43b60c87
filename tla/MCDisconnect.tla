---------------------------- MODULE MCDisconnect ----------------------------
(* Instance of Disconnect for TLC. *)
EXTENDS Disconnect

NoLen == [p \in Payloads |-> 0]
=============================================================================
