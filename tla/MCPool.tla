------------------------------ MODULE MCPool ------------------------------
(* Instance of Pool for TLC. *)
EXTENDS Pool
=============================================================================
