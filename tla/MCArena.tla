------------------------------ MODULE MCArena ------------------------------
(* Instance of Arena for TLC. *)
EXTENDS Arena, TLC

\* Slots of 24, 32 and 40 bytes.
SomeLayouts == {[size |-> 1, align |-> 1], [size |-> 9, align |-> 8], [size |-> 8, align |-> 16]}

ThreadSymmetry == Permutations(Threads)
=============================================================================
