---------------------------- MODULE MCConnection ----------------------------
(* Instance of Connection for TLC. *)
EXTENDS Connection

Frames ==
    [kind : {"inline", "task"}, size : {0, 1}]
    \cup {[kind |-> "task", size |-> 2], [kind |-> "unknown", size |-> 0]}

\* Up to three requests.
ShortStreams == UNION {[1..n -> Frames] : n \in 0..3}
=============================================================================
