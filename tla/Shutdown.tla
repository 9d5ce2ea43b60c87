------------------------------ MODULE Shutdown ------------------------------
(***************************************************************************)
(* The process around the pool: start-up and shutdown (src/src/main.rs),   *)
(* the accept loop and the drain (run, server.rs:246-287).                 *)
(*                                                                         *)
(* Main and the accept loop talk through Notify objects.  notify_waiters   *)
(* reaches only a notified() that exists at that moment: a notification    *)
(* sent while the other side is between two waits is lost.  A select! with *)
(* two branches ready takes either, and forgets the other.                 *)
(***************************************************************************)
EXTENDS Pool

VARIABLES
    main,           \* where main is
    acceptor,       \* where Server::run is
    stopSeen,       \* its notified() of stop_accepting was reached
    drainedSeen     \* main's notified() of drained was reached

procVars == <<main, acceptor, stopSeen, drainedSeen>>
vars == <<poolVars, procVars>>

Init ==
    /\ PoolInit
    /\ main = "boot"
    /\ acceptor = "off" /\ stopSeen = FALSE /\ drainedSeen = FALSE

\* The runtime of main polls its tasks until it is dropped.
Polling == main \notin {"drop", "exit"}

-----------------------------------------------------------------------------
(***************************************************************************)
(* main.                                                                   *)
(***************************************************************************)

\* An unreadable or incomplete file; an arena that cannot be had ends the
\* process in the same way.
parse_config_fails == main' = "exit" /\ UNCHANGED acceptor

\* A bad address is an error; otherwise run is spawned and main waits for a
\* signal.
start_server ==
    \/ main' = "exit" /\ UNCHANGED acceptor
    \/ main' = "select" /\ acceptor' = "boot"

Boot ==
    /\ main = "boot"
    /\ parse_config_fails \/ start_server
    /\ UNCHANGED <<poolVars, stopSeen, drainedSeen>>

\* wait_for_shutdown.  SigHup is "not implemented": the loop goes round.  A
\* signal that comes while main is elsewhere finds the old listeners gone and
\* the new ones not there: nothing happens.
Signal(reason) ==
    /\ main = "select"
    /\ main' = IF reason = "SigHup" THEN "select" ELSE "stop"
    /\ UNCHANGED <<poolVars, acceptor, stopSeen, drainedSeen>>

\* shutdown begins: stop_accepting.notify().
StopAccepting ==
    /\ main = "stop"
    /\ stopSeen' = (acceptor = "select")
    /\ main' = "option"
    /\ UNCHANGED <<poolVars, acceptor, drainedSeen>>

\* The option --shutdown_timeout is looked at only now.  Without it main does
\* not wait; with a number (30 for 0) the notified() of drained is created;
\* what is no number is an error, which ends main without stop_word.
ReadOption ==
    /\ main = "option"
    /\ main' \in {"stopnow", "await", "drop"}
    /\ UNCHANGED <<poolVars, acceptor, stopSeen, drainedSeen>>

\* Bug variant: no timeout around drained.notified().
Await_untimed ==
    /\ main = "await" /\ drainedSeen
    /\ main' = "stopword"
    /\ UNCHANGED <<poolVars, acceptor, stopSeen, drainedSeen>>

\* Drained, or the time is up: stop_word follows in both cases.
Await ==
    /\ main = "await"
    /\ main' = "stopword"
    /\ UNCHANGED <<poolVars, acceptor, stopSeen, drainedSeen>>

\* stop_word.notify(): reaches the readers that wait in select.  Main returns
\* and its runtime is dropped.
StopWord ==
    /\ main \in {"stopword", "stopnow"}
    /\ told' = told \cup {c \in Conns : At(c, "wait")}
    /\ main' = "drop"
    /\ UNCHANGED <<conn, pressure, channel, active, closed, acceptor, stopSeen, drainedSeen>>

\* The runtime drops its tasks, but waits for the threads of spawn_blocking:
\* those still blocked in send.
Exit ==
    /\ main = "drop" /\ \A c \in Conns : ~At(c, "send")
    /\ main' = "exit"
    /\ UNCHANGED <<poolVars, acceptor, stopSeen, drainedSeen>>

-----------------------------------------------------------------------------
(***************************************************************************)
(* Server::run, a task on the runtime of main.                             *)
(***************************************************************************)

\* bind, Pool::new and the queues of the configuration; when bind fails run
\* ends, and the process stays without a listener.
Bind ==
    /\ Polling /\ acceptor = "boot"
    /\ acceptor' \in {"select", "failed"}
    /\ UNCHANGED <<poolVars, main, stopSeen, drainedSeen>>

\* The accept branch, also when stop_accepting was notified as well.
Accept(c) ==
    /\ Polling /\ acceptor = "select"
    /\ spawn_connection(c)
    /\ acceptor' = "accepted" /\ stopSeen' = FALSE
    /\ UNCHANGED <<main, drainedSeen>>

\* Back to select, with a new notified().
AcceptAgain ==
    /\ Polling /\ acceptor = "accepted"
    /\ acceptor' = "select"
    /\ UNCHANGED <<poolVars, main, stopSeen, drainedSeen>>

AcceptStops ==
    /\ Polling /\ acceptor = "select" /\ stopSeen
    /\ acceptor' = "drain" /\ stopSeen' = FALSE
    /\ UNCHANGED <<poolVars, main, drainedSeen>>

\* Every 10 ms, until no connection is being read: drained.notify().
Drain ==
    /\ Polling /\ acceptor = "drain" /\ active = 0
    /\ acceptor' = "end"
    /\ drainedSeen' = (main = "await")
    /\ UNCHANGED <<poolVars, main, stopSeen>>

-----------------------------------------------------------------------------
MainStep == Boot \/ StopAccepting \/ ReadOption \/ Await \/ StopWord \/ Exit
AcceptorStep == Bind \/ AcceptAgain \/ AcceptStops \/ Drain

\* The pool; its threads stop with the process.
ServerStep(c) == main # "exit" /\ ((Polling /\ Hand(c)) \/ send(c) \/ Serve(c)) /\ UNCHANGED procVars
WorkerTakes(w) == main # "exit" /\ recv(w) /\ UNCHANGED procVars
ClientSends(c) == main # "exit" /\ read_bytes(c) /\ UNCHANGED procVars
ClientLeaves(c) == main # "exit" /\ Close(c) /\ UNCHANGED procVars

Next ==
    \/ MainStep \/ AcceptorStep
    \/ \E reason \in {"CtrlC", "SigTerm", "SigHup"} : Signal(reason)
    \/ \E c \in Conns : Accept(c) \/ ServerStep(c) \/ ClientSends(c) \/ ClientLeaves(c)
    \/ \E w \in Workers : WorkerTakes(w)

\* Tasks and threads are scheduled; a request that was read is dispatched.
\* Nothing is assumed of signals and of what clients send.
Scheduled ==
    /\ WF_vars(MainStep) /\ WF_vars(AcceptorStep)
    /\ \A c \in Conns : WF_vars(ServerStep(c))
    /\ \A w \in Workers : WF_vars(WorkerTakes(w))

Spec == Init /\ [][Next]_vars /\ Scheduled

\* Clients do not stay connected for ever.
LeavingSpec == Spec /\ \A c \in Conns : WF_vars(ClientLeaves(c))

-----------------------------------------------------------------------------
TypeOK ==
    /\ PoolTypeOK
    /\ main \in {"boot", "select", "stop", "option", "stopnow", "await", "stopword", "drop", "exit"}
    /\ acceptor \in {"off", "boot", "failed", "select", "accepted", "drain", "end"}
    /\ stopSeen \in BOOLEAN /\ drainedSeen \in BOOLEAN

\* A stop signal ends the process, although stop_accepting, drained and
\* stop_word can each be lost on a task that is not waiting, as long as
\* clients leave (shutdown, main.rs:122-141).
StopEnds == (main = "stop") ~> (main = "exit")

\* "No timeout specified - stop immediately without waiting for drain"
\* (main.rs:137): whatever the clients do.
StopsImmediately == (main = "stopnow") ~> (main = "exit")
=============================================================================
