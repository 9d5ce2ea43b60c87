-------------------------------- MODULE Pool --------------------------------
(***************************************************************************)
(* The worker pool and the life of a connection: Pool, spawn_connection    *)
(* and handle_connection of src/src/net/server.rs.                         *)
(*                                                                         *)
(* A connection that is accepted becomes a task that looks for the worker  *)
(* with the least pressure, raises that pressure, and hands the connection *)
(* over by a blocking send into the worker's bounded channel.  A worker    *)
(* takes one connection at a time and serves it until it ends.  Counters   *)
(* are atomic, but a task reads them one after the other.                  *)
(***************************************************************************)
EXTENDS Integers, Sequences, SequencesExt, FiniteSets

CONSTANTS
    NumConns,       \* connections that are ever accepted (a bound)
    NumWorkers,     \* THREADS_LIMIT
    WaitLimit       \* WAIT_LIMIT, the capacity of a worker's channel

\* With no worker the first spawn would index an empty vector; a channel of
\* capacity 0 would be a rendezvous.
ASSUME PoolAssumption == NumConns \in Nat /\ NumWorkers \in Nat \ {0} /\ WaitLimit \in Nat \ {0}

\* Connections are numbered in the order they are accepted.
Conns == 1..NumConns

Workers == 0..(NumWorkers - 1)

VARIABLES
    conn,           \* what each connection is doing, and with which worker
    pressure,       \* Pool::pressure
    channel,        \* the jobs in each worker's channel
    active,         \* Server::active_connections
    closed,         \* open connections the client has closed
    told            \* readers a notification of stop_word is waiting for

poolVars == <<conn, pressure, channel, active, closed, told>>

(***************************************************************************)
(* Stages of a connection:                                                 *)
(*   none                  not accepted                                    *)
(*   choose, count, send   its task looks for a worker, raises the         *)
(*                         pressure, is blocked in send                    *)
(*   queued                in the channel                                  *)
(*   start                 taken by the worker                             *)
(*   wait, busy            its reader waits in select, works on what it read*)
(*   ended, left, done     read_buffer returned, active_connections is     *)
(*                         lowered, the pressure is lowered                *)
(***************************************************************************)
Stages == {"none", "choose", "count", "send", "queued", "start", "wait", "busy", "ended", "left", "done"}
Served == {"start", "wait", "busy", "ended", "left"}

NotAccepted == [stage |-> "none", worker |-> 0, least |-> 0, seen |-> 0]
Done == [NotAccepted EXCEPT !.stage = "done"]

\* Pool::new: every worker with an empty channel.
PoolInit ==
    /\ conn = [c \in Conns |-> NotAccepted]
    /\ pressure = [w \in Workers |-> 0]
    /\ channel = [w \in Workers |-> << >>]
    /\ active = 0
    /\ closed = {} /\ told = {}

At(c, stage) == conn[c].stage = stage
Goto(c, stage) == conn' = [conn EXCEPT ![c].stage = stage]
Serves(w) == {c \in Conns : conn[c].worker = w /\ conn[c].stage \in Served}

-----------------------------------------------------------------------------
(***************************************************************************)
(* Pool::spawn, on the runtime of main.                                    *)
(***************************************************************************)

spawn_connection(c) ==
    /\ At(c, "none") /\ \A b \in 1..(c - 1) : ~At(b, "none")
    /\ Goto(c, "choose")
    /\ UNCHANGED <<pressure, channel, active, closed, told>>

\* min_by_key: one counter after the other; the first of the smallest wins.
choose_worker(c) ==
    LET w    == conn[c].seen
        best == IF w = 0 \/ pressure[w] < conn[c].least THEN w ELSE conn[c].worker
        low  == IF best = w THEN pressure[w] ELSE conn[c].least
    IN  /\ At(c, "choose")
        /\ conn' = [conn EXCEPT ![c] =
              IF w + 1 = NumWorkers
                THEN [stage |-> "count", worker |-> best, least |-> 0, seen |-> 0]
                ELSE [@ EXCEPT !.worker = best, !.seen = w + 1, !.least = low]]
        /\ UNCHANGED <<pressure, channel, active, closed, told>>

raise_pressure(c) ==
    /\ At(c, "count")
    /\ pressure' = [pressure EXCEPT ![conn[c].worker] = @ + 1]
    /\ Goto(c, "send")
    /\ UNCHANGED <<channel, active, closed, told>>

\* Bug variant: an unbounded channel.
HasRoom_always(w) == TRUE

HasRoom(w) == Len(channel[w]) < WaitLimit

\* sender.send on a thread of its own: blocked while the channel is full.
send(c) ==
    /\ At(c, "send") /\ HasRoom(conn[c].worker)
    /\ channel' = [channel EXCEPT ![conn[c].worker] = Append(@, c)]
    /\ Goto(c, "queued")
    /\ UNCHANGED <<pressure, active, closed, told>>

-----------------------------------------------------------------------------
(***************************************************************************)
(* A worker: recv, handle_connection, and again.                           *)
(***************************************************************************)

\* Bug variant: `if let` for `while let`, no job after the first.
Free_once(w) == Serves(w) = {} /\ \A c \in Conns : ~At(c, "done")

Free(w) == Serves(w) = {}

recv(w) ==
    /\ Free(w) /\ channel[w] # << >>
    /\ channel' = [channel EXCEPT ![w] = Tail(@)]
    /\ Goto(Head(channel[w]), "start")
    /\ UNCHANGED <<pressure, active, closed, told>>

\* Bug variant: only the end of a connection is counted.
handle_connection_uncounted(c) ==
    /\ At(c, "start")
    /\ Goto(c, "wait")
    /\ UNCHANGED <<pressure, channel, active, closed, told>>

\* active_connections goes up, and the reader waits in select.
handle_connection(c) ==
    /\ At(c, "start")
    /\ active' = active + 1
    /\ Goto(c, "wait")
    /\ UNCHANGED <<pressure, channel, closed, told>>

\* The read branch: bytes.  A notification that came as well is dropped.
read_bytes(c) ==
    /\ At(c, "wait") /\ c \notin closed
    /\ Goto(c, "busy")
    /\ told' = told \ {c}
    /\ UNCHANGED <<pressure, channel, active, closed>>

\* The complete requests are dispatched; a bad header ends the connection.
dispatch(c) ==
    /\ At(c, "busy")
    /\ \/ Goto(c, "wait") /\ UNCHANGED closed
       \/ Goto(c, "ended") /\ closed' = closed \ {c}
    /\ UNCHANGED <<pressure, channel, active, told>>

\* read_buf returns 0 or an error, or stop_word was notified.
read_ends(c) ==
    /\ At(c, "wait") /\ (c \in closed \/ c \in told)
    /\ Goto(c, "ended")
    /\ told' = told \ {c} /\ closed' = closed \ {c}
    /\ UNCHANGED <<pressure, channel, active>>

lower_active(c) ==
    /\ At(c, "ended")
    /\ active' = active - 1
    /\ Goto(c, "left")
    /\ UNCHANGED <<pressure, channel, closed, told>>

\* Bug variant: the pressure stays.
job_done_keeps_pressure(c) ==
    /\ At(c, "left")
    /\ conn' = [conn EXCEPT ![c] = Done]
    /\ UNCHANGED <<pressure, channel, active, closed, told>>

job_done(c) ==
    /\ At(c, "left")
    /\ pressure' = [pressure EXCEPT ![conn[c].worker] = @ - 1]
    /\ conn' = [conn EXCEPT ![c] = Done]
    /\ UNCHANGED <<channel, active, closed, told>>

\* The client closes its end, at any time.
Close(c) ==
    /\ c \notin closed /\ conn[c].stage \notin {"none", "ended", "left", "done"}
    /\ closed' = closed \cup {c}
    /\ UNCHANGED <<conn, pressure, channel, active, told>>

\* A step of the task on the runtime of main.
Hand(c) == choose_worker(c) \/ raise_pressure(c)

\* A step of the worker that serves c.
Serve(c) == handle_connection(c) \/ dispatch(c) \/ read_ends(c) \/ lower_active(c) \/ job_done(c)

ConnStep(c) == Hand(c) \/ send(c) \/ Serve(c)

\* The pool by itself: connections are accepted at any time, stop_word is
\* never notified.
PoolNext ==
    \/ \E c \in Conns : spawn_connection(c) \/ ConnStep(c) \/ read_bytes(c) \/ Close(c)
    \/ \E w \in Workers : recv(w)

\* Tasks and threads are scheduled, a request that was read is dispatched,
\* and clients do not stay connected for ever.
PoolSpec ==
    /\ PoolInit /\ [][PoolNext]_poolVars
    /\ \A c \in Conns : WF_poolVars(ConnStep(c)) /\ WF_poolVars(Close(c))
    /\ \A w \in Workers : WF_poolVars(recv(w))

-----------------------------------------------------------------------------
PoolTypeOK ==
    /\ conn \in [Conns -> [stage : Stages, worker : Workers, least : Nat, seen : Workers]]
    /\ pressure \in [Workers -> 0..Cardinality(Conns)]
    /\ channel \in [Workers -> Seq(Conns)]
    /\ active \in 0..Cardinality(Conns)
    /\ closed \subseteq Conns /\ told \subseteq Conns

\* No accepted connection is lost, duplicated or served by two workers: it is
\* in a channel, once, exactly while it is queued; a worker serves one at a
\* time; a channel never holds more than WAIT_LIMIT (sync_channel, recv and
\* the choice of the worker, server.rs:43-56, 61-81).
JobsKept ==
    /\ \A w \in Workers :
         /\ Len(channel[w]) <= WaitLimit
         /\ IsInjective(channel[w])
         /\ ToSet(channel[w]) = {c \in Conns : At(c, "queued") /\ conn[c].worker = w}
         /\ Cardinality(Serves(w)) <= 1

\* The two counters that steer the pool and the drain are exact whatever
\* tasks, workers and readers interleave: the pressure of a worker counts the
\* connections handed to it and not finished, active_connections those that
\* are being read (server.rs:53, 72, 289-293).  The last is why a connection
\* that is queued is not waited for by the drain.
CountersExact ==
    /\ \A w \in Workers :
         pressure[w] = Cardinality({c \in Conns :
                          conn[c].worker = w /\ conn[c].stage \in {"send", "queued"} \cup Served})
    /\ active = Cardinality({c \in Conns : conn[c].stage \in {"wait", "busy", "ended"}})

\* A connection that was accepted is served to its end, whatever worker it was
\* given to, however full the channels are and in whatever order tasks raised
\* the pressure, once the clients ahead of it have left (Pool::spawn and the
\* worker's loop, server.rs:50-81).
AcceptedIsServed == \A c \in Conns : At(c, "choose") ~> At(c, "done")
=============================================================================
