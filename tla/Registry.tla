------------------------------ MODULE Registry ------------------------------
(***************************************************************************)
(* The registry of queues: Server::queue_names (name -> hash) and          *)
(* Server::queue (hash -> queue) of src/src/net/server.rs, each behind a   *)
(* tokio RwLock, and the order in which the request handlers take the two  *)
(* locks.                                                                  *)
(*                                                                         *)
(*   handlers of one queue    queue.read, names.read for the lookup only,  *)
(*                            queue.read kept to the end of the handler    *)
(*   CreateQ, DeleteQ         names.write, then queue.write, both kept     *)
(*   ListM                    names.read, given back, then queue.read,     *)
(*                            given back, then the queue                   *)
(*   NetStats                 names.read, then queue.read, both kept       *)
(*                                                                         *)
(* What a handler does to its queue is the subject of module Broker: here  *)
(* it is one step of arbitrary length (Dequeue sleeps in it).              *)
(***************************************************************************)
EXTENDS Naturals, Sequences, SequencesExt, FiniteSets, Functions

CONSTANTS
    Tasks,      \* request handlers (a bound on how many run at once)
    Names,      \* queue names
    Hashes,     \* Uuids
    Commands,   \* the requests clients send: "Queue" stands for any request
                \* that works on one queue
    None

ASSUME RegistryAssumption ==
    /\ Commands \subseteq {"Queue", "CreateQ", "DeleteQ", "ListM", "NetStats"}
    /\ None \notin Hashes /\ None \notin Names /\ None # "QueueNotFound"

VARIABLES
    queue_names,   \* name -> hash
    queue,         \* the hashes that have a queue
    names_lock,    \* holders and waiters of the RwLock of queue_names
    queue_lock,    \* holders and waiters of the RwLock of queue
    task,          \* what each handler is doing
    reply          \* the last response

vars == <<queue_names, queue, names_lock, queue_lock, task, reply>>
locks == <<names_lock, queue_lock>>
registry == <<queue_names, queue>>

(***************************************************************************)
(* tokio's RwLock is fair: requests are served in the order they were      *)
(* made, and a reader waits behind a writer that waits.  A lock is the     *)
(* sequence of requests not yet given back; a read is granted when only    *)
(* reads are ahead of it, a write when it is the first.                    *)
(***************************************************************************)
Acquire(lock, t, mode) == Append(lock, [task |-> t, mode |-> mode])

\* A handler has at most one request for a lock.
Release(lock, t) == RemoveFirstMatch(lock, LAMBDA request : request.task = t)

Granted(lock, t) ==
    \E i \in 1..Len(lock) :
        /\ lock[i].task = t
        /\ lock[i].mode = "write" => i = 1
        /\ \A j \in 1..(i - 1) : lock[j].mode = "read"

-----------------------------------------------------------------------------
Idle == [pc |-> "idle", cmd |-> None, name |-> None, hash |-> None]

\* The configured queues exist from the start (run, server.rs:252-256).  A
\* name configured twice leaves the queue of the first entry without a name.
Init ==
    /\ \E configured \in SUBSET Names :
          \E hash \in [configured -> Hashes], nameless \in SUBSET Hashes :
              /\ IsInjective(hash)
              /\ Cardinality(nameless) <= Cardinality(configured)
              /\ queue_names = hash
              /\ queue = Range(hash) \cup nameless
    /\ names_lock = << >> /\ queue_lock = << >>
    /\ task = [t \in Tasks |-> Idle]
    /\ reply = [cmd |-> None, code |-> None]

At(t, pc) == task[t].pc = pc
Goto(t, pc) == task' = [task EXCEPT ![t].pc = pc]

\* The handler ends with a response.
Answer(t, code) ==
    /\ task' = [task EXCEPT ![t] = Idle]
    /\ reply' = [cmd |-> task[t].cmd, code |-> code]

\* Bug variant: the nil Uuid.
Fresh_nil == {None}

\* Uuid::new_v4: a hash nothing refers to.
Fresh == Hashes \ (queue \cup Range(queue_names) \cup {task[t].hash : t \in Tasks})

\* A request arrives; the handler asks for its first lock.
Start(t, cmd, name) ==
    /\ At(t, "idle")
    /\ task' = [task EXCEPT ![t] = [pc |-> "first", cmd |-> cmd, name |-> name, hash |-> None]]
    /\ IF cmd = "Queue"
         THEN queue_lock' = Acquire(queue_lock, t, "read") /\ UNCHANGED names_lock
         ELSE /\ names_lock' = Acquire(names_lock, t, IF cmd \in {"CreateQ", "DeleteQ"}
                                                        THEN "write" ELSE "read")
              /\ UNCHANGED queue_lock
    /\ UNCHANGED <<registry, reply>>

-----------------------------------------------------------------------------
(***************************************************************************)
(* Requests that work on one queue.                                        *)
(***************************************************************************)

\* queue.read() is granted; get_queue asks for names.read().
QueueEnter(t) ==
    /\ At(t, "first") /\ task[t].cmd = "Queue" /\ Granted(queue_lock, t)
    /\ names_lock' = Acquire(names_lock, t, "read")
    /\ Goto(t, "lookup")
    /\ UNCHANGED <<registry, queue_lock, reply>>

\* Bug variant: the registry's lock is given back once the queue is found.
get_queue_unguarded(t) ==
    LET name == task[t].name
        hash == IF name \in DOMAIN queue_names THEN queue_names[name] ELSE None
    IN  /\ At(t, "lookup") /\ Granted(names_lock, t)
        /\ names_lock' = Release(names_lock, t)
        /\ queue_lock' = Release(queue_lock, t)
        /\ IF hash \in queue
             THEN task' = [task EXCEPT ![t].pc = "work", ![t].hash = hash] /\ UNCHANGED reply
             ELSE Answer(t, IF hash = None THEN "QueueHashNotFound" ELSE "QueueNotFound")
        /\ UNCHANGED registry

\* names.read() is granted for the one statement that copies the hash.
get_queue(t) ==
    LET name == task[t].name
        hash == IF name \in DOMAIN queue_names THEN queue_names[name] ELSE None
    IN  /\ At(t, "lookup") /\ Granted(names_lock, t)
        /\ names_lock' = Release(names_lock, t)
        /\ IF hash \in queue
             THEN /\ task' = [task EXCEPT ![t].pc = "work", ![t].hash = hash]
                  /\ UNCHANGED <<queue_lock, reply>>
             ELSE /\ Answer(t, IF hash = None THEN "QueueHashNotFound" ELSE "QueueNotFound")
                  /\ queue_lock' = Release(queue_lock, t)
        /\ UNCHANGED registry

\* The work on the queue, the response (its code is Broker's subject), and the
\* end of the handler.
QueueWork(t) ==
    /\ At(t, "work") /\ task[t].cmd = "Queue"
    /\ Answer(t, "Handled")
    /\ queue_lock' = Release(queue_lock, t)
    /\ UNCHANGED <<registry, names_lock>>

-----------------------------------------------------------------------------
(***************************************************************************)
(* CreateQ and DeleteQ, run by the connection itself.                      *)
(***************************************************************************)

\* names.write() is granted; queue.write() is asked for.
WriterEnter(t) ==
    /\ At(t, "first") /\ task[t].cmd \in {"CreateQ", "DeleteQ"} /\ Granted(names_lock, t)
    /\ queue_lock' = Acquire(queue_lock, t, "write")
    /\ Goto(t, "second")
    /\ UNCHANGED <<registry, names_lock, reply>>

\* Bug variant: the request is tried again until it can be done.
WriteRejected_retries(t) ==
    /\ At(t, "second") /\ task[t].cmd \in {"CreateQ", "DeleteQ"} /\ Granted(queue_lock, t)
    /\ (task[t].name \in DOMAIN queue_names) = (task[t].cmd = "CreateQ")
    /\ Goto(t, "first")
    /\ names_lock' = Acquire(Release(names_lock, t), t, "write")
    /\ queue_lock' = Release(queue_lock, t)
    /\ UNCHANGED <<registry, reply>>

\* The request asks for what is already so: CreateQ of a name that exists,
\* DeleteQ of one that does not.
WriteRejected(t) ==
    /\ At(t, "second") /\ task[t].cmd \in {"CreateQ", "DeleteQ"} /\ Granted(queue_lock, t)
    /\ (task[t].name \in DOMAIN queue_names) = (task[t].cmd = "CreateQ")
    /\ Answer(t, IF task[t].cmd = "CreateQ" THEN "QueueAlreadyExists" ELSE "QueueDoesNotExist")
    /\ names_lock' = Release(names_lock, t)
    /\ queue_lock' = Release(queue_lock, t)
    /\ UNCHANGED registry

\* The name comes first.
InsertName(t) ==
    /\ At(t, "second") /\ task[t].cmd = "CreateQ" /\ Granted(queue_lock, t)
    /\ task[t].name \notin DOMAIN queue_names
    /\ \E hash \in Fresh :
         /\ queue_names' = [n \in DOMAIN queue_names \cup {task[t].name} |->
                              IF n = task[t].name THEN hash ELSE queue_names[n]]
         /\ task' = [task EXCEPT ![t].pc = "half", ![t].hash = hash]
    /\ UNCHANGED <<queue, locks, reply>>

\* Bug variant: DeleteQ leaves the name in the map.
RemoveName_keeps_name(t) ==
    /\ At(t, "second") /\ task[t].cmd = "DeleteQ" /\ Granted(queue_lock, t)
    /\ task[t].name \in DOMAIN queue_names
    /\ task' = [task EXCEPT ![t].pc = "half", ![t].hash = queue_names[task[t].name]]
    /\ UNCHANGED <<registry, locks, reply>>

RemoveName(t) ==
    /\ At(t, "second") /\ task[t].cmd = "DeleteQ" /\ Granted(queue_lock, t)
    /\ task[t].name \in DOMAIN queue_names
    /\ queue_names' = Restrict(queue_names, DOMAIN queue_names \ {task[t].name})
    /\ task' = [task EXCEPT ![t].pc = "half", ![t].hash = queue_names[task[t].name]]
    /\ UNCHANGED <<queue, locks, reply>>

\* Bug variant: DeleteQ leaves the queue in the map.
WriteQueue_keeps_queue(t) ==
    /\ At(t, "half")
    /\ queue' = IF task[t].cmd = "CreateQ" THEN queue \cup {task[t].hash} ELSE queue
    /\ Answer(t, "Succeeded")
    /\ names_lock' = Release(names_lock, t)
    /\ queue_lock' = Release(queue_lock, t)
    /\ UNCHANGED queue_names

\* Then the queue; both locks are given back.
WriteQueue(t) ==
    /\ At(t, "half")
    /\ queue' = IF task[t].cmd = "CreateQ" THEN queue \cup {task[t].hash}
                                           ELSE queue \ {task[t].hash}
    /\ Answer(t, "Succeeded")
    /\ names_lock' = Release(names_lock, t)
    /\ queue_lock' = Release(queue_lock, t)
    /\ UNCHANGED queue_names

-----------------------------------------------------------------------------
(***************************************************************************)
(* ListM: works on copies of both maps.                                    *)
(***************************************************************************)

ListNames(t) ==
    LET name == task[t].name
    IN  /\ At(t, "first") /\ task[t].cmd = "ListM" /\ Granted(names_lock, t)
        /\ names_lock' = Release(names_lock, t)
        /\ IF name \in DOMAIN queue_names
             THEN /\ task' = [task EXCEPT ![t].pc = "second", ![t].hash = queue_names[name]]
                  /\ queue_lock' = Acquire(queue_lock, t, "read")
                  /\ UNCHANGED reply
             ELSE Answer(t, "QueueHashNotFound") /\ UNCHANGED queue_lock
        /\ UNCHANGED registry

ListQueue(t) ==
    /\ At(t, "second") /\ task[t].cmd = "ListM" /\ Granted(queue_lock, t)
    /\ queue_lock' = Release(queue_lock, t)
    /\ IF task[t].hash \in queue THEN Goto(t, "work") /\ UNCHANGED reply
                                 ELSE Answer(t, "QueueHashNotFound")
    /\ UNCHANGED <<registry, names_lock>>

ListWork(t) ==
    /\ At(t, "work") /\ task[t].cmd = "ListM"
    /\ Answer(t, "Succeeded")
    /\ UNCHANGED <<registry, locks>>

-----------------------------------------------------------------------------
(***************************************************************************)
(* NetStats.                                                               *)
(***************************************************************************)

StatsEnter(t) ==
    /\ At(t, "first") /\ task[t].cmd = "NetStats" /\ Granted(names_lock, t)
    /\ queue_lock' = Acquire(queue_lock, t, "read")
    /\ Goto(t, "second")
    /\ UNCHANGED <<registry, names_lock, reply>>

StatsWork(t) ==
    /\ At(t, "second") /\ task[t].cmd = "NetStats" /\ Granted(queue_lock, t)
    /\ Answer(t, "Succeeded")
    /\ names_lock' = Release(names_lock, t)
    /\ queue_lock' = Release(queue_lock, t)
    /\ UNCHANGED registry

-----------------------------------------------------------------------------
\* A handler's next step.
Step(t) ==
    \/ QueueEnter(t) \/ get_queue(t) \/ QueueWork(t)
    \/ WriterEnter(t) \/ WriteRejected(t) \/ InsertName(t) \/ RemoveName(t) \/ WriteQueue(t)
    \/ ListNames(t) \/ ListQueue(t) \/ ListWork(t)
    \/ StatsEnter(t) \/ StatsWork(t)

Next ==
    \E t \in Tasks :
        Step(t) \/ \E cmd \in Commands, name \in Names : Start(t, cmd, name)

Spec == Init /\ [][Next]_vars

\* A handler whose lock is granted is polled again, and its work on the
\* queue ends (a sleeping Dequeue is woken by its timer).
FairSpec == Spec /\ \A t \in Tasks : WF_vars(Step(t))

-----------------------------------------------------------------------------
\* Type invariant.
TypeOK ==
    /\ DOMAIN queue_names \subseteq Names /\ Range(queue_names) \subseteq Hashes
    /\ queue \subseteq Hashes
    /\ \A lock \in {names_lock, queue_lock} :
         lock \in Seq([task : Tasks, mode : {"read", "write"}])
    /\ task \in [Tasks -> [pc : {"idle", "first", "lookup", "second", "half", "work"},
                           cmd : Commands \cup {None}, name : Names \cup {None},
                           hash : Hashes \cup {None}]]
    /\ reply.cmd \in Commands \cup {None}

\* A handler that has found its queue with get_queue works on a queue that is
\* registered until it is done: DeleteQ cannot take the queue away under an
\* Enqueue that then answers Succeeded (the guard of queue.read is kept to the
\* end of the handler, server.rs:317, 461).  ListM is no such handler: it works
\* on a copy of the map and may list a queue that was deleted meanwhile.
WorksOnRegistered ==
    \A t \in Tasks : task[t].cmd = "Queue" /\ At(t, "work") => task[t].hash \in queue

\* No get_queue ever sees a name without its queue: its QueueNotFound
\* (server.rs:307) is never sent, although CreateQ and DeleteQ update the two
\* maps one after the other.  ListM, which gives the names up before it looks at
\* the queues, may; it answers QueueHashNotFound (server.rs:572).
NoHalfRegistered == reply.code # "QueueNotFound"

\* A queue no name leads to keeps its memory and can never be deleted: no
\* step leaves one behind (the configuration may, at the start).
Nameless ==
    queue \ (Range(queue_names) \cup {task[t].hash : t \in {u \in Tasks : At(u, "half")}})
NoNewNameless == [][Nameless' \subseteq Nameless]_vars

\* Every request is answered in the end (read_response, server_tests.rs:53,
\* fails a test when it is not).
EveryRequestAnswered == \A t \in Tasks : ~At(t, "idle") ~> At(t, "idle")

\* The handlers that take the names before the queues (CreateQ, DeleteQ, ListM,
\* NetStats) do not block one another for ever: as long as no request on one
\* queue comes, which takes them the other way round (server.rs:461, 300), every
\* request is answered.
AnsweredWithoutQueueRequests ==
    [](\A t \in Tasks : task[t].cmd # "Queue") => EveryRequestAnswered
=============================================================================
