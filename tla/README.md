# A TLA+ model of the Rust data broker

The broker (`src/src`) is a TCP server that keeps named message queues in
memory. Producers enqueue, consumers lock a message with `Dequeue` and settle it
with `Succeeded` (acknowledge) or `Failed` (refuse). This directory holds a
specification of it, the TLC runs that check it on small instances, and TLAPS
proofs of its main invariants for every instance.

## The system

| Part | State | Operations | Hard because |
|---|---|---|---|
| `Queue` (`net/queue.rs`) | `order`, `queue`, `locked`, `next_id`, config, `biggest_payloads` | `enqueue`, `lock_to_read`, `dequeue`, `unlock`, `requeue`, `update_message`, configuration, totals | ids are removed by tombstones, drained later, reused and wrapped; a lock lives in two places; one cursor for all consumers |
| Request handlers (`net/server.rs`, `read_buffer`) | none of their own; one task per request | twelve requests | tasks interleave whenever they give up the queue's mutex; `Dequeue` does so three times, once for the length of a timer |
| Registry (`Server::queue_names`, `Server::queue`) | name → hash, hash → queue, each behind a `tokio` RwLock | `CreateQ`, `DeleteQ`, lookup, `ListM`, `NetStats` | two locks, taken in two different orders |
| Worker pool and connections (`Pool`, `run`, `handle_connection`) | one runtime and one bounded channel per worker, pressure counters, `active_connections` | accept, dispatch, serve | counters are read one by one and raised later; a hand-over blocks on a full channel; handlers live on the runtime of the worker that read the request, and stop with its connection |
| Framing (`read_buffer`) | a byte buffer per connection | read, split, refuse, run or spawn | requests arrive in pieces and several to a read; two of them are run by the reader, the others are unordered tasks |
| Arena allocator (`memory/allocator.rs`) | `used`, `offset`, free list, `LOCKED_SIZE` | alloc, dealloc, defragment, `set_locked_size` | lock-free counters beside a locked list; the reservation is moved by the server |
| Shutdown (`main.rs`) | three `Notify` | signal, drain, stop | `notify_waiters` is lost on a task that is not waiting; the end of `main` waits for threads that are blocked |
| Configuration file, report layout | – | parsing and printing | – |

A request is read by a connection, which runs `CreateQ` and `DeleteQ` itself and
spawns a task for any other request. The task looks the queue up in the registry
(keeping a read guard on the map of queues until it ends), takes the queue's
mutex, works on the queue, moves the allocator's reservation where the payload
calls for it, and writes the response.

What makes each part correct:

* Queue: a stored message is always reachable through `order`; a lock is always
  known to its holder; a message is handed out in order, to one client at a time,
  until it is settled; a message that nobody was handed stays.
* Handlers: a request touches only what it names; a refused message can be handed
  out again; an unsettled message comes back after the timeout.
* Registry: a name always leads to its queue; a queue is not taken away under a
  handler that works on it; handlers do not block one another for ever.
* Framing: the requests taken off the buffer are the ones that were sent; nothing
  that could be acted on is left in it; a `CreateQ` is over before what follows it.
* Pool: a connection is in one place, the counters are exact, an accepted
  connection is served.
* Shutdown: a stop signal ends the process, whichever notifications are lost.
* Allocator: every byte below the bump pointer has one owner; a value fits its
  slot; `used` is exact, although no lock covers it; the reservation is kept free.

The code does not keep all of this. Where it does not, the section on runs says what
happens, and the properties that do hold say what is left. In
particular ids are not unique: behind a trailing tombstone, and after a wrap, `enqueue`
hands out an id that a stored message or a lock list may still use.

`PROJECT.json` lists the hazards line by line, with the properties that watch
them.

## Modules

| Module | Models | Extends |
|---|---|---|
| `Queue` | every method of `Queue`, as operators from a queue to the queue it leaves and its result | – |
| `Broker` | the handlers of one queue as actions; `Dequeue` is one action per stretch under the mutex (`Dequeue`, `Deliver` or `DeliveryFails`, `ReadConfig`, `AutoFail`) | `Queue` |
| `Visibility` | a queue with auto-fail on; the timeout's safety and liveness | `Broker` |
| `Disconnect` | a consumer's connection ends and its worker's runtime stops | `Visibility` |
| `Fifo` | abstract specification: what the queue promises one consumer | – |
| `SingleConsumer` | the discipline under which `Broker` implements `Fifo`, and the refinement mapping | `Broker`, instantiates `Fifo` |
| `Registry` | the two maps, their locks, and the lock order of every handler | – |
| `Connection` | the reader of one connection: its buffer, the split into requests, inline and spawned dispatch | – |
| `Pool` | choice of a worker, pressure, channels, the life of a connection | – |
| `Shutdown` | start-up, accept loop, drain, signals and the end of the process, composed with the pool | `Pool` |
| `Arena` | the global allocator, one step per atomic access and critical section | – |
| `Facts` | lemmas about least elements, sequences, recursive functions and sums over sets | – |
| `BrokerProofs` | theorems about `Broker` | `Broker`, `Facts` |
| `SingleConsumerProofs` | theorems about `SingleConsumer`: the refinement of `Fifo` | `SingleConsumer`, `BrokerProofs` |
| `VisibilityProofs` | the theorem about `Visibility` | `Visibility`, `BrokerProofs` |
| `RegistryProofs` | theorems about `Registry` | `Registry`, `Facts` |
| `ConnectionProofs` | theorems about `Connection` | `Connection`, `Facts` |
| `PoolProofs` | theorems about `Pool` and `Shutdown` | `Shutdown`, `Facts` |
| `ArenaProofs` | theorems about `Arena` | `Arena`, `Facts` |
| `MC*` | instances for TLC | the module named |

How the state corresponds to the code:

* `q` is one `Queue` structure. `queue` and `locked` are functions on the keys of
  the hash maps; `None` is `Option::None`. Ids are `1..IdMax` with `IdMax` for
  `u128::MAX`, and addition wraps to the tombstone 0 as `overflowing_add` does.
  `biggest` is slot 4 of `biggest_payloads`, the only one that is read.
  `publisher_id` and `timestamp` are stored and never looked at: left out.
* `delivery[d]` is a `Dequeue` handler between two stretches under the mutex:
  `write` (the message is being written), `config` (it will look at the
  configuration), `sleep` (the timer runs).
* `locked_size` is `LOCKED_SIZE`. The allocator's `used` changes with every
  allocation of the process, so `set_locked_size` meets any value of it. Its check and
  its store are one step in `Broker`, where nothing depends on what happens between
  them, and two in `Arena`.
* `reply` is the last response. A panic sends none: `NoResponse`.
* In `Registry` a lock is the sequence of requests for it in the order they
  were made, which is the order `tokio`'s fair RwLock serves; a read is granted
  when only reads are ahead of it. "Queue" is any request on one queue: its work
  is one step there and is spelled out in `Broker`. `Succeeded` reports a failed
  lookup as `NoSuchMessageIdLocked`; the other handlers send the lookup's code.

* In `Connection` a request is its kind (run by the reader, a task, unknown) and
  the length of its payload; the stream is a sequence of requests, and `arrived`
  and `consumed` are byte positions in it, so what the reader finds at a wrong
  position is garbage. The limit that depends on free memory may refuse any
  header.
* In `Pool` a connection goes through the stages of its task (`choose`, `count`,
  `send`), its place in a channel and its reader. `min_by_key` is one step per
  counter. `told` are readers in `select!` that `stop_word` reached and that have
  not looked yet; `select!` may take the bytes instead, and the notification is
  gone.
* In `Shutdown` `main` and `acceptor` are the places of `main` and of
  `Server::run`. When `main` returns, its runtime drops its tasks (the accept loop
  and the hand-overs that have not reached `send`) and waits for the threads of
  `spawn_blocking`; the workers are plain threads and run until the process ends.
* In `Arena` addresses are offsets from the page-aligned base, slots carry the
  layout they were asked for, `thread[t]` is what a call has read and not yet
  written. `compare_exchange_weak` may fail for no reason. The bump allocation is
  one step: `offset` only grows. `DefragThread` tells the builds apart: the Unix
  `init` does not start the thread (`allocator.rs:278-310`), although `CHANGELOG.md:11`
  names it without that exception.

Two stretches of a handler between which it holds the mutex are one action,
since no other handler can look at the queue: this includes the writing of a
response under the mutex. Requests of one connection are not ordered by the code
(each is a task) except `CreateQ` and `DeleteQ`; a client id is whatever the
request says, so one client may be on several connections. The model lets any
client send any request at any time.

Operators marked "Bug variant" are not part of the model: they are mutations of
the operator that follows them, used to confirm that a property notices.

## Runs

| Run | Checks | Bounds |
|---|---|---|
| `broker` (`MCBroker.cfg`) | `TypeOK`, `StoredInOrder`, `HolderCanRelease`, `StatsCoverLocks`, `OthersUntouched` | 2 clients, ids 1..2 (they wrap and collide within a few requests), `order` up to 3 entries with a drain threshold of 2 (so drains of some and of all entries happen), lock lists up to 2, one delivery in progress, writes may fail, `UpdateQ` with every combination of fields while a delivery sleeps |
| `visibility` (`MCVisibility.cfg`) | `LockIsTimed`, `LocksExpire` (liveness) | 2 clients, 2 deliveries, ids 1..2, auto-fail on; no `Failed` and no `Requeue` (the theorem `EveryLockIsTimed` has them) |
| `single_consumer` (`MCSingleConsumer.cfg`) | `ImplementsFifo`, `Partition` | a producer and a consumer, 2 payloads, ids 1..5, up to 3 locks |
| `registry` (`MCRegistry.cfg`) | `TypeOK`, `WorksOnRegistered`, `NoHalfRegistered`, `NoNewNameless`, `AnsweredWithoutQueueRequests` (liveness) | 3 handlers, 1 name, 2 hashes (one may belong to a queue without a name), every request |
| `connection` (`MCConnection.cfg`) | `TypeOK`, `RequestsAsSent`, `NothingLeftBuffered`, `AfterCreateOrDelete`, `ReadsAgain` (liveness) | every stream of up to 3 requests of 6 kinds, every cut into reads; a header of 2 bytes, a name of 1, payloads of 0, 1 and (too large) 2 |
| `pool` (`MCPool.cfg`) | `JobsKept`, `CountersExact`, `AcceptedIsServed` (liveness) | 3 connections, 2 workers, channels of 1 |
| `shutdown` (`MCShutdown.cfg`) | `TypeOK`, `StopEnds` (liveness) | 3 connections, 1 worker with a channel of 1: one is served, one queued, one blocked in `send` |
| `arena` (`MCArena.cfg`) | `TypeOK`, `OneOwner`, `ValueFits`, `UsedIsExact`, `FreeMemory` | 2 threads, 64 bytes, slots of 24, 32 and 40 bytes (splits, remainders too small to split, merges, refusals by the ceiling and by the bump pointer all happen), a reservation of 24, every second free asks for a defragmentation |

`broker` and `arena` use symmetry of clients, deliveries and threads, and the first
leaves the last response out of the state (no action reads it); the liveness runs use
neither. `MaxOrder` and `MaxHeld` bound requests that add to a list; nothing else is
cut. The two-entry drain threshold stands for `MAGIC_DRAIN_VEC` = 10, and the theorems
below hold for any threshold. In `arena` 2 for the 32 frees between defragmentations
makes more of them happen, never fewer. One name is enough in `registry`, since the
locks are on whole maps; its invariants are also proved for any number. Runs of the
pool, of connections and of shutdown turn the deadlock check off: all connections may
be over, and the process may have ended. `registry` does so because its handlers can
really block one another (`claim_deadlock`); `AnsweredWithoutQueueRequests` says that
it takes a request on one queue to do so.

`OthersUntouched` is the frame of every step, message by message: payload and lock of
each stored message stay as they were unless the step is one of those it lists, and
for each of these it says which message may change and whether more than its lock may.
The list has the exceptions the code really makes, the unwelcome ones by name: an
`Enqueue` or `Requeue` overwrites what is stored under the id it takes, a `DeleteM` of
an id that is not stored removes the oldest message its caller was handed, and an
acknowledgement of a message that another client removed panics and is not answered.
Nothing else happens. A requeued message is kept, under the id of its copy, unless the
copy takes the id of the original.

`WorksOnRegistered` and `NoHalfRegistered` are about the handlers that look a queue up
with `get_queue`. `ListM` is not one of them: it reads the hash and gives the names
back before it asks for the queues (`server.rs:551-556`), so it can meet a name whose
queue is gone, and answers `QueueHashNotFound`.

`FreeMemory` bounds the hazard at `allocator.rs:275`: `used` may exceed the capacity
while calls are under way, by less than a node for each thread, and
`get_free_mem_size` then wraps (or panics in a debug build); with no call under way it
cannot. It does not speak of the reservation (see below).

Runs that end in a counterexample, each for a statement of the repository (the
lines are in `PROJECT.json`, "findings"):

| Run | The statement | What happens |
|---|---|---|
| `claim_deadlock` | every request is answered | `CreateQ` holds the names and waits for the queues, another handler the reverse |
| `claim_disconnect` | an unacknowledged message goes back | the consumer disconnected, and its worker's runtime stands still with the timer in it |
| `claim_delete` | `DeleteM` removes no message but the one it names | the id is not stored, `dequeue` falls through to the caller's lock list, removes its oldest message and answers `Succeeded` |
| `claim_shutdown` | without a timeout the process stops immediately | a hand-over is blocked on a full channel, `stop_word` was lost on the reader ahead of it, and the drop of the runtime waits |

Other statements of the repository that the code does not always keep, each within what
the properties above allow, and without a run of their own:

* "every producer payload was received by some consumer" (`load_tests.rs:127`): when
  `order` ends in a tombstone the next id is 1 (`queue.rs:189`); if a consumer still
  holds message 1, the new message replaces it, and that consumer's acknowledgement
  removes the new message unread. `OthersUntouched` lists the overwritten message.
* `Requeue` "moves a message to the back of the queue" (`CHANGELOG.md:216`): with
  `order` = 1, tombstone, the copy of message 1 gets id 1 and is removed with the
  original (`queue.rs:392`). `OthersUntouched` says that there is no other such case.
* `Failed` "unlocks the message so it can be dequeued again" (`CHANGELOG.md:214`): an
  acknowledgement may leave the cursor on a message that is gone, and a refusal of a
  message with a larger id does not move it (`queue.rs:366`), so that every `Dequeue`
  finds no such message. `single_consumer` has the discipline that avoids it.
* The reservation "ensur[es] headroom for incoming messages" (`CHANGELOG.md:12-13`):
  the ceiling of `reserve_used` is older than the exchange it guards, `set_locked_size`
  stores what it checked earlier, and the excess of a slot is added without a check.

`single_consumer` shows what the queue does keep: one consumer, no removal by id,
and refusals only while one message is held, and the code is a FIFO although ids
are tombstoned and drained. The disconnect and the deadlock reinforce one another,
since a frozen handler keeps its guard on the map of queues.

## Fairness

`Fairness` in `Broker` is weak fairness of the steps of a delivery: a ready task
is polled again by its runtime, the write to a client that reads completes, and
the timer fires. The code gives this only while the connection that sent the
`Dequeue` is open; `visibility` assumes that it is and that writes succeed. Both
assumptions are needed: after a failed write the handler returns before it starts
the timer (`server.rs:330`, the action `DeliveryFails`), and `claim_disconnect`
shows what an ended connection does.
Requests are never fair: no client has to send anything. In `Registry` each
handler's next step is weakly fair: `tokio`'s RwLock is first come, first served,
so a granted lock stays granted until it is used. For `registry` this includes
that work on a queue ends.

In `Connection` only `Parse` is fair, the loop over the buffer: it has no await, so the
worker that entered it leaves it. Nothing is assumed of the client, of the tasks, of
memory, or of the registry's locks, for which a `CreateQ` or `DeleteQ` makes the
reader wait; `ReadsAgain` allows for a reader that waits for them for ever, since
`claim_deadlock` shows that it may.
`Pool` and `Shutdown` assume that tasks and threads are scheduled and that a request
that was read is dispatched. `pool` and `shutdown` also assume that clients do not
stay connected for ever, which the code cannot enforce: it has no idle timeout, and
a worker serves a connection until it ends. `claim_shutdown` drops that assumption.
No signal and no request has to come.

## Proofs

Every safety property the runs check, the refinement of `Fifo` included, is also a
theorem: it holds for every value of the constants that satisfies the `ASSUME` of
its module, which TLC evaluates in every run. The assumptions are what the code
gives: positive sizes, ids, thresholds and limits, finitely many clients, threads,
connections and handlers, and `None` a value of its own.

| Module | Inductive invariant | Theorems |
|---|---|---|
| `BrokerProofs` | `IInv == TypeOK /\ Good(q)` | `TypeCorrect`, `NoMessageCutOff` (`StoredInOrder`), `NoOrphanedLock` (`HolderCanRelease`), `StatsNeverMissALock` (`StatsCoverLocks`), `OthersAreUntouched` (`OthersUntouched`) |
| `SingleConsumerProofs` | `SInv == IInv /\ HasLayout(q) /\ NoTimer` | `LayoutKept`, `EveryMessageOnce` (`Partition`), `QueueIsFifo` (`ImplementsFifo`) |
| `VisibilityProofs` | `TimedInv == IInv /\ AutoFails(q) /\ LockIsTimed` | `EveryLockIsTimed` (`LockIsTimed`) |
| `RegistryProofs` | `RegistryInv` | `RegistryTyped`, `NoQueueTakenAway` (`WorksOnRegistered`), `NoHalfRegisteredSeen` (`NoHalfRegistered`), `NoQueueLeaks` (`NoNewNameless`) |
| `ConnectionProofs` | `ReaderInv` | `ReaderTyped`, `FramingIsExact` (`RequestsAsSent`), `NoPipelineStall` (`NothingLeftBuffered`), `InlineIsBarrier` (`AfterCreateOrDelete`) |
| `PoolProofs` | `PoolInv`, with `ProcTypeOK` | `NoJobLost` (`JobsKept`), `CountersAreExact` (`CountersExact`), `ProcessTyped` |
| `ArenaProofs` | `ArenaInv` | `ArenaTyped`, `EveryWordHasOneOwner` (`OneOwner`), `NoValueTooLarge` (`ValueFits`), `NoByteMiscounted` (`UsedIsExact`), `FreeMemoryBounded` (`FreeMemory`) |

**Broker.** `Good` is the type of the queue, `StoredInOrder` and `HolderCanRelease`.
The parts lean on one another: that a drain drops nothing stored needs stored ids to
be different from 0, which is in the type; that the cursor is never 0 needs the entry
after it to be an entry of `order`; that a lock that moves keeps its list entry needs
lists to be sequences of ids. There is one lemma per operator on `order`
(`Tombstone`, `remove_zeroes`, `Successor`, `new_id`: what they keep), one per method
of the queue (the method leaves a `Good` queue), and one per action.
`StatsNeverMissALock` follows from `HolderCanRelease`: the locked messages are
contained in the union of the lock lists, and a union has at most as many elements
as the lists are long together (`UnionBound`). `OthersAreUntouched` is an action
property: each method is shown to agree with the queue it was given on every id but
those listed (one lemma per method, `EnqueueKeeps` to `RequeueKeepsOthers`), and each
handler to answer unless it met a lock on a message that is gone (`RequestReach`,
`DeliveryReach`). It needs the invariant where a method follows an id from `order` or
from a lock list to the map.

**SingleConsumer.** Neither `Partition` nor the refinement follows from what holds of
every queue. `HasLayout` says how `order` looks under the discipline: some number of
tombstones, then the ids handed out, exactly as the consumer's lock list has them, then
the ids that wait, unlocked, the first of them under the cursor (no cursor when none
waits); ids rise, and the stored messages are those of the ids that are not
tombstones. Each method moves one of the two borders (`PutLaid`, `TakeLaid`, `AckLaid`,
`NackLaid`, `UpdateLaid`), and the drain cuts off tombstones only (`DrainLaid`). Under
the refinement mapping the two parts are the abstract `pending` and `inflight` (`Seen`),
so that each move is a step of `Fifo` (`FifoStep`, `StepFifo`). The discipline is used
where one expects it: `NoWrap` keeps ids rising, a refusal with one message held puts
the cursor right in front of what waits, and with no `UpdateQ` no timer interferes
(`NoTimer`). `ConsumerAssumption` also says that `None` is not a response code, which
the mapping of `answer` needs.

**Visibility.** The invariant needs that of `BrokerProofs`: a timer that does not
find its message in its client's lock list leaves the queue alone, and only
`HolderCanRelease` says that the message is then not locked by that client; a timer
that finds it calls `unlock`, which gives up on an empty `order`, and only
`StoredInOrder` says that nothing is locked then. Every method but `lock_to_read` is
shown to lock nothing (`LocksNothing`, one lemma per method), so that the actions
that leave deliveries alone need one argument.

**Registry.** `RegistryInv` says of each of the two locks which handlers have asked
for it, in which mode, and which have been granted it, from where each handler is
(`LockOK`). A granted write excludes every other grant, so a handler between the two
updates of `CreateQ` or `DeleteQ` is the only one that looks at the maps: that is
what `WorksOnRegistered`, `NoHalfRegistered` and `NoNewNameless` rest on, and why none
of them is inductive without the locks.

**Connection.** `Start`, the byte at which a request begins, is a recursive function
over the stream; that it is defined and grows by each request's length is an
induction over a range of numbers (`RunningSum`). With it the reader's position is the
start of the first request that was not dispatched, whatever was read when. The
fairness in `Spec` is not used.

**Pool and Shutdown.** `PoolInv` is the conjunction of the type, `JobsKept` and
`CountersExact`. A step moves one connection from stage to stage; the proof follows
the four sets of connections that the channels and counters are about. Every
step of `Shutdown` is a step of the pool or leaves what the invariant speaks of alone;
`stop_word` changes only which readers have been told.

**Arena.** `ArenaInv` says that live slots, free list and the slots that threads have
taken off the list and not yet published *tile* the memory below the bump pointer
(`Tiled`: aligned pieces of 16 bytes or more, pairwise apart, no byte left out), that
`used` is the sum of the live slots and of what each call owes, that a live slot has
room for its layout, and what a call under way relies on (`CallOK`). There is one lemma
per way memory changes hands (`TiledBump`, `TiledPlace`, `TiledTake`, `TiledSplit`,
`TiledFree`, `TiledReplace`), two inductions along the list for the sort and the merge
of `defragment` (`SortedSame`, `MergedSame`: the same bytes, in pieces apart), and one
lemma per action. `FreeMemory` needs more than its two conjuncts: `Ceiling` counts
the calls that may still add the excess of a slot, since `used` is checked against
the ceiling before the excess is known; and that `used` is at most the bump pointer
is an induction over sets of disjoint pieces (`SizesBelowTop`).

**Facts.** The folds of the community modules are `CHOOSE`n recursive functions, about
which the provers know nothing. `RecursionExists` and `SumExists` show that the
function exists, `SetSumStep` that a sum over a finite set does not depend on the
order in which elements are taken; everything about sums follows from that. Induction
is by least counterexample (`MinIsLeast`, `SmallestSet`), which rests on the
well-foundedness of `<` alone.

Only model-checked: liveness (`LocksExpire`, `AnsweredWithoutQueueRequests`,
`ReadsAgain`, `AcceptedIsServed`, `StopEnds`), which rests on fairness and is
out of the prover's reach. The four claims that TLC refutes are not theorems.

## Not modelled

* Byte formats (headers, message records, the statistics report), logging, and the
  text of the configuration file: whether it can be read is a choice in `Boot`.
  `NetQueueConfig` is modelled by what parsing yields: each field present or not, or
  an error. A request whose payload is too short for an id is `id = None`.
* The system allocator that serves allocations before `init`, and the window between
  `init`'s two stores, in which allocations are refused, beyond the refusal itself.
* A poisoned mutex of the allocator, and failures of `sync_channel` that need a
  worker thread to die.
* The lower four slots of `biggest_payloads`, which no code reads.
* Time: a sleeping `Dequeue` keeps its guard on the map of queues for `fail_timeout`,
  so that a `CreateQ` and all that queue up behind it wait that long. This delay is
  finite and no property speaks about it.

## Plan

1. `Queue`, `Broker`, `Visibility`, `Disconnect`, `Fifo` with `SingleConsumer`,
   `Registry`, and the invariants of `Broker` proved: done.
2. `Arena`, `Pool`, `Shutdown`, `Connection`, and `LockIsTimed` proved: done.
3. The invariants and action properties of `Broker`, `Registry`, `Connection`, `Pool`,
   `Shutdown` and `Arena`, `Partition` and the refinement of `Fifo` proved: done.
4. Left: safety facts that liveness rests on, such as that a lock granted in
   `Registry` is always held by a handler that can take its next step.
