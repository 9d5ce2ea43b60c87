----------------------------- MODULE Connection -----------------------------
(***************************************************************************)
(* The reader of a connection: read_buffer, server.rs:411-455.             *)
(*                                                                         *)
(* The client's bytes arrive in pieces of any size.  The reader takes the  *)
(* complete requests off its buffer, runs CreateQ and DeleteQ itself,      *)
(* spawns a task for any other, and waits for more.  A header it does not  *)
(* like is answered with an error and ends the connection.                 *)
(*                                                                         *)
(* A request is a header (command, client, payload size), a queue name and *)
(* a payload.  What its handler does is in Broker and Registry; here it    *)
(* takes effect, is answered, or panics.                                   *)
(***************************************************************************)
EXTENDS Integers, Sequences, SequencesExt

CONSTANTS
    Header,         \* 25: command, client id, payload size
    Name,           \* 64: the queue name
    MaxPayload,     \* MAX_PAYLOAD_SIZE
    Streams         \* sequences of requests a client may send

Requests == [kind : {"inline", "task", "unknown"}, size : Nat]

ASSUME ConnectionAssumption ==
    /\ Header \in Nat \ {0} /\ Name \in Nat /\ MaxPayload \in Nat
    /\ Streams \subseteq Seq(Requests)

VARIABLES
    stream,         \* what the client sends
    arrived,        \* bytes of it that were read into the buffer
    consumed,       \* bytes that were taken off the buffer
    reader,         \* where read_buffer is
    requests        \* the requests it took, and what became of them

vars == <<stream, arrived, consumed, reader, requests>>

Total(request) == Header + Name + request.size

\* Where request i + 1 of the stream begins.
Start[i \in 0..Len(stream)] == IF i = 0 THEN 0 ELSE Start[i - 1] + Total(stream[i])

Garbage == [kind |-> "unknown", size |-> 0]

\* The request whose header is at this place in the stream; bytes that are no
\* header make no sense.
At(pos) ==
    LET is == {i \in DOMAIN stream : Start[i - 1] = pos}
    IN  IF is = {} THEN Garbage ELSE stream[CHOOSE i \in is : TRUE]

Buffered == arrived - consumed
Request == At(consumed)

\* Bug variant: the name is not counted.
Complete_nameless == Buffered >= Header + Request.size

Complete == Buffered >= Total(Request)

TooLarge == Request.size > MaxPayload

Acceptable == Request.kind # "unknown" /\ ~TooLarge

Init ==
    /\ stream \in Streams
    /\ arrived = 0 /\ consumed = 0
    /\ reader = "wait" /\ requests = << >>

-----------------------------------------------------------------------------
\* The read branch of select: some bytes.
read_buf(n) ==
    /\ reader = "wait" /\ arrived + n <= Start[Len(stream)]
    /\ arrived' = arrived + n
    /\ reader' = "parse"
    /\ UNCHANGED <<stream, consumed, requests>>

\* The end of the stream, an error, or stop_word: what is left in the buffer
\* is dropped.
read_ends ==
    /\ reader = "wait"
    /\ reader' = "closed"
    /\ UNCHANGED <<stream, arrived, consumed, requests>>

\* A command that is not known, a payload beyond the limit, or one beyond what
\* the allocator has left, which may be anything and is looked at again when
\* more of the request arrives: any header may be refused.
Refuse ==
    /\ reader = "parse" /\ Buffered >= Header
    /\ reader' = "refuse"
    /\ UNCHANGED <<stream, arrived, consumed, requests>>

\* The error response is written; read_buffer returns.
RefusalSent ==
    /\ reader = "refuse"
    /\ reader' = "closed"
    /\ UNCHANGED <<stream, arrived, consumed, requests>>

\* Bug variant: continue in place of break.
Incomplete_continues ==
    /\ reader = "parse"
    /\ Buffered < Header
    /\ reader' = "wait"
    /\ UNCHANGED <<stream, arrived, consumed, requests>>

\* Not enough for a header, or for the rest of the request.
Incomplete ==
    /\ reader = "parse"
    /\ Buffered < Header \/ (Acceptable /\ ~Complete)
    /\ reader' = "wait"
    /\ UNCHANGED <<stream, arrived, consumed, requests>>

\* Bug variant: one request for each read.
Again_once == "wait"

Again == "parse"

\* Bug variant: CreateQ and DeleteQ are spawned like the others.
Dispatched_spawned(request) == [state |-> "spawned", reader |-> Again]

\* CreateQ and DeleteQ wait for the write locks in the reader.
Dispatched(request) ==
    IF request.kind = "inline" THEN [state |-> "locking", reader |-> "lock"]
                               ELSE [state |-> "spawned", reader |-> Again]

\* Bug variant: the name stays in the buffer.
Split_nameless(request) == Header + request.size

\* split_to: what is taken off the buffer.
Split(request) == Total(request)

\* The request is taken off the buffer and dispatched.
Dispatch ==
    /\ reader = "parse" /\ Buffered >= Header
    /\ Acceptable /\ Complete
    /\ consumed' = consumed + Split(Request)
    /\ requests' = Append(requests, [frame |-> Request, state |-> Dispatched(Request).state])
    /\ reader' = Dispatched(Request).reader
    /\ UNCHANGED <<stream, arrived>>

\* The maps are updated and the locks given back; a task writes the response.
InlineDone ==
    /\ reader = "lock"
    /\ requests' = [requests EXCEPT ![Len(requests)].state = "done"]
    /\ reader' = Again
    /\ UNCHANGED <<stream, arrived, consumed>>

ReaderStep == Refuse \/ RefusalSent \/ Incomplete \/ Dispatch \/ InlineDone

\* The loop over the buffer, where the bytes alone decide: a header that could
\* be refused for want of memory need not be.
Parse == Incomplete \/ Dispatch \/ (~Acceptable /\ Refuse)

\* A handler: its effect or a panic, then its response.
Follows(state) ==
    CASE state = "spawned" -> {"done", "panicked"}
      [] state = "done"    -> {"answered"}
      [] OTHER             -> {}

\* The tasks of a connection run in any order.
Handler(i) ==
    /\ \E s \in Follows(requests[i].state) : requests' = [requests EXCEPT ![i].state = s]
    /\ UNCHANGED <<stream, arrived, consumed, reader>>

Next ==
    \/ \E n \in 1..Start[Len(stream)] : read_buf(n)
    \/ read_ends \/ ReaderStep
    \/ \E i \in DOMAIN requests : Handler(i)

\* The loop over the buffer has no await, so that the worker, which serves the
\* connection until it ends, runs it to its end.  Nothing is assumed of what
\* the reader awaits: that the client sends or reads, or that the locks of a
\* CreateQ are ever given to it.
Spec ==
    /\ Init /\ [][Next]_vars
    /\ WF_vars(Parse)

-----------------------------------------------------------------------------
\* Type invariant.  split_to would panic if it took more than was buffered.
TypeOK ==
    /\ stream \in Streams
    /\ arrived \in 0..Start[Len(stream)] /\ consumed \in 0..arrived
    /\ reader \in {"wait", "parse", "lock", "refuse", "closed"}
    /\ requests \in Seq([frame : Requests,
                         state : {"locking", "spawned", "done", "panicked", "answered"}])

\* However the bytes are cut into reads, the requests that are dispatched are
\* the ones that were sent, in their order, and none has taken a byte of the
\* next (server.rs:424-447).
RequestsAsSent ==
    /\ IsPrefix([i \in DOMAIN requests |-> requests[i].frame], stream)
    /\ consumed = Start[Len(requests)]

\* A reader that waits for bytes has nothing in its buffer that it could act
\* on: "pipelined requests could deadlock waiting for bytes that had already
\* arrived" (CHANGELOG.md:162).
NothingLeftBuffered ==
    reader = "wait" => Buffered < Header \/ (Acceptable /\ ~Complete)

\* What a client sends after a CreateQ or DeleteQ on the same connection is
\* handled after it: no handler starts while an earlier one of these waits for
\* the locks (server.rs:504-546).
AfterCreateOrDelete ==
    \A i, j \in DOMAIN requests :
        i < j /\ requests[i].frame.kind = "inline" => requests[i].state \in {"done", "answered"}

\* Whatever a read brought, the reader comes back to read more, also when it
\* holds a part of a request: "control returns to the outer `read_buf` select
\* instead of infinite-looping over the same header" (CHANGELOG.md:163).  The
\* exceptions are a header it refuses, which ends the connection, and a CreateQ
\* or DeleteQ that never gets its locks.  With NothingLeftBuffered, every
\* request that has arrived is dispatched by then.
ReadsAgain ==
    reader = "parse" ~>
        reader = "wait" \/ reader \in {"refuse", "closed"} \/ [](reader = "lock")
=============================================================================
