-------------------------- MODULE ConnectionProofs --------------------------
(***************************************************************************)
(* The reader's framing, proved for every stream of requests, every size   *)
(* of header, name and payload, and every way the bytes are cut into       *)
(* reads.  The fairness conjuncts of Spec are not used.                    *)
(***************************************************************************)
EXTENDS Connection, Facts

\* A request that was taken off the buffer.
States == {"locking", "spawned", "done", "panicked", "answered"}
Taken == [frame : Requests, state : States]

\* A CreateQ or DeleteQ is never left to a task, and it holds up the reader
\* until it is done.
InlineInReader ==
    \A i \in DOMAIN requests :
        /\ requests[i].frame.kind = "inline" =>
             requests[i].state \in {"locking", "done", "answered"}
        /\ requests[i].state = "locking" => i = Len(requests) /\ reader = "lock"

\* The inductive invariant.
ReaderInv ==
    /\ TypeOK /\ RequestsAsSent /\ NothingLeftBuffered /\ AfterCreateOrDelete
    /\ InlineInReader
    /\ reader = "lock" => requests # << >>

\* A request has a positive number of bytes.
LEMMA TotalPositive ==
    ASSUME NEW request \in Requests
    PROVE  Total(request) \in Nat \ {0}
<1>1. request.size \in Nat
  BY DEF Requests
<1> QED BY <1>1, ConnectionAssumption DEF Total

\* Start is the running sum of the requests' sizes: requests begin at different
\* places, each where the one before it ends.
LEMMA StartProperties ==
    ASSUME stream \in Streams
    PROVE  /\ Start \in [0..Len(stream) -> Nat]
           /\ Start[0] = 0
           /\ \A n \in 1..Len(stream) : Start[n] = Start[n - 1] + Total(stream[n])
           /\ \A i, j \in 0..Len(stream) : i < j => Start[i] < Start[j]
<1>1. stream \in Seq(Requests) /\ Len(stream) \in Nat
  BY ConnectionAssumption
<1>2. PICK N \in Nat : N = Len(stream)
  BY <1>1
<1>3. PICK g : g = [n \in 1..N |-> Total(stream[n])]
  OBVIOUS
<1>4. g \in [1..N -> Nat \ {0}]
  <2>1. \A n \in 1..N : stream[n] \in Requests
    BY <1>1, <1>2
  <2>2. \A n \in 1..N : Total(stream[n]) \in Nat \ {0}
    BY <2>1, TotalPositive
  <2> QED BY <1>3, <2>2, Zenon
<1>5. \A n \in 1..N : g[n] = Total(stream[n])
  BY <1>3
<1>6. Start = CHOOSE sum : sum = [n \in 0..N |-> IF n = 0 THEN 0 ELSE sum[n - 1] + Total(stream[n])]
  BY <1>2 DEF Start
<1>7. \A sum : [n \in 0..N |-> IF n = 0 THEN 0 ELSE sum[n - 1] + Total(stream[n])]
             = [n \in 0..N |-> IF n = 0 THEN 0 ELSE sum[n - 1] + g[n]]
  <2>1. \A n \in 0..N : n # 0 => n \in 1..N
    OBVIOUS
  <2> QED BY <1>5, <2>1
<1>8. Start = CHOOSE sum : sum = [n \in 0..N |-> IF n = 0 THEN 0 ELSE sum[n - 1] + g[n]]
  BY <1>6, <1>7
<1>9. PICK f : f = Start
  OBVIOUS
<1>10. f = [n \in 0..N |-> IF n = 0 THEN 0 ELSE f[n - 1] + g[n]]
  <2>1. g \in [1..N -> Nat]
    BY <1>4
  <2>2. \E sum : sum = [n \in 0..N |-> IF n = 0 THEN 0 ELSE sum[n - 1] + g[n]]
    BY <2>1, RunningSumExists, Zenon
  <2> QED BY <1>8, <1>9, <2>2, Zenon
<1>11. /\ f \in [0..N -> Nat]
       /\ f[0] = 0
       /\ \A n \in 1..N : f[n] = f[n - 1] + g[n]
       /\ \A i, j \in 0..N : i < j => f[i] < f[j]
  BY <1>4, <1>10, RunningSum, Zenon
<1> QED BY <1>2, <1>5, <1>9, <1>11

\* The request at the head of the buffer: the first that was not dispatched, or
\* bytes that are no header when all were.
LEMMA RequestIsNext ==
    ASSUME TypeOK, RequestsAsSent, Request.kind # "unknown"
    PROVE  /\ Len(requests) + 1 \in 1..Len(stream)
           /\ Request = stream[Len(requests) + 1]
           /\ Request \in Requests
           /\ Start[Len(requests) + 1] = consumed + Total(Request)
<1>1. stream \in Seq(Requests) /\ Len(stream) \in Nat /\ DOMAIN stream = 1..Len(stream)
  BY ConnectionAssumption DEF TypeOK
<1>2. /\ Start \in [0..Len(stream) -> Nat]
      /\ \A n \in 1..Len(stream) : Start[n] = Start[n - 1] + Total(stream[n])
      /\ \A i, j \in 0..Len(stream) : i < j => Start[i] < Start[j]
  BY StartProperties DEF TypeOK
<1>3. consumed = Start[Len(requests)] /\ Len(requests) \in 0..Len(stream)
  <2>1. Len([i \in DOMAIN requests |-> requests[i].frame]) = Len(requests) /\ Len(requests) \in Nat
    BY DEF TypeOK
  <2> QED BY <1>1, <2>1 DEF RequestsAsSent, IsPrefix
<1>4. PICK is : is = {i \in DOMAIN stream : Start[i - 1] = consumed}
  OBVIOUS
<1>5. Request = IF is = {} THEN Garbage ELSE stream[CHOOSE i \in is : TRUE]
  BY <1>4 DEF Request, At
<1>6. is # {}
  BY <1>5 DEF Garbage
<1>7. PICK i \in is : Request = stream[i]
  BY <1>5, <1>6
<1>8. i \in 1..Len(stream) /\ Start[i - 1] = Start[Len(requests)]
  BY <1>1, <1>3, <1>4
<1>9. i - 1 = Len(requests)
  <2>1. i - 1 \in 0..Len(stream)
    BY <1>1, <1>8
  <2>2. ~(i - 1 < Len(requests)) /\ ~(Len(requests) < i - 1)
    <3>1. Start[i - 1] \in Nat /\ Start[Len(requests)] \in Nat
      BY <2>1, <1>2, <1>3
    <3> QED BY <3>1, <2>1, <1>2, <1>3, <1>8
  <2> QED BY <2>1, <2>2, <1>1, <1>3
<1>10. i = Len(requests) + 1 /\ stream[i] \in Requests
  BY <1>1, <1>3, <1>8, <1>9
<1> QED BY <1>2, <1>3, <1>7, <1>8, <1>9, <1>10

\* Initially nothing was read.
LEMMA ReaderInit ==
    ASSUME Init
    PROVE  ReaderInv
<1>1. stream \in Streams /\ Len(stream) \in Nat
  BY ConnectionAssumption DEF Init
<1>2. Start[0] = 0 /\ Start[Len(stream)] \in Nat
  BY <1>1, StartProperties
<1>3. TypeOK
  BY <1>1, <1>2 DEF Init, TypeOK
<1>4. RequestsAsSent
  <2>1. [i \in DOMAIN requests |-> requests[i].frame] = << >>
    BY DEF Init
  <2>2. stream \in Seq(Requests)
    BY <1>1, ConnectionAssumption
  <2> QED BY <2>1, <2>2, <1>2 DEF Init, RequestsAsSent, IsPrefix
<1>5. NothingLeftBuffered
  BY ConnectionAssumption DEF Init, NothingLeftBuffered, Buffered
<1> QED
  BY <1>3, <1>4, <1>5 DEF Init, ReaderInv, AfterCreateOrDelete, InlineInReader

\* The requests were dispatched as they were sent, request by request.
LEMMA FramesPrefix ==
    ASSUME NEW r \in Seq(Taken), NEW s \in Seq(Requests)
    PROVE  IsPrefix([i \in DOMAIN r |-> r[i].frame], s)
             <=> Len(r) <= Len(s) /\ \A i \in 1..Len(r) : r[i].frame = s[i]
<1> DEFINE f == [i \in DOMAIN r |-> r[i].frame]
<1>1. f \in Seq(Requests) /\ Len(f) = Len(r) /\ \A i \in 1..Len(r) : f[i] = r[i].frame
  <2>1. \A i \in DOMAIN r : r[i] \in Taken
    OBVIOUS
  <2>2. \A i \in DOMAIN r : r[i].frame \in Requests
    BY <2>1, Zenon DEF Taken
  <2> QED BY <2>2
<1> HIDE DEF f
<1>2. SubSeq(f, 1, Len(f)) = f
  BY <1>1
<1>3. Len(f) <= Len(s) =>
        /\ SubSeq(s, 1, Len(f)) \in Seq(Requests) /\ Len(SubSeq(s, 1, Len(f))) = Len(f)
        /\ \A i \in 1..Len(f) : SubSeq(s, 1, Len(f))[i] = s[i]
  BY <1>1
<1>4. Len(f) <= Len(s) =>
        (f = SubSeq(s, 1, Len(f)) <=> \A i \in 1..Len(f) : f[i] = s[i])
  BY <1>1, <1>3
<1>5. IsPrefix(f, s) <=> Len(f) <= Len(s) /\ f = SubSeq(s, 1, Len(f))
  BY <1>2, Zenon DEF IsPrefix
<1>6. IsPrefix(f, s) <=> Len(r) <= Len(s) /\ \A i \in 1..Len(r) : r[i].frame = s[i]
  BY <1>1, <1>4, <1>5
<1> QED BY <1>6 DEF f

\* What RequestsAsSent says of the requests, one by one.
LEMMA AsSent ==
    ASSUME TypeOK
    PROVE  RequestsAsSent <=>
             /\ Len(requests) <= Len(stream)
             /\ \A i \in 1..Len(requests) : requests[i].frame = stream[i]
             /\ consumed = Start[Len(requests)]
<1>1. requests \in Seq(Taken) /\ stream \in Seq(Requests)
  BY ConnectionAssumption DEF TypeOK, Taken, States
<1> QED BY <1>1, FramesPrefix, Zenon DEF RequestsAsSent

\* The places where requests begin depend on the stream alone.
LEMMA StreamKept ==
    ASSUME stream' = stream
    PROVE  Start' = Start
<1> QED BY DEF Start

\* So does the request at the head of the buffer, and on what was taken off it.
LEMMA RequestKept ==
    ASSUME stream' = stream, consumed' = consumed
    PROVE  Request' = Request
<1>1. Start' = Start
  BY StreamKept
<1> QED BY <1>1 DEF Request, At

\* Steps that leave the requests and the buffer's start alone.
LEMMA ReaderMoves ==
    ASSUME ReaderInv, UNCHANGED <<stream, consumed, requests>>,
           arrived' \in arrived..Start[Len(stream)],
           reader # "lock", reader' \in {"wait", "parse", "refuse", "closed"},
           NothingLeftBuffered'
    PROVE  ReaderInv'
<1>1. Start' = Start
  BY StreamKept
<1>2. stream \in Streams /\ arrived \in 0..Start[Len(stream)] /\ consumed \in 0..arrived
  BY DEF ReaderInv, TypeOK
<1>3. Start[Len(stream)] \in Nat
  <2>1. Len(stream) \in Nat
    BY <1>2, ConnectionAssumption
  <2> QED BY <1>2, <2>1, StartProperties
<1>4. arrived' \in 0..Start[Len(stream)] /\ consumed \in 0..arrived'
  BY <1>2, <1>3
<1>5. TypeOK'
  BY <1>1, <1>2, <1>4 DEF ReaderInv, TypeOK
<1>6. RequestsAsSent'
  BY <1>1 DEF ReaderInv, RequestsAsSent
<1>7. AfterCreateOrDelete' /\ InlineInReader'
  BY DEF ReaderInv, AfterCreateOrDelete, InlineInReader
<1> QED BY <1>5, <1>6, <1>7 DEF ReaderInv

\* Dispatch: the request at the head of the buffer becomes the last one, and the
\* buffer begins behind it.
LEMMA DispatchStep ==
    ASSUME ReaderInv, Dispatch
    PROVE  ReaderInv'
<1>1. Start' = Start
  BY StreamKept DEF Dispatch
<1>2. /\ Len(requests) + 1 \in 1..Len(stream)
      /\ Request = stream[Len(requests) + 1]
      /\ Request \in Requests
      /\ Start[Len(requests) + 1] = consumed + Total(Request)
  BY RequestIsNext DEF ReaderInv, Dispatch, Acceptable
<1>3. PICK new : new = [frame |-> Request, state |-> Dispatched(Request).state]
  OBVIOUS
<1>4. /\ new.frame = Request /\ new \in Taken
      /\ \/ /\ Request.kind = "inline" /\ new.state = "locking" /\ reader' = "lock"
         \/ /\ Request.kind # "inline" /\ new.state = "spawned" /\ reader' = "parse"
  <2>1. CASE Request.kind = "inline"
    BY <1>2, <1>3, <2>1 DEF Dispatched, Dispatch, Taken, States
  <2>2. CASE Request.kind # "inline"
    BY <1>2, <1>3, <2>2 DEF Dispatched, Dispatch, Taken, States, Again
  <2> QED BY <2>1, <2>2
<1>5. requests \in Seq(Taken) /\ Len(requests) \in Nat
  BY DEF ReaderInv, TypeOK, Taken, States
<1>6. /\ requests' \in Seq(Taken) /\ Len(requests') = Len(requests) + 1
      /\ requests'[Len(requests) + 1] = new
      /\ \A i \in 1..Len(requests) : requests'[i] = requests[i]
  <2>1. requests' = Append(requests, new)
    BY <1>3 DEF Dispatch
  <2> QED BY <1>4, <1>5, <2>1
<1>7. /\ arrived \in Nat /\ consumed \in Nat /\ Total(Request) \in Nat
      /\ consumed' = consumed + Total(Request) /\ consumed' <= arrived
  <2>1. stream \in Streams /\ arrived \in 0..Start[Len(stream)] /\ consumed \in 0..arrived
    BY DEF ReaderInv, TypeOK
  <2>2. Start[Len(stream)] \in Nat
    <3>1. Len(stream) \in Nat
      BY <2>1, ConnectionAssumption
    <3> QED BY <2>1, <3>1, StartProperties
  <2>3. Total(Request) \in Nat /\ arrived - consumed >= Total(Request)
    BY <1>2, TotalPositive DEF Dispatch, Complete, Buffered
  <2>4. consumed' = consumed + Total(Request)
    BY DEF Dispatch, Split
  <2> QED BY <2>1, <2>2, <2>3, <2>4
<1>8. TypeOK'
  <2>1. consumed' \in 0..arrived
    BY <1>7
  <2>2. reader' \in {"wait", "parse", "lock", "refuse", "closed"}
    BY <1>4
  <2> QED BY <1>1, <1>6, <2>1, <2>2 DEF ReaderInv, TypeOK, Dispatch, Taken, States
<1>9. RequestsAsSent'
  <2>1. \A i \in 1..Len(requests) : requests[i].frame = stream[i]
    BY AsSent DEF ReaderInv
  <2>2. \A i \in 1..(Len(requests) + 1) : requests'[i].frame = stream[i]
    <3>1. TAKE i \in 1..(Len(requests) + 1)
    <3>2. CASE i = Len(requests) + 1
      BY <3>2, <1>2, <1>4, <1>6
    <3>3. CASE i # Len(requests) + 1
      <4>1. i \in 1..Len(requests)
        BY <3>1, <3>3, <1>5
      <4> QED BY <4>1, <1>6, <2>1
    <3> QED BY <3>2, <3>3
  <2>3. Len(requests') <= Len(stream)
    BY <1>2, <1>5, <1>6
  <2>4. consumed' = Start[Len(requests')]
    BY <1>2, <1>6, <1>7
  <2>5. stream \in Seq(Requests) /\ stream' = stream
    BY ConnectionAssumption DEF ReaderInv, TypeOK, Dispatch
  <2>6. IsPrefix([i \in DOMAIN requests' |-> requests'[i].frame], stream)
    BY <2>2, <2>3, <2>5, <1>6, FramesPrefix
  <2> QED BY <2>4, <2>5, <2>6, <1>1 DEF RequestsAsSent
<1>10. NothingLeftBuffered'
  BY <1>4 DEF NothingLeftBuffered
<1>11. DOMAIN requests' = 1..(Len(requests) + 1) /\ DOMAIN requests = 1..Len(requests)
  BY <1>5, <1>6
<1>12. \A i \in 1..Len(requests) :
         requests[i].frame.kind = "inline" => requests[i].state \in {"done", "answered"}
  BY <1>11 DEF ReaderInv, InlineInReader, Dispatch
<1>13. AfterCreateOrDelete'
  <2>1. ASSUME NEW i \in 1..(Len(requests) + 1), NEW j \in 1..(Len(requests) + 1),
               i < j, requests'[i].frame.kind = "inline"
        PROVE  requests'[i].state \in {"done", "answered"}
    <3>1. i \in 1..Len(requests)
      BY <2>1, <1>5
    <3> QED BY <3>1, <2>1, <1>6, <1>12
  <2> QED BY <2>1, <1>11 DEF AfterCreateOrDelete
<1>14. InlineInReader'
  <2>1. ASSUME NEW i \in 1..(Len(requests) + 1)
        PROVE  /\ requests'[i].frame.kind = "inline" =>
                    requests'[i].state \in {"locking", "done", "answered"}
               /\ requests'[i].state = "locking" => i = Len(requests') /\ reader' = "lock"
    <3>1. CASE i = Len(requests) + 1
      BY <3>1, <1>4, <1>6
    <3>2. CASE i # Len(requests) + 1
      <4>1. i \in DOMAIN requests
        BY <3>2, <1>5
      <4>2. requests[i].state # "locking"
        BY <4>1 DEF ReaderInv, InlineInReader, Dispatch
      <4> QED BY <4>1, <4>2, <1>6, <1>11, <1>12
    <3> QED BY <3>1, <3>2
  <2> QED BY <2>1, <1>11 DEF InlineInReader
<1>15. requests' # << >>
  BY <1>5, <1>6
<1> QED BY <1>8, <1>9, <1>10, <1>13, <1>14, <1>15 DEF ReaderInv

\* A step that sets the state of one request, which is no longer waiting for the
\* locks; the reader goes on if it was the one it waited for.
LEMMA StateStep ==
    ASSUME ReaderInv, NEW i \in 1..Len(requests), NEW s \in {"done", "panicked", "answered"},
           requests' = [requests EXCEPT ![i].state = s],
           UNCHANGED <<stream, arrived, consumed>>,
           s = "panicked" => requests[i].frame.kind # "inline",
           \/ reader' = reader /\ requests[i].state # "locking"
           \/ reader = "lock" /\ reader' = "parse" /\ i = Len(requests)
    PROVE  ReaderInv'
<1>1. Start' = Start /\ Request' = Request
  BY StreamKept, RequestKept
<1>2. requests \in Seq(Taken) /\ Len(requests) \in Nat
  BY DEF ReaderInv, TypeOK, Taken, States
<1>3. /\ requests' \in Seq(Taken) /\ Len(requests') = Len(requests)
      /\ \A j \in 1..Len(requests) :
            /\ requests'[j].frame = requests[j].frame
            /\ requests'[j].state = IF j = i THEN s ELSE requests[j].state
  <2>1. PICK e : e = [requests[i] EXCEPT !.state = s]
    OBVIOUS
  <2>2. e \in Taken /\ e.frame = requests[i].frame /\ e.state = s
    <3>1. PICK r \in Taken : r = requests[i]
      BY <1>2
    <3>2. e = [r EXCEPT !.state = s] /\ s \in States
      BY <2>1, <3>1, Zenon DEF States
    <3>3. e \in Taken /\ e.frame = r.frame /\ e.state = s
      BY <3>2 DEF Taken
    <3> QED BY <3>1, <3>3
  <2>3. requests' = [requests EXCEPT ![i] = e]
    BY <2>1, Zenon
  <2> QED BY <1>2, <2>2, <2>3
<1>4. DOMAIN requests' = 1..Len(requests) /\ DOMAIN requests = 1..Len(requests)
  BY <1>2, <1>3
<1>5. TypeOK'
  BY <1>1, <1>3 DEF ReaderInv, TypeOK, Taken, States
<1>6. RequestsAsSent'
  <2>1. [j \in DOMAIN requests' |-> requests'[j].frame] = [j \in DOMAIN requests |-> requests[j].frame]
    BY <1>3, <1>4
  <2> QED BY <2>1, <1>1, <1>3 DEF ReaderInv, RequestsAsSent
<1>7. NothingLeftBuffered'
  <2>1. reader' = "wait" => reader = "wait"
    OBVIOUS
  <2> QED BY <2>1, <1>1 DEF ReaderInv, NothingLeftBuffered, Buffered, Acceptable, TooLarge, Complete, Total
<1>8. \A j \in 1..Len(requests) :
        requests'[j].frame.kind = "inline" =>
            \/ j = i /\ requests'[j].state \in {"done", "answered"}
            \/ requests'[j].state = requests[j].state
  BY <1>3
<1>9. AfterCreateOrDelete'
  <2>1. ASSUME NEW j \in 1..Len(requests), NEW k \in 1..Len(requests),
               j < k, requests'[j].frame.kind = "inline"
        PROVE  requests'[j].state \in {"done", "answered"}
    <3>1. requests[j].frame.kind = "inline"
      BY <2>1, <1>3
    <3>2. requests[j].state \in {"done", "answered"}
      BY <2>1, <3>1, <1>4 DEF ReaderInv, AfterCreateOrDelete
    <3> QED BY <2>1, <3>2, <1>8
  <2> QED BY <2>1, <1>4 DEF AfterCreateOrDelete
<1>10. InlineInReader'
  <2>1. ASSUME NEW j \in 1..Len(requests)
        PROVE  /\ requests'[j].frame.kind = "inline" =>
                    requests'[j].state \in {"locking", "done", "answered"}
               /\ requests'[j].state = "locking" => j = Len(requests') /\ reader' = "lock"
    <3>1. /\ requests[j].frame.kind = "inline" =>
                requests[j].state \in {"locking", "done", "answered"}
          /\ requests[j].state = "locking" => j = Len(requests) /\ reader = "lock"
      BY <1>4 DEF ReaderInv, InlineInReader
    <3>2. requests'[j].frame = requests[j].frame
      BY <1>3
    <3>3. CASE j = i
      BY <3>1, <3>2, <3>3, <1>3
    <3>4. CASE j # i
      <4>1. requests'[j].state = requests[j].state
        BY <3>4, <1>3
      <4> QED BY <3>1, <3>2, <3>4, <4>1, <1>3
    <3> QED BY <3>3, <3>4
  <2> QED BY <2>1, <1>4 DEF InlineInReader
<1>11. requests' # << >>
  BY <1>2, <1>3
<1> QED BY <1>5, <1>6, <1>7, <1>9, <1>10, <1>11 DEF ReaderInv

\* The invariant is inductive.
LEMMA ReaderNext ==
    ASSUME ReaderInv, [Next]_vars
    PROVE  ReaderInv'
<1>1. stream \in Streams /\ arrived \in Nat /\ Start[Len(stream)] \in Nat
      /\ arrived <= Start[Len(stream)]
  <2>1. stream \in Streams /\ arrived \in 0..Start[Len(stream)] /\ Len(stream) \in Nat
    BY ConnectionAssumption DEF ReaderInv, TypeOK
  <2> QED BY <2>1, StartProperties
<1>2. requests \in Seq(Taken) /\ DOMAIN requests = 1..Len(requests)
  BY DEF ReaderInv, TypeOK, Taken, States
<1>3. CASE UNCHANGED vars
  <2>1. UNCHANGED <<stream, arrived, consumed, reader, requests>>
    BY <1>3 DEF vars
  <2>2. Start' = Start /\ Request' = Request
    BY <2>1, StreamKept, RequestKept
  <2> QED
    BY <2>1, <2>2 DEF ReaderInv, TypeOK, RequestsAsSent, NothingLeftBuffered, AfterCreateOrDelete,
                      InlineInReader, Buffered, Acceptable, TooLarge, Complete, Total
<1>4. ASSUME NEW n \in 1..Start[Len(stream)], read_buf(n)
      PROVE  ReaderInv'
  <2>1. arrived' \in arrived..Start[Len(stream)]
    BY <1>1, <1>4 DEF read_buf
  <2>2. NothingLeftBuffered'
    BY <1>4 DEF read_buf, NothingLeftBuffered
  <2> QED BY <1>4, <2>1, <2>2, ReaderMoves DEF read_buf
<1>5. ASSUME arrived' = arrived PROVE arrived' \in arrived..Start[Len(stream)]
  BY <1>1, <1>5
<1>6. CASE read_ends
  BY <1>5, <1>6, ReaderMoves DEF read_ends, NothingLeftBuffered
<1>7. CASE Refuse
  BY <1>5, <1>7, ReaderMoves DEF Refuse, NothingLeftBuffered
<1>8. CASE RefusalSent
  BY <1>5, <1>8, ReaderMoves DEF RefusalSent, NothingLeftBuffered
<1>9. CASE Incomplete
  <2>1. Request' = Request
    BY <1>9, RequestKept DEF Incomplete
  <2>2. NothingLeftBuffered'
    BY <1>9, <2>1 DEF Incomplete, NothingLeftBuffered, Buffered, Acceptable, TooLarge, Complete, Total
  <2> QED BY <1>5, <1>9, <2>2, ReaderMoves DEF Incomplete
<1>10. CASE Dispatch
  BY <1>10, DispatchStep
<1>11. CASE InlineDone
  <2>1. Len(requests) \in 1..Len(requests)
    BY <1>2, <1>11 DEF InlineDone, ReaderInv
  <2> QED BY <1>11, <2>1, StateStep DEF InlineDone, Again
<1>12. ASSUME NEW i \in DOMAIN requests, Handler(i)
       PROVE  ReaderInv'
  <2>1. PICK s \in Follows(requests[i].state) : requests' = [requests EXCEPT ![i].state = s]
    BY <1>12 DEF Handler
  <2>2. /\ s \in {"done", "panicked", "answered"} /\ requests[i].state # "locking"
        /\ s = "panicked" => requests[i].state = "spawned"
    BY <2>1 DEF Follows
  <2>3. s = "panicked" => requests[i].frame.kind # "inline"
    BY <2>2 DEF ReaderInv, InlineInReader
  <2> QED BY <1>2, <1>12, <2>1, <2>2, <2>3, StateStep DEF Handler
<1> QED
  BY <1>3, <1>4, <1>6, <1>7, <1>8, <1>9, <1>10, <1>11, <1>12 DEF Next, ReaderStep

-----------------------------------------------------------------------------
\* The invariant holds in every reachable state of the reader.
THEOREM ReaderSafe == Spec => []ReaderInv
<1>1. Init => ReaderInv
  BY ReaderInit
<1>2. ReaderInv /\ [Next]_vars => ReaderInv'
  BY ReaderNext
<1> QED BY <1>1, <1>2, PTL DEF Spec

\* The reader never takes more off its buffer than is in it: split_to does not
\* panic (server.rs:411-455).
THEOREM ReaderTyped == Spec => []TypeOK
<1>1. ReaderInv => TypeOK
  BY DEF ReaderInv
<1> QED BY <1>1, ReaderSafe, PTL

\* However the stream is cut into reads, the dispatched requests are a prefix of
\* the ones that were sent, and the buffer begins where the next one does.
THEOREM FramingIsExact == Spec => []RequestsAsSent
<1>1. ReaderInv => RequestsAsSent
  BY DEF ReaderInv
<1> QED BY <1>1, ReaderSafe, PTL

\* The reader never waits for bytes while it has a request it could act on.
THEOREM NoPipelineStall == Spec => []NothingLeftBuffered
<1>1. ReaderInv => NothingLeftBuffered
  BY DEF ReaderInv
<1> QED BY <1>1, ReaderSafe, PTL

\* No later request of a connection overtakes its CreateQ or DeleteQ.
THEOREM InlineIsBarrier == Spec => []AfterCreateOrDelete
<1>1. ReaderInv => AfterCreateOrDelete
  BY DEF ReaderInv
<1> QED BY <1>1, ReaderSafe, PTL
=============================================================================
