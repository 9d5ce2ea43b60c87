----------------------------- MODULE PoolProofs -----------------------------
(***************************************************************************)
(* Proofs that the invariants of modules Pool and Shutdown hold for any    *)
(* number of connections and workers and any WAIT_LIMIT.                   *)
(*                                                                         *)
(* PoolInv, the conjunction of the invariants, is inductive.  A step moves *)
(* one connection from stage to stage; what has to be followed are the     *)
(* four sets of connections that the counters and channels are about.      *)
(***************************************************************************)
EXTENDS Shutdown, Facts, FiniteSetTheorems

\* A worker's channel, what was handed to it, and who is being read.
Queued(w) == {c \in Conns : At(c, "queued") /\ conn[c].worker = w}
Handed == {"send", "queued"} \cup Served
HandedTo(w) == {c \in Conns : conn[c].worker = w /\ conn[c].stage \in Handed}
Reading == {c \in Conns : conn[c].stage \in {"wait", "busy", "ended"}}

\* The inductive invariant of the pool.
PoolInv == PoolTypeOK /\ JobsKept /\ CountersExact

\* The states of a connection.
ConnRecords == [stage : Stages, worker : Workers, least : Nat, seen : Workers]

-----------------------------------------------------------------------------
(***************************************************************************)
(* Finite sets of connections.                                             *)
(***************************************************************************)

\* There are finitely many connections, and so in each set of them.
LEMMA ConnsFinite ==
    /\ IsFiniteSet(Conns) /\ Cardinality(Conns) \in Nat
    /\ \A S \in SUBSET Conns : /\ IsFiniteSet(S) /\ Cardinality(S) \in Nat
                               /\ Cardinality(S) <= Cardinality(Conns)
<1>1. IsFiniteSet(Conns)
  BY PoolAssumption, FS_Interval DEF Conns
<1> QED
  BY <1>1, FS_Subset, FS_CardinalityType

\* Worker 0 exists.
LEMMA WorkersType == 0 \in Workers /\ Workers \subseteq Nat
  BY PoolAssumption DEF Workers

\* A step of connection c changes its record alone.
OnlyConn(c) ==
    /\ conn' \in [Conns -> ConnRecords]
    /\ \A d \in Conns \ {c} : conn'[d] = conn[d]

\* What the counters are, in terms of the sets.
LEMMA InvIs ==
    PoolInv <=>
      /\ PoolTypeOK
      /\ \A w \in Workers :
           /\ Len(channel[w]) <= WaitLimit
           /\ IsInjective(channel[w])
           /\ ToSet(channel[w]) = Queued(w)
           /\ Cardinality(Serves(w)) <= 1
           /\ pressure[w] = Cardinality(HandedTo(w))
      /\ active = Cardinality(Reading)
  BY DEF PoolInv, JobsKept, CountersExact, Queued, HandedTo, Handed, Reading

\* To show the invariant after a step: the type of the counters follows from
\* their being exact.
LEMMA InvFromNext ==
    ASSUME conn' \in [Conns -> ConnRecords], channel' \in [Workers -> Seq(Conns)],
           pressure' \in [Workers -> Int],
           closed' \subseteq Conns, told' \subseteq Conns,
           \A w \in Workers :
             /\ Len(channel'[w]) <= WaitLimit
             /\ IsInjective(channel'[w])
             /\ ToSet(channel'[w]) = Queued(w)'
             /\ Cardinality(Serves(w)') <= 1
             /\ pressure'[w] = Cardinality(HandedTo(w)'),
           active' = Cardinality(Reading')
    PROVE  PoolInv'
<1>1. \A w \in Workers : HandedTo(w)' \in SUBSET Conns
  BY DEF HandedTo
<1>2. Reading' \in SUBSET Conns
  BY DEF Reading
<1>3. \A w \in Workers : pressure'[w] \in 0..Cardinality(Conns)
  BY <1>1, ConnsFinite
<1>4. active' \in 0..Cardinality(Conns)
  BY <1>2, ConnsFinite
<1>5. PoolTypeOK'
  BY <1>3, <1>4 DEF PoolTypeOK, ConnRecords
<1>6. JobsKept'
  BY DEF JobsKept, Queued
<1>7. CountersExact'
  BY DEF CountersExact, HandedTo, Handed, Reading
<1> QED BY <1>5, <1>6, <1>7 DEF PoolInv

-----------------------------------------------------------------------------
(***************************************************************************)
(* The sets after a step of one connection.                                *)
(***************************************************************************)

\* A step that changes none of them.
LEMMA SameClasses ==
    ASSUME PoolInv, NEW c \in Conns, OnlyConn(c),
           conn'[c].stage = "queued" <=> conn[c].stage = "queued",
           conn'[c].stage \in Served <=> conn[c].stage \in Served,
           conn'[c].stage \in Handed <=> conn[c].stage \in Handed,
           conn'[c].stage \in {"wait", "busy", "ended"} <=> conn[c].stage \in {"wait", "busy", "ended"},
           conn[c].stage \in Handed => conn'[c].worker = conn[c].worker,
           UNCHANGED <<pressure, channel, active>>, closed' \subseteq Conns, told' \subseteq Conns
    PROVE  PoolInv'
<1>1. \A w \in Workers : Queued(w)' = Queued(w)
  BY DEF Queued, At, OnlyConn, Handed
<1>2. \A w \in Workers : Serves(w)' = Serves(w)
  BY DEF Serves, OnlyConn, Handed
<1>3. \A w \in Workers : HandedTo(w)' = HandedTo(w)
  BY DEF HandedTo, OnlyConn
<1>4. Reading' = Reading
  BY DEF Reading, OnlyConn
<1>5. /\ channel \in [Workers -> Seq(Conns)] /\ pressure \in [Workers -> Int]
      /\ \A w \in Workers :
           /\ Len(channel[w]) <= WaitLimit
           /\ IsInjective(channel[w])
           /\ ToSet(channel[w]) = Queued(w)
           /\ Cardinality(Serves(w)) <= 1
           /\ pressure[w] = Cardinality(HandedTo(w))
      /\ active = Cardinality(Reading)
  BY InvIs, SMTT(20) DEF PoolTypeOK
<1> QED
  BY <1>1, <1>2, <1>3, <1>4, <1>5, InvFromNext DEF OnlyConn

\* A record with another stage.
LEMMA GotoIs ==
    ASSUME PoolInv, NEW c \in Conns, NEW stage \in Stages, Goto(c, stage)
    PROVE  /\ OnlyConn(c)
           /\ conn'[c].stage = stage /\ conn'[c].worker = conn[c].worker
<1>1. conn \in [Conns -> ConnRecords] /\ conn[c] \in ConnRecords
  BY DEF PoolInv, PoolTypeOK, ConnRecords
<1> QED BY <1>1 DEF Goto, OnlyConn, ConnRecords

\* What the invariant says of the state before a step.
LEMMA InvGives ==
    ASSUME PoolInv
    PROVE  /\ conn \in [Conns -> ConnRecords]
           /\ channel \in [Workers -> Seq(Conns)] /\ pressure \in [Workers -> Int]
           /\ closed \subseteq Conns /\ told \subseteq Conns
           /\ \A w \in Workers :
                /\ Len(channel[w]) <= WaitLimit
                /\ IsInjective(channel[w])
                /\ ToSet(channel[w]) = Queued(w)
                /\ Cardinality(Serves(w)) <= 1
                /\ pressure[w] = Cardinality(HandedTo(w))
           /\ active = Cardinality(Reading)
  BY InvIs DEF PoolTypeOK, ConnRecords

-----------------------------------------------------------------------------
(***************************************************************************)
(* One lemma for each kind of step.                                        *)
(***************************************************************************)

\* Steps that only move a connection within a class: it is accepted, it is
\* read, it is dispatched, its reader ends.
LEMMA MovesOnly ==
    ASSUME PoolInv, NEW c \in Conns,
           spawn_connection(c) \/ read_bytes(c) \/ dispatch(c) \/ read_ends(c)
    PROVE  PoolInv'
<1> USE DEF Stages, Served, Handed
<1>1. closed \subseteq Conns /\ told \subseteq Conns
  BY InvGives
<1>2. CASE spawn_connection(c)
  <2>1. OnlyConn(c) /\ conn'[c].stage = "choose"
    BY <1>2, GotoIs DEF spawn_connection
  <2> QED BY <1>1, <1>2, <2>1, SameClasses DEF spawn_connection, At
<1>3. CASE read_bytes(c)
  <2>1. OnlyConn(c) /\ conn'[c].stage = "busy" /\ conn'[c].worker = conn[c].worker
    BY <1>3, GotoIs DEF read_bytes
  <2>2. told' \subseteq Conns
    BY <1>1, <1>3 DEF read_bytes
  <2> QED BY <1>1, <1>3, <2>1, <2>2, SameClasses DEF read_bytes, At
<1>4. CASE dispatch(c)
  <2>1. /\ OnlyConn(c) /\ conn'[c].stage \in {"wait", "ended"}
        /\ conn'[c].worker = conn[c].worker
    BY <1>4, GotoIs DEF dispatch
  <2>2. closed' \subseteq Conns
    BY <1>1, <1>4 DEF dispatch
  <2> QED BY <1>1, <1>4, <2>1, <2>2, SameClasses DEF dispatch, At
<1>5. CASE read_ends(c)
  <2>1. OnlyConn(c) /\ conn'[c].stage = "ended" /\ conn'[c].worker = conn[c].worker
    BY <1>5, GotoIs DEF read_ends
  <2>2. closed' \subseteq Conns /\ told' \subseteq Conns
    BY <1>1, <1>5 DEF read_ends
  <2> QED BY <1>5, <2>1, <2>2, SameClasses DEF read_ends, At
<1> QED BY <1>2, <1>3, <1>4, <1>5

\* The search for the worker with the least pressure ends with a worker.
LEMMA Chooses ==
    ASSUME PoolInv, NEW c \in Conns, choose_worker(c)
    PROVE  PoolInv'
<1> DEFINE k == conn[c]
           w == k.seen
           best == IF w = 0 \/ pressure[w] < k.least THEN w ELSE k.worker
           low == IF best = w THEN pressure[w] ELSE k.least
<1>1. conn \in [Conns -> ConnRecords] /\ k \in ConnRecords /\ k.stage = "choose"
  BY InvGives DEF choose_worker, At
<1>2. w \in Workers /\ best \in Workers /\ k.least \in Nat
  BY <1>1 DEF ConnRecords
<1>3. pressure[w] \in Nat
  BY <1>2, ConnsFinite DEF PoolInv, PoolTypeOK
<1>4. low \in Nat
  BY <1>2, <1>3
<1>5. conn' = [conn EXCEPT ![c] =
              IF w + 1 = NumWorkers
                THEN [stage |-> "count", worker |-> best, least |-> 0, seen |-> 0]
                ELSE [k EXCEPT !.worker = best, !.seen = w + 1, !.least = low]]
  BY DEF choose_worker
<1> HIDE DEF best, low
<1>6. OnlyConn(c) /\ conn'[c].stage \in {"choose", "count"}
  <2>1. CASE w + 1 = NumWorkers
    BY <2>1, <1>1, <1>2, <1>5, WorkersType DEF OnlyConn, ConnRecords, Stages
  <2>2. CASE w + 1 # NumWorkers
    <3>1. w + 1 \in Workers
      BY <2>2, <1>2, PoolAssumption DEF Workers
    <3> QED BY <2>2, <3>1, <1>1, <1>2, <1>4, <1>5 DEF OnlyConn, ConnRecords, Stages
  <2> QED BY <2>1, <2>2
<1>7. UNCHANGED <<pressure, channel, active, closed, told>> /\ closed \subseteq Conns /\ told \subseteq Conns
  BY InvGives DEF choose_worker
<1> QED
  BY <1>1, <1>6, <1>7, SameClasses DEF Served, Handed

\* The pressure counts the connection from now on.
LEMMA Raises ==
    ASSUME PoolInv, NEW c \in Conns, raise_pressure(c)
    PROVE  PoolInv'
<1>0. PICK x \in Workers : x = conn[c].worker
  BY InvGives DEF ConnRecords
<1>1. OnlyConn(c) /\ conn'[c].stage = "send" /\ conn'[c].worker = x /\ conn[c].stage = "count"
  BY <1>0, GotoIs DEF raise_pressure, Stages, At
<1>3. \A w \in Workers : Queued(w)' = Queued(w) /\ Serves(w)' = Serves(w)
  BY <1>1 DEF Queued, At, Serves, Served, OnlyConn
<1>4. Reading' = Reading
  BY <1>1 DEF Reading, OnlyConn
<1>5. /\ HandedTo(x)' = HandedTo(x) \cup {c} /\ c \notin HandedTo(x)
      /\ \A w \in Workers \ {x} : HandedTo(w)' = HandedTo(w)
  BY <1>0, <1>1 DEF HandedTo, Handed, Served, OnlyConn
<1>6. IsFiniteSet(HandedTo(x))
  BY ConnsFinite DEF HandedTo
<1>7. Cardinality(HandedTo(x)') = Cardinality(HandedTo(x)) + 1
  BY <1>5, <1>6, FS_AddElement
<1>8. /\ pressure' = [pressure EXCEPT ![x] = @ + 1]
      /\ UNCHANGED <<channel, active, closed, told>>
  BY <1>0 DEF raise_pressure
<1>9. /\ pressure' \in [Workers -> Int] /\ pressure'[x] = pressure[x] + 1
      /\ \A w \in Workers \ {x} : pressure'[w] = pressure[w]
  BY <1>0, <1>8, InvGives
<1>10. \A w \in Workers : pressure'[w] = Cardinality(HandedTo(w)')
  <2> TAKE w \in Workers
  <2>1. pressure[w] = Cardinality(HandedTo(w))
    BY InvGives
  <2> QED BY <2>1, <1>0, <1>5, <1>7, <1>9
<1> QED
  BY <1>1, <1>3, <1>4, <1>8, <1>9, <1>10, InvGives, InvFromNext DEF OnlyConn

\* A job that is not in a channel enters it at the end.
LEMMA AppendJob ==
    ASSUME NEW s \in Seq(Conns), IsInjective(s), NEW c \in Conns, c \notin ToSet(s)
    PROVE  /\ Append(s, c) \in Seq(Conns) /\ Len(Append(s, c)) = Len(s) + 1
           /\ IsInjective(Append(s, c)) /\ ToSet(Append(s, c)) = ToSet(s) \cup {c}
<1> DEFINE new == Append(s, c)
<1>1. /\ new \in Seq(Conns) /\ Len(new) = Len(s) + 1 /\ Len(s) \in Nat
      /\ \A i \in 1..Len(s) : new[i] = s[i]
      /\ new[Len(s) + 1] = c
      /\ DOMAIN new = 1..(Len(s) + 1) /\ DOMAIN s = 1..Len(s)
  OBVIOUS
<1> HIDE DEF new
<1>2. \A i \in 1..Len(s) : s[i] # c
  BY <1>1 DEF ToSet
<1>3. IsInjective(new)
  BY <1>1, <1>2 DEF IsInjective
<1>4. ToSet(new) = ToSet(s) \cup {c}
  BY <1>1 DEF ToSet
<1> QED BY <1>1, <1>3, <1>4 DEF new

\* A worker takes the job at the front.
LEMMA TailJobs ==
    ASSUME NEW s \in Seq(Conns), IsInjective(s), s # << >>
    PROVE  /\ Tail(s) \in Seq(Conns) /\ Len(Tail(s)) = Len(s) - 1
           /\ Head(s) \in ToSet(s)
           /\ IsInjective(Tail(s)) /\ ToSet(Tail(s)) = ToSet(s) \ {Head(s)}
<1> DEFINE new == Tail(s)
<1>1. /\ new \in Seq(Conns) /\ Len(new) = Len(s) - 1 /\ Len(s) \in Nat \ {0}
      /\ \A i \in 1..Len(new) : new[i] = s[i + 1]
      /\ Head(s) = s[1]
      /\ DOMAIN new = 1..(Len(s) - 1) /\ DOMAIN s = 1..Len(s)
  OBVIOUS
<1> HIDE DEF new
<1>2. Head(s) \in ToSet(s)
  BY <1>1 DEF ToSet
<1>0. \A i, j \in 1..Len(s) : s[i] = s[j] => i = j
  BY <1>1 DEF IsInjective
<1>3. IsInjective(new)
  <2>1. \A i, j \in 1..(Len(s) - 1) : new[i] = new[j] => i = j
    <3>1. SUFFICES ASSUME NEW i \in 1..(Len(s) - 1), NEW j \in 1..(Len(s) - 1), new[i] = new[j]
                   PROVE  i = j
      OBVIOUS
    <3>2. i + 1 \in 1..Len(s) /\ j + 1 \in 1..Len(s) /\ s[i + 1] = s[j + 1]
      BY <1>1, <3>1
    <3>3. i + 1 = j + 1
      BY <1>0, <3>2
    <3> QED BY <3>3
  <2> QED BY <1>1, <2>1 DEF IsInjective
<1>4. ASSUME NEW d \in ToSet(new) PROVE d \in ToSet(s) \ {Head(s)}
  <2>1. PICK i \in 1..(Len(s) - 1) : d = new[i]
    BY <1>1 DEF ToSet
  <2>2. i + 1 \in 1..Len(s) /\ 1 \in 1..Len(s) /\ d = s[i + 1] /\ i + 1 # 1
    BY <2>1, <1>1
  <2>3. d # Head(s)
    BY <1>0, <1>1, <2>2
  <2> QED BY <1>1, <2>2, <2>3 DEF ToSet
<1>5. ASSUME NEW d \in ToSet(s) \ {Head(s)} PROVE d \in ToSet(new)
  <2>1. PICK i \in 1..Len(s) : d = s[i]
    BY <1>1 DEF ToSet
  <2>2. i # 1
    BY <2>1, <1>1
  <2>3. i - 1 \in 1..(Len(s) - 1) /\ (i - 1) + 1 = i
    BY <2>2, <1>1
  <2>4. new[i - 1] = d
    BY <2>1, <2>3, <1>1
  <2> QED BY <2>3, <2>4, <1>1 DEF ToSet
<1> QED BY <1>1, <1>2, <1>3, <1>4, <1>5 DEF new

\* The job goes into the channel; there was room.
LEMMA Sends ==
    ASSUME PoolInv, NEW c \in Conns, send(c)
    PROVE  PoolInv'
<1>0. PICK x \in Workers : x = conn[c].worker
  BY InvGives DEF ConnRecords
<1>1. OnlyConn(c) /\ conn'[c].stage = "queued" /\ conn'[c].worker = x /\ conn[c].stage = "send"
  BY <1>0, GotoIs DEF send, Stages, At
<1>2. /\ channel' = [channel EXCEPT ![x] = Append(@, c)] /\ Len(channel[x]) < WaitLimit
      /\ UNCHANGED <<pressure, active, closed, told>>
  BY <1>0 DEF send, HasRoom
<1>3. \A w \in Workers : HandedTo(w)' = HandedTo(w) /\ Serves(w)' = Serves(w)
  BY <1>0, <1>1 DEF HandedTo, Handed, Serves, Served, OnlyConn
<1>4. Reading' = Reading
  BY <1>1 DEF Reading, OnlyConn
<1>5. /\ Queued(x)' = Queued(x) \cup {c} /\ c \notin Queued(x)
      /\ \A w \in Workers \ {x} : Queued(w)' = Queued(w)
  BY <1>0, <1>1 DEF Queued, At, OnlyConn
<1>6. /\ channel \in [Workers -> Seq(Conns)] /\ channel[x] \in Seq(Conns)
      /\ IsInjective(channel[x]) /\ ToSet(channel[x]) = Queued(x)
  BY InvGives
<1> DEFINE s == Append(channel[x], c)
<1>7. s \in Seq(Conns) /\ Len(s) <= WaitLimit /\ IsInjective(s) /\ ToSet(s) = Queued(x)'
  BY <1>2, <1>5, <1>6, AppendJob, PoolAssumption
<1>8. channel'[x] = s /\ \A w \in Workers \ {x} : channel'[w] = channel[w]
  BY <1>2, <1>6
<1>9. channel' \in [Workers -> Seq(Conns)]
  BY <1>2, <1>6, <1>7
<1> HIDE DEF s
<1>10. \A w \in Workers :
         /\ Len(channel'[w]) <= WaitLimit
         /\ IsInjective(channel'[w])
         /\ ToSet(channel'[w]) = Queued(w)'
  <2> TAKE w \in Workers
  <2>1. CASE w = x
    BY <2>1, <1>7, <1>8
  <2>2. CASE w # x
    BY <2>2, <1>5, <1>8, InvGives
  <2> QED BY <2>1, <2>2
<1> QED
  BY <1>1, <1>2, <1>3, <1>4, <1>9, <1>10, InvGives, InvFromNext DEF OnlyConn

\* A worker that serves nobody takes the next job.
LEMMA Receives ==
    ASSUME PoolInv, NEW x \in Workers, recv(x)
    PROVE  PoolInv'
<1>1. /\ channel \in [Workers -> Seq(Conns)] /\ channel[x] \in Seq(Conns)
      /\ IsInjective(channel[x]) /\ ToSet(channel[x]) = Queued(x) /\ Len(channel[x]) <= WaitLimit
  BY InvGives
<1>2. /\ channel[x] # << >> /\ channel' = [channel EXCEPT ![x] = Tail(@)]
      /\ Serves(x) = {}
      /\ UNCHANGED <<pressure, active, closed, told>>
  BY DEF recv, Free
<1>3. PICK c \in Conns : c = Head(channel[x]) /\ c \in Queued(x)
  BY <1>1, <1>2, TailJobs DEF Queued
<1>4. conn[c].stage = "queued" /\ conn[c].worker = x
  BY <1>3 DEF Queued, At
<1>5. OnlyConn(c) /\ conn'[c].stage = "start" /\ conn'[c].worker = x
  BY <1>3, <1>4, GotoIs DEF recv, Stages
<1>6. \A w \in Workers : HandedTo(w)' = HandedTo(w)
  BY <1>4, <1>5 DEF HandedTo, Handed, Served, OnlyConn
<1>7. Reading' = Reading
  BY <1>4, <1>5 DEF Reading, OnlyConn
<1>8. /\ Queued(x)' = Queued(x) \ {c}
      /\ \A w \in Workers \ {x} : Queued(w)' = Queued(w)
  BY <1>4, <1>5 DEF Queued, At, OnlyConn
<1>9. /\ Serves(x)' = {c}
      /\ \A w \in Workers \ {x} : Serves(w)' = Serves(w)
  BY <1>2, <1>4, <1>5 DEF Serves, Served, OnlyConn
<1>10. \A w \in Workers : Cardinality(Serves(w)') <= 1
  <2> TAKE w \in Workers
  <2>1. Cardinality({c}) = 1
    BY FS_Singleton
  <2>2. CASE w = x
    BY <2>1, <2>2, <1>9
  <2>3. CASE w # x
    BY <2>3, <1>9, InvGives
  <2> QED BY <2>2, <2>3
<1> DEFINE s == Tail(channel[x])
<1>11. s \in Seq(Conns) /\ Len(s) <= WaitLimit /\ IsInjective(s) /\ ToSet(s) = Queued(x)'
  BY <1>1, <1>2, <1>3, <1>8, TailJobs, PoolAssumption
<1>12. channel'[x] = s /\ \A w \in Workers \ {x} : channel'[w] = channel[w]
  BY <1>1, <1>2
<1>13. channel' \in [Workers -> Seq(Conns)]
  BY <1>1, <1>2, <1>11
<1> HIDE DEF s
<1>14. \A w \in Workers :
         /\ Len(channel'[w]) <= WaitLimit
         /\ IsInjective(channel'[w])
         /\ ToSet(channel'[w]) = Queued(w)'
  <2> TAKE w \in Workers
  <2>1. CASE w = x
    BY <2>1, <1>11, <1>12
  <2>2. CASE w # x
    BY <2>2, <1>8, <1>12, InvGives
  <2> QED BY <2>1, <2>2
<1> QED
  BY <1>2, <1>5, <1>6, <1>7, <1>10, <1>13, <1>14, InvGives, InvFromNext DEF OnlyConn

\* active_connections goes up with a reader, and down when it has returned.
LEMMA CountsReaders ==
    ASSUME PoolInv, NEW c \in Conns, handle_connection(c) \/ lower_active(c)
    PROVE  PoolInv'
<1>1. /\ OnlyConn(c) /\ conn'[c].worker = conn[c].worker
      /\ conn[c].stage \in Served /\ conn'[c].stage \in Served
      /\ \/ conn[c].stage = "start" /\ conn'[c].stage = "wait" /\ active' = active + 1
         \/ conn[c].stage = "ended" /\ conn'[c].stage = "left" /\ active' = active - 1
  <2>1. CASE handle_connection(c)
    BY <2>1, GotoIs DEF handle_connection, Stages, Served, At
  <2>2. CASE lower_active(c)
    BY <2>2, GotoIs DEF lower_active, Stages, Served, At
  <2> QED BY <2>1, <2>2
<1>2. UNCHANGED <<pressure, channel, closed, told>>
  BY DEF handle_connection, lower_active
<1>3. \A w \in Workers : HandedTo(w)' = HandedTo(w)
  BY <1>1 DEF HandedTo, Handed, OnlyConn
<1>4. \A w \in Workers : Serves(w)' = Serves(w)
  BY <1>1 DEF Serves, OnlyConn
<1>5. \A w \in Workers : Queued(w)' = Queued(w)
  BY <1>1 DEF Queued, At, OnlyConn
<1>6. IsFiniteSet(Reading) /\ active = Cardinality(Reading)
  BY ConnsFinite, InvGives DEF Reading
<1>7. active' = Cardinality(Reading')
  <2>1. CASE conn[c].stage = "start"
    <3>1. Reading' = Reading \cup {c} /\ c \notin Reading /\ active' = active + 1
      BY <2>1, <1>1 DEF Reading, OnlyConn
    <3> QED BY <3>1, <1>6, FS_AddElement
  <2>2. CASE conn[c].stage = "ended"
    <3>1. Reading' = Reading \ {c} /\ c \in Reading /\ active' = active - 1
      BY <2>2, <1>1 DEF Reading, OnlyConn
    <3> QED BY <3>1, <1>6, FS_RemoveElement
  <2> QED BY <2>1, <2>2, <1>1
<1> QED
  BY <1>1, <1>2, <1>3, <1>4, <1>5, <1>7, InvGives, InvFromNext DEF OnlyConn

\* The worker is done with the connection, and the pressure goes down.
LEMMA Finishes ==
    ASSUME PoolInv, NEW c \in Conns, job_done(c)
    PROVE  PoolInv'
<1>0. PICK x \in Workers : x = conn[c].worker
  BY InvGives DEF ConnRecords
<1>1. OnlyConn(c) /\ conn'[c].stage = "done" /\ conn[c].stage = "left"
  <2>1. Done \in ConnRecords /\ Done.stage = "done"
    BY WorkersType DEF Done, NotAccepted, ConnRecords, Stages
  <2>2. conn \in [Conns -> ConnRecords] /\ conn' = [conn EXCEPT ![c] = Done]
    BY InvGives DEF job_done
  <2> QED BY <2>1, <2>2 DEF OnlyConn, job_done, At
<1>2. /\ pressure' = [pressure EXCEPT ![x] = @ - 1]
      /\ UNCHANGED <<channel, active, closed, told>>
  BY <1>0 DEF job_done
<1>3. /\ HandedTo(x)' = HandedTo(x) \ {c} /\ c \in HandedTo(x)
      /\ \A w \in Workers \ {x} : HandedTo(w)' = HandedTo(w)
  BY <1>0, <1>1 DEF HandedTo, Handed, Served, OnlyConn
<1>4. \A w \in Workers : Queued(w)' = Queued(w) /\ Serves(w)' \subseteq Serves(w)
  BY <1>1 DEF Queued, At, Serves, Served, OnlyConn
<1>5. Reading' = Reading
  BY <1>1 DEF Reading, OnlyConn
<1>6. \A w \in Workers : Cardinality(Serves(w)') <= 1
  <2> TAKE w \in Workers
  <2>1. IsFiniteSet(Serves(w)) /\ Cardinality(Serves(w)) \in Nat /\ Cardinality(Serves(w)) <= 1
    BY ConnsFinite, InvGives DEF Serves
  <2>2. Cardinality(Serves(w)') <= Cardinality(Serves(w)) /\ Cardinality(Serves(w)') \in Nat
    BY <2>1, <1>4, FS_Subset, FS_CardinalityType
  <2> QED BY <2>1, <2>2
<1>7. IsFiniteSet(HandedTo(x))
  BY ConnsFinite DEF HandedTo
<1>8. Cardinality(HandedTo(x)') = Cardinality(HandedTo(x)) - 1
  BY <1>3, <1>7, FS_RemoveElement
<1>9. /\ pressure' \in [Workers -> Int] /\ pressure'[x] = pressure[x] - 1
      /\ \A w \in Workers \ {x} : pressure'[w] = pressure[w]
  BY <1>2, InvGives
<1>10. \A w \in Workers : pressure'[w] = Cardinality(HandedTo(w)')
  <2> TAKE w \in Workers
  <2>1. pressure[w] = Cardinality(HandedTo(w))
    BY InvGives
  <2> QED BY <2>1, <1>3, <1>8, <1>9
<1> QED
  BY <1>1, <1>2, <1>4, <1>5, <1>6, <1>9, <1>10, InvGives, InvFromNext DEF OnlyConn

-----------------------------------------------------------------------------
(***************************************************************************)
(* The pool by itself.                                                     *)
(***************************************************************************)

\* Pool::new.
LEMMA PoolStarts ==
    ASSUME PoolInit
    PROVE  PoolInv
<1>1. /\ conn \in [Conns -> ConnRecords] /\ \A c \in Conns : conn[c].stage = "none"
  BY WorkersType DEF PoolInit, NotAccepted, ConnRecords, Stages
<1>2. Reading = {} /\ \A w \in Workers : Queued(w) = {} /\ HandedTo(w) = {} /\ Serves(w) = {}
  BY <1>1 DEF Reading, Queued, At, HandedTo, Handed, Serves, Served
<1>3. Cardinality({}) = 0
  BY FS_EmptySet
<1>4. \A w \in Workers : channel[w] = << >> /\ pressure[w] = 0
  BY DEF PoolInit
<1>5. Len(<< >>) <= WaitLimit /\ IsInjective(<< >>) /\ ToSet(<< >>) = {}
  BY PoolAssumption DEF IsInjective, ToSet
<1>6. PoolTypeOK
  BY <1>1, ConnsFinite DEF PoolTypeOK, PoolInit, ConnRecords
<1>7. active = 0
  BY DEF PoolInit
<1>8. \A w \in Workers :
        /\ Len(channel[w]) <= WaitLimit
        /\ IsInjective(channel[w])
        /\ ToSet(channel[w]) = Queued(w)
        /\ Cardinality(Serves(w)) <= 1
        /\ pressure[w] = Cardinality(HandedTo(w))
  <2> TAKE w \in Workers
  <2>1. Cardinality(Serves(w)) = 0 /\ Cardinality(HandedTo(w)) = 0
    BY <1>2, <1>3
  <2>2. /\ Len(channel[w]) <= WaitLimit
        /\ IsInjective(channel[w])
        /\ ToSet(channel[w]) = Queued(w)
    BY <1>2, <1>4, <1>5, Zenon
  <2> QED BY <2>1, <2>2, <1>4
<1> QED
  BY <1>2, <1>3, <1>6, <1>7, <1>8, InvIs

\* Steps of a connection's task, its worker and its client.
LEMMA ConnectionStep ==
    ASSUME PoolInv, NEW c \in Conns,
           spawn_connection(c) \/ ConnStep(c) \/ read_bytes(c) \/ Close(c)
    PROVE  PoolInv'
<1>1. CASE Close(c)
  <2>1. OnlyConn(c) /\ conn'[c] = conn[c] /\ closed' \subseteq Conns
    BY <1>1, InvGives DEF Close, OnlyConn
  <2> QED BY <1>1, <2>1, InvGives, SameClasses DEF Close
<1> QED
  BY <1>1, MovesOnly, Chooses, Raises, Sends, CountsReaders, Finishes DEF ConnStep, Hand, Serve

\* PoolInv in terms of the pool's variables alone.
LEMMA PoolStutters ==
    ASSUME PoolInv, UNCHANGED poolVars
    PROVE  PoolInv'
<1>1. /\ conn' = conn /\ pressure' = pressure /\ channel' = channel
      /\ active' = active /\ closed' = closed /\ told' = told
  BY DEF poolVars
<1>2. PoolTypeOK'
  BY <1>1 DEF PoolInv, PoolTypeOK
<1>3. JobsKept'
  BY <1>1 DEF PoolInv, JobsKept, At, Serves
<1>4. CountersExact'
  BY <1>1 DEF PoolInv, CountersExact
<1> QED BY <1>2, <1>3, <1>4 DEF PoolInv

\* The inductive invariant of the pool.
THEOREM PoolSafe == PoolSpec => []PoolInv
<1>1. PoolInit => PoolInv
  BY PoolStarts
<1>2. PoolInv /\ [PoolNext]_poolVars => PoolInv'
  BY ConnectionStep, Receives, PoolStutters DEF PoolNext
<1> QED
  BY <1>1, <1>2, PTL DEF PoolSpec

\* For any number of connections and workers and any WAIT_LIMIT: no accepted
\* connection is lost, duplicated or served twice, and no channel overflows.
THEOREM NoJobLost == PoolSpec => []JobsKept
<1>1. PoolInv => JobsKept
  BY DEF PoolInv
<1> QED BY <1>1, PoolSafe, PTL

\* For any number of connections and workers: pressure and active_connections
\* are exact in every state.
THEOREM CountersAreExact == PoolSpec => []CountersExact
<1>1. PoolInv => CountersExact
  BY DEF PoolInv
<1> QED BY <1>1, PoolSafe, PTL

-----------------------------------------------------------------------------
(***************************************************************************)
(* The pool in the process that starts, stops and drains it.               *)
(***************************************************************************)

\* The part of the type of Shutdown that is not of the pool.
ProcTypeOK ==
    /\ main \in {"boot", "select", "stop", "option", "stopnow", "await", "stopword", "drop", "exit"}
    /\ acceptor \in {"off", "boot", "failed", "select", "accepted", "drain", "end"}
    /\ stopSeen \in BOOLEAN /\ drainedSeen \in BOOLEAN

\* stop_word reaches readers; nothing else of the pool changes.
LEMMA StopWordKeeps ==
    ASSUME PoolInv, StopWord
    PROVE  PoolInv'
<1>1. /\ conn' = conn /\ pressure' = pressure /\ channel' = channel
      /\ active' = active /\ closed' = closed
  BY DEF StopWord
<1>2. told' \subseteq Conns
  BY InvGives DEF StopWord
<1>3. PoolTypeOK'
  BY <1>1, <1>2 DEF PoolInv, PoolTypeOK
<1>4. JobsKept'
  BY <1>1 DEF PoolInv, JobsKept, At, Serves
<1>5. CountersExact'
  BY <1>1 DEF PoolInv, CountersExact
<1> QED BY <1>3, <1>4, <1>5 DEF PoolInv

\* Every step of the process.
LEMMA ProcessStep ==
    ASSUME PoolInv, ProcTypeOK, Next
    PROVE  PoolInv' /\ ProcTypeOK'
<1>1. CASE MainStep
  <2>1. ProcTypeOK'
    BY <1>1 DEF ProcTypeOK, MainStep, Boot, parse_config_fails, start_server, StopAccepting,
                ReadOption, Await, StopWord, Exit
  <2>2. StopWord \/ UNCHANGED poolVars
    BY <1>1 DEF MainStep, Boot, StopAccepting, ReadOption, Await, Exit
  <2> QED BY <2>1, <2>2, StopWordKeeps, PoolStutters
<1>2. CASE AcceptorStep
  <2>1. ProcTypeOK'
    BY <1>2 DEF ProcTypeOK, AcceptorStep, Bind, AcceptAgain, AcceptStops, Drain
  <2>2. UNCHANGED poolVars
    BY <1>2 DEF AcceptorStep, Bind, AcceptAgain, AcceptStops, Drain
  <2> QED BY <2>1, <2>2, PoolStutters
<1>3. ASSUME NEW reason \in {"CtrlC", "SigTerm", "SigHup"}, Signal(reason)
      PROVE  PoolInv' /\ ProcTypeOK'
  BY <1>3, PoolStutters DEF ProcTypeOK, Signal
<1>4. ASSUME NEW c \in Conns, Accept(c) \/ ServerStep(c) \/ ClientSends(c) \/ ClientLeaves(c)
      PROVE  PoolInv' /\ ProcTypeOK'
  <2>1. ProcTypeOK'
    BY <1>4 DEF ProcTypeOK, Accept, ServerStep, ClientSends, ClientLeaves, procVars
  <2>2. spawn_connection(c) \/ ConnStep(c) \/ read_bytes(c) \/ Close(c)
    BY <1>4 DEF Accept, ServerStep, ClientSends, ClientLeaves, ConnStep
  <2> QED BY <2>1, <2>2, ConnectionStep
<1>5. ASSUME NEW w \in Workers, WorkerTakes(w)
      PROVE  PoolInv' /\ ProcTypeOK'
  BY <1>5, Receives DEF WorkerTakes, ProcTypeOK, procVars
<1> QED
  BY <1>1, <1>2, <1>3, <1>4, <1>5 DEF Next

\* Signals, lost notifications and the end of the runtime leave the pool as
\* exact as it is by itself: at any moment of a shutdown too no connection is
\* lost or served twice, and the count that the drain waits for is the number
\* of readers.
THEOREM ProcessSafe == Spec => [](PoolInv /\ ProcTypeOK)
<1>1. Init => PoolInv /\ ProcTypeOK
  BY PoolStarts DEF Init, ProcTypeOK
<1>2. (PoolInv /\ ProcTypeOK) /\ [Next]_vars => (PoolInv /\ ProcTypeOK)'
  <2>1. ASSUME PoolInv, ProcTypeOK, UNCHANGED vars PROVE PoolInv' /\ ProcTypeOK'
    <3>1. UNCHANGED poolVars /\ UNCHANGED procVars
      BY <2>1 DEF vars
    <3> QED BY <2>1, <3>1, PoolStutters DEF ProcTypeOK, procVars
  <2> QED BY <2>1, ProcessStep
<1> QED
  BY <1>1, <1>2, PTL DEF Spec

\* The type invariant of the process, with any number of connections.
THEOREM ProcessTyped == Spec => []TypeOK
<1>1. PoolInv /\ ProcTypeOK => TypeOK
  BY DEF PoolInv, ProcTypeOK, TypeOK
<1> QED BY <1>1, ProcessSafe, PTL
=============================================================================
