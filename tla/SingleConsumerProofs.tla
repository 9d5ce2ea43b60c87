------------------------ MODULE SingleConsumerProofs ------------------------
(***************************************************************************)
(* The queue implements the FIFO for one disciplined consumer, for every   *)
(* number of producers and messages, every MAGIC_DRAIN_VEC and every id    *)
(* width.                                                                  *)
(*                                                                         *)
(* The invariant (Laid) says how order is laid out: z tombstones, then the *)
(* ids that were handed out, as the lock list has them, then the ids that  *)
(* wait, the first of them under the cursor; ids rise.  A method moves a   *)
(* border between the three parts, and a drain cuts off tombstones.        *)
(***************************************************************************)
EXTENDS SingleConsumer, BrokerProofs

-----------------------------------------------------------------------------
(***************************************************************************)
(* Sequences, element by element.                                          *)
(***************************************************************************)

\* Sequences with the same elements are the same.
LEMMA SameElements ==
    ASSUME NEW T, NEW r, NEW s, r \in Seq(T), s \in Seq(T), Len(r) = Len(s),
           \A i \in 1..Len(s) : r[i] = s[i]
    PROVE  r = s
<1> QED OBVIOUS

\* r is s without its first m elements.
Shifted(T, r, s, m) ==
    r \in Seq(T) /\ Len(r) = Len(s) - m /\ \A i \in 1..(Len(s) - m) : r[i] = s[m + i]

\* The end of a sequence.
LEMMA Suffix ==
    ASSUME NEW T, NEW s, NEW m, s \in Seq(T), m \in 0..Len(s)
    PROVE  Shifted(T, SubSeq(s, m + 1, Len(s)), s, m)
<1> DEFINE r == SubSeq(s, m + 1, Len(s))
<1>1. r \in Seq(T) /\ Len(r) = Len(s) - m /\ \A i \in 1..(Len(s) - m) : r[i] = s[i + m]
  OBVIOUS
<1>2. \A i \in 1..(Len(s) - m) : m + i = i + m
  OBVIOUS
<1> QED BY <1>1, <1>2 DEF Shifted

\* One element more.
LEMMA IsAppend ==
    ASSUME NEW T, NEW r, NEW s, NEW v, r \in Seq(T), s \in Seq(T), v \in T,
           Len(r) = Len(s) + 1, \A i \in 1..Len(s) : r[i] = s[i], r[Len(s) + 1] = v
    PROVE  r = Append(s, v)
<1>1. PICK a : a = Append(s, v)
  OBVIOUS
<1>2. /\ a \in Seq(T) /\ Len(a) = Len(s) + 1 /\ a[Len(s) + 1] = v
      /\ \A i \in 1..Len(s) : a[i] = s[i]
  BY <1>1
<1>3. \A i \in 1..Len(a) : r[i] = a[i]
  BY <1>2
<1> QED BY <1>1, <1>2, <1>3, SameElements

\* The first element gone.
LEMMA IsTail ==
    ASSUME NEW T, NEW r, NEW s, r \in Seq(T), s \in Seq(T), Len(s) = Len(r) + 1,
           \A i \in 1..Len(r) : r[i] = s[i + 1]
    PROVE  s # << >> /\ Head(s) = s[1] /\ r = Tail(s)
<1>1. s # << >> /\ Head(s) = s[1]
  OBVIOUS
<1>2. PICK a : a = Tail(s)
  OBVIOUS
<1>3. a \in Seq(T) /\ Len(a) = Len(r) /\ \A i \in 1..Len(r) : a[i] = s[i + 1]
  BY <1>1, <1>2
<1>4. \A i \in 1..Len(a) : r[i] = a[i]
  BY <1>3
<1> QED BY <1>1, <1>2, <1>3, <1>4, SameElements

\* r is f, then s.
Joins(r, f, s) == r = f \o s

\* One element put in front.
LEMMA IsPrepend ==
    ASSUME NEW T, NEW r, NEW f, NEW s, r \in Seq(T), f \in Seq(T), s \in Seq(T), Len(f) = 1,
           Len(r) = Len(s) + 1, r[1] = f[1], \A i \in 1..Len(s) : r[i + 1] = s[i]
    PROVE  Joins(r, f, s)
<1>1. PICK a : a = f \o s
  OBVIOUS
<1>2. /\ a \in Seq(T) /\ Len(a) = 1 + Len(s)
      /\ \A i \in 1..(1 + Len(s)) : a[i] = IF i <= 1 THEN f[i] ELSE s[i - 1]
  <2>1. /\ f \o s \in Seq(T) /\ Len(f \o s) = Len(f) + Len(s)
        /\ \A i \in 1..(Len(f) + Len(s)) : (f \o s)[i] = IF i <= Len(f) THEN f[i] ELSE s[i - Len(f)]
    BY ConcatProperties
  <2> QED BY <1>1, <2>1
<1>3. ASSUME NEW i \in 1..Len(a)
      PROVE  r[i] = a[i]
  <2>1. CASE i = 1
    BY <1>2, <2>1
  <2>2. CASE i # 1
    <3>1. i - 1 \in 1..Len(s) /\ (i - 1) + 1 = i
      BY <1>2, <2>2
    <3>2. r[i] = s[i - 1]
      BY <3>1
    <3> QED BY <1>2, <2>2, <3>2
  <2> QED BY <2>1, <2>2
<1> QED BY <1>1, <1>2, <1>3, SameElements DEF Joins

\* One element replaced.
LEMMA IsReplaced ==
    ASSUME NEW T, NEW r, NEW s, NEW k, NEW v, r \in Seq(T), s \in Seq(T), v \in T,
           k \in 1..Len(s), Len(r) = Len(s), r[k] = v, \A i \in 1..Len(s) : i # k => r[i] = s[i]
    PROVE  r = [s EXCEPT ![k] = v]
<1>1. PICK a : a = [s EXCEPT ![k] = v]
  OBVIOUS
<1>2. a \in Seq(T) /\ Len(a) = Len(s) /\ a[k] = v /\ \A i \in 1..Len(s) : i # k => a[i] = s[i]
  BY <1>1, Replaced
<1>3. \A i \in 1..Len(a) : r[i] = a[i]
  BY <1>2
<1> QED BY <1>1, <1>2, <1>3, SameElements

-----------------------------------------------------------------------------
(***************************************************************************)
(* How the queue is laid out.                                              *)
(***************************************************************************)

\* An order of length n: z tombstones, then rising ids.
Rising(o, z, n) ==
    /\ o \in Seq(0..IdMax) /\ n = Len(o) /\ n \in Nat /\ z \in 0..n
    /\ \A i \in 1..z : o[i] = 0
    /\ \A i \in (z + 1)..n : o[i] \in Ids
    /\ \A i, j \in (z + 1)..n : i < j => o[i] < o[j]

\* The k ids of the lock list h come first, the cursor is behind them.
Handed(o, h, next, z, n, k) ==
    /\ h \in Seq(Ids) /\ k = Len(h) /\ k \in 0..(n - z)
    /\ \A i \in 1..k : h[i] = o[z + i]
    /\ next = IF z + k < n THEN o[z + k + 1] ELSE None

\* The messages are those of the ids; the ones that wait are not locked.
Kept(o, Q, z, n, k) ==
    /\ Q \in [DOMAIN Q -> MessageSet]
    /\ DOMAIN Q = {o[i] : i \in (z + 1)..n}
    /\ \A i \in (z + k + 1)..n : Q[o[i]].locked_by = None

Laid(o, Q, h, next, z, n, k) == Rising(o, z, n) /\ Handed(o, h, next, z, n, k) /\ Kept(o, Q, z, n, k)

\* An id occurs once.
LEMMA IdsOnce ==
    ASSUME NEW o, NEW z, NEW n, NEW i, NEW j, Rising(o, z, n), i \in (z + 1)..n, j \in 1..n, o[i] = o[j]
    PROVE  i = j
<1>1. z \in Nat /\ n \in Nat /\ i \in Nat /\ j \in Nat /\ o[i] \in Ids
  BY DEF Rising
<1>2. o[i] \in Nat /\ o[i] # 0 /\ o[j] \in Nat
  BY <1>1, QueueAssumption DEF Ids
<1>3. j \in (z + 1)..n
  <2>1. j \notin 1..z
    BY <1>2 DEF Rising
  <2> QED BY <1>1, <2>1
<1>4. ~(i < j) /\ ~(j < i)
  <2>1. i < j => o[i] < o[j]
    BY <1>3 DEF Rising
  <2>2. j < i => o[j] < o[i]
    BY <1>3 DEF Rising
  <2> QED BY <1>2, <2>1, <2>2
<1> QED BY <1>1, <1>4

\* It is where its index says.
LEMMA PositionOfId ==
    ASSUME NEW o, NEW z, NEW n, NEW i, Rising(o, z, n), i \in (z + 1)..n
    PROVE  o[i] \in Range(o) /\ Position(o, o[i]) = i
<1>1. o \in Seq(0..IdMax) /\ n = Len(o) /\ n \in Nat /\ z \in Nat /\ DOMAIN o = 1..n /\ i \in 1..n
  BY DEF Rising
<1>2. o[i] \in Range(o)
  BY <1>1 DEF Range
<1>3. Position(o, o[i]) \in 1..n /\ o[Position(o, o[i])] = o[i]
  BY <1>1, <1>2, PositionIsIndex
<1> QED BY <1>2, <1>3, IdsOnce

\* The drain cuts off some tombstones.
LEMMA DrainShifts ==
    ASSUME NEW o, NEW z, NEW n, Rising(o, z, n)
    PROVE  \E m \in 0..z : Shifted(0..IdMax, remove_zeroes(o), o, m)
<1>1. o \in Seq(0..IdMax) /\ n = Len(o) /\ n \in Nat /\ z \in 0..n
  BY DEF Rising
<1>2. PICK live : live = LiveIndices(o)
  OBVIOUS
<1>3. live = (z + 1)..n
  <2>1. \A i \in 1..n : o[i] # 0 <=> i \in (z + 1)..n
    <3>1. TAKE i \in 1..n
    <3>2. CASE i <= z
      BY <1>1, <3>2 DEF Rising
    <3>3. CASE ~(i <= z)
      <4>1. i \in (z + 1)..n
        BY <1>1, <3>3
      <4>2. o[i] \in Ids
        BY <4>1 DEF Rising
      <4> QED BY <4>1, <4>2, QueueAssumption DEF Ids
    <3> QED BY <3>2, <3>3
  <2> QED BY <1>1, <1>2, <2>1 DEF LiveIndices
<1>4. CASE remove_zeroes(o) = o
  <2>1. Shifted(0..IdMax, o, o, 0)
    BY <1>1 DEF Shifted
  <2> QED BY <1>1, <1>4, <2>1
<1>5. CASE live = {} /\ remove_zeroes(o) = << >>
  <2>1. z = n
    BY <1>1, <1>3, <1>5
  <2>2. Shifted(0..IdMax, << >>, o, n)
    BY <1>1 DEF Shifted
  <2> QED BY <1>1, <1>5, <2>1, <2>2
<1>6. CASE live # {} /\ remove_zeroes(o) = SubSeq(o, Min(live), Len(o))
  <2>1. z + 1 \in live /\ \A i \in live : z + 1 <= i
    BY <1>1, <1>3, <1>6
  <2>2. live \in SUBSET Nat
    BY <1>1, <1>3
  <2>3. Min(live) \in live /\ \A i \in live : Min(live) <= i
    BY <1>6, <2>2, MinIsLeast
  <2>4. Min(live) = z + 1
    <3>1. PICK m \in Nat : m = Min(live) /\ m \in live /\ m <= z + 1
      BY <2>1, <2>2, <2>3
    <3>2. z + 1 <= m
      BY <2>1, <3>1
    <3> QED BY <1>1, <3>1, <3>2
  <2>5. Shifted(0..IdMax, SubSeq(o, z + 1, n), o, z)
    <3>1. z \in 0..Len(o)
      BY <1>1
    <3> QED BY <1>1, <3>1, Suffix
  <2> QED BY <1>1, <1>6, <2>4, <2>5
<1> QED BY <1>2, <1>4, <1>5, <1>6 DEF remove_zeroes

\* Every id of order has its message.
LEMMA IdStored ==
    ASSUME NEW o, NEW Q, NEW h, NEW next, NEW z, NEW n, NEW k, NEW i,
           Laid(o, Q, h, next, z, n, k), i \in (z + 1)..n
    PROVE  o[i] \in DOMAIN Q /\ Q[o[i]] \in MessageSet /\ Q[o[i]].payload \in Payloads
<1>1. Q \in [DOMAIN Q -> MessageSet] /\ DOMAIN Q = {o[j] : j \in (z + 1)..n}
  BY DEF Laid, Kept
<1>2. o[i] \in DOMAIN Q
  BY <1>1
<1> QED BY <1>1, <1>2 DEF MessageSet

\* The numbers of a layout.
LEMMA LaidNumbers ==
    ASSUME NEW o, NEW Q, NEW h, NEW next, NEW z, NEW n, NEW k, Laid(o, Q, h, next, z, n, k)
    PROVE  /\ z \in Nat /\ n \in Nat /\ k \in Nat /\ z + k <= n /\ n = Len(o) /\ k = Len(h)
           /\ o \in Seq(0..IdMax) /\ h \in Seq(Ids)
<1>1. o \in Seq(0..IdMax) /\ n = Len(o) /\ n \in Nat /\ z \in 0..n
  BY DEF Laid, Rising
<1>2. h \in Seq(Ids) /\ k = Len(h) /\ k \in 0..(n - z)
  BY DEF Laid, Handed
<1> QED BY <1>1, <1>2

\* A drain keeps the layout.
LEMMA ShiftLaid ==
    ASSUME NEW o, NEW Q, NEW h, NEW next, NEW z, NEW n, NEW k, NEW r, NEW m,
           Laid(o, Q, h, next, z, n, k), Shifted(0..IdMax, r, o, m), m \in 0..z
    PROVE  Laid(r, Q, h, next, z - m, n - m, k)
<1>1. /\ z \in Nat /\ n \in Nat /\ k \in Nat /\ z + k <= n /\ n = Len(o) /\ k = Len(h)
      /\ o \in Seq(0..IdMax) /\ h \in Seq(Ids)
  BY LaidNumbers
<1>2. m \in Nat /\ m <= z /\ z - m \in Nat /\ n - m \in Nat
  BY <1>1
<1>3. r \in Seq(0..IdMax) /\ Len(r) = n - m /\ \A i \in 1..(n - m) : r[i] = o[m + i]
  BY <1>1 DEF Shifted
<1>4. \A i \in (z - m + 1)..(n - m) : m + i \in (z + 1)..n /\ i \in 1..(n - m)
  BY <1>1, <1>2
<1>5. Rising(r, z - m, n - m)
  <2>1. \A i \in 1..(z - m) : r[i] = 0
    <3>1. TAKE i \in 1..(z - m)
    <3>2. m + i \in 1..z /\ i \in 1..(n - m)
      BY <1>1, <1>2
    <3> QED BY <1>3, <3>2 DEF Laid, Rising
  <2>2. \A i \in (z - m + 1)..(n - m) : r[i] \in Ids
    BY <1>3, <1>4 DEF Laid, Rising
  <2>3. \A i, j \in (z - m + 1)..(n - m) : i < j => r[i] < r[j]
    <3>1. TAKE i, j \in (z - m + 1)..(n - m)
    <3>2. HAVE i < j
    <3>3. m + i < m + j /\ m + i \in (z + 1)..n /\ m + j \in (z + 1)..n
      BY <1>1, <1>2, <1>4, <3>2
    <3>4. o[m + i] < o[m + j]
      BY <3>3 DEF Laid, Rising
    <3> QED BY <1>3, <1>4, <3>4
  <2>4. z - m \in 0..(n - m)
    BY <1>1, <1>2
  <2> QED BY <1>2, <1>3, <2>1, <2>2, <2>3, <2>4 DEF Rising
<1>6. Handed(r, h, next, z - m, n - m, k)
  <2>1. k \in 0..((n - m) - (z - m))
    BY <1>1, <1>2
  <2>2. \A i \in 1..k : h[i] = r[(z - m) + i]
    <3>1. TAKE i \in 1..k
    <3>2. (z - m) + i \in 1..(n - m) /\ m + ((z - m) + i) = z + i
      BY <1>1, <1>2
    <3>3. h[i] = o[z + i]
      BY DEF Laid, Handed
    <3> QED BY <1>3, <3>2, <3>3
  <2>3. next = IF (z - m) + k < n - m THEN r[(z - m) + k + 1] ELSE None
    <3>1. CASE z + k < n
      <4>1. (z - m) + k < n - m /\ (z - m) + k + 1 \in 1..(n - m) /\ m + ((z - m) + k + 1) = z + k + 1
        BY <1>1, <1>2, <3>1
      <4>2. next = o[z + k + 1]
        BY <3>1 DEF Laid, Handed
      <4> QED BY <1>3, <4>1, <4>2
    <3>2. CASE ~(z + k < n)
      <4>1. ~((z - m) + k < n - m)
        BY <1>1, <1>2, <3>2
      <4>2. next = None
        BY <3>2 DEF Laid, Handed
      <4> QED BY <4>1, <4>2
    <3> QED BY <3>1, <3>2
  <2> QED BY <1>1, <2>1, <2>2, <2>3 DEF Handed
<1>7. Kept(r, Q, z - m, n - m, k)
  <2>1. Q \in [DOMAIN Q -> MessageSet] /\ DOMAIN Q = {o[i] : i \in (z + 1)..n}
    BY DEF Laid, Kept
  <2>2. \A i \in (z + 1)..n : i - m \in (z - m + 1)..(n - m) /\ r[i - m] = o[i]
    <3>1. TAKE i \in (z + 1)..n
    <3>2. i - m \in (z - m + 1)..(n - m) /\ m + (i - m) = i
      BY <1>1, <1>2
    <3> QED BY <1>3, <1>4, <3>2
  <2>3. {o[i] : i \in (z + 1)..n} = {r[i] : i \in (z - m + 1)..(n - m)}
    BY <1>3, <1>4, <2>2
  <2>4. \A i \in ((z - m) + k + 1)..(n - m) : Q[r[i]].locked_by = None
    <3>1. TAKE i \in ((z - m) + k + 1)..(n - m)
    <3>2. m + i \in (z + k + 1)..n /\ i \in 1..(n - m)
      BY <1>1, <1>2
    <3>3. Q[o[m + i]].locked_by = None
      BY <3>2 DEF Laid, Kept
    <3> QED BY <1>3, <3>2, <3>3
  <2> QED BY <2>1, <2>3, <2>4 DEF Kept
<1> QED BY <1>5, <1>6, <1>7 DEF Laid

\* So does the drain that a method may or may not reach.
LEMMA DrainLaid ==
    ASSUME NEW o, NEW Q, NEW h, NEW next, NEW z, NEW n, NEW k, NEW r,
           Laid(o, Q, h, next, z, n, k), r = o \/ r = remove_zeroes(o)
    PROVE  \E m \in 0..z : Shifted(0..IdMax, r, o, m) /\ Laid(r, Q, h, next, z - m, n - m, k)
<1>1. z \in Nat /\ n \in Nat /\ n = Len(o) /\ o \in Seq(0..IdMax) /\ Rising(o, z, n)
  BY LaidNumbers DEF Laid
<1>2. \E m \in 0..z : Shifted(0..IdMax, r, o, m)
  <2>1. CASE r = remove_zeroes(o)
    BY <1>1, <2>1, DrainShifts
  <2>2. CASE r = o
    <3>1. Shifted(0..IdMax, o, o, 0)
      BY <1>1 DEF Shifted
    <3> QED BY <1>1, <2>2, <3>1
  <2> QED BY <2>1, <2>2
<1> QED BY <1>2, ShiftLaid

-----------------------------------------------------------------------------
(***************************************************************************)
(* What the FIFO sees of a layout.                                         *)
(***************************************************************************)

\* The mapping of module SingleConsumer, for any queue.
PayloadIn(x, id) == IF id \in DOMAIN x.queue THEN x.queue[id].payload ELSE None

AheadIn(x) ==
    IF x.next_id \in Range(x.order)
      THEN SubSeq(x.order, Position(x.order, x.next_id), Len(x.order)) ELSE << >>

PendingIn(x) == [i \in 1..Len(AheadIn(x)) |-> PayloadIn(x, AheadIn(x)[i])]
InflightIn(x) == [i \in 1..Len(Held(x, Consumer)) |-> PayloadIn(x, Held(x, Consumer)[i])]

\* p is the payloads of the m ids of order behind the first `from`.
Lists(p, o, Q, from, m) ==
    p \in Seq(Payloads) /\ Len(p) = m /\ \A i \in 1..m : p[i] = Q[o[from + i]].payload

\* p is what waits and f what was handed out.
Seen(p, f, o, Q, z, n, k) == Lists(p, o, Q, z + k, n - z - k) /\ Lists(f, o, Q, z, k)

\* The ids ahead of the cursor are the ones behind those handed out.
LEMMA AheadIs ==
    ASSUME NEW x, NEW z, NEW n, NEW k, Laid(x.order, x.queue, Held(x, Consumer), x.next_id, z, n, k)
    PROVE  Shifted(0..IdMax, AheadIn(x), x.order, z + k)
<1>1. /\ z \in Nat /\ n \in Nat /\ k \in Nat /\ z + k <= n /\ n = Len(x.order)
      /\ x.order \in Seq(0..IdMax) /\ Rising(x.order, z, n)
      /\ Handed(x.order, Held(x, Consumer), x.next_id, z, n, k)
  BY LaidNumbers DEF Laid
<1>2. CASE z + k < n
  <2>1. z + k + 1 \in (z + 1)..n /\ x.next_id = x.order[z + k + 1]
    BY <1>1, <1>2 DEF Handed
  <2>2. x.next_id \in Range(x.order) /\ Position(x.order, x.next_id) = z + k + 1
    BY <1>1, <2>1, PositionOfId
  <2>3. AheadIn(x) = SubSeq(x.order, (z + k) + 1, Len(x.order))
    BY <2>2 DEF AheadIn
  <2>4. z + k \in 0..Len(x.order)
    BY <1>1
  <2> QED BY <1>1, <2>3, <2>4, Suffix
<1>3. CASE ~(z + k < n)
  <2>1. z + k = n /\ x.next_id = None
    BY <1>1, <1>3 DEF Handed
  <2>2. x.next_id \notin Range(x.order)
    BY <1>1, <2>1, QueueAssumption DEF Range
  <2>3. AheadIn(x) = << >>
    BY <2>2 DEF AheadIn
  <2> QED BY <1>1, <2>1, <2>3 DEF Shifted
<1> QED BY <1>2, <1>3

\* What the FIFO sees.
LEMMA SeenOf ==
    ASSUME NEW x, NEW z, NEW n, NEW k, Laid(x.order, x.queue, Held(x, Consumer), x.next_id, z, n, k)
    PROVE  Seen(PendingIn(x), InflightIn(x), x.order, x.queue, z, n, k)
<1>1. /\ z \in Nat /\ n \in Nat /\ k \in Nat /\ z + k <= n /\ n = Len(x.order)
      /\ k = Len(Held(x, Consumer)) /\ x.order \in Seq(0..IdMax)
  BY LaidNumbers
<1>2. PICK ahead, h : ahead = AheadIn(x) /\ h = Held(x, Consumer)
  OBVIOUS
<1>3. /\ Len(ahead) = n - z - k
      /\ \A i \in 1..(n - z - k) : ahead[i] = x.order[(z + k) + i]
  <2>1. Shifted(0..IdMax, ahead, x.order, z + k)
    BY <1>2, AheadIs
  <2>2. Len(x.order) - (z + k) = n - z - k
    BY <1>1
  <2> QED BY <2>1, <2>2 DEF Shifted
<1>4. \A i \in 1..k : h[i] = x.order[z + i]
  BY <1>2 DEF Laid, Handed
<1>5. \A i \in (z + 1)..n : /\ x.order[i] \in DOMAIN x.queue
                            /\ x.queue[x.order[i]].payload \in Payloads
                            /\ PayloadIn(x, x.order[i]) = x.queue[x.order[i]].payload
  BY IdStored DEF PayloadIn
<1>6. ASSUME NEW i \in 1..(n - z - k)
      PROVE  /\ PendingIn(x)[i] = x.queue[x.order[(z + k) + i]].payload
             /\ x.queue[x.order[(z + k) + i]].payload \in Payloads
  <2>1. (z + k) + i \in (z + 1)..n
    BY <1>1
  <2>3. i \in 1..Len(ahead)
    BY <1>3
  <2>2. PendingIn(x)[i] = PayloadIn(x, ahead[i])
    BY <1>2, <2>3 DEF PendingIn
  <2> QED BY <1>3, <1>5, <2>1, <2>2
<1>7. ASSUME NEW i \in 1..k
      PROVE  /\ InflightIn(x)[i] = x.queue[x.order[z + i]].payload
             /\ x.queue[x.order[z + i]].payload \in Payloads
  <2>1. z + i \in (z + 1)..n
    BY <1>1
  <2>2. InflightIn(x)[i] = PayloadIn(x, h[i])
    BY <1>1, <1>2 DEF InflightIn
  <2> QED BY <1>4, <1>5, <2>1, <2>2
<1>8. PendingIn(x) \in Seq(Payloads) /\ Len(PendingIn(x)) = n - z - k
  <2>1. PICK p : p = PendingIn(x)
    OBVIOUS
  <2>0. n - z - k \in Nat
    BY <1>1
  <2>2. PICK m \in Nat : m = n - z - k
    BY <2>0
  <2>3. p = [i \in 1..m |-> p[i]] /\ \A i \in 1..m : p[i] \in Payloads
    BY <1>2, <1>3, <1>6, <2>1, <2>2 DEF PendingIn
  <2>4. p \in Seq(Payloads) /\ Len(p) = m
    BY <2>2, <2>3
  <2> QED BY <2>1, <2>2, <2>4
<1>9. InflightIn(x) \in Seq(Payloads) /\ Len(InflightIn(x)) = k
  <2>1. PICK p : p = InflightIn(x)
    OBVIOUS
  <2>2. p = [i \in 1..k |-> p[i]] /\ \A i \in 1..k : p[i] \in Payloads
    BY <1>1, <1>2, <1>7, <2>1 DEF InflightIn
  <2>3. p \in Seq(Payloads) /\ Len(p) = k
    BY <1>1, <2>2
  <2> QED BY <2>1, <2>3
<1> QED BY <1>6, <1>7, <1>8, <1>9 DEF Seen, Lists

\* A drain is not seen.
LEMMA SeenShift ==
    ASSUME NEW p, NEW f, NEW o, NEW Q, NEW z, NEW n, NEW k, NEW r, NEW m,
           z \in Nat, n \in Nat, k \in Nat, z + k <= n, n = Len(o), m \in 0..z,
           Shifted(0..IdMax, r, o, m), Seen(p, f, r, Q, z - m, n - m, k)
    PROVE  Seen(p, f, o, Q, z, n, k)
<1>1. m \in Nat /\ m <= z /\ (n - m) - (z - m) - k = n - z - k
  OBVIOUS
<1>2. \A i \in 1..(n - m) : r[i] = o[m + i]
  BY DEF Shifted
<1>3. ASSUME NEW i \in 1..(n - z - k)
      PROVE  r[(z - m) + k + i] = o[z + k + i]
  <2>1. (z - m) + k + i \in 1..(n - m) /\ m + ((z - m) + k + i) = z + k + i
    BY <1>1
  <2> QED BY <1>2, <2>1
<1>4. ASSUME NEW i \in 1..k
      PROVE  r[(z - m) + i] = o[z + i]
  <2>1. (z - m) + i \in 1..(n - m) /\ m + ((z - m) + i) = z + i
    BY <1>1
  <2> QED BY <1>2, <2>1
<1>5. Lists(p, o, Q, z + k, n - z - k)
  <2>1. Lists(p, r, Q, (z - m) + k, n - z - k)
    BY <1>1 DEF Seen
  <2> QED BY <1>3, <2>1 DEF Lists
<1>6. Lists(f, o, Q, z, k)
  <2>1. Lists(f, r, Q, z - m, k)
    BY DEF Seen
  <2> QED BY <1>4, <2>1 DEF Lists
<1> QED BY <1>5, <1>6 DEF Seen

-----------------------------------------------------------------------------
(***************************************************************************)
(* enqueue.                                                                *)
(***************************************************************************)

\* id is above all ids of o.
Above(id, o, z, n) == \A i \in (z + 1)..n : o[i] < id

\* A new id is above all others, as long as ids are not used up.
LEMMA NewIdAbove ==
    ASSUME NEW o, NEW z, NEW n, Rising(o, z, n), o # << >> => o[Len(o)] # IdMax
    PROVE  new_id(o) \in Ids /\ Above(new_id(o), o, z, n)
<1>1. o \in Seq(0..IdMax) /\ n = Len(o) /\ n \in Nat /\ z \in 0..n /\ IdMax \in Nat \ {0}
  BY QueueAssumption DEF Rising
<1>2. new_id(o) \in Ids
  BY <1>1, NewIdIsId
<1>3. ASSUME NEW i \in (z + 1)..n
      PROVE  o[i] < new_id(o)
  <2>1. n \in (z + 1)..n /\ o # << >> /\ i <= n /\ i \in Nat
    BY <1>1, <1>3
  <2>2. o[n] \in Ids /\ o[i] \in Ids /\ o[n] # IdMax
    BY <1>1, <2>1 DEF Rising
  <2>3. o[i] <= o[n]
    <3>1. CASE i = n
      BY <2>2, <3>1 DEF Ids
    <3>2. CASE i # n
      <4>1. i < n
        BY <1>1, <2>1, <3>2
      <4>2. o[i] < o[n]
        BY <2>1, <4>1 DEF Rising
      <4> QED BY <1>1, <2>2, <4>2 DEF Ids
    <3> QED BY <3>1, <3>2
  <2>4. new_id(o) = o[n] + 1
    <3>1. overflowing_add_one(o[Len(o)]) = o[n] + 1 /\ o[n] + 1 # 0
      BY <1>1, <2>2 DEF overflowing_add_one, Ids
    <3> QED BY <2>1, <3>1 DEF new_id
  <2> QED BY <1>1, <2>2, <2>3, <2>4 DEF Ids
<1> QED BY <1>2, <1>3 DEF Above

\* From the index `from` on, the payloads are those of o and Q.
SamePayloads(o2, Q2, o, Q, from, n) ==
    \A i \in from..n : Q2[o2[i]].payload = Q[o[i]].payload

\* The payload of the id at index i.
HasPayload(o, Q, i, v) == Q[o[i]].payload = v

\* The order and the cursor that enqueue leaves.
Extends(o2, next2, o, next, id) == o2 = Append(o, id) /\ next2 = IF next = None THEN id ELSE next

\* An id and its message are added.
LEMMA PutLaid ==
    ASSUME NEW o, NEW Q, NEW h, NEW next, NEW z, NEW n, NEW k, NEW id, NEW v,
           NEW o2, NEW Q2, NEW next2,
           Laid(o, Q, h, next, z, n, k), id \in Ids, Above(id, o, z, n),
           v \in MessageSet, v.locked_by = None,
           Extends(o2, next2, o, next, id), Q2 = Insert(Q, id, v)
    PROVE  /\ Laid(o2, Q2, h, next2, z, n + 1, k)
           /\ SamePayloads(o2, Q2, o, Q, z + 1, n)
           /\ HasPayload(o2, Q2, n + 1, v.payload)
<1>1. /\ z \in Nat /\ n \in Nat /\ k \in Nat /\ z + k <= n /\ n = Len(o) /\ k = Len(h)
      /\ o \in Seq(0..IdMax) /\ h \in Seq(Ids)
  BY LaidNumbers
<1>2. id \in Nat /\ id # 0 /\ id \in 0..IdMax
  BY QueueAssumption DEF Ids
<1>0. o2 = Append(o, id) /\ next2 = IF next = None THEN id ELSE next
  BY DEF Extends
<1>3. o2 \in Seq(0..IdMax) /\ Len(o2) = n + 1 /\ o2[n + 1] = id /\ \A i \in 1..n : o2[i] = o[i]
  BY <1>0, <1>1, <1>2
<1>4. (z + 1)..(n + 1) = ((z + 1)..n) \cup {n + 1} /\ n + 1 \notin (z + 1)..n /\ (z + 1)..n \subseteq 1..n
  BY <1>1
<1>5. /\ Q \in [DOMAIN Q -> MessageSet] /\ DOMAIN Q = {o[i] : i \in (z + 1)..n}
      /\ \A i \in (z + 1)..n : o[i] \in Ids
  BY DEF Laid, Kept, Rising
<1>6. id \notin DOMAIN Q
  <2>1. \A i \in (z + 1)..n : o[i] # id
    <3>1. TAKE i \in (z + 1)..n
    <3>2. o[i] \in Nat /\ o[i] < id
      BY <1>5, QueueAssumption DEF Ids, Above
    <3> QED BY <1>2, <3>2
  <2> QED BY <1>5, <2>1
<1>7. /\ Q2 \in [DOMAIN Q2 -> MessageSet] /\ DOMAIN Q2 = DOMAIN Q \cup {id}
      /\ Q2[id] = v /\ \A y \in DOMAIN Q : Q2[y] = Q[y]
  <2>1. DOMAIN Q2 = DOMAIN Q \cup {id} /\ Q2[id] = v /\ \A y \in DOMAIN Q : Q2[y] = Q[y]
    BY <1>6 DEF Insert
  <2>2. Q2 = [y \in DOMAIN Q2 |-> Q2[y]]
    BY DEF Insert
  <2>3. \A y \in DOMAIN Q2 : Q2[y] \in MessageSet
    BY <1>5, <2>1
  <2> QED BY <2>1, <2>2, <2>3
<1>8. Rising(o2, z, n + 1)
  <2>1. \A i \in 1..z : o2[i] = 0
    BY <1>1, <1>3 DEF Laid, Rising
  <2>2. \A i \in (z + 1)..(n + 1) : o2[i] \in Ids
    BY <1>3, <1>4, <1>5
  <2>3. \A i, j \in (z + 1)..(n + 1) : i < j => o2[i] < o2[j]
    <3>1. TAKE i, j \in (z + 1)..(n + 1)
    <3>2. HAVE i < j
    <3>3. i \in (z + 1)..n
      BY <1>1, <3>1, <3>2
    <3>4. CASE j = n + 1
      BY <1>3, <1>4, <3>3, <3>4 DEF Above
    <3>5. CASE j # n + 1
      <4>1. j \in (z + 1)..n
        BY <1>4, <3>5
      <4>2. o[i] < o[j]
        BY <3>2, <3>3, <4>1 DEF Laid, Rising
      <4> QED BY <1>3, <1>4, <3>3, <4>1, <4>2
    <3> QED BY <3>4, <3>5
  <2>4. z \in 0..(n + 1) /\ n + 1 \in Nat
    BY <1>1
  <2> QED BY <1>3, <2>1, <2>2, <2>3, <2>4 DEF Rising
<1>9. Handed(o2, h, next2, z, n + 1, k)
  <2>1. k \in 0..((n + 1) - z) /\ z + k < n + 1
    BY <1>1
  <2>2. \A i \in 1..k : h[i] = o2[z + i]
    <3>1. TAKE i \in 1..k
    <3>2. z + i \in 1..n /\ h[i] = o[z + i]
      BY <1>1 DEF Laid, Handed
    <3> QED BY <1>3, <3>2
  <2>3. next2 = o2[z + k + 1]
    <3>1. CASE z + k < n
      <4>1. next = o[z + k + 1] /\ z + k + 1 \in (z + 1)..n
        BY <1>1, <3>1 DEF Laid, Handed
      <4>2. next # None
        BY <1>5, <4>1, QueueAssumption DEF Ids
      <4> QED BY <1>0, <1>3, <1>4, <4>1, <4>2
    <3>2. CASE ~(z + k < n)
      <4>1. next = None
        BY <3>2 DEF Laid, Handed
      <4>2. z + k + 1 = n + 1
        BY <1>1, <3>2
      <4> QED BY <1>0, <1>3, <4>1, <4>2
    <3> QED BY <3>1, <3>2
  <2> QED BY <1>1, <2>1, <2>2, <2>3 DEF Handed
<1>10. \A i \in (z + 1)..n : Q2[o2[i]] = Q[o[i]]
  BY <1>3, <1>4, <1>5, <1>7
<1>11. Kept(o2, Q2, z, n + 1, k)
  <2>1. DOMAIN Q2 = {o2[i] : i \in (z + 1)..(n + 1)}
    <3>1. {o2[i] : i \in (z + 1)..(n + 1)} = {o[i] : i \in (z + 1)..n} \cup {id}
      BY <1>3, <1>4
    <3> QED BY <1>5, <1>7, <3>1
  <2>2. \A i \in (z + k + 1)..(n + 1) : Q2[o2[i]].locked_by = None
    <3>1. TAKE i \in (z + k + 1)..(n + 1)
    <3>2. CASE i = n + 1
      BY <1>3, <1>7, <3>2
    <3>3. CASE i # n + 1
      <4>1. i \in (z + k + 1)..n /\ i \in (z + 1)..n
        BY <1>1, <3>3
      <4>2. Q[o[i]].locked_by = None
        BY <4>1 DEF Laid, Kept
      <4> QED BY <1>10, <4>1, <4>2
    <3> QED BY <3>2, <3>3
  <2> QED BY <1>7, <2>1, <2>2 DEF Kept
<1> QED BY <1>3, <1>7, <1>8, <1>9, <1>10, <1>11 DEF Laid, SamePayloads, HasPayload

\* What waits grows by a payload.
LEMMA PutSeen ==
    ASSUME NEW p, NEW f, NEW p2, NEW f2, NEW o, NEW Q, NEW o2, NEW Q2, NEW z, NEW n, NEW k, NEW v,
           z \in Nat, n \in Nat, k \in Nat, z + k <= n, v \in Payloads,
           Seen(p, f, o, Q, z, n, k), Seen(p2, f2, o2, Q2, z, n + 1, k),
           SamePayloads(o2, Q2, o, Q, z + 1, n), HasPayload(o2, Q2, n + 1, v)
    PROVE  p2 = Append(p, v) /\ f2 = f
<1>1. PICK m \in Nat : m = n - z - k
  <2>1. n - z - k \in Nat
    OBVIOUS
  <2> QED BY <2>1
<1>2. (n + 1) - z - k = m + 1 /\ z + k + (m + 1) = n + 1
  BY <1>1
<1>3. /\ p \in Seq(Payloads) /\ Len(p) = m /\ \A i \in 1..m : p[i] = Q[o[z + k + i]].payload
      /\ f \in Seq(Payloads) /\ Len(f) = k /\ \A i \in 1..k : f[i] = Q[o[z + i]].payload
  BY <1>1 DEF Seen, Lists
<1>4. /\ p2 \in Seq(Payloads) /\ Len(p2) = m + 1
      /\ \A i \in 1..(m + 1) : p2[i] = Q2[o2[z + k + i]].payload
      /\ f2 \in Seq(Payloads) /\ Len(f2) = k /\ \A i \in 1..k : f2[i] = Q2[o2[z + i]].payload
  BY <1>2 DEF Seen, Lists
<1>5. \A i \in 1..m : p2[i] = p[i]
  <2>1. TAKE i \in 1..m
  <2>2. z + k + i \in (z + 1)..n /\ i \in 1..(m + 1)
    BY <1>1
  <2> QED BY <1>3, <1>4, <2>2 DEF SamePayloads
<1>6. p2[m + 1] = v
  <2>1. m + 1 \in 1..(m + 1)
    BY <1>1
  <2> QED BY <1>2, <1>4, <2>1 DEF HasPayload
<1>7. \A i \in 1..k : f2[i] = f[i]
  <2>1. TAKE i \in 1..k
  <2>2. z + i \in (z + 1)..n
    OBVIOUS
  <2> QED BY <1>3, <1>4, <2>2 DEF SamePayloads
<1>8. p2 = Append(p, v)
  BY <1>3, <1>4, <1>5, <1>6, IsAppend
<1>9. f2 = f
  BY <1>3, <1>4, <1>7, SameElements
<1> QED BY <1>8, <1>9

-----------------------------------------------------------------------------
(***************************************************************************)
(* lock_next: the cursor moves on by one id.                               *)
(***************************************************************************)

\* Only the entry of id changes.
Changes(Q2, Q, id) ==
    /\ id \in DOMAIN Q /\ DOMAIN Q2 = DOMAIN Q /\ Q2 \in [DOMAIN Q2 -> MessageSet]
    /\ \A y \in DOMAIN Q : y # id => Q2[y] = Q[y]

\* Only its lock does.
Relocks(Q2, Q, id, c) ==
    Changes(Q2, Q, id) /\ Q2[id].locked_by = c /\ Q2[id].payload = Q[id].payload

\* A message is locked or unlocked in place.
LEMMA RelockIs ==
    ASSUME NEW Q, NEW id, NEW c, NEW Q2, Q \in [DOMAIN Q -> MessageSet], id \in DOMAIN Q,
           c \in Clients \cup {None}, Q2 = [Q EXCEPT ![id].locked_by = c]
    PROVE  Relocks(Q2, Q, id, c)
<1>1. Q[id] \in MessageSet
  OBVIOUS
<1>2. PICK v : v = [Q[id] EXCEPT !.locked_by = c]
  OBVIOUS
<1>3. v \in MessageSet /\ v.locked_by = c /\ v.payload = Q[id].payload
  BY <1>1, <1>2 DEF MessageSet
<1>4. Q2 = [Q EXCEPT ![id] = v]
  BY <1>2
<1>5. DOMAIN Q2 = DOMAIN Q /\ Q2[id] = v /\ \A y \in DOMAIN Q : y # id => Q2[y] = Q[y]
  BY <1>4
<1>6. Q2 \in [DOMAIN Q2 -> MessageSet]
  BY <1>3, <1>4
<1> QED BY <1>3, <1>5, <1>6 DEF Relocks, Changes

\* The entry behind the last one handed out comes next.
LEMMA CursorMoves ==
    ASSUME NEW o, NEW z, NEW n, NEW i, Rising(o, z, n), i \in (z + 1)..n
    PROVE  SkipTombstone(o, Successor(o, o[i])) = IF i < n THEN o[i + 1] ELSE None
<1>1. o \in Seq(0..IdMax) /\ n = Len(o) /\ n \in Nat /\ z \in Nat
  BY DEF Rising
<1>2. o[i] \in Range(o) /\ Position(o, o[i]) = i
  BY PositionOfId
<1>3. CASE i < n
  <2>1. Successor(o, o[i]) = o[i + 1]
    BY <1>1, <1>2, <1>3 DEF Successor
  <2>2. i + 1 \in (z + 1)..n
    BY <1>1, <1>3
  <2>3. o[i + 1] # 0
    BY <2>2, QueueAssumption DEF Rising, Ids
  <2> QED BY <1>3, <2>1, <2>3 DEF SkipTombstone
<1>4. CASE ~(i < n)
  <2>1. Successor(o, o[i]) = None
    BY <1>1, <1>2, <1>4 DEF Successor
  <2>2. None # 0
    BY QueueAssumption
  <2> QED BY <1>4, <2>1, <2>2 DEF SkipTombstone
<1> QED BY <1>3, <1>4

\* A changed message keeps its place.
LEMMA ChangesKept ==
    ASSUME NEW o, NEW Q, NEW Q2, NEW z, NEW n, NEW k, NEW i,
           Rising(o, z, n), Kept(o, Q, z, n, k), Changes(Q2, Q, o[i]), i \in (z + 1)..n
    PROVE  \A j \in (z + 1)..n : j # i => Q2[o[j]] = Q[o[j]]
<1>1. TAKE j \in (z + 1)..n
<1>2. HAVE j # i
<1>3. o[j] # o[i]
  <2>1. j \in 1..n
    BY DEF Rising
  <2> QED BY <1>2, <2>1, IdsOnce
<1>4. o[j] \in DOMAIN Q
  BY DEF Kept
<1> QED BY <1>3, <1>4 DEF Changes

\* One id more is handed out.
LEMMA TakeLaid ==
    ASSUME NEW o, NEW Q, NEW h, NEW next, NEW z, NEW n, NEW k, NEW Q2, NEW h2, NEW next2,
           Laid(o, Q, h, next, z, n, k), z + k < n, Relocks(Q2, Q, next, Consumer),
           h2 = Append(h, next), next2 = SkipTombstone(o, Successor(o, next))
    PROVE  /\ Laid(o, Q2, h2, next2, z, n, k + 1)
           /\ SamePayloads(o, Q2, o, Q, z + 1, n)
<1>1. /\ z \in Nat /\ n \in Nat /\ k \in Nat /\ z + k <= n /\ n = Len(o) /\ k = Len(h)
      /\ o \in Seq(0..IdMax) /\ h \in Seq(Ids) /\ Rising(o, z, n)
  BY LaidNumbers DEF Laid
<1>2. PICK i \in Nat : i = z + k + 1
  BY <1>1
<1>3. i \in (z + 1)..n /\ next = o[i] /\ o[i] \in Ids
  BY <1>1, <1>2 DEF Laid, Handed, Rising
<1>4. DOMAIN Q = {o[j] : j \in (z + 1)..n}
  BY DEF Laid, Kept
<1>5. /\ \A j \in (z + 1)..n : j # i => Q2[o[j]] = Q[o[j]]
      /\ Q2[o[i]].payload = Q[o[i]].payload
      /\ DOMAIN Q2 = DOMAIN Q /\ Q2 \in [DOMAIN Q2 -> MessageSet]
  <2>1. Changes(Q2, Q, o[i])
    BY <1>3 DEF Relocks
  <2>2. \A j \in (z + 1)..n : j # i => Q2[o[j]] = Q[o[j]]
    <3>1. Kept(o, Q, z, n, k)
      BY DEF Laid
    <3>2. Rising(o, z, n) /\ i \in (z + 1)..n
      BY <1>1, <1>3
    <3> QED BY <2>1, <3>1, <3>2, ChangesKept
  <2> QED BY <1>3, <2>1, <2>2 DEF Relocks, Changes
<1>6. Handed(o, h2, next2, z, n, k + 1)
  <2>1. /\ h2 \in Seq(Ids) /\ Len(h2) = k + 1 /\ h2[k + 1] = o[i]
        /\ \A j \in 1..k : h2[j] = h[j]
    BY <1>1, <1>3
  <2>2. \A j \in 1..(k + 1) : h2[j] = o[z + j]
    <3>1. TAKE j \in 1..(k + 1)
    <3>2. CASE j = k + 1
      <4>1. z + j = i
        BY <1>1, <1>2, <3>2
      <4> QED BY <2>1, <3>2, <4>1
    <3>3. CASE j # k + 1
      <4>1. j \in 1..k
        BY <1>1, <3>3
      <4>2. h[j] = o[z + j]
        BY <4>1 DEF Laid, Handed
      <4> QED BY <2>1, <4>1, <4>2
    <3> QED BY <3>2, <3>3
  <2>3. next2 = IF i < n THEN o[i + 1] ELSE None
    BY <1>1, <1>3, CursorMoves
  <2>4. next2 = IF z + (k + 1) < n THEN o[z + (k + 1) + 1] ELSE None
    <3>1. z + (k + 1) = i
      BY <1>1, <1>2
    <3> QED BY <2>3, <3>1
  <2>5. k + 1 \in 0..(n - z)
    BY <1>1
  <2> QED BY <2>1, <2>2, <2>4, <2>5 DEF Handed
<1>7. Kept(o, Q2, z, n, k + 1)
  <2>1. \A j \in (z + (k + 1) + 1)..n : Q2[o[j]].locked_by = None
    <3>1. TAKE j \in (z + (k + 1) + 1)..n
    <3>2. j \in (z + 1)..n /\ j # i /\ j \in (z + k + 1)..n
      BY <1>1, <1>2
    <3>3. Q[o[j]].locked_by = None
      BY <3>2 DEF Laid, Kept
    <3> QED BY <1>5, <3>2, <3>3
  <2> QED BY <1>4, <1>5, <2>1 DEF Kept
<1>8. \A j \in (z + 1)..n : Q2[o[j]].payload = Q[o[j]].payload
  BY <1>5
<1> QED BY <1>1, <1>6, <1>7, <1>8 DEF Laid, SamePayloads

\* The first that waits is the last handed out.
LEMMA TakeSeen ==
    ASSUME NEW p, NEW f, NEW p2, NEW f2, NEW o, NEW Q, NEW Q2, NEW z, NEW n, NEW k,
           z \in Nat, n \in Nat, k \in Nat, z + k < n,
           Seen(p, f, o, Q, z, n, k), Seen(p2, f2, o, Q2, z, n, k + 1),
           SamePayloads(o, Q2, o, Q, z + 1, n)
    PROVE  p # << >> /\ p2 = Tail(p) /\ f2 = Append(f, Head(p))
<1>1. PICK m \in Nat : n - z - k = m + 1
  <2>1. n - z - k - 1 \in Nat /\ n - z - k = (n - z - k - 1) + 1
    OBVIOUS
  <2> QED BY <2>1
<1>2. n - z - (k + 1) = m /\ z + (k + 1) = z + k + 1
  BY <1>1
<1>3. /\ p \in Seq(Payloads) /\ Len(p) = m + 1
      /\ \A i \in 1..(m + 1) : p[i] = Q[o[z + k + i]].payload
      /\ f \in Seq(Payloads) /\ Len(f) = k /\ \A i \in 1..k : f[i] = Q[o[z + i]].payload
  BY <1>1 DEF Seen, Lists
<1>4. /\ p2 \in Seq(Payloads) /\ Len(p2) = m
      /\ \A i \in 1..m : p2[i] = Q2[o[z + k + 1 + i]].payload
      /\ f2 \in Seq(Payloads) /\ Len(f2) = k + 1
      /\ \A i \in 1..(k + 1) : f2[i] = Q2[o[z + i]].payload
  BY <1>2 DEF Seen, Lists
<1>5. \A i \in 1..m : p2[i] = p[i + 1]
  <2>1. TAKE i \in 1..m
  <2>2. PICK j \in (z + 1)..n : z + k + (i + 1) = j /\ z + k + 1 + i = j
    BY <1>1
  <2>3. i + 1 \in 1..(m + 1)
    BY <1>1
  <2>4. p[i + 1] = Q[o[j]].payload
    BY <1>3, <2>2, <2>3
  <2>5. p2[i] = Q2[o[j]].payload
    BY <1>4, <2>2
  <2> QED BY <2>4, <2>5 DEF SamePayloads
<1>6. p # << >> /\ Head(p) = p[1] /\ p2 = Tail(p)
  BY <1>3, <1>4, <1>5, IsTail
<1>7. \A i \in 1..k : f2[i] = f[i]
  <2>1. TAKE i \in 1..k
  <2>2. z + i \in (z + 1)..n /\ i \in 1..(k + 1)
    OBVIOUS
  <2> QED BY <1>3, <1>4, <2>2 DEF SamePayloads
<1>8. f2[k + 1] = p[1] /\ p[1] \in Payloads
  <2>1. PICK j \in (z + 1)..n : z + (k + 1) = j /\ z + k + 1 = j
    BY <1>1
  <2>2. 1 \in 1..(m + 1) /\ k + 1 \in 1..(k + 1)
    BY <1>1
  <2>3. p[1] = Q[o[j]].payload
    BY <1>3, <2>1, <2>2
  <2>5. p[1] \in Payloads
    BY <1>3, <2>2
  <2>4. f2[k + 1] = Q2[o[j]].payload
    BY <1>4, <2>1, <2>2
  <2> QED BY <2>3, <2>4, <2>5 DEF SamePayloads
<1>9. f2 = Append(f, p[1])
  BY <1>3, <1>4, <1>7, <1>8, IsAppend
<1> QED BY <1>6, <1>9

-----------------------------------------------------------------------------
(***************************************************************************)
(* dequeue_held: the oldest id handed out becomes a tombstone.             *)
(***************************************************************************)

\* One tombstone more.
LEMMA AckLaid ==
    ASSUME NEW o, NEW Q, NEW h, NEW next, NEW z, NEW n, NEW k, NEW o2, NEW Q2, NEW h2,
           Laid(o, Q, h, next, z, n, k), k # 0,
           o2 = Tombstone(o, Head(h)), Q2 = Remove(Q, Head(h)), h2 = Tail(h)
    PROVE  /\ Head(h) \in DOMAIN Q
           /\ Laid(o2, Q2, h2, next, z + 1, n, k - 1)
           /\ SamePayloads(o2, Q2, o, Q, z + 2, n)
<1>1. /\ z \in Nat /\ n \in Nat /\ k \in Nat /\ z + k <= n /\ n = Len(o) /\ k = Len(h)
      /\ o \in Seq(0..IdMax) /\ h \in Seq(Ids) /\ Rising(o, z, n)
  BY LaidNumbers DEF Laid
<1>2. k >= 1 /\ k - 1 \in Nat /\ z + 1 \in Nat /\ z + 1 \in (z + 1)..n /\ z + 1 \in 1..n
  BY <1>1
<1>3. PICK id : id = o[z + 1]
  OBVIOUS
<1>4. Head(h) = id /\ id \in Ids
  <2>1. Head(h) = h[1] /\ 1 \in 1..k
    BY <1>1, <1>2
  <2>2. h[1] = o[z + 1]
    BY <2>1 DEF Laid, Handed
  <2> QED BY <1>1, <1>2, <1>3, <2>1, <2>2 DEF Rising
<1>5. /\ o2 \in Seq(0..IdMax) /\ Len(o2) = n /\ o2[z + 1] = 0
      /\ \A i \in 1..n : i # z + 1 => o2[i] = o[i]
  <2>1. id \in Range(o) /\ Position(o, id) = z + 1
    BY <1>1, <1>2, <1>3, PositionOfId
  <2>2. PICK w \in 1..Len(o) : w = z + 1
    BY <1>1, <1>2
  <2>3. PICK T, v : T = 0..IdMax /\ v = 0
    OBVIOUS
  <2>4. o \in Seq(T) /\ v \in T
    BY <1>1, <2>3, QueueAssumption
  <2>5. o2 = [o EXCEPT ![w] = v]
    BY <1>4, <2>1, <2>2, <2>3 DEF Tombstone
  <2>6. /\ o2 \in Seq(T) /\ Len(o2) = Len(o) /\ o2[w] = v
        /\ \A i \in 1..Len(o) : i # w => o2[i] = o[i]
    BY <2>4, <2>5, Replaced
  <2> QED BY <1>1, <2>2, <2>3, <2>6
<1>6. \A i \in (z + 2)..n : i \in (z + 1)..n /\ i \in 1..n /\ i # z + 1 /\ o2[i] = o[i]
  BY <1>1, <1>5
<1>7. (z + 1) + 1 = z + 2
  BY <1>1
<1>8. Rising(o2, z + 1, n)
  <2>1. \A i \in 1..(z + 1) : o2[i] = 0
    <3>1. TAKE i \in 1..(z + 1)
    <3>2. CASE i = z + 1
      BY <1>5, <3>2
    <3>3. CASE i # z + 1
      <4>1. i \in 1..z /\ i \in 1..n
        BY <1>1, <3>3
      <4>2. o[i] = 0
        BY <1>1, <4>1 DEF Rising
      <4> QED BY <1>5, <3>3, <4>1, <4>2
    <3> QED BY <3>2, <3>3
  <2>2. \A i \in (z + 2)..n : o2[i] \in Ids
    BY <1>1, <1>6 DEF Rising
  <2>3. \A i, j \in (z + 2)..n : i < j => o2[i] < o2[j]
    <3>1. TAKE i, j \in (z + 2)..n
    <3>2. HAVE i < j
    <3>3. o[i] < o[j]
      BY <1>1, <1>6, <3>2 DEF Rising
    <3> QED BY <1>6, <3>3
  <2>4. z + 1 \in 0..n
    BY <1>1, <1>2
  <2> QED BY <1>1, <1>5, <1>7, <2>1, <2>2, <2>3, <2>4 DEF Rising
<1>9. Handed(o2, h2, next, z + 1, n, k - 1)
  <2>1. h2 \in Seq(Ids) /\ Len(h2) = k - 1 /\ \A i \in 1..(k - 1) : h2[i] = h[i + 1]
    BY <1>1, <1>2
  <2>2. \A i \in 1..(k - 1) : h2[i] = o2[(z + 1) + i]
    <3>1. TAKE i \in 1..(k - 1)
    <3>2. PICK j \in (z + 2)..n : j = (z + 1) + i /\ j = z + (i + 1)
      BY <1>1, <1>2
    <3>3. i + 1 \in 1..k
      BY <1>1, <1>2
    <3>4. h[i + 1] = o[z + (i + 1)]
      BY <3>3 DEF Laid, Handed
    <3>5. o2[j] = o[j]
      BY <1>6
    <3> QED BY <2>1, <3>2, <3>4, <3>5
  <2>3. k - 1 \in 0..(n - (z + 1)) /\ (z + 1) + (k - 1) = z + k
    BY <1>1, <1>2
  <2>4. next = IF z + k < n THEN o[z + k + 1] ELSE None
    BY DEF Laid, Handed
  <2>5. z + k < n => o2[z + k + 1] = o[z + k + 1]
    <3>1. HAVE z + k < n
    <3>2. z + k + 1 \in (z + 2)..n
      BY <1>1, <1>2, <3>1
    <3> QED BY <1>6, <3>2
  <2>6. next = IF (z + 1) + (k - 1) < n THEN o2[(z + 1) + (k - 1) + 1] ELSE None
    BY <2>3, <2>4, <2>5
  <2> QED BY <2>1, <2>2, <2>3, <2>6 DEF Handed
<1>10. Q \in [DOMAIN Q -> MessageSet] /\ DOMAIN Q = {o[i] : i \in (z + 1)..n}
  BY DEF Laid, Kept
<1>11. id \in DOMAIN Q
  BY <1>2, <1>3, <1>10
<1>12. /\ DOMAIN Q2 = DOMAIN Q \ {id} /\ Q2 \in [DOMAIN Q2 -> MessageSet]
       /\ \A y \in DOMAIN Q2 : Q2[y] = Q[y]
  BY <1>4, <1>10 DEF Remove, Restrict
<1>13. \A i \in (z + 2)..n : o[i] # id
  <2>1. TAKE i \in (z + 2)..n
  <2>2. i \in 1..n /\ i # z + 1
    BY <1>6
  <2> QED BY <1>1, <1>2, <1>3, <2>2, IdsOnce
<1>14. DOMAIN Q2 = {o2[i] : i \in (z + 2)..n}
  <2>1. \A i \in (z + 1)..n : i = z + 1 \/ i \in (z + 2)..n
    BY <1>1
  <2>2. {o[i] : i \in (z + 1)..n} \ {id} = {o[i] : i \in (z + 2)..n}
    BY <1>3, <1>6, <1>13, <2>1
  <2>3. {o[i] : i \in (z + 2)..n} = {o2[i] : i \in (z + 2)..n}
    BY <1>6
  <2> QED BY <1>10, <1>12, <2>2, <2>3
<1>15. \A i \in (z + 2)..n : Q2[o2[i]] = Q[o[i]]
  BY <1>6, <1>12, <1>14
<1>16. Kept(o2, Q2, z + 1, n, k - 1)
  <2>1. (z + 1) + (k - 1) + 1 = z + k + 1
    BY <1>1, <1>2
  <2>2. \A i \in (z + k + 1)..n : Q2[o2[i]].locked_by = None
    <3>1. TAKE i \in (z + k + 1)..n
    <3>2. i \in (z + 2)..n
      BY <1>1, <1>2
    <3>3. Q[o[i]].locked_by = None
      BY DEF Laid, Kept
    <3> QED BY <1>15, <3>2, <3>3
  <2> QED BY <1>7, <1>12, <1>14, <2>1, <2>2 DEF Kept
<1> QED BY <1>4, <1>8, <1>9, <1>11, <1>15, <1>16 DEF Laid, SamePayloads

\* The oldest handed out is gone.
LEMMA AckSeen ==
    ASSUME NEW p, NEW f, NEW p2, NEW f2, NEW o, NEW Q, NEW o2, NEW Q2, NEW z, NEW n, NEW k,
           z \in Nat, n \in Nat, k \in Nat, z + k <= n, k # 0,
           Seen(p, f, o, Q, z, n, k), Seen(p2, f2, o2, Q2, z + 1, n, k - 1),
           SamePayloads(o2, Q2, o, Q, z + 2, n)
    PROVE  f # << >> /\ f2 = Tail(f) /\ p2 = p
<1>1. k - 1 \in Nat /\ n - z - k \in Nat
  OBVIOUS
<1>2. PICK m \in Nat, l \in Nat : m = n - z - k /\ k = l + 1 /\ k - 1 = l
  <2>1. k = (k - 1) + 1
    OBVIOUS
  <2> QED BY <1>1, <2>1
<1>3. n - (z + 1) - (k - 1) = m /\ (z + 1) + (k - 1) = z + k
  BY <1>2
<1>4. /\ p \in Seq(Payloads) /\ Len(p) = m /\ \A i \in 1..m : p[i] = Q[o[z + k + i]].payload
      /\ f \in Seq(Payloads) /\ Len(f) = k /\ \A i \in 1..k : f[i] = Q[o[z + i]].payload
  BY <1>2 DEF Seen, Lists
<1>5. /\ p2 \in Seq(Payloads) /\ Len(p2) = m /\ \A i \in 1..m : p2[i] = Q2[o2[z + k + i]].payload
      /\ f2 \in Seq(Payloads) /\ Len(f2) = l
      /\ \A i \in 1..l : f2[i] = Q2[o2[(z + 1) + i]].payload
  BY <1>2, <1>3 DEF Seen, Lists
<1>6. \A i \in 1..m : p2[i] = p[i]
  <2>1. TAKE i \in 1..m
  <2>2. z + k + i \in (z + 2)..n
    BY <1>2
  <2> QED BY <1>4, <1>5, <2>2 DEF SamePayloads
<1>7. \A i \in 1..l : f2[i] = f[i + 1]
  <2>1. TAKE i \in 1..l
  <2>2. PICK j \in (z + 2)..n : j = (z + 1) + i /\ j = z + (i + 1)
    BY <1>2
  <2>3. i + 1 \in 1..k
    BY <1>2
  <2>4. f[i + 1] = Q[o[j]].payload
    BY <1>4, <2>2, <2>3
  <2>5. f2[i] = Q2[o2[j]].payload
    BY <1>5, <2>2
  <2> QED BY <2>4, <2>5 DEF SamePayloads
<1>8. p2 = p
  BY <1>4, <1>5, <1>6, SameElements
<1>9. f # << >> /\ f2 = Tail(f)
  <2>1. /\ f \in Seq(Payloads) /\ f2 \in Seq(Payloads) /\ Len(f) = Len(f2) + 1
        /\ \A i \in 1..Len(f2) : f2[i] = f[i + 1]
    BY <1>2, <1>4, <1>5, <1>7
  <2> QED BY <2>1, IsTail
<1> QED BY <1>8, <1>9

-----------------------------------------------------------------------------
(***************************************************************************)
(* unlock_id: the only id handed out waits again.                          *)
(***************************************************************************)

\* A list of one becomes empty.
LEMMA RemoveOnly ==
    ASSUME NEW T, NEW h, h \in Seq(T), Len(h) = 1
    PROVE  RemoveOne(h, Head(h)) = << >>
<1>1. Head(h) = h[1] /\ h[1] \in Range(h)
  BY DEF Range
<1>2. Position(h, h[1]) \in 1..1
  BY <1>1, PositionIsIndex
<1>3. Position(h, h[1]) = 1
  BY <1>2
<1>4. RemoveOne(h, Head(h)) = SubSeq(h, 1, 0) \o SubSeq(h, 2, 1)
  BY <1>1, <1>3 DEF RemoveOne
<1>5. SubSeq(h, 1, 0) = << >> /\ SubSeq(h, 2, 1) = << >>
  OBVIOUS
<1> QED BY <1>4, <1>5

\* A list of one.
Single(h) == Len(h) = 1

\* The cursor that unlock_id leaves.
GoesBack(next2, next, id) == next2 = IF next = None \/ id < next THEN id ELSE next

\* The cursor moves back to it.
LEMMA NackLaid ==
    ASSUME NEW o, NEW Q, NEW h, NEW next, NEW z, NEW n, NEW k, NEW id, NEW Q2, NEW next2,
           Laid(o, Q, h, next, z, n, k), Single(h), id = h[1], Relocks(Q2, Q, id, None),
           GoesBack(next2, next, id)
    PROVE  /\ Laid(o, Q2, << >>, next2, z, n, 0)
           /\ SamePayloads(o, Q2, o, Q, z + 1, n)
<1>1. /\ z \in Nat /\ n \in Nat /\ z + 1 <= n /\ n = Len(o) /\ k = 1
      /\ o \in Seq(0..IdMax) /\ h \in Seq(Ids) /\ Rising(o, z, n)
  <2>1. /\ z \in Nat /\ n \in Nat /\ z + k <= n /\ n = Len(o) /\ k = Len(h)
        /\ o \in Seq(0..IdMax) /\ h \in Seq(Ids)
    BY LaidNumbers
  <2>2. Rising(o, z, n)
    BY DEF Laid
  <2> QED BY <2>1, <2>2 DEF Single
<1>2. PICK i \in Nat : i = z + 1
  BY <1>1
<1>3. i \in (z + 1)..n /\ id = o[i] /\ o[i] \in Ids
  <2>1. 1 \in 1..k /\ i \in (z + 1)..n
    BY <1>1, <1>2
  <2>2. h[1] = o[z + 1]
    BY <2>1 DEF Laid, Handed
  <2> QED BY <1>1, <1>2, <2>1, <2>2 DEF Rising
<1>4. DOMAIN Q = {o[j] : j \in (z + 1)..n}
  BY DEF Laid, Kept
<1>5. /\ \A j \in (z + 1)..n : j # i => Q2[o[j]] = Q[o[j]]
      /\ Q2[o[i]].payload = Q[o[i]].payload /\ Q2[o[i]].locked_by = None
      /\ DOMAIN Q2 = DOMAIN Q /\ Q2 \in [DOMAIN Q2 -> MessageSet]
  <2>1. Changes(Q2, Q, o[i])
    BY <1>3 DEF Relocks
  <2>2. \A j \in (z + 1)..n : j # i => Q2[o[j]] = Q[o[j]]
    <3>1. Kept(o, Q, z, n, k)
      BY DEF Laid
    <3>2. Rising(o, z, n) /\ i \in (z + 1)..n
      BY <1>1, <1>3
    <3> QED BY <2>1, <3>1, <3>2, ChangesKept
  <2> QED BY <1>3, <2>1, <2>2 DEF Relocks, Changes
<1>6. next2 = o[i]
  <2>1. CASE next = None
    BY <1>3, <2>1 DEF GoesBack
  <2>2. CASE next # None
    <3>1. z + 1 < n /\ next = o[z + 1 + 1]
      BY <1>1, <2>2 DEF Laid, Handed
    <3>2. i < i + 1 /\ i + 1 \in (z + 1)..n /\ next = o[i + 1]
      BY <1>1, <1>2, <3>1
    <3>3. o[i] < next
      BY <1>1, <1>3, <3>2 DEF Rising
    <3> QED BY <1>3, <3>3 DEF GoesBack
  <2> QED BY <2>1, <2>2
<1>7. Handed(o, << >>, next2, z, n, 0)
  <2>1. z + 0 < n /\ z + 0 + 1 = i /\ 0 \in 0..(n - z)
    BY <1>1, <1>2
  <2>2. << >> \in Seq(Ids) /\ 0 = Len(<< >>) /\ \A j \in 1..0 : << >>[j] = o[z + j]
    OBVIOUS
  <2> QED BY <1>6, <2>1, <2>2 DEF Handed
<1>8. Kept(o, Q2, z, n, 0)
  <2>1. \A j \in (z + 0 + 1)..n : Q2[o[j]].locked_by = None
    <3>1. TAKE j \in (z + 0 + 1)..n
    <3>2. j \in (z + 1)..n
      BY <1>1
    <3>3. CASE j = i
      BY <1>5, <3>3
    <3>4. CASE j # i
      <4>1. j \in (z + k + 1)..n
        BY <1>1, <1>2, <3>2, <3>4
      <4>2. Q[o[j]].locked_by = None
        BY <4>1 DEF Laid, Kept
      <4> QED BY <1>5, <3>2, <3>4, <4>2
    <3> QED BY <3>3, <3>4
  <2> QED BY <1>4, <1>5, <2>1 DEF Kept
<1>9. \A j \in (z + 1)..n : Q2[o[j]].payload = Q[o[j]].payload
  BY <1>5
<1> QED BY <1>1, <1>7, <1>8, <1>9 DEF Laid, SamePayloads

\* What was handed out is in front of what waits.
LEMMA NackSeen ==
    ASSUME NEW p, NEW f, NEW p2, NEW f2, NEW o, NEW Q, NEW Q2, NEW z, NEW n,
           z \in Nat, n \in Nat, z + 1 <= n,
           Seen(p, f, o, Q, z, n, 1), Seen(p2, f2, o, Q2, z, n, 0),
           SamePayloads(o, Q2, o, Q, z + 1, n)
    PROVE  Len(f) = 1 /\ f2 = << >> /\ p2 = f \o p
<1>1. PICK m \in Nat : m = n - z - 1
  <2>1. n - z - 1 \in Nat
    OBVIOUS
  <2> QED BY <2>1
<1>2. n - z - 0 = m + 1 /\ z + 0 = z
  BY <1>1
<1>3. /\ p \in Seq(Payloads) /\ Len(p) = m /\ \A i \in 1..m : p[i] = Q[o[z + 1 + i]].payload
      /\ f \in Seq(Payloads) /\ Len(f) = 1 /\ \A i \in 1..1 : f[i] = Q[o[z + i]].payload
  BY <1>1 DEF Seen, Lists
<1>4. /\ p2 \in Seq(Payloads) /\ Len(p2) = m + 1
      /\ \A i \in 1..(m + 1) : p2[i] = Q2[o[z + i]].payload
      /\ f2 \in Seq(Payloads) /\ Len(f2) = 0
  BY <1>2 DEF Seen, Lists
<1>5. p2[1] = f[1]
  <2>1. 1 \in 1..1 /\ 1 \in 1..(m + 1) /\ z + 1 \in (z + 1)..n
    BY <1>1
  <2> QED BY <1>3, <1>4, <2>1 DEF SamePayloads
<1>6. \A i \in 1..m : p2[i + 1] = p[i]
  <2>1. TAKE i \in 1..m
  <2>2. PICK j \in (z + 1)..n : j = z + 1 + i /\ j = z + (i + 1)
    BY <1>1
  <2>3. i + 1 \in 1..(m + 1)
    BY <1>1
  <2>4. p2[i + 1] = Q2[o[j]].payload
    BY <1>4, <2>2, <2>3
  <2>5. p[i] = Q[o[j]].payload
    BY <1>3, <2>2
  <2> QED BY <2>4, <2>5 DEF SamePayloads
<1>7. p2 = f \o p
  <2>1. Len(p2) = Len(p) + 1 /\ \A i \in 1..Len(p) : p2[i + 1] = p[i]
    BY <1>3, <1>4, <1>6
  <2>2. p \in Seq(Payloads) /\ p2 \in Seq(Payloads) /\ f \in Seq(Payloads) /\ Len(f) = 1
    BY <1>3, <1>4
  <2>3. Joins(p2, f, p)
    BY <1>5, <2>1, <2>2, IsPrepend
  <2> QED BY <2>3 DEF Joins
<1>8. f2 = << >>
  BY <1>4
<1> QED BY <1>3, <1>7, <1>8

-----------------------------------------------------------------------------
(***************************************************************************)
(* update_message: a payload changes where it is.                          *)
(***************************************************************************)

\* Only the payload does.
Repays(Q2, Q, id, v) ==
    Changes(Q2, Q, id) /\ Q2[id].locked_by = Q[id].locked_by /\ Q2[id].payload = v

\* A payload is replaced in place.
LEMMA RepayIs ==
    ASSUME NEW Q, NEW id, NEW pay, NEW Q2, Q \in [DOMAIN Q -> MessageSet], id \in DOMAIN Q,
           pay \in Payloads, Q2 = [Q EXCEPT ![id].payload = pay]
    PROVE  Repays(Q2, Q, id, pay)
<1>1. Q[id] \in MessageSet
  OBVIOUS
<1>2. PICK v : v = [Q[id] EXCEPT !.payload = pay]
  OBVIOUS
<1>3. v \in MessageSet /\ v.payload = pay /\ v.locked_by = Q[id].locked_by
  BY <1>1, <1>2 DEF MessageSet
<1>4. Q2 = [Q EXCEPT ![id] = v]
  BY <1>2
<1>5. DOMAIN Q2 = DOMAIN Q /\ Q2[id] = v /\ \A y \in DOMAIN Q : y # id => Q2[y] = Q[y]
  BY <1>4
<1>6. Q2 \in [DOMAIN Q2 -> MessageSet]
  BY <1>3, <1>4
<1> QED BY <1>3, <1>5, <1>6 DEF Repays, Changes

\* The message at index i has the payload v, the others are as they were.
RepaysAt(Q2, Q, o, z, n, i, v) ==
    Q2[o[i]].payload = v /\ \A j \in (z + 1)..n : j # i => Q2[o[j]] = Q[o[j]]

\* The layout stays.
LEMMA UpdateLaid ==
    ASSUME NEW o, NEW Q, NEW h, NEW next, NEW z, NEW n, NEW k, NEW Q2, NEW id, NEW v,
           Laid(o, Q, h, next, z, n, k), Repays(Q2, Q, id, v)
    PROVE  /\ Laid(o, Q2, h, next, z, n, k)
           /\ \E i \in (z + 1)..n : RepaysAt(Q2, Q, o, z, n, i, v)
<1>1. /\ z \in Nat /\ n \in Nat /\ k \in Nat /\ Rising(o, z, n) /\ Handed(o, h, next, z, n, k)
      /\ Kept(o, Q, z, n, k)
  BY LaidNumbers DEF Laid
<1>2. DOMAIN Q = {o[j] : j \in (z + 1)..n} /\ id \in DOMAIN Q
  BY <1>1 DEF Kept, Repays, Changes
<1>3. PICK i \in (z + 1)..n : id = o[i]
  BY <1>2
<1>4. /\ DOMAIN Q2 = DOMAIN Q /\ Q2 \in [DOMAIN Q2 -> MessageSet]
      /\ Q2[o[i]].payload = v /\ Q2[o[i]].locked_by = Q[o[i]].locked_by
  BY <1>3 DEF Repays, Changes
<1>5. \A j \in (z + 1)..n : j # i => Q2[o[j]] = Q[o[j]]
  <2>1. Changes(Q2, Q, o[i])
    BY <1>3 DEF Repays
  <2> QED BY <1>1, <1>3, <2>1, ChangesKept
<1>6. Kept(o, Q2, z, n, k)
  <2>1. \A j \in (z + k + 1)..n : Q2[o[j]].locked_by = None
    <3>1. TAKE j \in (z + k + 1)..n
    <3>2. j \in (z + 1)..n
      BY <1>1
    <3>3. Q[o[j]].locked_by = None
      BY <1>1 DEF Kept
    <3> QED BY <1>4, <1>5, <3>2, <3>3
  <2> QED BY <1>2, <1>4, <2>1 DEF Kept
<1>7. RepaysAt(Q2, Q, o, z, n, i, v)
  BY <1>4, <1>5 DEF RepaysAt
<1> QED BY <1>1, <1>6, <1>7 DEF Laid

\* One element of p becomes v.
Replaces(p2, p, v) == \E i \in 1..Len(p) : p2 = [p EXCEPT ![i] = v]

\* A payload that waits or one that was handed out is replaced.
LEMMA UpdateSeen ==
    ASSUME NEW p, NEW f, NEW p2, NEW f2, NEW o, NEW Q, NEW Q2, NEW z, NEW n, NEW k, NEW v, NEW i,
           z \in Nat, n \in Nat, k \in Nat, z + k <= n, v \in Payloads,
           Seen(p, f, o, Q, z, n, k), Seen(p2, f2, o, Q2, z, n, k),
           i \in (z + 1)..n, RepaysAt(Q2, Q, o, z, n, i, v)
    PROVE  \/ Replaces(p2, p, v) /\ f2 = f
           \/ Replaces(f2, f, v) /\ p2 = p
<1>1. PICK m \in Nat : m = n - z - k
  <2>1. n - z - k \in Nat
    OBVIOUS
  <2> QED BY <2>1
<1>2. /\ p \in Seq(Payloads) /\ Len(p) = m /\ \A j \in 1..m : p[j] = Q[o[z + k + j]].payload
      /\ f \in Seq(Payloads) /\ Len(f) = k /\ \A j \in 1..k : f[j] = Q[o[z + j]].payload
  BY <1>1 DEF Seen, Lists
<1>3. /\ p2 \in Seq(Payloads) /\ Len(p2) = m /\ \A j \in 1..m : p2[j] = Q2[o[z + k + j]].payload
      /\ f2 \in Seq(Payloads) /\ Len(f2) = k /\ \A j \in 1..k : f2[j] = Q2[o[z + j]].payload
  BY <1>1 DEF Seen, Lists
<1>4. ASSUME NEW j \in 1..m, z + k + j # i
      PROVE  p2[j] = p[j]
  <2>1. z + k + j \in (z + 1)..n
    BY <1>1
  <2>2. PICK l \in (z + 1)..n : l = z + k + j
    BY <2>1
  <2>3. p[j] = Q[o[l]].payload
    BY <1>2, <2>2
  <2>4. p2[j] = Q2[o[l]].payload
    BY <1>3, <2>2
  <2>5. Q2[o[l]] = Q[o[l]]
    BY <1>4, <2>2 DEF RepaysAt
  <2> QED BY <2>3, <2>4, <2>5
<1>5. ASSUME NEW j \in 1..k, z + j # i
      PROVE  f2[j] = f[j]
  <2>1. z + j \in (z + 1)..n
    OBVIOUS
  <2>2. PICK l \in (z + 1)..n : l = z + j
    BY <2>1
  <2>3. f[j] = Q[o[l]].payload
    BY <1>2, <2>2
  <2>4. f2[j] = Q2[o[l]].payload
    BY <1>3, <2>2
  <2>5. Q2[o[l]] = Q[o[l]]
    BY <1>5, <2>2 DEF RepaysAt
  <2> QED BY <2>3, <2>4, <2>5
<1>6. CASE i <= z + k
  <2>1. PICK l \in 1..k : i = z + l
    <3>1. i - z \in 1..k /\ i = z + (i - z)
      BY <1>6
    <3> QED BY <3>1
  <2>2. p2 = p
    <3>1. \A j \in 1..m : z + k + j # i
      BY <1>6
    <3> QED BY <1>2, <1>3, <1>4, <3>1, SameElements
  <2>3. f2[l] = v
    BY <1>3, <2>1 DEF RepaysAt
  <2>4. \A j \in 1..k : j # l => f2[j] = f[j]
    <3>1. \A j \in 1..k : j # l => z + j # i
      BY <2>1
    <3> QED BY <1>5, <3>1
  <2>5. f2 = [f EXCEPT ![l] = v]
    BY <1>2, <1>3, <2>3, <2>4, IsReplaced
  <2> QED BY <1>2, <2>2, <2>5 DEF Replaces
<1>7. CASE ~(i <= z + k)
  <2>1. PICK l \in 1..m : i = z + k + l
    <3>1. i - (z + k) \in 1..m /\ i = z + k + (i - (z + k))
      BY <1>1, <1>7
    <3> QED BY <3>1
  <2>2. f2 = f
    <3>1. \A j \in 1..k : z + j # i
      BY <1>7
    <3> QED BY <1>2, <1>3, <1>5, <3>1, SameElements
  <2>3. p2[l] = v
    BY <1>3, <2>1 DEF RepaysAt
  <2>4. \A j \in 1..m : j # l => p2[j] = p[j]
    <3>1. \A j \in 1..m : j # l => z + k + j # i
      BY <2>1
    <3> QED BY <1>4, <3>1
  <2>5. p2 = [p EXCEPT ![l] = v]
    BY <1>2, <1>3, <2>3, <2>4, IsReplaced
  <2> QED BY <1>2, <2>2, <2>5 DEF Replaces
<1> QED BY <1>6, <1>7

-----------------------------------------------------------------------------
(***************************************************************************)
(* The methods.                                                            *)
(***************************************************************************)

\* A queue that is laid out.
HasLayout(x) ==
    \E z, n, k \in Nat : Laid(x.order, x.queue, Held(x, Consumer), x.next_id, z, n, k)

\* A method leaves a layout, but for the drain that may follow.
LEMMA Drained ==
    ASSUME NEW y, NEW o, NEW Q, NEW h, NEW next, NEW z, NEW n, NEW k, Laid(o, Q, h, next, z, n, k),
           y.queue = Q, Held(y, Consumer) = h, y.next_id = next,
           y.order = o \/ y.order = remove_zeroes(o)
    PROVE  HasLayout(y) /\ Seen(PendingIn(y), InflightIn(y), o, Q, z, n, k)
<1>1. z \in Nat /\ n \in Nat /\ k \in Nat /\ z + k <= n /\ n = Len(o)
  BY LaidNumbers
<1>2. PICK r : r = y.order
  OBVIOUS
<1>3. PICK m \in 0..z : Shifted(0..IdMax, r, o, m) /\ Laid(r, Q, h, next, z - m, n - m, k)
  BY <1>2, DrainLaid
<1>4. z - m \in Nat /\ n - m \in Nat
  BY <1>1
<1>5. PICK z2 \in Nat, n2 \in Nat : z2 = z - m /\ n2 = n - m
  BY <1>4
<1>6. Laid(y.order, y.queue, Held(y, Consumer), y.next_id, z2, n2, k)
  BY <1>2, <1>3, <1>5
<1>7. HasLayout(y)
  BY <1>1, <1>6 DEF HasLayout
<1>8. Seen(PendingIn(y), InflightIn(y), y.order, y.queue, z2, n2, k)
  BY <1>6, SeenOf
<1>9. Seen(PendingIn(y), InflightIn(y), r, Q, z - m, n - m, k)
  BY <1>2, <1>5, <1>8
<1>10. Seen(PendingIn(y), InflightIn(y), o, Q, z, n, k)
  BY <1>1, <1>3, <1>9, SeenShift
<1> QED BY <1>7, <1>10

\* What the FIFO sees of the methods.
Puts(y, x, v) == PendingIn(y) = Append(PendingIn(x), v) /\ InflightIn(y) = InflightIn(x)

Takes(y, x) ==
    /\ PendingIn(x) # << >> /\ PendingIn(y) = Tail(PendingIn(x))
    /\ InflightIn(y) = Append(InflightIn(x), Head(PendingIn(x)))

Acks(y, x) ==
    InflightIn(x) # << >> /\ InflightIn(y) = Tail(InflightIn(x)) /\ PendingIn(y) = PendingIn(x)

Nacks(y, x) ==
    /\ Len(InflightIn(x)) = 1 /\ InflightIn(y) = << >>
    /\ PendingIn(y) = InflightIn(x) \o PendingIn(x)

Rewrites(y, x, v) ==
    \/ Replaces(PendingIn(y), PendingIn(x), v) /\ InflightIn(y) = InflightIn(x)
    \/ Replaces(InflightIn(y), InflightIn(x), v) /\ PendingIn(y) = PendingIn(x)

Keeps(y, x) == PendingIn(y) = PendingIn(x) /\ InflightIn(y) = InflightIn(x)

\* enqueue puts.
LEMMA EnqueuePuts ==
    ASSUME NEW x, NEW v, NEW y, IsQueue(x), HasLayout(x), v \in Payloads, y = enqueue(x, v),
           x.order # << >> => x.order[Len(x.order)] # IdMax
    PROVE  HasLayout(y) /\ Puts(y, x, v) /\ y.auto_fail = x.auto_fail
<1>1. PICK z, n, k \in Nat : Laid(x.order, x.queue, Held(x, Consumer), x.next_id, z, n, k)
  BY DEF HasLayout
<1>2. PICK id, w, o2, Q2, next2 :
        /\ id = new_id(x.order) /\ w = [payload |-> v, locked_by |-> None]
        /\ o2 = Append(x.order, id) /\ Q2 = Insert(x.queue, id, w)
        /\ next2 = IF x.next_id = None THEN id ELSE x.next_id
  OBVIOUS
<1>3. y = [x EXCEPT !.next_id = next2, !.order = o2, !.queue = Q2]
  BY <1>2 DEF enqueue
<1>4. /\ y.order = o2 /\ y.queue = Q2 /\ y.next_id = next2 /\ y.locked = x.locked
      /\ y.auto_fail = x.auto_fail
  BY <1>3 DEF IsQueue
<1>5. Held(y, Consumer) = Held(x, Consumer)
  BY <1>4 DEF Held
<1>6. z + k <= n /\ Rising(x.order, z, n)
  BY <1>1, LaidNumbers DEF Laid
<1>7. id \in Ids /\ Above(id, x.order, z, n)
  BY <1>2, <1>6, NewIdAbove
<1>8. w \in MessageSet /\ w.locked_by = None /\ w.payload = v
  BY <1>2 DEF MessageSet
<1>9. /\ Laid(o2, Q2, Held(x, Consumer), next2, z, n + 1, k)
      /\ SamePayloads(o2, Q2, x.order, x.queue, z + 1, n)
      /\ HasPayload(o2, Q2, n + 1, v)
  <2>1. PICK o, Q, h, next : o = x.order /\ Q = x.queue /\ h = Held(x, Consumer) /\ next = x.next_id
    OBVIOUS
  <2>2. Extends(o2, next2, o, next, id) /\ Q2 = Insert(Q, id, w)
    BY <1>2, <2>1 DEF Extends
  <2>3. Laid(o, Q, h, next, z, n, k) /\ id \in Ids /\ Above(id, o, z, n)
    BY <1>1, <1>7, <2>1
  <2>4. /\ Laid(o2, Q2, h, next2, z, n + 1, k) /\ SamePayloads(o2, Q2, o, Q, z + 1, n)
        /\ HasPayload(o2, Q2, n + 1, w.payload)
    BY <1>8, <2>2, <2>3, PutLaid
  <2> QED BY <1>8, <2>1, <2>4
<1>10. HasLayout(y) /\ Seen(PendingIn(y), InflightIn(y), o2, Q2, z, n + 1, k)
  BY <1>4, <1>5, <1>9, Drained
<1>11. Seen(PendingIn(x), InflightIn(x), x.order, x.queue, z, n, k)
  BY <1>1, SeenOf
<1>12. PendingIn(y) = Append(PendingIn(x), v) /\ InflightIn(y) = InflightIn(x)
  <2>2. PICK p, f, p2, f2, o, Q :
          /\ p = PendingIn(x) /\ f = InflightIn(x) /\ p2 = PendingIn(y) /\ f2 = InflightIn(y)
          /\ o = x.order /\ Q = x.queue
    OBVIOUS
  <2>3. /\ Seen(p, f, o, Q, z, n, k) /\ Seen(p2, f2, o2, Q2, z, n + 1, k)
        /\ SamePayloads(o2, Q2, o, Q, z + 1, n) /\ HasPayload(o2, Q2, n + 1, v)
    BY <1>9, <1>10, <1>11, <2>2
  <2>4. p2 = Append(p, v) /\ f2 = f
    BY <1>6, <2>3, PutSeen
  <2> QED BY <2>2, <2>4
<1> QED BY <1>4, <1>10, <1>12 DEF Puts

\* lock_to_read takes, or nothing waits.
LEMMA LockTakes ==
    ASSUME NEW x, IsQueue(x), HasLayout(x)
    PROVE  LET result == lock_to_read(x, Consumer)
           IN  \/ /\ result.ret = "Ok" /\ HasLayout(result.q) /\ Takes(result.q, x)
                  /\ result.q.auto_fail = x.auto_fail
               \/ result.ret = "QueueIsEmpty" /\ result.q = x /\ PendingIn(x) = << >>
<1>1. PICK z, n, k \in Nat : Laid(x.order, x.queue, Held(x, Consumer), x.next_id, z, n, k)
  BY DEF HasLayout
<1>2. z + k <= n /\ n = Len(x.order) /\ x.order \in Seq(0..IdMax)
  BY <1>1, LaidNumbers
<1>3. Seen(PendingIn(x), InflightIn(x), x.order, x.queue, z, n, k)
  BY <1>1, SeenOf
<1>4. CASE z + k < n
  <2>1. z + k + 1 \in (z + 1)..n /\ z + k + 1 \in (z + k + 1)..n
    BY <1>2, <1>4
  <2>2. x.next_id = x.order[z + k + 1]
    BY <1>1, <1>4 DEF Laid, Handed
  <2>3. x.next_id \in DOMAIN x.queue
    BY <1>1, <2>1, <2>2, IdStored
  <2>4. x.queue[x.next_id].locked_by = None
    BY <1>1, <2>1, <2>2 DEF Laid, Kept
  <2>5. x.order # << >> /\ x.next_id # None
    <3>1. x.next_id \in Nat
      BY <2>3, QueueAssumption DEF IsQueue, Ids
    <3> QED BY <1>2, <1>4, <3>1, QueueAssumption
  <2>6. PICK y : y = lock_next(x, Consumer)
    OBVIOUS
  <2>7. lock_to_read(x, Consumer) = Result(y, "Ok")
    BY <2>3, <2>4, <2>5, <2>6 DEF lock_to_read
  <2>8. PICK id, Q2, h2, next2, locked, o2 :
          /\ id = x.next_id /\ Q2 = [x.queue EXCEPT ![id].locked_by = Consumer]
          /\ h2 = Append(Held(x, Consumer), id) /\ locked = Insert(x.locked, Consumer, h2)
          /\ next2 = SkipTombstone(x.order, Successor(x.order, id))
          /\ o2 = IF next2 = None THEN remove_zeroes(x.order) ELSE x.order
    OBVIOUS
  <2>9. y = [x EXCEPT !.queue = Q2, !.locked = locked, !.next_id = next2, !.order = o2]
    BY <2>6, <2>8 DEF lock_next
  <2>10. /\ y.order = o2 /\ y.queue = Q2 /\ y.next_id = next2 /\ y.locked = locked
         /\ y.auto_fail = x.auto_fail
    BY <2>9 DEF IsQueue
  <2>11. Held(y, Consumer) = h2
    <3>1. Consumer \in DOMAIN locked /\ locked[Consumer] = h2
      BY <2>8 DEF Insert
    <3> QED BY <2>10, <3>1 DEF Held
  <2>12. Relocks(Q2, x.queue, id, Consumer)
    <3>1. x.queue \in [DOMAIN x.queue -> MessageSet] /\ Consumer \in Clients \cup {None}
      BY ConsumerAssumption DEF IsQueue
    <3>2. id \in DOMAIN x.queue
      BY <2>3, <2>8
    <3> QED BY <2>8, <3>1, <3>2, RelockIs
  <2>13. /\ Laid(x.order, Q2, h2, next2, z, n, k + 1)
         /\ SamePayloads(x.order, Q2, x.order, x.queue, z + 1, n)
    <3>1. PICK o, Q, h, next :
            o = x.order /\ Q = x.queue /\ h = Held(x, Consumer) /\ next = x.next_id
      OBVIOUS
    <3>2. /\ Laid(o, Q, h, next, z, n, k) /\ Relocks(Q2, Q, next, Consumer) /\ h2 = Append(h, next)
          /\ next2 = SkipTombstone(o, Successor(o, next))
      BY <1>1, <2>8, <2>12, <3>1
    <3>3. Laid(o, Q2, h2, next2, z, n, k + 1) /\ SamePayloads(o, Q2, o, Q, z + 1, n)
      BY <1>4, <3>2, TakeLaid
    <3> QED BY <3>1, <3>3
  <2>14. y.order = x.order \/ y.order = remove_zeroes(x.order)
    BY <2>8, <2>10
  <2>15. HasLayout(y) /\ Seen(PendingIn(y), InflightIn(y), x.order, Q2, z, n, k + 1)
    BY <2>10, <2>11, <2>13, <2>14, Drained
  <2>16. Takes(y, x)
    BY <1>3, <1>4, <2>13, <2>15, TakeSeen DEF Takes
  <2> QED BY <2>7, <2>10, <2>15, <2>16 DEF Result
<1>5. CASE ~(z + k < n)
  <2>1. x.next_id = None
    BY <1>1, <1>5 DEF Laid, Handed
  <2>2. lock_to_read(x, Consumer) = Result(x, "QueueIsEmpty")
    BY <2>1 DEF lock_to_read
  <2>3. n - z - k = 0
    BY <1>2, <1>5
  <2>4. PendingIn(x) \in Seq(Payloads) /\ Len(PendingIn(x)) = 0
    BY <1>3, <2>3 DEF Seen, Lists
  <2> QED BY <2>2, <2>4 DEF Result
<1> QED BY <1>4, <1>5

\* dequeue without an id acknowledges, or nothing is handed out.
LEMMA DequeueAcks ==
    ASSUME NEW x, IsQueue(x), HasLayout(x)
    PROVE  LET result == dequeue(x, Consumer, None)
           IN  \/ /\ result.ret = "Ok" /\ HasLayout(result.q) /\ Acks(result.q, x)
                  /\ result.q.auto_fail = x.auto_fail
               \/ result.ret = "Err" /\ result.q = x /\ InflightIn(x) = << >>
<1>1. PICK z, n, k \in Nat : Laid(x.order, x.queue, Held(x, Consumer), x.next_id, z, n, k)
  BY DEF HasLayout
<1>2. PICK o, Q, h, next : o = x.order /\ Q = x.queue /\ h = Held(x, Consumer) /\ next = x.next_id
  OBVIOUS
<1>3. /\ z + k <= n /\ n = Len(o) /\ k = Len(h) /\ o \in Seq(0..IdMax) /\ h \in Seq(Ids)
      /\ Laid(o, Q, h, next, z, n, k)
  BY <1>1, <1>2, LaidNumbers
<1>4. Seen(PendingIn(x), InflightIn(x), o, Q, z, n, k)
  BY <1>1, <1>2, SeenOf
<1>5. None \notin DOMAIN x.queue /\ None \notin Ids
  BY QueueAssumption DEF IsQueue, Ids
<1>6. CASE k # 0
  <2>1. o # << >> /\ h # << >> /\ Head(h) \in Ids
    BY <1>3, <1>6
  <2>2. PICK id, o2, Q2, h2, y :
          /\ id = Head(h) /\ o2 = Tombstone(o, id) /\ Q2 = Remove(Q, id) /\ h2 = Tail(h)
          /\ y = dequeue_held(x, Consumer)
    OBVIOUS
  <2>3. /\ id \in DOMAIN Q /\ Laid(o2, Q2, h2, next, z + 1, n, k - 1)
        /\ SamePayloads(o2, Q2, o, Q, z + 2, n)
    BY <1>3, <1>6, <2>2, AckLaid
  <2>4. dequeue_target(x, Consumer, None) = id /\ id # None
    BY <1>2, <1>5, <2>1, <2>2 DEF dequeue_target
  <2>5. dequeue(x, Consumer, None) = Result(y, "Ok")
    BY <1>2, <1>5, <2>2, <2>3, <2>4 DEF dequeue
  <2>6. Consumer \in DOMAIN x.locked /\ x.locked[Consumer] = h
    BY <1>2, <2>1 DEF Held
  <2>7. PICK locked : locked = [x.locked EXCEPT ![Consumer] = h2]
    OBVIOUS
  <2>8. y = [x EXCEPT !.order = remove_zeroes(o2), !.queue = Q2, !.locked = locked]
    BY <1>2, <2>2, <2>6, <2>7 DEF dequeue_held
  <2>9. /\ y.order = remove_zeroes(o2) /\ y.queue = Q2 /\ y.locked = locked /\ y.next_id = next
        /\ y.auto_fail = x.auto_fail
    BY <1>2, <2>8 DEF IsQueue
  <2>10. Held(y, Consumer) = h2
    BY <2>6, <2>7, <2>9 DEF Held
  <2>11. HasLayout(y) /\ Seen(PendingIn(y), InflightIn(y), o2, Q2, z + 1, n, k - 1)
    BY <2>3, <2>9, <2>10, Drained
  <2>12. PICK p, f, p2, f2 :
           /\ p = PendingIn(x) /\ f = InflightIn(x) /\ p2 = PendingIn(y) /\ f2 = InflightIn(y)
    OBVIOUS
  <2>13. Seen(p, f, o, Q, z, n, k) /\ Seen(p2, f2, o2, Q2, z + 1, n, k - 1)
    BY <1>4, <2>11, <2>12
  <2>14. f # << >> /\ f2 = Tail(f) /\ p2 = p
    BY <1>3, <1>6, <2>3, <2>13, AckSeen
  <2>15. Acks(y, x)
    BY <2>12, <2>14 DEF Acks
  <2> QED BY <2>5, <2>9, <2>11, <2>15 DEF Result
<1>7. CASE k = 0
  <2>0. h \in Seq(Ids) /\ Len(h) = 0
    BY <1>3, <1>7
  <2>1. h = << >>
    BY <2>0
  <2>2. dequeue_target(x, Consumer, None) = None
    BY <1>2, <1>5, <2>1 DEF dequeue_target
  <2>3. dequeue(x, Consumer, None) = Result(x, "Err")
    BY <2>2 DEF dequeue
  <2>4. InflightIn(x) \in Seq(Payloads) /\ Len(InflightIn(x)) = 0
    BY <1>4, <1>7 DEF Seen, Lists
  <2> QED BY <2>3, <2>4 DEF Result
<1> QED BY <1>6, <1>7

\* unlock without an id refuses the only message handed out, if there is one.
LEMMA UnlockNacks ==
    ASSUME NEW x, IsQueue(x), HasLayout(x), Len(Held(x, Consumer)) <= 1
    PROVE  LET result == unlock(x, Consumer, None)
           IN  \/ /\ result.ret = "Ok" /\ HasLayout(result.q) /\ Nacks(result.q, x)
                  /\ result.q.auto_fail = x.auto_fail
               \/ result.ret \in {"Ok", "Err"} /\ result.q = x /\ InflightIn(x) = << >>
<1>1. PICK z, n, k \in Nat : Laid(x.order, x.queue, Held(x, Consumer), x.next_id, z, n, k)
  BY DEF HasLayout
<1>2. PICK o, Q, h, next : o = x.order /\ Q = x.queue /\ h = Held(x, Consumer) /\ next = x.next_id
  OBVIOUS
<1>3. /\ z + k <= n /\ n = Len(o) /\ k = Len(h) /\ o \in Seq(0..IdMax) /\ h \in Seq(Ids)
      /\ Laid(o, Q, h, next, z, n, k)
  BY <1>1, <1>2, LaidNumbers
<1>4. Seen(PendingIn(x), InflightIn(x), o, Q, z, n, k)
  BY <1>1, <1>2, SeenOf
<1>5. CASE k # 0
  <2>1. k = 1 /\ o # << >> /\ h # << >>
    BY <1>2, <1>3, <1>5
  <2>2. Consumer \in DOMAIN x.locked /\ x.locked[Consumer] = h
    BY <1>2, <2>1 DEF Held
  <2>3. PICK id, Q2, next2, locked, y :
          /\ id = Head(h) /\ Q2 = [Q EXCEPT ![id].locked_by = None]
          /\ next2 = (IF next = None \/ id < next THEN id ELSE next)
          /\ locked = [x.locked EXCEPT ![Consumer] = << >>]
          /\ y = unlock_id(x, Consumer, id)
    OBVIOUS
  <2>4. unlock(x, Consumer, None) = Result(y, "Ok")
    BY <1>2, <2>1, <2>2, <2>3 DEF unlock
  <2>5. id \in DOMAIN Q
    <3>1. 1 \in 1..k /\ id = h[1] /\ z + 1 \in (z + 1)..n
      BY <1>3, <2>1, <2>3
    <3>2. h[1] = o[z + 1]
      BY <1>3, <3>1 DEF Laid, Handed
    <3>3. o[z + 1] \in DOMAIN Q
      BY <1>3, <3>1, IdStored
    <3> QED BY <3>1, <3>2, <3>3
  <2>6. RemoveOne(h, id) = << >>
    BY <1>3, <2>1, <2>3, RemoveOnly
  <2>7. y = [x EXCEPT !.locked = locked, !.queue = Q2, !.next_id = next2]
    BY <1>2, <2>2, <2>3, <2>5, <2>6 DEF unlock_id
  <2>8. /\ y.order = o /\ y.queue = Q2 /\ y.locked = locked /\ y.next_id = next2
        /\ y.auto_fail = x.auto_fail
    BY <1>2, <2>7 DEF IsQueue
  <2>9. Held(y, Consumer) = << >>
    BY <2>2, <2>3, <2>8 DEF Held
  <2>10. Relocks(Q2, Q, id, None)
    <3>1. Q \in [DOMAIN Q -> MessageSet] /\ None \in Clients \cup {None}
      BY <1>2 DEF IsQueue
    <3> QED BY <2>3, <2>5, <3>1, RelockIs
  <2>11. Laid(o, Q2, << >>, next2, z, n, 0) /\ SamePayloads(o, Q2, o, Q, z + 1, n)
    <3>1. GoesBack(next2, next, id)
      BY <2>3 DEF GoesBack
    <3>2. id = h[1] /\ Single(h)
      BY <1>3, <2>1, <2>3 DEF Single
    <3> QED BY <1>3, <2>10, <3>1, <3>2, NackLaid
  <2>12. HasLayout(y) /\ Seen(PendingIn(y), InflightIn(y), o, Q2, z, n, 0)
    BY <2>8, <2>9, <2>11, Drained
  <2>13. PICK p, f, p2, f2 :
           /\ p = PendingIn(x) /\ f = InflightIn(x) /\ p2 = PendingIn(y) /\ f2 = InflightIn(y)
    OBVIOUS
  <2>14. Seen(p, f, o, Q, z, n, 1) /\ Seen(p2, f2, o, Q2, z, n, 0)
    BY <1>4, <2>1, <2>12, <2>13
  <2>15. Len(f) = 1 /\ f2 = << >> /\ p2 = f \o p
    BY <1>3, <2>1, <2>11, <2>14, NackSeen
  <2>16. Nacks(y, x)
    BY <2>13, <2>15 DEF Nacks
  <2> QED BY <2>4, <2>8, <2>12, <2>16 DEF Result
<1>6. CASE k = 0
  <2>0. h \in Seq(Ids) /\ Len(h) = 0
    BY <1>3, <1>6
  <2>1. h = << >>
    BY <2>0
  <2>2. \/ unlock(x, Consumer, None) = Result(x, "Err")
        \/ unlock(x, Consumer, None) = Result(x, "Ok")
    BY <1>2, <2>1 DEF unlock, Held
  <2>3. InflightIn(x) \in Seq(Payloads) /\ Len(InflightIn(x)) = 0
    BY <1>4, <1>6 DEF Seen, Lists
  <2> QED BY <2>2, <2>3 DEF Result
<1> QED BY <1>5, <1>6

\* update_message rewrites, or nothing is stored under the id.
LEMMA UpdateRewrites ==
    ASSUME NEW x, NEW id, NEW v, IsQueue(x), HasLayout(x), v \in Payloads
    PROVE  LET result == update_message(x, id, v)
           IN  \/ /\ result.ret = "Ok" /\ HasLayout(result.q) /\ Rewrites(result.q, x, v)
                  /\ result.q.auto_fail = x.auto_fail
               \/ result.ret = "Err" /\ result.q = x
<1>1. PICK z, n, k \in Nat : Laid(x.order, x.queue, Held(x, Consumer), x.next_id, z, n, k)
  BY DEF HasLayout
<1>2. PICK o, Q, h, next : o = x.order /\ Q = x.queue /\ h = Held(x, Consumer) /\ next = x.next_id
  OBVIOUS
<1>3. z + k <= n /\ Laid(o, Q, h, next, z, n, k)
  BY <1>1, <1>2, LaidNumbers
<1>4. CASE o = << >> \/ id \notin DOMAIN Q
  BY <1>2, <1>4 DEF update_message, Result
<1>5. CASE ~(o = << >> \/ id \notin DOMAIN Q)
  <2>1. PICK Q2 : Q2 = [Q EXCEPT ![id].payload = v]
    OBVIOUS
  <2>2. PICK y : y = [x EXCEPT !.queue = Q2]
    OBVIOUS
  <2>3. update_message(x, id, v) = Result(y, "Ok")
    BY <1>2, <1>5, <2>1, <2>2 DEF update_message
  <2>4. /\ y.order = o /\ y.queue = Q2 /\ y.locked = x.locked /\ y.next_id = next
        /\ y.auto_fail = x.auto_fail
    BY <1>2, <2>2 DEF IsQueue
  <2>5. Held(y, Consumer) = h
    BY <1>2, <2>4 DEF Held
  <2>6. Repays(Q2, Q, id, v)
    <3>1. Q \in [DOMAIN Q -> MessageSet]
      BY <1>2 DEF IsQueue
    <3> QED BY <1>5, <2>1, <3>1, RepayIs
  <2>7. Laid(o, Q2, h, next, z, n, k)
    BY <1>3, <2>6, UpdateLaid
  <2>8. PICK i \in (z + 1)..n : RepaysAt(Q2, Q, o, z, n, i, v)
    BY <1>3, <2>6, UpdateLaid
  <2>9. HasLayout(y) /\ Seen(PendingIn(y), InflightIn(y), o, Q2, z, n, k)
    BY <2>4, <2>5, <2>7, Drained
  <2>10. PICK p, f, p2, f2 :
           /\ p = PendingIn(x) /\ f = InflightIn(x) /\ p2 = PendingIn(y) /\ f2 = InflightIn(y)
    OBVIOUS
  <2>11. Seen(p, f, o, Q, z, n, k) /\ Seen(p2, f2, o, Q2, z, n, k)
    BY <1>1, <1>2, <2>9, <2>10, SeenOf
  <2>12. \/ Replaces(p2, p, v) /\ f2 = f
         \/ Replaces(f2, f, v) /\ p2 = p
    BY <1>3, <2>8, <2>11, UpdateSeen
  <2>13. Rewrites(y, x, v)
    BY <2>10, <2>12 DEF Rewrites
  <2> QED BY <2>3, <2>4, <2>9, <2>13 DEF Result
<1> QED BY <1>4, <1>5

\* The rescan of the payloads is not seen.
LEMMA RescanKeeps ==
    ASSUME NEW x, NEW y, IsQueue(x), HasLayout(x), y = find_biggest_payloads(x)
    PROVE  HasLayout(y) /\ Keeps(y, x) /\ y.auto_fail = x.auto_fail
<1>1. PICK b : b = Max({x.biggest} \cup {PayloadLen[x.queue[id].payload] : id \in DOMAIN x.queue})
  OBVIOUS
<1>2. y = [x EXCEPT !.biggest = b]
  BY <1>1 DEF find_biggest_payloads
<1>3. /\ y.order = x.order /\ y.queue = x.queue /\ y.locked = x.locked /\ y.next_id = x.next_id
      /\ y.auto_fail = x.auto_fail
  BY <1>2 DEF IsQueue
<1>4. Held(y, Consumer) = Held(x, Consumer)
  BY <1>3 DEF Held
<1>5. HasLayout(y)
  BY <1>3, <1>4 DEF HasLayout
<1>6. AheadIn(y) = AheadIn(x) /\ \A id : PayloadIn(y, id) = PayloadIn(x, id)
  BY <1>3 DEF AheadIn, PayloadIn
<1>7. PendingIn(y) = PendingIn(x) /\ InflightIn(y) = InflightIn(x)
  BY <1>4, <1>6 DEF PendingIn, InflightIn
<1> QED BY <1>3, <1>5, <1>7 DEF Keeps

-----------------------------------------------------------------------------
(***************************************************************************)
(* The steps of the queue and of the FIFO.                                 *)
(***************************************************************************)

\* No timer of a delivery runs: nothing sets auto_fail.
NoTimer == q.auto_fail = FALSE /\ \A d \in Deliveries : delivery[d].stage # "sleep"

\* The inductive invariant.
SInv == IInv /\ HasLayout(q) /\ NoTimer

\* What a step looks like to the FIFO.
FifoStep ==
    \/ \E v \in Payloads : (Puts(q', q, v) \/ Rewrites(q', q, v)) /\ reply'.code = "Succeeded"
    \/ Takes(q', q) /\ reply' = reply
    \/ (Acks(q', q) \/ Nacks(q', q)) /\ reply'.code = "Succeeded"
    \/ /\ q' = q
       /\ \/ reply' = reply
          \/ reply'.code \in {"Succeeded", "MessageNotInQueue"}
          \/ PendingIn(q) = << >> /\ reply'.code = "QueueIsEmpty"
          \/ /\ InflightIn(q) = << >>
             /\ reply'.code \in {"NoSuchMessageIdLocked", "MessageNotLockedByClient"}

\* The queue is a queue.
LEMMA SInvQueue == SInv => IsQueue(q) /\ HasLayout(q) /\ NoTimer /\ IInv
  BY DEF SInv, IInv, Good

\* The code of a response.
LEMMA CodeIs ==
    ASSUME NEW cmd, NEW c, NEW id, NEW code, Respond(cmd, c, id, code)
    PROVE  reply'.code = code
  BY DEF Respond

\* The invariant follows from its parts.
LEMMA SInvParts ==
    ASSUME NoTimer, IInv', HasLayout(q'), q'.auto_fail = q.auto_fail, delivery' = delivery
    PROVE  SInv'
<1>1. NoTimer'
  BY DEF NoTimer
<1> QED BY <1>1 DEF SInv

\* A producer's request.
LEMMA EnqueueStep ==
    ASSUME SInv, NoWrap, NEW c \in Clients, NEW v \in Payloads, Enqueue(c, v)
    PROVE  SInv' /\ FifoStep
<1>1. IsQueue(q) /\ HasLayout(q) /\ NoTimer /\ IInv
  BY SInvQueue
<1>2. IInv'
  BY <1>1, EnqueueIInv
<1>3. q' = enqueue(q, v) /\ delivery' = delivery /\ Respond("Enqueue", c, None, "Succeeded")
  BY DEF Enqueue
<1>4. HasLayout(q') /\ Puts(q', q, v) /\ q'.auto_fail = q.auto_fail
  <2>1. PICK y : y = q'
    OBVIOUS
  <2>2. q.order # << >> => q.order[Len(q.order)] # IdMax
    BY DEF NoWrap
  <2>3. HasLayout(y) /\ Puts(y, q, v) /\ y.auto_fail = q.auto_fail
    BY <1>1, <1>3, <2>1, <2>2, EnqueuePuts
  <2> QED BY <2>1, <2>3
<1>5. SInv'
  BY <1>1, <1>2, <1>3, <1>4, SInvParts
<1>6. reply'.code = "Succeeded"
  BY <1>3, CodeIs
<1> QED BY <1>4, <1>5, <1>6 DEF FifoStep

\* A message is rewritten.
LEMMA UpdateMStep ==
    ASSUME SInv, NEW c \in Clients, NEW id \in RequestIds, NEW v \in Payloads, UpdateM(c, id, v)
    PROVE  SInv' /\ FifoStep
<1>1. IsQueue(q) /\ HasLayout(q) /\ NoTimer /\ IInv
  BY SInvQueue
<1>2. id # None /\ id \in RequestIds \cup {None}
  BY QueueAssumption DEF RequestIds
<1>3. IInv'
  BY <1>1, <1>2, UpdateMIInv
<1>4. PICK result : result = update_message(q, id, v)
  OBVIOUS
<1>5. /\ q' = result.q /\ delivery' = delivery
      /\ Respond("UpdateM", c, id, CodeOf(result.ret, "MessageNotInQueue"))
  BY <1>2, <1>4 DEF UpdateM
<1>6. reply'.code = CodeOf(result.ret, "MessageNotInQueue")
  BY <1>5, CodeIs
<1>7. \/ /\ result.ret = "Ok" /\ HasLayout(result.q) /\ Rewrites(result.q, q, v)
         /\ result.q.auto_fail = q.auto_fail
      \/ result.ret = "Err" /\ result.q = q
  BY <1>1, <1>4, UpdateRewrites
<1>8. SInv'
  <2>1. HasLayout(q') /\ q'.auto_fail = q.auto_fail
    BY <1>1, <1>5, <1>7
  <2> QED BY <1>1, <1>3, <1>5, <2>1, SInvParts
<1>9. CASE result.ret = "Ok" /\ Rewrites(result.q, q, v)
  <2>1. reply'.code = "Succeeded"
    BY <1>6, <1>9 DEF CodeOf
  <2> QED BY <1>5, <1>8, <1>9, <2>1 DEF FifoStep
<1>10. CASE result.ret = "Err" /\ result.q = q
  <2>1. reply'.code = "MessageNotInQueue"
    BY <1>6, <1>10 DEF CodeOf
  <2> QED BY <1>5, <1>8, <1>10, <2>1 DEF FifoStep
<1> QED BY <1>7, <1>9, <1>10

\* The consumer asks for a message.
LEMMA DequeueStep ==
    ASSUME SInv, NEW d \in Deliveries, Dequeue(d, Consumer)
    PROVE  SInv' /\ FifoStep
<1>1. IsQueue(q) /\ HasLayout(q) /\ NoTimer /\ IInv
  BY SInvQueue
<1>2. IInv'
  BY <1>1, ConsumerAssumption, DequeueIInv
<1>3. PICK result : result = lock_to_read(q, Consumer)
  OBVIOUS
<1>4. \/ /\ result.ret = "Ok" /\ HasLayout(result.q) /\ Takes(result.q, q)
         /\ result.q.auto_fail = q.auto_fail
      \/ result.ret = "QueueIsEmpty" /\ result.q = q /\ PendingIn(q) = << >>
  BY <1>1, <1>3, LockTakes
<1>5. CASE result.ret = "Ok" /\ HasLayout(result.q) /\ Takes(result.q, q)
           /\ result.q.auto_fail = q.auto_fail
  <2>1. PICK task : task = [stage |-> "write", client |-> Consumer, mid |-> q.next_id]
    OBVIOUS
  <2>2. q' = result.q /\ delivery' = [delivery EXCEPT ![d] = task] /\ reply' = reply
    BY <1>3, <1>5, <2>1 DEF Dequeue
  <2>3. task.stage # "sleep"
    BY <2>1
  <2>4. delivery \in [Deliveries -> Tasks]
    BY <1>1 DEF IInv, TypeOK, Tasks
  <2>5. \A e \in Deliveries : delivery'[e] = IF e = d THEN task ELSE delivery[e]
    BY <2>2, <2>4
  <2>6. NoTimer'
    BY <1>1, <1>5, <2>2, <2>3, <2>5 DEF NoTimer
  <2> QED BY <1>2, <1>5, <2>2, <2>6 DEF SInv, FifoStep
<1>6. CASE result.ret = "QueueIsEmpty" /\ result.q = q /\ PendingIn(q) = << >>
  <2>1. q' = q /\ delivery' = delivery /\ Respond("Dequeue", Consumer, None, "QueueIsEmpty")
    BY <1>3, <1>6 DEF Dequeue
  <2>2. reply'.code = "QueueIsEmpty"
    BY <2>1, CodeIs
  <2>3. SInv'
    BY <1>1, <1>2, <2>1, SInvParts
  <2> QED BY <1>6, <2>1, <2>2, <2>3 DEF FifoStep
<1> QED BY <1>4, <1>5, <1>6

\* A delivery goes on; it ends without a timer.
LEMMA ProgressStep ==
    ASSUME SInv, NEW d \in Deliveries, Progress(d)
    PROVE  SInv' /\ FifoStep
<1>1. HasLayout(q) /\ NoTimer /\ IInv
  BY SInvQueue
<1>2. ~AutoFail(d)
  BY <1>1 DEF NoTimer, AutoFail
<1>3. IInv'
  BY <1>1, <1>2, DeliveryIInv DEF Progress
<1>4. delivery \in [Deliveries -> Tasks]
  BY <1>1 DEF IInv, TypeOK, Tasks
<1>5. CASE Deliver(d)
  <2>1. /\ q' = q /\ delivery' = [delivery EXCEPT ![d].stage = "config"]
        /\ Respond("Dequeue", delivery[d].client, delivery[d].mid, "Succeeded")
        /\ delivery[d].stage = "write"
    BY <1>5 DEF Deliver
  <2>2. reply'.code = "Succeeded"
    BY <2>1, CodeIs
  <2>3. PICK task : task = [delivery[d] EXCEPT !.stage = "config"]
    OBVIOUS
  <2>4. task.stage = "config"
    BY <1>4, <2>1, <2>3 DEF Tasks, Idle
  <2>5. \A e \in Deliveries : delivery'[e] = IF e = d THEN task ELSE delivery[e]
    BY <1>4, <2>1, <2>3
  <2>6. NoTimer'
    BY <1>1, <2>1, <2>4, <2>5 DEF NoTimer
  <2> QED BY <1>1, <1>3, <2>1, <2>2, <2>6 DEF SInv, FifoStep
<1>6. CASE ReadConfig(d)
  <2>1. q' = q /\ reply' = reply /\ delivery' = [delivery EXCEPT ![d] = Idle]
    BY <1>1, <1>6 DEF ReadConfig, NoTimer
  <2>2. \A e \in Deliveries : delivery'[e] = IF e = d THEN Idle ELSE delivery[e]
    BY <1>4, <2>1
  <2>3. Idle.stage # "sleep"
    BY DEF Idle
  <2>4. NoTimer'
    BY <1>1, <2>1, <2>2, <2>3 DEF NoTimer
  <2> QED BY <1>1, <1>3, <2>1, <2>4 DEF SInv, FifoStep
<1> QED BY <1>2, <1>5, <1>6 DEF Progress

\* The consumer acknowledges.
LEMMA SucceededStep ==
    ASSUME SInv, Succeeded(Consumer)
    PROVE  SInv' /\ FifoStep
<1>1. IsQueue(q) /\ HasLayout(q) /\ NoTimer /\ IInv
  BY SInvQueue
<1>2. IInv'
  BY <1>1, ConsumerAssumption, SucceededIInv
<1>3. PICK result, y : result = dequeue(q, Consumer, None) /\ y = result.q
  OBVIOUS
<1>4. /\ delivery' = delivery /\ reply'.code = CodeOf(result.ret, "NoSuchMessageIdLocked")
      /\ (q' = y \/ q' = find_biggest_payloads(y))
      /\ result.ret # "Ok" => q' = y
  BY <1>3 DEF Succeeded, Respond
<1>5. \/ /\ result.ret = "Ok" /\ HasLayout(y) /\ Acks(y, q) /\ y.auto_fail = q.auto_fail
      \/ result.ret = "Err" /\ y = q /\ InflightIn(q) = << >>
  BY <1>1, <1>3, DequeueAcks
<1>6. CASE result.ret = "Ok" /\ HasLayout(y) /\ Acks(y, q) /\ y.auto_fail = q.auto_fail
  <2>1. IsQueue(y)
    BY <1>1, <1>3, DequeueGood, ConsumerAssumption DEF IInv, Good
  <2>2. HasLayout(q') /\ Keeps(q', y) /\ q'.auto_fail = q.auto_fail
    <3>1. CASE q' = y
      BY <1>6, <3>1 DEF Keeps
    <3>2. CASE q' = find_biggest_payloads(y)
      BY <1>6, <2>1, <3>2, RescanKeeps
    <3> QED BY <1>4, <3>1, <3>2
  <2>3. Acks(q', q)
    BY <1>6, <2>2 DEF Acks, Keeps
  <2>4. SInv'
    BY <1>1, <1>2, <1>4, <2>2, SInvParts
  <2>5. reply'.code = "Succeeded"
    BY <1>4, <1>6 DEF CodeOf
  <2> QED BY <2>3, <2>4, <2>5 DEF FifoStep
<1>7. CASE result.ret = "Err" /\ y = q /\ InflightIn(q) = << >>
  <2>1. q' = q /\ reply'.code = "NoSuchMessageIdLocked"
    BY <1>4, <1>7 DEF CodeOf
  <2>2. SInv'
    BY <1>1, <1>2, <1>4, <2>1, SInvParts
  <2> QED BY <1>7, <2>1, <2>2 DEF FifoStep
<1> QED BY <1>5, <1>6, <1>7

\* The consumer refuses.
LEMMA FailedStep ==
    ASSUME SInv, Len(held) <= 1, Failed(Consumer)
    PROVE  SInv' /\ FifoStep
<1>1. IsQueue(q) /\ HasLayout(q) /\ NoTimer /\ IInv
  BY SInvQueue
<1>2. IInv'
  BY <1>1, ConsumerAssumption, FailedIInv
<1>3. PICK result : result = unlock(q, Consumer, None)
  OBVIOUS
<1>4. /\ q' = result.q /\ delivery' = delivery
      /\ reply'.code = CodeOf(result.ret, "MessageNotLockedByClient")
  BY <1>3 DEF Failed, Respond
<1>5. \/ /\ result.ret = "Ok" /\ HasLayout(result.q) /\ Nacks(result.q, q)
         /\ result.q.auto_fail = q.auto_fail
      \/ result.ret \in {"Ok", "Err"} /\ result.q = q /\ InflightIn(q) = << >>
  <2>1. Len(Held(q, Consumer)) <= 1
    BY DEF held
  <2> QED BY <1>1, <1>3, <2>1, UnlockNacks
<1>6. SInv'
  <2>1. HasLayout(q') /\ q'.auto_fail = q.auto_fail
    BY <1>1, <1>4, <1>5
  <2> QED BY <1>1, <1>2, <1>4, <2>1, SInvParts
<1>7. CASE result.ret = "Ok" /\ Nacks(result.q, q)
  <2>1. reply'.code = "Succeeded"
    BY <1>4, <1>7 DEF CodeOf
  <2> QED BY <1>4, <1>6, <1>7, <2>1 DEF FifoStep
<1>8. CASE result.ret \in {"Ok", "Err"} /\ result.q = q /\ InflightIn(q) = << >>
  <2>1. reply'.code \in {"Succeeded", "MessageNotLockedByClient"}
    BY <1>4, <1>8 DEF CodeOf
  <2> QED BY <1>4, <1>6, <1>8, <2>1 DEF FifoStep
<1> QED BY <1>5, <1>7, <1>8

\* The step, one case per action.
LEMMA DisciplinedStep == SInv /\ [DisciplinedNext]_vars => SInv' /\ FifoStep
<1> SUFFICES ASSUME SInv, [DisciplinedNext]_vars
             PROVE  SInv' /\ FifoStep
  OBVIOUS
<1>1. CASE \E c \in Clients, v \in Payloads : NoWrap /\ Enqueue(c, v)
  BY <1>1, EnqueueStep
<1>2. CASE \E c \in Clients, id \in RequestIds, v \in Payloads : UpdateM(c, id, v)
  BY <1>2, UpdateMStep
<1>3. CASE \E d \in Deliveries : Dequeue(d, Consumer)
  BY <1>3, DequeueStep
<1>4. CASE Succeeded(Consumer)
  BY <1>4, SucceededStep
<1>5. CASE Len(held) <= 1 /\ Failed(Consumer)
  BY <1>5, FailedStep
<1>6. CASE \E d \in Deliveries : Progress(d)
  BY <1>6, ProgressStep
<1>7. CASE UNCHANGED vars
  <2>1. q' = q /\ delivery' = delivery /\ reply' = reply /\ locked_size' = locked_size
    BY <1>7 DEF vars
  <2>2. IInv'
    BY <2>1 DEF SInv, IInv, TypeOK
  <2>3. HasLayout(q') /\ NoTimer
    BY <2>1 DEF SInv
  <2>4. SInv'
    BY <2>1, <2>2, <2>3, SInvParts
  <2> QED BY <2>1, <2>4 DEF FifoStep
<1> QED BY <1>1, <1>2, <1>3, <1>4, <1>5, <1>6, <1>7 DEF DisciplinedNext

\* The empty queue is laid out.
LEMMA InitSInv == Init => SInv
<1> SUFFICES ASSUME Init
             PROVE  SInv
  OBVIOUS
<1>1. IInv
  BY InitIInv
<1>2. q = QueueNew /\ delivery = [d \in Deliveries |-> Idle]
  BY DEF Init
<1>3. /\ q.order = << >> /\ q.queue = [i \in {} |-> None] /\ q.next_id = None
      /\ q.auto_fail = FALSE /\ q.locked = [c \in {} |-> << >>]
  BY <1>2 DEF QueueNew
<1>4. Held(q, Consumer) = << >>
  BY <1>3 DEF Held
<1>5. Rising(<< >>, 0, 0)
  BY DEF Rising
<1>6. Handed(<< >>, << >>, None, 0, 0, 0)
  BY DEF Handed
<1>7. Kept(<< >>, [i \in {} |-> None], 0, 0, 0)
  BY DEF Kept
<1>8. Laid(q.order, q.queue, Held(q, Consumer), q.next_id, 0, 0, 0)
  BY <1>3, <1>4, <1>5, <1>6, <1>7 DEF Laid
<1>9. HasLayout(q)
  BY <1>8 DEF HasLayout
<1>10. NoTimer
  BY <1>2, <1>3 DEF NoTimer, Idle
<1> QED BY <1>1, <1>9, <1>10 DEF SInv

-----------------------------------------------------------------------------
(***************************************************************************)
(* The theorems.                                                           *)
(***************************************************************************)

\* The mapping of module SingleConsumer, in both states of a step.
LEMMA Mapping ==
    /\ [i \in 1..Len(Ahead) |-> PayloadOf(Ahead[i])] = PendingIn(q)
    /\ [i \in 1..Len(Ahead) |-> PayloadOf(Ahead[i])]' = PendingIn(q')
    /\ [i \in 1..Len(held) |-> PayloadOf(held[i])] = InflightIn(q)
    /\ [i \in 1..Len(held) |-> PayloadOf(held[i])]' = InflightIn(q')
<1>1. /\ [i \in 1..Len(Ahead) |-> PayloadOf(Ahead[i])] = PendingIn(q)
      /\ [i \in 1..Len(Ahead) |-> PayloadOf(Ahead[i])]' = PendingIn(q')
  BY DEF Ahead, PayloadOf, PendingIn, AheadIn, PayloadIn
<1>2. /\ [i \in 1..Len(held) |-> PayloadOf(held[i])] = InflightIn(q)
      /\ [i \in 1..Len(held) |-> PayloadOf(held[i])]' = InflightIn(q')
  BY DEF held, PayloadOf, InflightIn, PayloadIn
<1> QED BY <1>1, <1>2

\* The empty queue maps to the empty FIFO.
LEMMA InitFifo == Init => fifo!Init
<1> SUFFICES ASSUME Init
             PROVE  fifo!Init
  OBVIOUS
<1>1. HasLayout(q) /\ q.order = << >> /\ reply.code = None
  BY InitSInv DEF SInv, Init, QueueNew
<1>2. PICK z, n, k \in Nat : Laid(q.order, q.queue, Held(q, Consumer), q.next_id, z, n, k)
  BY <1>1 DEF HasLayout
<1>3. z + k <= n /\ n = Len(q.order)
  BY <1>2, LaidNumbers
<1>4. k = 0 /\ n - z - k = 0
  BY <1>1, <1>3
<1>5. Seen(PendingIn(q), InflightIn(q), q.order, q.queue, z, n, k)
  BY <1>2, SeenOf
<1>6. /\ PendingIn(q) \in Seq(Payloads) /\ Len(PendingIn(q)) = 0
      /\ InflightIn(q) \in Seq(Payloads) /\ Len(InflightIn(q)) = 0
  BY <1>4, <1>5 DEF Seen, Lists
<1>7. PendingIn(q) = << >> /\ InflightIn(q) = << >>
  BY <1>6
<1> QED BY <1>1, <1>7, Mapping DEF fifo!Init

\* A step maps to a step of the FIFO, or to none.
LEMMA StepFifo == FifoStep => [fifo!Next]_(fifo!vars)
<1> SUFFICES ASSUME FifoStep
             PROVE  fifo!Next \/ UNCHANGED fifo!vars
  OBVIOUS
<1> DEFINE answer == IF reply.code = None THEN "none" ELSE reply.code
<1>1. \A code \in Codes : reply'.code = code => answer' = code
  BY ConsumerAssumption
<1>2. /\ "Succeeded" \in Codes /\ "MessageNotInQueue" \in Codes /\ "QueueIsEmpty" \in Codes
      /\ "NoSuchMessageIdLocked" \in Codes /\ "MessageNotLockedByClient" \in Codes
  BY DEF Codes
<1>3. reply' = reply => answer' = answer
  OBVIOUS
<1>4. ASSUME NEW v \in Payloads, Puts(q', q, v), answer' = "Succeeded"
      PROVE  fifo!Next
  <2>1. fifo!Put(v)
    BY <1>4, Mapping DEF Puts, fifo!Put
  <2> QED BY <2>1 DEF fifo!Next
<1>5. ASSUME NEW v \in Payloads, Rewrites(q', q, v), answer' = "Succeeded"
      PROVE  fifo!Next
  <2>1. fifo!Rewrite(v)
    BY <1>5, Mapping DEF Rewrites, Replaces, fifo!Rewrite
  <2> QED BY <2>1 DEF fifo!Next
<1>6. ASSUME Takes(q', q), answer' = answer
      PROVE  fifo!Next
  <2>1. fifo!Take
    BY <1>6, Mapping DEF Takes, fifo!Take
  <2> QED BY <2>1 DEF fifo!Next
<1>7. ASSUME Acks(q', q), answer' = "Succeeded"
      PROVE  fifo!Next
  <2>1. fifo!Ack
    BY <1>7, Mapping DEF Acks, fifo!Ack
  <2> QED BY <2>1 DEF fifo!Next
<1>8. ASSUME Nacks(q', q), answer' = "Succeeded"
      PROVE  fifo!Next
  <2>1. fifo!Nack
    BY <1>8, Mapping DEF Nacks, fifo!Nack
  <2> QED BY <2>1 DEF fifo!Next
<1>9. ASSUME q' = q
      PROVE  PendingIn(q') = PendingIn(q) /\ InflightIn(q') = InflightIn(q)
  BY <1>9
<1>10. ASSUME q' = q, answer' = answer
       PROVE  UNCHANGED fifo!vars
  BY <1>9, <1>10, Mapping DEF fifo!vars
<1>11. ASSUME q' = q, answer' = "Succeeded"
       PROVE  fifo!Next
  <2>1. fifo!Arrive
    BY <1>9, <1>11, Mapping DEF fifo!Arrive
  <2> QED BY <2>1 DEF fifo!Next
<1>12. ASSUME q' = q, answer' = "MessageNotInQueue"
       PROVE  fifo!Next
  <2>1. fifo!RewriteNothing
    BY <1>9, <1>12, Mapping DEF fifo!RewriteNothing
  <2> QED BY <2>1 DEF fifo!Next
<1>13. ASSUME q' = q, PendingIn(q) = << >>, answer' = "QueueIsEmpty"
       PROVE  fifo!Next
  <2>1. fifo!TakeNothing
    BY <1>9, <1>13, Mapping DEF fifo!TakeNothing
  <2> QED BY <2>1 DEF fifo!Next
<1>14. ASSUME q' = q, InflightIn(q) = << >>, answer' = "NoSuchMessageIdLocked"
       PROVE  fifo!Next
  <2>1. fifo!AckNothing
    BY <1>9, <1>14, Mapping DEF fifo!AckNothing
  <2> QED BY <2>1 DEF fifo!Next
<1>15. ASSUME q' = q, InflightIn(q) = << >>, answer' = "MessageNotLockedByClient"
       PROVE  fifo!Next
  <2>1. fifo!NackNothing
    BY <1>9, <1>15, Mapping DEF fifo!NackNothing
  <2> QED BY <2>1 DEF fifo!Next
<1> HIDE DEF answer
<1>16. CASE \E v \in Payloads : (Puts(q', q, v) \/ Rewrites(q', q, v)) /\ reply'.code = "Succeeded"
  BY <1>1, <1>2, <1>4, <1>5, <1>16
<1>17. CASE Takes(q', q) /\ reply' = reply
  BY <1>3, <1>6, <1>17
<1>18. CASE (Acks(q', q) \/ Nacks(q', q)) /\ reply'.code = "Succeeded"
  BY <1>1, <1>2, <1>7, <1>8, <1>18
<1>19. CASE q' = q /\ (reply' = reply \/ reply'.code \in {"Succeeded", "MessageNotInQueue"})
  BY <1>1, <1>2, <1>3, <1>10, <1>11, <1>12, <1>19
<1>20. CASE q' = q /\ PendingIn(q) = << >> /\ reply'.code = "QueueIsEmpty"
  BY <1>1, <1>2, <1>13, <1>20
<1>21. CASE /\ q' = q /\ InflightIn(q) = << >>
            /\ reply'.code \in {"NoSuchMessageIdLocked", "MessageNotLockedByClient"}
  BY <1>1, <1>2, <1>14, <1>15, <1>21
<1> QED BY <1>16, <1>17, <1>18, <1>19, <1>20, <1>21 DEF FifoStep

\* The elements of o from index i to index j.
Part(o, i, j) == {o[l] : l \in i..j}

\* r is m elements of o behind the first w.
IsPart(r, o, w, m) == Len(r) = m /\ \A i \in 1..m : r[i] = o[w + i]

\* The elements of a part of a sequence.
LEMMA RangeOfPart ==
    ASSUME NEW T, NEW r, NEW o, NEW w, NEW m, w \in Nat, m \in Nat, r \in Seq(T), IsPart(r, o, w, m)
    PROVE  Range(r) = Part(o, w + 1, w + m)
<1>1. DOMAIN r = 1..m /\ \A i \in 1..m : r[i] = o[w + i]
  BY DEF IsPart
<1>2. \A i \in 1..m : w + i \in (w + 1)..(w + m)
  OBVIOUS
<1>3. \A j \in (w + 1)..(w + m) : j - w \in 1..m /\ o[j] = r[j - w]
  <2>1. TAKE j \in (w + 1)..(w + m)
  <2>2. j - w \in 1..m /\ w + (j - w) = j
    OBVIOUS
  <2>3. r[j - w] = o[w + (j - w)]
    BY <1>1, <2>2
  <2> QED BY <2>2, <2>3
<1> QED BY <1>1, <1>2, <1>3 DEF Range, Part

\* A layout has each message once: handed out, or ahead of the cursor.
LEMMA LayoutPartition == SInv => Partition
<1> SUFFICES ASSUME SInv
             PROVE  Partition
  OBVIOUS
<1>1. PICK z, n, k \in Nat : Laid(q.order, q.queue, Held(q, Consumer), q.next_id, z, n, k)
  BY DEF SInv, HasLayout
<1>2. PICK o, Q, h, a : o = q.order /\ Q = q.queue /\ h = held /\ a = Ahead
  OBVIOUS
<1>3. /\ z + k <= n /\ n = Len(o) /\ k = Len(h) /\ o \in Seq(0..IdMax) /\ h \in Seq(Ids)
      /\ Rising(o, z, n)
  BY <1>1, <1>2, LaidNumbers DEF held, Laid
<1>4. /\ a \in Seq(0..IdMax) /\ Len(a) = n - (z + k)
      /\ \A i \in 1..(n - (z + k)) : a[i] = o[(z + k) + i]
  <2>1. a = AheadIn(q)
    BY <1>2 DEF Ahead, AheadIn
  <2>2. Shifted(0..IdMax, a, o, z + k)
    BY <1>1, <1>2, <2>1, AheadIs
  <2> QED BY <1>3, <2>2 DEF Shifted
<1>5. \A i \in 1..k : h[i] = o[z + i]
  BY <1>1, <1>2 DEF held, Laid, Handed
<1>6. DOMAIN Q = {o[i] : i \in (z + 1)..n}
  BY <1>1, <1>2 DEF Laid, Kept
<1>7. Range(h) = {o[i] : i \in (z + 1)..(z + k)}
  <2>1. IsPart(h, o, z, k)
    BY <1>3, <1>5 DEF IsPart
  <2>2. Range(h) = Part(o, z + 1, z + k)
    BY <1>3, <2>1, RangeOfPart
  <2> QED BY <2>2 DEF Part
<1>8. Range(a) = {o[i] : i \in (z + k + 1)..n}
  <2>1. n - (z + k) \in Nat /\ (z + k) \in Nat /\ (z + k) + (n - (z + k)) = n
    BY <1>3
  <2>2. PICK m \in Nat, w \in Nat : w = z + k /\ m = n - (z + k) /\ w + m = n
    BY <2>1
  <2>3. a \in Seq(0..IdMax) /\ IsPart(a, o, w, m)
    BY <1>4, <2>2 DEF IsPart
  <2>4. Range(a) = Part(o, w + 1, w + m)
    BY <2>2, <2>3, RangeOfPart
  <2> QED BY <2>2, <2>4 DEF Part
<1>9. Range(h) \cap Range(a) = {}
  <2>1. ASSUME NEW i \in (z + 1)..(z + k), NEW j \in (z + k + 1)..n
        PROVE  o[i] # o[j]
    <3>1. i \in (z + 1)..n /\ j \in 1..n /\ i # j
      BY <1>3
    <3> QED BY <1>3, <3>1, IdsOnce
  <2> QED BY <1>7, <1>8, <2>1
<1>10. Range(h) \cup Range(a) = DOMAIN Q
  <2>1. (z + 1)..n = ((z + 1)..(z + k)) \cup ((z + k + 1)..n)
    BY <1>3
  <2> QED BY <1>6, <1>7, <1>8, <2>1
<1>11. Cardinality(DOMAIN Q) = n - z
  <2>1. PICK S, D, g : S = (z + 1)..n /\ D = DOMAIN Q /\ g = [i \in S |-> o[i]]
    OBVIOUS
  <2>2. IsFiniteSet(S) /\ Cardinality(S) = n - z
    <3>1. z + 1 \in Int /\ n \in Int
      OBVIOUS
    <3>2. IsFiniteSet((z + 1)..n) /\ Cardinality((z + 1)..n) = IF z + 1 > n THEN 0 ELSE n - (z + 1) + 1
      BY <3>1, FS_Interval
    <3> QED BY <1>3, <2>1, <3>2
  <2>3. \A i, j \in S : o[i] = o[j] => i = j
    <3>1. TAKE i, j \in S
    <3>2. HAVE o[i] = o[j]
    <3>3. i \in (z + 1)..n /\ j \in 1..n
      BY <2>1
    <3> QED BY <1>3, <3>2, <3>3, IdsOnce
  <2>4. D = {o[i] : i \in S}
    BY <1>6, <2>1
  <2>5. g \in Bijection(S, D)
    <3>1. g \in [S -> D] /\ \A i \in S : g[i] = o[i]
      BY <2>1, <2>4
    <3>2. \A i, j \in S : g[i] = g[j] => i = j
      BY <2>3, <3>1
    <3>3. \A y \in D : \E i \in S : g[i] = y
      BY <2>4, <3>1
    <3> QED BY <3>1, <3>2, <3>3 DEF Bijection, Injection, IsInjective, Surjection
  <2>6. ExistsBijection(S, D)
    BY <2>5 DEF ExistsBijection
  <2>7. Cardinality(D) = Cardinality(S)
    BY <2>2, <2>6, FS_Bijection
  <2> QED BY <2>1, <2>2, <2>7
<1>12. Len(h) + Len(a) = Cardinality(DOMAIN Q)
  BY <1>3, <1>4, <1>11
<1> QED BY <1>2, <1>9, <1>10, <1>12 DEF Partition

\* Every step keeps the layout of the queue: tombstones, then the ids handed
\* out in the order of the lock list, then the ids that wait, the first of them
\* under the cursor (enqueue, lock_to_read, dequeue, unlock, queue.rs:183-379).
THEOREM LayoutKept == DisciplinedSpec => []SInv
<1>1. SInv /\ [DisciplinedNext]_vars => SInv'
  BY DisciplinedStep
<1> QED BY <1>1, InitSInv, PTL DEF DisciplinedSpec

\* The queue hands its one consumer the messages in the order in which they
\* arrived, and refuses a request only for want of a message, for every number
\* of producers, every MAGIC_DRAIN_VEC and every id width (queue.rs:183-379).
THEOREM QueueIsFifo == DisciplinedSpec => ImplementsFifo
<1>1. SInv /\ [DisciplinedNext]_vars => [fifo!Next]_(fifo!vars)
  BY DisciplinedStep, StepFifo
<1> QED BY <1>1, InitFifo, LayoutKept, PTL DEF DisciplinedSpec, ImplementsFifo, fifo!Spec

\* A message is in exactly one place, handed out or ahead of the cursor, and an
\* id is used for one message at a time: none is lost between the lock list and
\* the order, and none is handed out twice (queue.rs:183-379).
THEOREM EveryMessageOnce == DisciplinedSpec => []Partition
<1> QED BY LayoutKept, LayoutPartition, PTL
=============================================================================
