---------------------------- MODULE ArenaProofs ----------------------------
(***************************************************************************)
(* The allocator, proved for every number of threads, every capacity,      *)
(* every set of layouts and both builds.                                   *)
(*                                                                         *)
(* Tiled is the heart of the invariant: the live slots, the nodes of the   *)
(* free list and the slots that threads have taken off the list tile the   *)
(* arena up to the bump pointer.  There is one lemma for each way the      *)
(* program moves memory from one of the three to another.                  *)
(***************************************************************************)
EXTENDS Arena, Facts

-----------------------------------------------------------------------------
(***************************************************************************)
(* Sizes and alignment.                                                    *)
(***************************************************************************)

\* align_up rounds up to the next multiple.
LEMMA AlignUp ==
    ASSUME NEW x \in Nat, NEW a \in Nat \ {0}
    PROVE  /\ align_up(x, a) \in Nat /\ align_up(x, a) % a = 0
           /\ x <= align_up(x, a) /\ align_up(x, a) <= x + a - 1
<1>1. PICK y \in Nat : y = x + a - 1
  OBVIOUS
<1>2. PICK d \in Nat : d = y \div a
  OBVIOUS
<1>3. PICK r \in Nat : r = y % a /\ r < a
  OBVIOUS
<1>4. y = d * a + r
  BY <1>2, <1>3
<1>5. align_up(x, a) = d * a
  BY <1>1, <1>2 DEF align_up
<1>6. d * a \in Nat /\ (d * a) % a = 0
  OBVIOUS
<1>7. x <= d * a /\ d * a <= x + a - 1
  BY <1>1, <1>3, <1>4, <1>6
<1> QED BY <1>5, <1>6, <1>7

\* Sums of multiples of eight.
LEMMA Multiples ==
    ASSUME NEW x \in Nat, NEW y \in Nat, x % 8 = 0, y % 8 = 0
    PROVE  (x + y) % 8 = 0
<1>1. PICK k \in Nat : k = x \div 8
  OBVIOUS
<1>2. PICK m \in Nat : m = y \div 8
  OBVIOUS
<1>3. x + y = 8 * (k + m)
  BY <1>1, <1>2
<1> QED BY <1>3

\* A slot has room for the header, the padding and the value, and is a multiple
\* of eight bytes.
LEMMA SlotSize ==
    ASSUME NEW l \in Layouts
    PROVE  /\ l.size \in Nat \ {0} /\ l.align \in Nat \ {0}
           /\ required_slot_size(l) \in Nat /\ required_slot_size(l) % 8 = 0
           /\ required_slot_size(l) >= MIN_SLOT_SIZE
           /\ required_slot_size(l) >= HeaderSize + (l.align - 1) + l.size
<1>1. l.size \in Nat \ {0} /\ l.align \in Nat \ {0}
  BY ArenaAssumption
<1>2. PICK n \in Nat : n = HeaderSize + (l.align - 1) + l.size
  BY <1>1 DEF HeaderSize
<1>3. n >= 16
  BY <1>1, <1>2 DEF HeaderSize
<1>4. Max({n, 16}) = n
  BY <1>3 DEF Max
<1>5. required_slot_size(l) = align_up(n, 8)
  BY <1>2, <1>4 DEF required_slot_size, MIN_SLOT_SIZE, SLOT_ALIGN
<1>6. align_up(n, 8) \in Nat /\ align_up(n, 8) % 8 = 0 /\ n <= align_up(n, 8)
  BY AlignUp
<1> QED BY <1>1, <1>2, <1>3, <1>5, <1>6 DEF MIN_SLOT_SIZE

\* A slot of at least that size holds its value, wherever it starts.
LEMMA SlotHoldsValue ==
    ASSUME NEW s, s.start \in Nat, s.size \in Nat, s.layout \in Layouts,
           s.size >= required_slot_size(s.layout)
    PROVE  /\ UserAddress(s) % s.layout.align = 0
           /\ s.start <= UserAddress(s) - HeaderSize
           /\ UserAddress(s) + s.layout.size <= s.start + s.size
<1>1. PICK l \in Layouts : l = s.layout
  OBVIOUS
<1>2. /\ l.size \in Nat \ {0} /\ l.align \in Nat \ {0}
      /\ required_slot_size(l) \in Nat
      /\ required_slot_size(l) >= 16 + (l.align - 1) + l.size
  BY SlotSize DEF HeaderSize
<1>3. PICK x \in Nat : x = s.start + 16
  OBVIOUS
<1>4. /\ align_up(x, l.align) \in Nat /\ align_up(x, l.align) % l.align = 0
      /\ x <= align_up(x, l.align) /\ align_up(x, l.align) <= x + l.align - 1
  BY <1>2, AlignUp
<1>5. UserAddress(s) = align_up(x, l.align)
  BY <1>1, <1>3 DEF UserAddress, HeaderSize
<1>6. UserAddress(s) % s.layout.align = 0
  BY <1>1, <1>4, <1>5
<1>7. s.start <= UserAddress(s) - HeaderSize
  BY <1>3, <1>4, <1>5 DEF HeaderSize
<1>8. UserAddress(s) + s.layout.size <= s.start + s.size
  BY <1>1, <1>2, <1>3, <1>4, <1>5
<1> QED BY <1>6, <1>7, <1>8

-----------------------------------------------------------------------------
(***************************************************************************)
(* The tiling of the arena.                                                *)
(***************************************************************************)

\* A piece of memory below the bump pointer.
Piece(r, top) ==
    /\ r.start \in Nat /\ r.size \in Nat /\ r.size >= 16
    /\ r.start % 8 = 0 /\ r.size % 8 = 0
    /\ r.start + r.size <= top

\* Two pieces that share no byte.
Apart(r, s) == r.start + r.size <= s.start \/ s.start + s.size <= r.start

\* The byte at a is one of the piece.
Covers(r, a) == r.start <= a /\ a < r.start + r.size

\* Live slots L, free list F, slots held by threads H (a function), and the bump
\* pointer.
Pieces(L, F, H, top) ==
    /\ top \in Nat /\ top % 8 = 0
    /\ \A s \in L : Piece(s, top)
    /\ \A i \in 1..Len(F) : Piece(F[i], top)
    /\ \A t \in DOMAIN H : Piece(H[t], top)

\* No two pieces overlap.
Disjoint(L, F, H) ==
    /\ \A s, r \in L : s # r => Apart(s, r)
    /\ \A i, j \in 1..Len(F) : i # j => Apart(F[i], F[j])
    /\ \A t, u \in DOMAIN H : t # u => Apart(H[t], H[u])
    /\ \A s \in L, i \in 1..Len(F) : Apart(s, F[i])
    /\ \A s \in L, t \in DOMAIN H : Apart(s, H[t])
    /\ \A i \in 1..Len(F), t \in DOMAIN H : Apart(F[i], H[t])

\* No byte below the bump pointer is lost.
Covered(L, F, H, top) ==
    \A a \in Nat : a < top =>
        \/ \E s \in L : Covers(s, a)
        \/ \E i \in 1..Len(F) : Covers(F[i], a)
        \/ \E t \in DOMAIN H : Covers(H[t], a)

Tiled(L, F, H, top) == Pieces(L, F, H, top) /\ Disjoint(L, F, H) /\ Covered(L, F, H, top)

-----------------------------------------------------------------------------
(***************************************************************************)
(* The inductive invariant.                                                *)
(***************************************************************************)

\* The types of TypeOK.
FreeNodes == [start : 0..Capacity, size : MIN_SLOT_SIZE..Capacity]
Slots == [start : 0..Capacity, size : MIN_SLOT_SIZE..Capacity, layout : Layouts]
Stages == {"idle", "check", "swap", "list", "excess", "bump", "undo", "release", "count", "store"}
Calls == [pc : Stages, layout : Layouts \cup {None}, val : Nat, node : FreeNodes \cup {None}]

CallTable == [Threads -> Calls]

\* The stages of alloc.
Allocating == {"check", "swap", "list", "excess", "bump", "undo"}

\* What a call under way may rely on, with a capacity of `cap`.
CallOK(c, cap) ==
    /\ c.pc \in Allocating => c.layout \in Layouts
    /\ c.pc = "swap" => c.val + required_slot_size(c.layout) <= cap
    /\ c.pc = "excess" =>
         /\ c.node \in FreeNodes /\ c.node.size >= required_slot_size(c.layout)
         /\ c.node.size - required_slot_size(c.layout) < MIN_SLOT_SIZE
    /\ c.pc = "store" => c.val \in Reservations

CallsOK(th, cap) == \A t \in Threads : CallOK(th[t], cap)

\* The slots that threads have taken off the list.
HeldNodes(th) == [t \in {t \in Threads : th[t].pc = "excess"} |-> th[t].node]

\* What a call has added to `used` for a slot that is not live; all of them.
OwedBy(c) ==
    CASE c.pc \in {"list", "excess", "bump", "undo"} -> required_slot_size(c.layout)
      [] c.pc = "release"                            -> c.val
      [] OTHER                                       -> 0

OwedSum(th) == SetSum([t \in Threads |-> OwedBy(th[t])], Threads)

\* The summand of the live slots.
SizeOf == [s \in Slots |-> s.size]

\* Calls that may still add the excess of a slot to `used`.
Exceeding(th) == {t \in Threads : th[t].pc \in {"list", "excess"}}

\* `used` was at most the capacity when the last promise was made; since then
\* each call that was past its promise has added at most eight bytes.
Ceiling(al, us, th) == us + 8 * Cardinality(Exceeding(th)) <= al + 8 * Cardinality(Threads)

\* The books of the allocator: capacity al, `used` us, bump pointer top, free
\* list F, live slots L and calls th.
Balanced(al, us, top, F, L, th) ==
    /\ al \in {0, Capacity} /\ us \in Nat /\ top \in 0..Capacity
    /\ F \in Seq(FreeNodes) /\ L \subseteq Slots /\ IsFiniteSet(L)
    /\ th \in CallTable /\ CallsOK(th, al)
    /\ \A s \in L : s.size >= required_slot_size(s.layout)
    /\ Tiled(L, F, HeldNodes(th), top)
    /\ us = SetSum(SizeOf, L) + OwedSum(th)
    /\ Ceiling(al, us, th)

\* The rest of the state.
FlagsOK ==
    /\ ready \in BOOLEAN /\ locked_size \in Reservations \cup {0}
    /\ dealloc_count \in 0..(DefragEvery - 1)
    /\ requested \in BOOLEAN /\ defrag \in {"wait", "run"}

\* The inductive invariant.
ArenaInv == FlagsOK /\ Balanced(allocated, used, offset, free_list, live, thread)

-----------------------------------------------------------------------------
(***************************************************************************)
(* How the program moves memory.                                           *)
(***************************************************************************)

\* A slot becomes live; a slot is freed.
Adds(M, L, slot) == M = L \cup {slot}
Takes(M, L, slot) == M = L \ {slot}

\* The bump pointer moves past a new slot.
LEMMA TiledBump ==
    ASSUME NEW L, NEW F, NEW H, NEW top, NEW slot, NEW n, NEW M,
           Tiled(L, F, H, top), Len(F) \in Nat,
           n \in Nat, n >= 16, n % 8 = 0, slot.start = top, slot.size = n, Adds(M, L, slot)
    PROVE  slot \notin L /\ Tiled(M, F, H, top + n)
<1>0. SUFFICES slot \notin L /\ Tiled(L \cup {slot}, F, H, top + n)
  BY DEF Adds, Takes
<1>1. /\ top \in Nat /\ top % 8 = 0
      /\ \A s \in L : Piece(s, top)
      /\ \A i \in 1..Len(F) : Piece(F[i], top)
      /\ \A t \in DOMAIN H : Piece(H[t], top)
  BY DEF Tiled, Pieces
<1>2. \A r : Piece(r, top) => Piece(r, top + n) /\ Apart(r, slot) /\ Apart(slot, r) /\ r # slot
  BY <1>1 DEF Piece, Apart
<1>3. Piece(slot, top + n)
  BY <1>1 DEF Piece
<1>4. Pieces(L \cup {slot}, F, H, top + n)
  <2>1. top + n \in Nat /\ (top + n) % 8 = 0
    BY <1>1
  <2> QED BY <1>1, <1>2, <1>3, <2>1 DEF Pieces
<1>5. Disjoint(L \cup {slot}, F, H)
  BY <1>1, <1>2, Zenon DEF Tiled, Disjoint
<1>6. Covered(L \cup {slot}, F, H, top + n)
  <2>1. SUFFICES ASSUME NEW a \in Nat, a < top + n
                 PROVE  \/ \E s \in L \cup {slot} : Covers(s, a)
                        \/ \E i \in 1..Len(F) : Covers(F[i], a)
                        \/ \E t \in DOMAIN H : Covers(H[t], a)
    BY DEF Covered
  <2>2. CASE a < top
    BY <2>2 DEF Tiled, Covered
  <2>3. CASE ~(a < top)
    BY <1>1, <2>1, <2>3 DEF Covers
  <2> QED BY <2>2, <2>3
<1> QED BY <1>1, <1>2, <1>4, <1>5, <1>6 DEF Tiled

\* A slot that a thread holds becomes live.
LEMMA TiledPlace ==
    ASSUME NEW L, NEW F, NEW H, NEW top, NEW t, NEW slot, NEW K, NEW M,
           Tiled(L, F, H, top), Adds(M, L, slot),
           t \in DOMAIN H, slot.start = H[t].start, slot.size = H[t].size,
           \A u : u \in DOMAIN K <=> u \in DOMAIN H /\ u # t, \A u \in DOMAIN K : K[u] = H[u]
    PROVE  slot \notin L /\ Tiled(M, F, K, top)
<1>0. SUFFICES slot \notin L /\ Tiled(L \cup {slot}, F, K, top)
  BY DEF Adds, Takes
<1>1. Pieces(L, F, H, top) /\ Disjoint(L, F, H) /\ Covered(L, F, H, top)
  BY DEF Tiled
<1>2. \A r : /\ Apart(r, H[t]) <=> Apart(r, slot)
             /\ Apart(H[t], r) <=> Apart(slot, r)
             /\ Apart(r, slot) <=> Apart(slot, r)
  BY DEF Apart
<1>3. Piece(slot, top)
  BY <1>1 DEF Pieces, Piece
<1>4. ~Apart(slot, slot)
  BY <1>3 DEF Piece, Apart
<1>5. \A s \in L : Apart(s, slot) /\ s # slot
  BY <1>1, <1>2, <1>4 DEF Disjoint
<1>6. Pieces(L \cup {slot}, F, K, top)
  BY <1>1, <1>3 DEF Pieces
<1>7. Disjoint(L \cup {slot}, F, K)
  <2>1. \A s, r \in L \cup {slot} : s # r => Apart(s, r)
    BY <1>1, <1>2, <1>5 DEF Disjoint
  <2>2. \A i \in 1..Len(F) : Apart(slot, F[i])
    BY <1>1, <1>2 DEF Disjoint
  <2>3. \A u \in DOMAIN K : Apart(slot, K[u])
    BY <1>1, <1>2 DEF Disjoint
  <2> QED BY <1>1, <2>1, <2>2, <2>3 DEF Disjoint
<1>8. Covered(L \cup {slot}, F, K, top)
  <2>1. \A a : Covers(H[t], a) <=> Covers(slot, a)
    BY DEF Covers
  <2> QED BY <1>1, <2>1, Zenon DEF Covered
<1> QED BY <1>5, <1>6, <1>7, <1>8 DEF Tiled

\* A thread takes a node off the list.
LEMMA TiledTake ==
    ASSUME NEW L, NEW F, NEW H, NEW top, NEW i, NEW t, NEW E, NEW K,
           Tiled(L, F, H, top), Len(F) \in Nat,
           i \in 1..Len(F), t \notin DOMAIN H, Len(E) = Len(F) - 1,
           \A j \in 1..(Len(F) - 1) : E[j] = IF j < i THEN F[j] ELSE F[j + 1],
           \A u : u \in DOMAIN K <=> u \in DOMAIN H \/ u = t,
           K[t] = F[i], \A u \in DOMAIN H : K[u] = H[u]
    PROVE  Tiled(L, E, K, top)
<1>1. Pieces(L, F, H, top) /\ Disjoint(L, F, H) /\ Covered(L, F, H, top)
  BY DEF Tiled
<1>2. \A j \in 1..Len(E) : \E k \in 1..Len(F) : k # i /\ E[j] = F[k]
  BY Z3
<1>3. \A j, k \in 1..Len(E) : j # k =>
        \E m, n \in 1..Len(F) : m # n /\ E[j] = F[m] /\ E[k] = F[n]
  <2>1. TAKE j, k \in 1..Len(E)
  <2>2. HAVE j # k
  <2> DEFINE back(x) == IF x < i THEN x ELSE x + 1
  <2>3. /\ back(j) \in 1..Len(F) /\ E[j] = F[back(j)]
        /\ back(k) \in 1..Len(F) /\ E[k] = F[back(k)]
    OBVIOUS
  <2>4. back(j) # back(k)
    BY <2>2
  <2> HIDE DEF back
  <2> QED BY <2>3, <2>4
<1>4. \A k \in 1..Len(F) : k # i => \E j \in 1..Len(E) : E[j] = F[k]
  <2>1. TAKE k \in 1..Len(F)
  <2>2. HAVE k # i
  <2>3. CASE k < i
    BY <2>1, <2>3
  <2>4. CASE k > i
    <3>1. k - 1 \in 1..Len(E) /\ E[k - 1] = F[(k - 1) + 1] /\ (k - 1) + 1 = k
      BY <2>1, <2>4
    <3> QED BY <3>1
  <2> QED BY <2>1, <2>2, <2>3, <2>4
<1>5. Pieces(L, E, K, top)
  BY <1>1, <1>2 DEF Pieces
<1>6. Disjoint(L, E, K)
  <2>1. \A j, k \in 1..Len(E) : j # k => Apart(E[j], E[k])
    BY <1>1, <1>3 DEF Disjoint
  <2>2. \A r, s : Apart(r, s) <=> Apart(s, r)
    BY DEF Apart
  <2>3. \A u, v \in DOMAIN K : u # v => Apart(K[u], K[v])
    <3>1. \A u, v \in DOMAIN H : u # v => Apart(H[u], H[v])
      BY <1>1 DEF Disjoint
    <3>2. \A u \in DOMAIN H : Apart(F[i], H[u])
      BY <1>1 DEF Disjoint
    <3>3. TAKE u, v \in DOMAIN K
    <3>4. HAVE u # v
    <3>5. CASE u = t
      BY <2>2, <3>2, <3>4, <3>5
    <3>6. CASE v = t
      BY <2>2, <3>2, <3>4, <3>6
    <3>7. CASE u # t /\ v # t
      BY <3>1, <3>4, <3>7
    <3> QED BY <3>5, <3>6, <3>7
  <2>4. \A s \in L, j \in 1..Len(E) : Apart(s, E[j])
    BY <1>1, <1>2 DEF Disjoint
  <2>5. \A s \in L, u \in DOMAIN K : Apart(s, K[u])
    BY <1>1 DEF Disjoint
  <2>6. \A j \in 1..Len(E), u \in DOMAIN K : Apart(E[j], K[u])
    BY <1>1, <1>2 DEF Disjoint
  <2> QED BY <1>1, <2>1, <2>3, <2>4, <2>5, <2>6 DEF Disjoint
<1>7. Covered(L, E, K, top)
  <2>1. \A a, k : k \in 1..Len(F) /\ Covers(F[k], a) =>
          \/ \E j \in 1..Len(E) : Covers(E[j], a)
          \/ \E u \in DOMAIN K : Covers(K[u], a)
    BY <1>4, Zenon
  <2>2. \A a, u : u \in DOMAIN H /\ Covers(H[u], a) => \E v \in DOMAIN K : Covers(K[v], a)
    BY DEF Adds, Takes
  <2> QED BY <1>1, <2>1, <2>2, Zenon DEF Covered
<1> QED BY <1>5, <1>6, <1>7 DEF Tiled

\* What is apart from a piece is apart from a part of it.
LEMMA PartApart ==
    ASSUME NEW s, NEW r, NEW p,
           s.start \in Nat, s.size \in Nat, r.start \in Nat, r.size \in Nat,
           p.start \in Nat, p.size \in Nat,
           r.start <= p.start, p.start + p.size <= r.start + r.size, Apart(s, r)
    PROVE  Apart(s, p)
<1> QED BY DEF Apart

\* A piece of n bytes at the start of another, and the rest of it.
Cut(r, n, slot, e) ==
    /\ n \in Nat /\ n >= 16 /\ n % 8 = 0 /\ r.size - n >= 16
    /\ slot.start = r.start /\ slot.size = n
    /\ e.start = r.start + n /\ e.size = r.size - n

\* Both parts are pieces, apart from one another and from what r is apart from,
\* and no byte is lost.
LEMMA CutPieces ==
    ASSUME NEW r, NEW n, NEW slot, NEW e, NEW top, top \in Nat, Piece(r, top), Cut(r, n, slot, e)
    PROVE  /\ Piece(slot, top) /\ Piece(e, top) /\ Apart(slot, e)
           /\ \A s : Piece(s, top) /\ Apart(s, r) => Apart(s, slot) /\ Apart(s, e)
           /\ \A a \in Nat : Covers(r, a) => Covers(slot, a) \/ Covers(e, a)
<1>1. PICK a, b, m \in Nat : /\ a = r.start /\ b = r.size /\ m = n
                             /\ a % 8 = 0 /\ b % 8 = 0 /\ m % 8 = 0
                             /\ m >= 16 /\ b - m >= 16 /\ a + b <= top
  BY DEF Piece, Cut
<1>2. slot.start = a /\ slot.size = m /\ e.start = a + m /\ e.size = b - m
  BY <1>1 DEF Cut
<1>3. m >= 16 /\ b - m >= 16 /\ a + b <= top /\ a + m \in Nat /\ b - m \in Nat
  BY <1>1
<1>4. (a + m) % 8 = 0 /\ (b - m) % 8 = 0
  BY <1>1, Multiples
<1>5. Piece(slot, top)
  <2>1. a + m <= top
    BY <1>3
  <2> QED BY <1>1, <1>2, <2>1 DEF Piece
<1>6. Piece(e, top)
  <2>1. (a + m) + (b - m) <= top
    BY <1>3
  <2> QED BY <1>2, <1>3, <1>4, <2>1 DEF Piece
<1>7. Apart(slot, e)
  BY <1>2 DEF Apart
<1>8. ASSUME NEW s, Piece(s, top), Apart(s, r)
      PROVE  Apart(s, slot) /\ Apart(s, e)
  <2>1. /\ s.start \in Nat /\ s.size \in Nat /\ r.start \in Nat /\ r.size \in Nat
        /\ slot.start \in Nat /\ slot.size \in Nat /\ e.start \in Nat /\ e.size \in Nat
    BY <1>5, <1>6, <1>8 DEF Piece
  <2>2. r.start <= slot.start /\ slot.start + slot.size <= r.start + r.size
    <3>1. a <= a /\ a + m <= a + b
      BY <1>3
    <3> QED BY <1>1, <1>2, <3>1
  <2>3. r.start <= e.start /\ e.start + e.size <= r.start + r.size
    <3>1. a <= a + m /\ (a + m) + (b - m) <= a + b
      BY <1>3
    <3> QED BY <1>1, <1>2, <3>1
  <2> QED BY <1>8, <2>1, <2>2, <2>3, PartApart
<1>9. ASSUME NEW w \in Nat, Covers(r, w)
      PROVE  Covers(slot, w) \/ Covers(e, w)
  <2>1. a <= w /\ w < a + b
    BY <1>1, <1>9 DEF Covers
  <2>2. (a <= w /\ w < a + m) \/ (a + m <= w /\ w < (a + m) + (b - m))
    BY <1>3, <2>1
  <2> QED BY <1>2, <2>2 DEF Covers
<1> QED BY <1>5, <1>6, <1>7, <1>8, <1>9

\* Node i of a list is cut: the first n bytes become a slot.
SplitsAt(E, F, i, n, slot) ==
    /\ i \in 1..Len(F) /\ Cut(F[i], n, slot, E[i])
    /\ Len(E) = Len(F) /\ \A j \in 1..Len(F) : j # i => E[j] = F[j]

\* A node of the list is split: its head becomes live, its tail stays.
LEMMA TiledSplit ==
    ASSUME NEW L, NEW F, NEW H, NEW top, NEW i, NEW n, NEW slot, NEW E, NEW M,
           Tiled(L, F, H, top), Len(F) \in Nat, Adds(M, L, slot), SplitsAt(E, F, i, n, slot)
    PROVE  slot \notin L /\ Tiled(M, E, H, top)
<1>0. SUFFICES slot \notin L /\ Tiled(L \cup {slot}, E, H, top)
  BY DEF Adds, Takes
<1>1. Pieces(L, F, H, top) /\ Disjoint(L, F, H) /\ Covered(L, F, H, top)
  BY DEF Tiled
<1>2. PICK r, e : r = F[i] /\ e = E[i]
  OBVIOUS
<1>3. /\ i \in 1..Len(F) /\ Cut(r, n, slot, e)
      /\ Len(E) = Len(F) /\ \A j \in 1..Len(F) : j # i => E[j] = F[j]
  BY <1>2 DEF SplitsAt
<1>4. /\ Piece(slot, top) /\ Piece(e, top) /\ Apart(slot, e)
      /\ \A a \in Nat : Covers(r, a) => Covers(slot, a) \/ Covers(e, a)
  <2>1. Piece(r, top) /\ top \in Nat
    BY <1>1, <1>2, <1>3 DEF Pieces
  <2> QED BY <1>3, <2>1, CutPieces
<1>5. \A s : Piece(s, top) /\ Apart(s, r) => Apart(s, slot) /\ Apart(s, e)
  <2>1. Piece(r, top) /\ top \in Nat
    BY <1>1, <1>2, <1>3 DEF Pieces
  <2> QED BY <1>3, <2>1, CutPieces
<1>6. \A s, x : Apart(s, x) <=> Apart(x, s)
  BY DEF Apart
<1>7. ~Apart(slot, slot)
  BY <1>4 DEF Piece, Apart
<1>8. /\ \A s \in L : Apart(s, r)
      /\ \A j \in 1..Len(F) : j # i => Apart(F[j], r)
      /\ \A t \in DOMAIN H : Apart(H[t], r)
  BY <1>1, <1>2, <1>3, <1>6 DEF Disjoint
<1>9. /\ \A s \in L : Apart(s, slot) /\ Apart(s, e) /\ s # slot
      /\ \A j \in 1..Len(F) : j # i => Apart(F[j], slot) /\ Apart(F[j], e)
      /\ \A t \in DOMAIN H : Apart(H[t], slot) /\ Apart(H[t], e)
  BY <1>1, <1>5, <1>7, <1>8 DEF Pieces
<1>10. Pieces(L \cup {slot}, E, H, top)
  BY <1>1, <1>2, <1>3, <1>4 DEF Pieces
<1>11. Disjoint(L \cup {slot}, E, H)
  <2>1. \A s, x \in L \cup {slot} : s # x => Apart(s, x)
    BY <1>1, <1>6, <1>9 DEF Disjoint
  <2>2. \A j, k \in 1..Len(E) : j # k => Apart(E[j], E[k])
    BY <1>1, <1>2, <1>3, <1>6, <1>9 DEF Disjoint
  <2>3. \A s \in L \cup {slot}, j \in 1..Len(E) : Apart(s, E[j])
    BY <1>1, <1>2, <1>3, <1>4, <1>6, <1>9 DEF Disjoint
  <2>4. \A s \in L \cup {slot}, t \in DOMAIN H : Apart(s, H[t])
    BY <1>1, <1>6, <1>9 DEF Disjoint
  <2>5. \A j \in 1..Len(E), t \in DOMAIN H : Apart(E[j], H[t])
    BY <1>1, <1>2, <1>3, <1>6, <1>9 DEF Disjoint
  <2> QED BY <1>1, <2>1, <2>2, <2>3, <2>4, <2>5 DEF Disjoint
<1>12. Covered(L \cup {slot}, E, H, top)
  <2>1. \A a \in Nat : Covers(r, a) => Covers(slot, a) \/ Covers(e, a)
    BY <1>4
  <2>2. \A a \in Nat : \A j \in 1..Len(F) : Covers(F[j], a) =>
          \/ Covers(slot, a)
          \/ \E k \in 1..Len(E) : Covers(E[k], a)
    <3>1. TAKE a \in Nat
    <3>2. TAKE j \in 1..Len(F)
    <3>3. CASE j = i
      BY <1>2, <1>3, <2>1, <3>3
    <3>4. CASE j # i
      BY <1>3, <3>4
    <3> QED BY <3>3, <3>4
  <2> QED BY <1>1, <2>2, Zenon DEF Covered
<1> QED BY <1>9, <1>10, <1>11, <1>12 DEF Tiled

\* A live slot becomes the head of the list.
LEMMA TiledFree ==
    ASSUME NEW L, NEW F, NEW H, NEW top, NEW slot, NEW E, NEW M,
           Tiled(L, F, H, top), Len(F) \in Nat, slot \in L, Takes(M, L, slot),
           Len(E) = Len(F) + 1, E[1].start = slot.start, E[1].size = slot.size,
           \A j \in 1..Len(F) : E[j + 1] = F[j]
    PROVE  Tiled(M, E, H, top)
<1>0. SUFFICES Tiled(L \ {slot}, E, H, top)
  BY DEF Adds, Takes
<1>1. Pieces(L, F, H, top) /\ Disjoint(L, F, H) /\ Covered(L, F, H, top)
  BY DEF Tiled
<1>2. PICK e : e = E[1]
  OBVIOUS
<1>3. /\ \A r : Apart(r, slot) <=> Apart(r, e)
      /\ \A r, s : Apart(r, s) <=> Apart(s, r)
      /\ \A a : Covers(slot, a) <=> Covers(e, a)
  BY <1>2 DEF Apart, Covers
<1>4. Piece(e, top)
  BY <1>1, <1>2 DEF Pieces, Piece
<1>5. \A j \in 1..Len(E) : \/ j = 1 /\ E[j] = e
                           \/ j # 1 /\ j - 1 \in 1..Len(F) /\ E[j] = F[j - 1]
  <2>1. TAKE j \in 1..Len(E)
  <2>2. CASE j = 1
    BY <1>2, <2>2
  <2>3. CASE j # 1
    <3>1. j - 1 \in 1..Len(F) /\ (j - 1) + 1 = j
      BY <2>1, <2>3
    <3>2. E[(j - 1) + 1] = F[j - 1]
      BY <3>1
    <3> QED BY <2>3, <3>1, <3>2
  <2> QED BY <2>2, <2>3
<1>6. Pieces(L \ {slot}, E, H, top)
  BY <1>1, <1>4, <1>5 DEF Pieces
<1>7. Disjoint(L \ {slot}, E, H)
  <2>1. /\ \A j \in 1..Len(F) : Apart(e, F[j])
        /\ \A s \in L \ {slot} : Apart(s, e)
        /\ \A t \in DOMAIN H : Apart(e, H[t])
    BY <1>1, <1>3 DEF Disjoint
  <2>2. \A j, k \in 1..Len(E) : j # k => Apart(E[j], E[k])
    <3>1. TAKE j, k \in 1..Len(E)
    <3>2. HAVE j # k
    <3>3. CASE j = 1
      BY <1>5, <2>1, <3>2, <3>3
    <3>4. CASE k = 1
      BY <1>3, <1>5, <2>1, <3>2, <3>4
    <3>5. CASE j # 1 /\ k # 1
      <4>1. j - 1 \in 1..Len(F) /\ E[j] = F[j - 1] /\ k - 1 \in 1..Len(F) /\ E[k] = F[k - 1]
        BY <1>5, <3>5
      <4>2. j - 1 # k - 1
        BY <3>2
      <4> QED BY <1>1, <4>1, <4>2 DEF Disjoint
    <3> QED BY <3>3, <3>4, <3>5
  <2>3. \A s \in L \ {slot}, j \in 1..Len(E) : Apart(s, E[j])
    BY <1>1, <1>5, <2>1 DEF Disjoint
  <2>4. \A j \in 1..Len(E), t \in DOMAIN H : Apart(E[j], H[t])
    BY <1>1, <1>5, <2>1 DEF Disjoint
  <2> QED BY <1>1, <2>2, <2>3, <2>4 DEF Disjoint
<1>8. Covered(L \ {slot}, E, H, top)
  <2>1. \A a : Covers(slot, a) => \E j \in 1..Len(E) : Covers(E[j], a)
    <3>1. 1 \in 1..Len(E)
      OBVIOUS
    <3> QED BY <1>2, <1>3, <3>1, Zenon
  <2>2. \A a : \A j \in 1..Len(F) : Covers(F[j], a) => \E k \in 1..Len(E) : Covers(E[k], a)
    <3>1. \A j \in 1..Len(F) : j + 1 \in 1..Len(E)
      OBVIOUS
    <3> QED BY <3>1, Zenon
  <2> QED BY <1>1, <2>1, <2>2, Zenon DEF Covered
<1> QED BY <1>6, <1>7, <1>8 DEF Tiled

\* Pieces that are not apart share an address.
LEMMA OverlapShared ==
    ASSUME NEW top, NEW r, Piece(r, top), NEW s, Piece(s, top), ~Apart(r, s)
    PROVE  \E a \in Nat : Covers(r, a) /\ Covers(s, a)
<1>1. CASE r.start <= s.start
  <2>1. Covers(r, s.start) /\ Covers(s, s.start)
    BY <1>1 DEF Piece, Apart, Covers
  <2> QED BY <2>1 DEF Piece
<1>2. CASE s.start <= r.start
  <2>1. Covers(r, r.start) /\ Covers(s, r.start)
    BY <1>2 DEF Piece, Apart, Covers
  <2> QED BY <2>1 DEF Piece
<1> QED BY <1>1, <1>2 DEF Piece

\* Pieces that are apart share none.
LEMMA ApartNotShared ==
    ASSUME NEW top, NEW r, Piece(r, top), NEW s, Piece(s, top), Apart(r, s)
    PROVE  \A a \in Nat : ~(Covers(r, a) /\ Covers(s, a))
<1> QED BY DEF Piece, Apart, Covers

\* A piece made of two that meet.
LEMMA Joined ==
    ASSUME NEW top \in Nat, NEW e, Piece(e, top), NEW x, Piece(x, top), NEW d,
           e.start + e.size = x.start, d.start = e.start, d.size = e.size + x.size
    PROVE  /\ Piece(d, top)
           /\ \A a \in Nat : Covers(d, a) <=> Covers(e, a) \/ Covers(x, a)
           /\ \A r : Piece(r, top) /\ Apart(r, e) /\ Apart(r, x) => Apart(r, d) /\ Apart(d, r)
<1>1. Piece(d, top)
  <2>1. (e.size + x.size) % 8 = 0
    BY Multiples DEF Piece
  <2> QED BY <2>1 DEF Piece
<1>2. \A a \in Nat : Covers(d, a) <=> Covers(e, a) \/ Covers(x, a)
  BY DEF Piece, Covers
<1>3. \A r : Piece(r, top) /\ Apart(r, e) /\ Apart(r, x) => Apart(r, d) /\ Apart(d, r)
  BY DEF Piece, Apart
<1> QED BY <1>1, <1>2, <1>3

\* The list is replaced by one of the same memory.
LEMMA TiledReplace ==
    ASSUME NEW L, NEW F, NEW H, NEW top, NEW E, Tiled(L, F, H, top),
           \A j \in 1..Len(E) : Piece(E[j], top),
           \A j, k \in 1..Len(E) : j # k => Apart(E[j], E[k]),
           \A a \in Nat : (\E i \in 1..Len(F) : Covers(F[i], a)) <=> (\E j \in 1..Len(E) : Covers(E[j], a))
    PROVE  Tiled(L, E, H, top)
<1>1. Pieces(L, F, H, top) /\ Disjoint(L, F, H) /\ Covered(L, F, H, top)
  BY DEF Tiled
<1>2. ASSUME NEW r, Piece(r, top), NEW s, Piece(s, top), ~Apart(r, s)
      PROVE  \E a \in Nat : Covers(r, a) /\ Covers(s, a)
  BY <1>2, OverlapShared
<1>3. ASSUME NEW r, Piece(r, top), NEW s, Piece(s, top), NEW a \in Nat, Covers(r, a), Covers(s, a)
      PROVE  ~Apart(r, s) /\ ~Apart(s, r)
  BY <1>3 DEF Piece, Apart, Covers
<1>4. ASSUME NEW r, Piece(r, top), \A i \in 1..Len(F) : Apart(r, F[i]) \/ Apart(F[i], r)
      PROVE  \A j \in 1..Len(E) : Apart(r, E[j])
  <2>1. SUFFICES ASSUME NEW j \in 1..Len(E), ~Apart(r, E[j])
                 PROVE  FALSE
    OBVIOUS
  <2>2. PICK a \in Nat : Covers(r, a) /\ Covers(E[j], a)
    BY <1>2, <1>4, <2>1
  <2>3. PICK i \in 1..Len(F) : Covers(F[i], a)
    BY <2>2
  <2>4. Piece(F[i], top)
    BY <1>1 DEF Pieces
  <2>5. ~Apart(r, F[i]) /\ ~Apart(F[i], r)
    BY <1>3, <1>4, <2>2, <2>3, <2>4
  <2> QED BY <1>4, <2>5
<1>5. Disjoint(L, E, H)
  <2>1. \A s \in L, j \in 1..Len(E) : Apart(s, E[j])
    BY <1>1, <1>4 DEF Pieces, Disjoint
  <2>2. \A t \in DOMAIN H, j \in 1..Len(E) : Apart(H[t], E[j])
    BY <1>1, <1>4 DEF Pieces, Disjoint
  <2>3. \A r, s : Apart(r, s) <=> Apart(s, r)
    BY DEF Apart
  <2> QED BY <1>1, <2>1, <2>2, <2>3 DEF Disjoint
<1>6. Pieces(L, E, H, top)
  BY <1>1 DEF Pieces
<1>7. Covered(L, E, H, top)
  BY <1>1, Zenon DEF Covered
<1> QED BY <1>5, <1>6, <1>7 DEF Tiled

-----------------------------------------------------------------------------
(***************************************************************************)
(* Defragmentation keeps the memory of the list.                           *)
(***************************************************************************)

\* The nodes of a free list.
Nodes == [start : Nat, size : Nat]

\* E is made of the same memory as the first n nodes of F.
Same(F, n, E, top) ==
    /\ E \in Seq(Nodes)
    /\ \A j \in 1..Len(E) : Piece(E[j], top)
    /\ \A j, k \in 1..Len(E) : j # k => Apart(E[j], E[k])
    /\ \A a \in Nat : (\E i \in 1..n : Covers(F[i], a)) <=> (\E j \in 1..Len(E) : Covers(E[j], a))

\* A list of pieces of which no two overlap.
Separate(F, top) ==
    /\ F \in Seq(Nodes) /\ top \in Nat
    /\ \A i \in 1..Len(F) : Piece(F[i], top)
    /\ \A i, j \in 1..Len(F) : i # j => Apart(F[i], F[j])

\* The next node of F does not overlap what was made of the nodes before it.
LEMMA NextIsApart ==
    ASSUME NEW F, NEW top, Separate(F, top), NEW n \in 1..Len(F), NEW E, Same(F, n - 1, E, top)
    PROVE  \A j \in 1..Len(E) : Apart(E[j], F[n]) /\ Apart(F[n], E[j])
<1>1. PICK x : x = F[n] /\ Piece(x, top)
  BY DEF Separate
<1>2. SUFFICES ASSUME NEW j \in 1..Len(E), ~Apart(E[j], x)
               PROVE  FALSE
  BY <1>1 DEF Apart
<1>3. PICK e : e = E[j] /\ Piece(e, top) /\ ~Apart(e, x)
  BY <1>2 DEF Same
<1>4. PICK a \in Nat : Covers(e, a) /\ Covers(x, a)
  BY <1>1, <1>3, OverlapShared
<1>5. PICK i \in 1..(n - 1) : Covers(F[i], a)
  BY <1>3, <1>4 DEF Same
<1>6. Len(F) \in Nat
  BY DEF Separate
<1>7. i \in 1..Len(F) /\ i # n
  BY <1>6
<1>8. Piece(F[i], top) /\ Apart(F[i], x)
  BY <1>1, <1>7 DEF Separate
<1> QED BY <1>1, <1>4, <1>5, <1>8, ApartNotShared

\* The node is put somewhere between the others.
LEMMA SameInsert ==
    ASSUME NEW F, NEW top, Separate(F, top), NEW n \in 1..Len(F), NEW E, Same(F, n - 1, E, top),
           NEW D \in Seq(Nodes), NEW i \in 1..(Len(E) + 1), Len(D) = Len(E) + 1, D[i] = F[n],
           \A j \in 1..Len(E) : D[IF j < i THEN j ELSE j + 1] = E[j],
           \A j \in 1..Len(D) : j # i =>
             LET k == IF j < i THEN j ELSE j - 1 IN k \in 1..Len(E) /\ D[j] = E[k]
    PROVE  Same(F, n, D, top)
<1>1. PICK x : x = F[n] /\ Piece(x, top) /\ \A j \in 1..Len(E) : Apart(E[j], x) /\ Apart(x, E[j])
  BY NextIsApart DEF Separate
<1>2. Len(E) \in Nat /\ Len(F) \in Nat
  BY DEF Same, Separate
<1>3. \A j \in 1..Len(D) : j = i \/ \E k \in 1..Len(E) : D[j] = E[k]
  OBVIOUS
<1>4. \A j \in 1..Len(D) : Piece(D[j], top)
  BY <1>1, <1>3 DEF Same
<1>5. \A j, k \in 1..Len(D) : j # k => Apart(D[j], D[k])
  <2>1. TAKE j, k \in 1..Len(D)
  <2>2. HAVE j # k
  <2>3. CASE j = i \/ k = i
    BY <1>1, <1>3, <2>2, <2>3
  <2>4. CASE j # i /\ k # i
    <3>1. PICK l, m \in 1..Len(E) : l # m /\ D[j] = E[l] /\ D[k] = E[m]
      <4>1. PICK l \in 1..Len(E) : l = (IF j < i THEN j ELSE j - 1) /\ D[j] = E[l]
        BY <2>4
      <4>2. PICK m \in 1..Len(E) : m = (IF k < i THEN k ELSE k - 1) /\ D[k] = E[m]
        BY <2>4
      <4>3. l # m
        BY <1>2, <2>2, <2>4, <4>1, <4>2
      <4> QED BY <4>1, <4>2, <4>3
    <3> QED BY <3>1 DEF Same
  <2> QED BY <2>3, <2>4
<1>6. ASSUME NEW a \in Nat
      PROVE  (\E j \in 1..n : Covers(F[j], a)) <=> (\E j \in 1..Len(D) : Covers(D[j], a))
  <2>1. (\E j \in 1..(n - 1) : Covers(F[j], a)) <=> (\E j \in 1..Len(E) : Covers(E[j], a))
    BY DEF Same
  <2>2. \A j : j \in 1..n <=> (j \in 1..(n - 1) \/ j = n)
    BY <1>2
  <2>3. (\E j \in 1..n : Covers(F[j], a)) <=> (Covers(x, a) \/ \E j \in 1..Len(E) : Covers(E[j], a))
    BY <1>1, <2>1, <2>2, Zenon
  <2>4. \A j \in 1..Len(E) : \E k \in 1..Len(D) : D[k] = E[j]
    <3>1. \A j \in 1..Len(E) : (IF j < i THEN j ELSE j + 1) \in 1..Len(D)
      BY <1>2
    <3> QED BY <3>1
  <2>5. i \in 1..Len(D)
    BY <1>2
  <2>6. (\E j \in 1..Len(D) : Covers(D[j], a)) <=> (Covers(x, a) \/ \E j \in 1..Len(E) : Covers(E[j], a))
    BY <1>1, <1>3, <2>4, <2>5
  <2> QED BY <2>3, <2>6
<1> QED BY <1>4, <1>5, <1>6 DEF Same

\* The node is added to the last one, which ends where it begins.
LEMMA SameMerge ==
    ASSUME NEW F, NEW top, Separate(F, top), NEW n \in 1..Len(F), NEW E, Same(F, n - 1, E, top),
           E # << >>, E[Len(E)].start + E[Len(E)].size = F[n].start
    PROVE  Same(F, n, [E EXCEPT ![Len(E)].size = @ + F[n].size], top)
<1>1. PICK x \in Nodes : x = F[n] /\ Piece(x, top) /\ \A j \in 1..Len(E) : Apart(E[j], x)
  <2>1. F[n] \in Nodes
    BY DEF Separate
  <2> QED BY <2>1, NextIsApart DEF Separate
<1>2. Len(E) \in Nat /\ Len(F) \in Nat /\ E \in Seq(Nodes) /\ Len(E) # 0
  BY DEF Same, Separate
<1>3. PICK m \in 1..Len(E) : m = Len(E)
  BY <1>2
<1>4. PICK e \in Nodes : e = E[m] /\ Piece(e, top) /\ e.start + e.size = x.start
  BY <1>1, <1>2, <1>3 DEF Same
<1>5. PICK d : d = [start |-> e.start, size |-> e.size + x.size]
  OBVIOUS
<1>6. d \in Nodes /\ d.start = e.start /\ d.size = e.size + x.size
  BY <1>5 DEF Nodes
<1>7. PICK D : D = [E EXCEPT ![m] = d] /\ D = [E EXCEPT ![Len(E)].size = @ + F[n].size]
  <2>1. [e EXCEPT !.size = @ + x.size] = d
    BY <1>5 DEF Nodes
  <2> QED BY <1>1, <1>2, <1>3, <1>4, <2>1
<1>8. D \in Seq(Nodes) /\ Len(D) = Len(E) /\ D[m] = d /\ \A j \in 1..Len(E) : j # m => D[j] = E[j]
  <2>1. D = [E EXCEPT ![m] = d]
    BY <1>7
  <2> QED BY <1>2, <1>6, <2>1, Replaced
<1>9. /\ Piece(d, top)
      /\ \A a \in Nat : Covers(d, a) <=> Covers(e, a) \/ Covers(x, a)
      /\ \A r : Piece(r, top) /\ Apart(r, e) /\ Apart(r, x) => Apart(r, d) /\ Apart(d, r)
  <2>1. top \in Nat
    BY DEF Separate
  <2> QED BY <1>1, <1>4, <1>6, <2>1, Joined
<1>10. \A j \in 1..Len(E) : j # m => Apart(E[j], d) /\ Apart(d, E[j])
  <2>1. TAKE j \in 1..Len(E)
  <2>2. HAVE j # m
  <2>3. Piece(E[j], top) /\ Apart(E[j], e) /\ Apart(E[j], x)
    BY <1>1, <1>3, <1>4, <2>2 DEF Same
  <2> QED BY <1>9, <2>3
<1>11. \A j, k \in 1..Len(D) : j # k => Apart(D[j], D[k])
  BY <1>8, <1>10 DEF Same
<1>12. \A j \in 1..Len(D) : Piece(D[j], top)
  BY <1>8, <1>9 DEF Same
<1>13. ASSUME NEW a \in Nat
       PROVE  (\E j \in 1..n : Covers(F[j], a)) <=> (\E j \in 1..Len(D) : Covers(D[j], a))
  <2>1. (\E j \in 1..(n - 1) : Covers(F[j], a)) <=> (\E j \in 1..Len(E) : Covers(E[j], a))
    BY DEF Same
  <2>2. \A j : j \in 1..n <=> (j \in 1..(n - 1) \/ j = n)
    BY <1>2
  <2>3. (\E j \in 1..n : Covers(F[j], a)) <=> (Covers(x, a) \/ \E j \in 1..Len(E) : Covers(E[j], a))
    BY <1>1, <2>1, <2>2, Zenon
  <2>4. Covers(d, a) <=> (Covers(e, a) \/ Covers(x, a))
    BY <1>9
  <2>5. (\E j \in 1..Len(D) : Covers(D[j], a)) <=> (Covers(d, a) \/ \E j \in 1..Len(E) : j # m /\ Covers(E[j], a))
    BY <1>8, Zenon
  <2>6. (\E j \in 1..Len(E) : Covers(E[j], a)) <=> (Covers(e, a) \/ \E j \in 1..Len(E) : j # m /\ Covers(E[j], a))
    BY <1>4, Zenon
  <2> QED BY <2>3, <2>4, <2>5, <2>6
<1>14. Same(F, n, D, top)
  BY <1>8, <1>11, <1>12, <1>13 DEF Same
<1> QED BY <1>7, <1>14

\* An element is put at position i.
LEMMA Inserted ==
    ASSUME NEW T, NEW E \in Seq(T), NEW x \in T, NEW i \in 1..(Len(E) + 1)
    PROVE  LET D == InsertAt(E, i, x)
           IN  /\ D \in Seq(T) /\ Len(D) = Len(E) + 1 /\ D[i] = x
               /\ \A j \in 1..Len(E) : D[IF j < i THEN j ELSE j + 1] = E[j]
               /\ \A j \in 1..Len(D) : j # i =>
                    LET k == IF j < i THEN j ELSE j - 1 IN k \in 1..Len(E) /\ D[j] = E[k]
<1> DEFINE a == SubSeq(E, 1, i - 1)
           b == SubSeq(E, i, Len(E))
           c == a \o <<x>>
           D == c \o b
<1>0. Len(E) \in Nat /\ <<x>> \in Seq(T) /\ Len(<<x>>) = 1 /\ <<x>>[1] = x
  OBVIOUS
<1>1. /\ a \in Seq(T) /\ Len(a) = i - 1 /\ \A j \in 1..(i - 1) : a[j] = E[j]
      /\ b \in Seq(T) /\ Len(b) = Len(E) - i + 1 /\ \A j \in 1..(Len(E) - i + 1) : b[j] = E[i + j - 1]
  BY <1>0, SubSeqProperties
<1>2. InsertAt(E, i, x) = D
  BY DEF InsertAt
<1> HIDE DEF a, b
<1>3. c \in Seq(T) /\ Len(c) = i /\ c[i] = x /\ \A j \in 1..(i - 1) : c[j] = E[j]
  <2>1. /\ c \in Seq(T) /\ Len(c) = Len(a) + 1
        /\ \A j \in 1..(Len(a) + 1) : c[j] = IF j <= Len(a) THEN a[j] ELSE <<x>>[j - Len(a)]
    BY <1>0, <1>1, ConcatProperties
  <2> HIDE DEF c
  <2>2. c[i] = x
    BY <1>0, <1>1, <2>1
  <2> QED BY <1>1, <2>1, <2>2
<1> HIDE DEF c
<1>4. /\ D \in Seq(T) /\ Len(D) = Len(c) + Len(b)
      /\ \A j \in 1..(Len(c) + Len(b)) : D[j] = IF j <= Len(c) THEN c[j] ELSE b[j - Len(c)]
  BY <1>1, <1>3, ConcatProperties
<1> HIDE DEF D
<1>5. Len(D) = Len(E) + 1 /\ \A j \in 1..i : D[j] = c[j]
  BY <1>0, <1>1, <1>3, <1>4
<1>6. \A j \in (i + 1)..(Len(E) + 1) : D[j] = b[j - i]
  BY <1>0, <1>1, <1>3, <1>4
<1>7. D[i] = x /\ \A j \in 1..(i - 1) : D[j] = E[j]
  BY <1>3, <1>5
<1>8. \A j \in (i + 1)..(Len(E) + 1) : D[j] = E[j - 1]
  <2>1. TAKE j \in (i + 1)..(Len(E) + 1)
  <2>2. j - i \in 1..(Len(E) - i + 1) /\ i + (j - i) - 1 = j - 1
    BY <1>0
  <2> QED BY <1>1, <1>6, <2>2
<1>9. ASSUME NEW j \in 1..Len(E)
      PROVE  D[IF j < i THEN j ELSE j + 1] = E[j]
  <2>1. CASE j < i
    BY <1>7, <2>1
  <2>2. CASE ~(j < i)
    <3>1. j + 1 \in (i + 1)..(Len(E) + 1) /\ (j + 1) - 1 = j
      BY <1>0, <2>2
    <3> QED BY <1>8, <2>2, <3>1
  <2> QED BY <2>1, <2>2
<1>10. ASSUME NEW j \in 1..Len(D), j # i
       PROVE  LET k == IF j < i THEN j ELSE j - 1 IN k \in 1..Len(E) /\ D[j] = E[k]
  <2>1. CASE j < i
    BY <1>0, <1>7, <2>1
  <2>2. CASE j > i
    <3>1. j \in (i + 1)..(Len(E) + 1) /\ j - 1 \in 1..Len(E)
      BY <1>0, <1>5, <2>2
    <3>2. D[j] = E[j - 1]
      BY <1>8, <3>1
    <3> QED BY <2>2, <3>1, <3>2
  <2> QED BY <1>10, <2>1, <2>2
<1> QED BY <1>2, <1>4, <1>5, <1>7, <1>9, <1>10

\* One step of the sort.
LEMMA InsertSortedSame ==
    ASSUME NEW F, NEW top, Separate(F, top), NEW n \in 1..Len(F), NEW E, Same(F, n - 1, E, top)
    PROVE  Same(F, n, InsertSorted(E, F[n]), top)
<1>1. E \in Seq(Nodes) /\ F[n] \in Nodes /\ Len(E) \in Nat
  BY DEF Same, Separate
<1>2. PICK S : S = {i \in 1..Len(E) : E[i].start >= F[n].start} \cup {Len(E) + 1}
  OBVIOUS
<1>3. PICK i \in 1..(Len(E) + 1) : i = Min(S)
  <2>1. S # {} /\ S \subseteq 1..(Len(E) + 1) /\ 1..(Len(E) + 1) \subseteq Nat
    BY <1>1, <1>2
  <2>2. Min(S) \in S
    BY <2>1, MinIsLeast
  <2> QED BY <2>1, <2>2
<1>4. PICK D : D = InsertAt(E, i, F[n])
  OBVIOUS
<1>5. InsertSorted(E, F[n]) = D
  BY <1>2, <1>3, <1>4 DEF InsertSorted
<1>6. /\ D \in Seq(Nodes) /\ Len(D) = Len(E) + 1 /\ D[i] = F[n]
      /\ \A j \in 1..Len(E) : D[IF j < i THEN j ELSE j + 1] = E[j]
      /\ \A j \in 1..Len(D) : j # i =>
           LET k == IF j < i THEN j ELSE j - 1 IN k \in 1..Len(E) /\ D[j] = E[k]
  BY <1>1, <1>4, Inserted
<1>7. Same(F, n, D, top)
  BY <1>6, SameInsert
<1> QED BY <1>5, <1>7

\* One step of the merge.
LEMMA MergeSame ==
    ASSUME NEW F, NEW top, Separate(F, top), NEW n \in 1..Len(F), NEW E, Same(F, n - 1, E, top)
    PROVE  Same(F, n, Merge(E, F[n]), top)
<1>1. E \in Seq(Nodes) /\ F[n] \in Nodes /\ Len(E) \in Nat
  BY DEF Same, Separate
<1>2. CASE E # << >> /\ Last(E).start + Last(E).size = F[n].start
  BY <1>2, SameMerge DEF Merge, Last
<1>3. CASE ~(E # << >> /\ Last(E).start + Last(E).size = F[n].start)
  <2>1. PICK D : D = Append(E, F[n])
    OBVIOUS
  <2>2. PICK i \in 1..(Len(E) + 1) : i = Len(E) + 1
    BY <1>1
  <2>3. /\ D \in Seq(Nodes) /\ Len(D) = Len(E) + 1 /\ D[i] = F[n]
        /\ \A j \in 1..Len(E) : D[j] = E[j]
    BY <1>1, <2>1, <2>2
  <2>4. \A j \in 1..Len(E) : D[IF j < i THEN j ELSE j + 1] = E[j]
    BY <1>1, <2>2, <2>3
  <2>5. \A j \in 1..Len(D) : j # i =>
          LET k == IF j < i THEN j ELSE j - 1 IN k \in 1..Len(E) /\ D[j] = E[k]
    BY <1>1, <2>2, <2>3
  <2>6. Same(F, n, D, top)
    BY <2>3, <2>4, <2>5, SameInsert
  <2> QED BY <1>3, <2>1, <2>6 DEF Merge
<1> QED BY <1>2, <1>3

\* A list built node by node has the memory of F if every step adds a node.
LEMMA Rebuilt ==
    ASSUME NEW F, NEW top, Separate(F, top), NEW f, f[0] = << >>,
           \A n \in 1..Len(F) : Same(F, n - 1, f[n - 1], top) => Same(F, n, f[n], top)
    PROVE  \A n \in 0..Len(F) : Same(F, n, f[n], top)
<1> DEFINE G == {n \in 0..Len(F) : Same(F, n, f[n], top)}
<1>1. Len(F) \in Nat
  BY DEF Separate
<1>2. Same(F, 0, << >>, top)
  BY DEF Same
<1>3. 0 \in G
  BY <1>1, <1>2
<1>4. \A n \in 1..Len(F) : n - 1 \in G => n \in G
  BY <1>1
<1>5. \A n \in 0..Len(F) : n \in G
  <2> HIDE DEF G
  <2> QED BY <1>1, <1>3, <1>4, RangeInduction
<1> QED BY <1>5

\* The sort keeps the memory of the list.
LEMMA SortedSame ==
    ASSUME NEW F, NEW top, Separate(F, top)
    PROVE  Same(F, Len(F), Sorted(F), top)
<1> DEFINE Eq(f) == f = [i \in 0..Len(F) |-> IF i = 0 THEN << >> ELSE InsertSorted(f[i - 1], F[i])]
<1>1. Len(F) \in Nat
  BY DEF Separate
<1>2. \E f : Eq(f)
  <2>1. PICK step : step = [n \in 1..Len(F) |-> [E \in Seq(Nodes) |-> InsertSorted(E, F[n])]]
    OBVIOUS
  <2>2. PICK f : IsRecursive(f, Len(F), << >>, step)
    BY <1>1, RecursionExists
  <2>3. /\ f = [n \in 0..Len(F) |-> f[n]]
        /\ f[0] = << >>
        /\ \A n \in 1..Len(F) : f[n] = step[n][f[n - 1]]
    BY <1>1, <2>2, RecursionEquation
  <2>4. \A n \in 1..Len(F) : \A E \in Seq(Nodes) : step[n][E] = InsertSorted(E, F[n])
    BY <2>1
  <2>5. \A n \in 1..Len(F) : Same(F, n - 1, f[n - 1], top) => Same(F, n, f[n], top)
    <3>1. TAKE n \in 1..Len(F)
    <3>2. HAVE Same(F, n - 1, f[n - 1], top)
    <3>3. f[n] = InsertSorted(f[n - 1], F[n])
      BY <2>3, <2>4, <3>2 DEF Same
    <3> QED BY <3>2, <3>3, InsertSortedSame
  <2>6. \A n \in 0..Len(F) : Same(F, n, f[n], top)
    BY <2>3, <2>5, Rebuilt
  <2>7. \A n \in 1..Len(F) : f[n] = InsertSorted(f[n - 1], F[n])
    <3>1. TAKE n \in 1..Len(F)
    <3>2. n - 1 \in 0..Len(F)
      BY <1>1
    <3> QED BY <2>3, <2>4, <2>6, <3>2 DEF Same
  <2>8. \A n \in 0..Len(F) : f[n] = IF n = 0 THEN << >> ELSE InsertSorted(f[n - 1], F[n])
    <3>1. TAKE n \in 0..Len(F)
    <3>2. n = 0 \/ (n # 0 /\ n \in 1..Len(F))
      BY <1>1
    <3> QED BY <2>3, <2>7, <3>2, Zenon
  <2>9. Eq(f)
    BY <2>3, <2>8, Zenon
  <2> QED BY <2>9
<1>3. PICK f : f = (CHOOSE g : Eq(g)) /\ Eq(f)
  <2> HIDE DEF Eq
  <2> QED BY <1>2
<1>4. Sorted(F) = f[Len(F)]
  BY <1>3 DEF Sorted
<1>5. f[0] = << >> /\ \A n \in 1..Len(F) : f[n] = InsertSorted(f[n - 1], F[n])
  <2>1. \A n \in 0..Len(F) : f[n] = IF n = 0 THEN << >> ELSE InsertSorted(f[n - 1], F[n])
    BY <1>3, Zenon
  <2>2. 0 \in 0..Len(F) /\ \A n \in 1..Len(F) : n \in 0..Len(F) /\ n # 0
    BY <1>1
  <2> QED BY <2>1, <2>2, Zenon
<1> HIDE DEF Eq
<1>6. \A n \in 1..Len(F) : Same(F, n - 1, f[n - 1], top) => Same(F, n, f[n], top)
  BY <1>5, InsertSortedSame
<1>7. \A n \in 0..Len(F) : Same(F, n, f[n], top)
  BY <1>5, <1>6, Rebuilt
<1> QED BY <1>1, <1>4, <1>7

\* So does the merge.
LEMMA MergedSame ==
    ASSUME NEW F, NEW top, Separate(F, top)
    PROVE  Same(F, Len(F), Merged(F), top)
<1> DEFINE Eq(f) == f = [i \in 0..Len(F) |-> IF i = 0 THEN << >> ELSE Merge(f[i - 1], F[i])]
<1>1. Len(F) \in Nat
  BY DEF Separate
<1>2. \E f : Eq(f)
  <2>1. PICK step : step = [n \in 1..Len(F) |-> [E \in Seq(Nodes) |-> Merge(E, F[n])]]
    OBVIOUS
  <2>2. PICK f : IsRecursive(f, Len(F), << >>, step)
    BY <1>1, RecursionExists
  <2>3. /\ f = [n \in 0..Len(F) |-> f[n]]
        /\ f[0] = << >>
        /\ \A n \in 1..Len(F) : f[n] = step[n][f[n - 1]]
    BY <1>1, <2>2, RecursionEquation
  <2>4. \A n \in 1..Len(F) : \A E \in Seq(Nodes) : step[n][E] = Merge(E, F[n])
    BY <2>1
  <2>5. \A n \in 1..Len(F) : Same(F, n - 1, f[n - 1], top) => Same(F, n, f[n], top)
    <3>1. TAKE n \in 1..Len(F)
    <3>2. HAVE Same(F, n - 1, f[n - 1], top)
    <3>3. f[n] = Merge(f[n - 1], F[n])
      BY <2>3, <2>4, <3>2 DEF Same
    <3> QED BY <3>2, <3>3, MergeSame
  <2>6. \A n \in 0..Len(F) : Same(F, n, f[n], top)
    BY <2>3, <2>5, Rebuilt
  <2>7. \A n \in 1..Len(F) : f[n] = Merge(f[n - 1], F[n])
    <3>1. TAKE n \in 1..Len(F)
    <3>2. n - 1 \in 0..Len(F)
      BY <1>1
    <3> QED BY <2>3, <2>4, <2>6, <3>2 DEF Same
  <2>8. \A n \in 0..Len(F) : f[n] = IF n = 0 THEN << >> ELSE Merge(f[n - 1], F[n])
    <3>1. TAKE n \in 0..Len(F)
    <3>2. n = 0 \/ (n # 0 /\ n \in 1..Len(F))
      BY <1>1
    <3> QED BY <2>3, <2>7, <3>2, Zenon
  <2>9. Eq(f)
    BY <2>3, <2>8, Zenon
  <2> QED BY <2>9
<1>3. PICK f : f = (CHOOSE g : Eq(g)) /\ Eq(f)
  <2> HIDE DEF Eq
  <2> QED BY <1>2
<1>4. Merged(F) = f[Len(F)]
  BY <1>3 DEF Merged
<1>5. f[0] = << >> /\ \A n \in 1..Len(F) : f[n] = Merge(f[n - 1], F[n])
  <2>1. \A n \in 0..Len(F) : f[n] = IF n = 0 THEN << >> ELSE Merge(f[n - 1], F[n])
    BY <1>3, Zenon
  <2>2. 0 \in 0..Len(F) /\ \A n \in 1..Len(F) : n \in 0..Len(F) /\ n # 0
    BY <1>1
  <2> QED BY <2>1, <2>2, Zenon
<1> HIDE DEF Eq
<1>6. \A n \in 1..Len(F) : Same(F, n - 1, f[n - 1], top) => Same(F, n, f[n], top)
  BY <1>5, MergeSame
<1>7. \A n \in 0..Len(F) : Same(F, n, f[n], top)
  BY <1>5, <1>6, Rebuilt
<1> QED BY <1>1, <1>4, <1>7

\* A defragmented list has the memory of the list.
LEMMA DefragmentedSame ==
    ASSUME NEW F, NEW top, Separate(F, top)
    PROVE  Same(F, Len(F), Defragmented(F), top)
<1>1. PICK S : S = Sorted(F) /\ Same(F, Len(F), S, top)
  BY SortedSame
<1>2. Separate(S, top)
  BY <1>1 DEF Same, Separate
<1>3. Same(S, Len(S), Merged(S), top)
  BY <1>2, MergedSame
<1>4. Defragmented(F) = Merged(S)
  BY <1>1 DEF Defragmented
<1> QED BY <1>1, <1>3, <1>4, Zenon DEF Same

-----------------------------------------------------------------------------
(***************************************************************************)
(* One call moves on.                                                      *)
(***************************************************************************)

\* Thread t, and no other, is now in call c.
Moved(th, t, c, new) == new = [th EXCEPT ![t] = c]

\* What a call owes is a number.
LEMMA OwedNat ==
    ASSUME NEW c \in Calls, NEW cap, CallOK(c, cap)
    PROVE  OwedBy(c) \in Nat
<1>1. c.pc \in {"list", "excess", "bump", "undo"} => required_slot_size(c.layout) \in Nat
  BY SlotSize DEF CallOK, Allocating
<1>2. c.val \in Nat
  BY DEF Calls
<1> QED BY <1>1, <1>2 DEF OwedBy

\* The call of one thread is replaced.
LEMMA CallMoves ==
    ASSUME NEW al, NEW th, NEW t, NEW c, NEW new, th \in CallTable, CallsOK(th, al),
           t \in Threads, c \in Calls, CallOK(c, al), Moved(th, t, c, new)
    PROVE  /\ new \in CallTable /\ CallsOK(new, al)
           /\ new[t] = c /\ \A u \in Threads : u # t => new[u] = th[u]
           /\ OwedSum(th) \in Nat /\ OwedSum(new) \in Nat
           /\ OwedBy(c) \in Nat /\ OwedBy(th[t]) \in Nat
           /\ OwedSum(new) = OwedSum(th) - OwedBy(th[t]) + OwedBy(c)
<1>1. new \in CallTable /\ new[t] = c /\ \A u \in Threads : u # t => new[u] = th[u]
  BY DEF Moved, CallTable
<1>2. CallsOK(new, al)
  BY <1>1 DEF CallsOK
<1>3. PICK f : f = [u \in Threads |-> OwedBy(th[u])]
  OBVIOUS
<1>4. PICK g : g = [u \in Threads |-> OwedBy(new[u])]
  OBVIOUS
<1>5. \A u \in Threads : f[u] = OwedBy(th[u]) /\ f[u] \in Nat
  <2>1. \A u \in Threads : th[u] \in Calls
    BY DEF CallTable
  <2> QED BY <1>3, <2>1, OwedNat DEF CallsOK
<1>6. \A u \in Threads : g[u] = OwedBy(new[u]) /\ g[u] \in Nat
  <2>1. \A u \in Threads : new[u] \in Calls
    BY <1>1 DEF CallTable
  <2> QED BY <1>2, <1>4, <2>1, OwedNat DEF CallsOK
<1>7. \A u \in Threads \ {t} : f[u] = g[u]
  BY <1>1, <1>5, <1>6
<1>8. IsFiniteSet(Threads)
  BY ArenaAssumption
<1>9. OwedSum(th) = SetSum(f, Threads) /\ OwedSum(new) = SetSum(g, Threads)
  BY <1>3, <1>4 DEF OwedSum
<1>10. SetSum(f, Threads) \in Nat /\ SetSum(g, Threads) \in Nat
  BY <1>5, <1>6, <1>8, SetSumStep
<1>11. SetSum(g, Threads) = SetSum(f, Threads) - f[t] + g[t]
  <2>1. \A u \in Threads : f[u] \in Nat /\ g[u] \in Nat
    BY <1>5, <1>6
  <2> QED BY <1>7, <1>8, <2>1, SetSumChange, SMTT(30)
<1> QED BY <1>1, <1>2, <1>5, <1>6, <1>9, <1>10, <1>11

\* The number of calls that may still exceed their promise.
LEMMA ExceedingMoves ==
    ASSUME NEW th, NEW t, NEW c, NEW new, Moved(th, t, c, new),
           th \in CallTable, t \in Threads, c \in Calls
    PROVE  /\ Cardinality(Threads) \in Nat
           /\ Cardinality(Exceeding(th)) \in Nat /\ Cardinality(Exceeding(new)) \in Nat
           /\ Cardinality(Exceeding(new)) <= Cardinality(Threads)
           /\ c.pc \notin {"list", "excess"} => Cardinality(Exceeding(new)) <= Cardinality(Exceeding(th))
           /\ t \in Exceeding(th) /\ c.pc \in {"list", "excess"} =>
                Cardinality(Exceeding(new)) = Cardinality(Exceeding(th))
           /\ t \in Exceeding(th) /\ c.pc \notin {"list", "excess"} =>
                Cardinality(Exceeding(new)) = Cardinality(Exceeding(th)) - 1
<1>1. new[t] = c /\ \A u \in Threads : u # t => new[u] = th[u]
  BY DEF Moved, CallTable
<1>2. Exceeding(th) \in SUBSET Threads /\ Exceeding(new) \in SUBSET Threads
  BY DEF Exceeding
<1>3. IsFiniteSet(Threads)
  BY ArenaAssumption
<1>4. IsFiniteSet(Exceeding(th)) /\ IsFiniteSet(Exceeding(new)) /\ Cardinality(Exceeding(new)) <= Cardinality(Threads)
  BY <1>2, <1>3, FS_Subset
<1>5. /\ Cardinality(Threads) \in Nat
      /\ Cardinality(Exceeding(th)) \in Nat /\ Cardinality(Exceeding(new)) \in Nat
  BY <1>3, <1>4, FS_CardinalityType
<1>6. ASSUME c.pc \notin {"list", "excess"}
      PROVE  Cardinality(Exceeding(new)) <= Cardinality(Exceeding(th))
  <2>1. Exceeding(new) \subseteq Exceeding(th)
    BY <1>1, <1>6, Zenon DEF Exceeding
  <2> QED BY <1>4, <2>1, FS_Subset
<1>7. ASSUME t \in Exceeding(th), c.pc \in {"list", "excess"}
      PROVE  Cardinality(Exceeding(new)) = Cardinality(Exceeding(th))
  <2>1. Exceeding(new) = Exceeding(th)
    BY <1>1, <1>7 DEF Exceeding
  <2> QED BY <2>1
<1>8. ASSUME t \in Exceeding(th), c.pc \notin {"list", "excess"}
      PROVE  Cardinality(Exceeding(new)) = Cardinality(Exceeding(th)) - 1
  <2>1. Exceeding(new) = Exceeding(th) \ {t}
    BY <1>1, <1>8 DEF Exceeding
  <2> QED BY <1>4, <1>8, <2>1, FS_RemoveElement
<1> QED BY <1>4, <1>5, <1>6, <1>7, <1>8

\* The slots that threads hold: thread t held one before, or holds one now, or
\* neither.
LEMMA HeldMoves ==
    ASSUME NEW th, NEW t, NEW c, NEW new, Moved(th, t, c, new),
           th \in CallTable, t \in Threads, c \in Calls
    PROVE  /\ th[t].pc # "excess" /\ c.pc # "excess" => HeldNodes(new) = HeldNodes(th)
           /\ th[t].pc # "excess" /\ c.pc = "excess" =>
                /\ t \notin DOMAIN HeldNodes(th) /\ HeldNodes(new)[t] = c.node
                /\ \A u : u \in DOMAIN HeldNodes(new) <=> u \in DOMAIN HeldNodes(th) \/ u = t
                /\ \A u \in DOMAIN HeldNodes(th) : HeldNodes(new)[u] = HeldNodes(th)[u]
           /\ th[t].pc = "excess" /\ c.pc # "excess" =>
                /\ t \in DOMAIN HeldNodes(th) /\ HeldNodes(th)[t] = th[t].node
                /\ \A u : u \in DOMAIN HeldNodes(new) <=> u \in DOMAIN HeldNodes(th) /\ u # t
                /\ \A u \in DOMAIN HeldNodes(new) : HeldNodes(new)[u] = HeldNodes(th)[u]
<1>1. new[t] = c /\ \A u \in Threads : u # t => new[u] = th[u]
  BY DEF Moved, CallTable
<1>2. PICK A : A = {u \in Threads : th[u].pc = "excess"}
  OBVIOUS
<1>3. PICK B : B = {u \in Threads : new[u].pc = "excess"}
  OBVIOUS
<1>4. PICK H : H = HeldNodes(th) /\ H = [u \in A |-> th[u].node]
  BY <1>2 DEF HeldNodes
<1>5. PICK K : K = HeldNodes(new) /\ K = [u \in B |-> new[u].node]
  BY <1>3 DEF HeldNodes
<1>6. DOMAIN H = A /\ DOMAIN K = B
  BY <1>4, <1>5
<1>0. A \subseteq Threads /\ B \subseteq Threads
  BY <1>2, <1>3
<1>7. /\ \A u \in A : u \in Threads /\ H[u] = th[u].node
      /\ \A u \in B : u \in Threads /\ K[u] = new[u].node
  BY <1>2, <1>3, <1>4, <1>5
<1>8. \A u \in Threads : u # t => (u \in A <=> u \in B)
  BY <1>1, <1>2, <1>3, Zenon
<1>9. t \in A <=> th[t].pc = "excess"
  BY <1>2
<1>10. t \in B <=> c.pc = "excess"
  BY <1>1, <1>3
<1>11. ASSUME t \notin A, t \notin B
       PROVE  K = H
  <2>1. A = B
    BY <1>0, <1>8, <1>11, SMT
  <2>2. \A u \in A : th[u].node = new[u].node
    BY <1>1, <1>7, <1>11
  <2> QED BY <1>4, <1>5, <2>1, <2>2
<1>12. ASSUME t \notin A, t \in B
       PROVE  B = A \cup {t} /\ K[t] = c.node /\ \A u \in A : K[u] = H[u]
  <2>1. B = A \cup {t}
    BY <1>0, <1>8, <1>12, SMT
  <2> QED BY <1>1, <1>7, <1>12, <2>1
<1>13. ASSUME t \in A, t \notin B
       PROVE  H[t] = th[t].node /\ B = A \ {t} /\ \A u \in B : K[u] = H[u]
  <2>1. B = A \ {t}
    BY <1>0, <1>8, <1>13, SMT
  <2> QED BY <1>1, <1>7, <1>13, <2>1
<1>14. HeldNodes(th) = H /\ HeldNodes(new) = K
  BY <1>4, <1>5
<1> QED BY <1>6, <1>9, <1>10, <1>11, <1>12, <1>13, <1>14

\* They stay the same in all calls but those of alloc_from_free_list and what
\* follows it.
LEMMA HeldSame ==
    ASSUME NEW th, NEW t, NEW c, NEW new, Moved(th, t, c, new),
           th \in CallTable, t \in Threads, c \in Calls, th[t].pc # "excess", c.pc # "excess"
    PROVE  HeldNodes(new) = HeldNodes(th)
<1> QED BY HeldMoves

\* Idle calls.
LEMMA IdleCall ==
    /\ Idle \in Calls /\ Idle.pc = "idle" /\ OwedBy(Idle) = 0
    /\ \A al : CallOK(Idle, al)
<1>1. Idle \in Calls /\ Idle.pc = "idle"
  BY DEF Idle, Calls, Stages
<1>2. OwedBy(Idle) = 0
  BY <1>1 DEF OwedBy
<1>3. \A al : CallOK(Idle, al)
  BY <1>1 DEF CallOK, Allocating
<1> QED BY <1>1, <1>2, <1>3

\* A call returns.
LEMMA CallReturns ==
    ASSUME NEW al, NEW th, NEW t, NEW new, Moved(th, t, Idle, new),
           th \in CallTable, CallsOK(th, al), t \in Threads
    PROVE  /\ new \in CallTable /\ CallsOK(new, al)
           /\ OwedSum(th) \in Nat /\ OwedSum(new) \in Nat /\ OwedBy(th[t]) \in Nat
           /\ OwedSum(new) = OwedSum(th) - OwedBy(th[t])
<1>1. Idle \in Calls /\ CallOK(Idle, al) /\ OwedBy(Idle) = 0
  BY IdleCall
<1>2. /\ new \in CallTable /\ CallsOK(new, al)
      /\ OwedSum(th) \in Nat /\ OwedSum(new) \in Nat
      /\ OwedBy(Idle) \in Nat /\ OwedBy(th[t]) \in Nat
      /\ OwedSum(new) = OwedSum(th) - OwedBy(th[t]) + OwedBy(Idle)
  BY <1>1, CallMoves
<1> QED BY <1>1, <1>2

-----------------------------------------------------------------------------
(***************************************************************************)
(* The books stay balanced.                                                *)
(***************************************************************************)

\* What the parts of the books say of the numbers.
LEMMA BalancedParts ==
    ASSUME NEW al, NEW us, NEW top, NEW F, NEW L, NEW th, Balanced(al, us, top, F, L, th)
    PROVE  /\ al \in Nat /\ us \in Nat /\ top \in Nat /\ top <= Capacity /\ Capacity \in Nat
           /\ F \in Seq(FreeNodes) /\ Len(F) \in Nat /\ L \subseteq Slots /\ IsFiniteSet(L)
           /\ th \in CallTable /\ CallsOK(th, al)
           /\ Tiled(L, F, HeldNodes(th), top) /\ top % 8 = 0
           /\ SetSum(SizeOf, L) \in Nat
           /\ us = SetSum(SizeOf, L) + OwedSum(th)
           /\ Ceiling(al, us, th)
           /\ \A s \in L : s.size >= required_slot_size(s.layout)
<1>1. Capacity \in Nat
  BY ArenaAssumption
<1>2. al \in Nat /\ top \in Nat /\ top <= Capacity
  BY <1>1 DEF Balanced
<1>3. \A s \in L : SizeOf[s] \in Nat
  BY <1>1 DEF Balanced, SizeOf, Slots, MIN_SLOT_SIZE
<1>4. SetSum(SizeOf, L) \in Nat
  BY <1>3, SetSumStep DEF Balanced
<1>5. top % 8 = 0
  BY DEF Balanced, Tiled, Pieces
<1> QED BY <1>1, <1>2, <1>4, <1>5 DEF Balanced

\* A call moves on and no memory moves: `used` changes by what the call owes,
\* and ends below the capacity or does not grow.
LEMMA CallBalanced ==
    ASSUME NEW al, NEW us, NEW top, NEW F, NEW L, NEW th, NEW t, NEW c, NEW us2, NEW new,
           Balanced(al, us, top, F, L, th),
           t \in Threads, c \in Calls, CallOK(c, al), Moved(th, t, c, new),
           th[t].pc # "excess", c.pc # "excess",
           us2 = us - OwedBy(th[t]) + OwedBy(c),
           us2 <= al \/ (us2 <= us /\ c.pc # "list")
    PROVE  Balanced(al, us2, top, F, L, new)
<1>1. /\ al \in Nat /\ us \in Nat /\ SetSum(SizeOf, L) \in Nat
      /\ us = SetSum(SizeOf, L) + OwedSum(th) /\ Ceiling(al, us, th)
      /\ th \in CallTable /\ CallsOK(th, al)
  BY BalancedParts
<1>2. /\ new \in CallTable /\ CallsOK(new, al)
      /\ OwedSum(th) \in Nat /\ OwedSum(new) \in Nat
      /\ OwedBy(c) \in Nat /\ OwedBy(th[t]) \in Nat
      /\ OwedSum(new) = OwedSum(th) - OwedBy(th[t]) + OwedBy(c)
  BY <1>1, CallMoves
<1>3. HeldNodes(new) = HeldNodes(th)
  BY <1>1, HeldSame
<1>4. us2 \in Nat /\ us2 = SetSum(SizeOf, L) + OwedSum(new)
  BY <1>1, <1>2
<1>5. Ceiling(al, us2, new)
  <2>1. /\ Cardinality(Threads) \in Nat
        /\ Cardinality(Exceeding(th)) \in Nat /\ Cardinality(Exceeding(new)) \in Nat
        /\ Cardinality(Exceeding(new)) <= Cardinality(Threads)
        /\ c.pc \notin {"list", "excess"} => Cardinality(Exceeding(new)) <= Cardinality(Exceeding(th))
    BY <1>1, ExceedingMoves
  <2>2. CASE us2 <= al
    BY <1>1, <1>4, <2>1, <2>2 DEF Ceiling
  <2>3. CASE us2 <= us /\ c.pc # "list"
    <3>1. Cardinality(Exceeding(new)) <= Cardinality(Exceeding(th))
      BY <2>1, <2>3
    <3> QED BY <1>1, <1>4, <2>1, <2>3, <3>1 DEF Ceiling
  <2> QED BY <2>2, <2>3
<1> QED BY <1>2, <1>3, <1>4, <1>5 DEF Balanced

\* A new live slot adds its size to the sum.
LEMMA LiveGrows ==
    ASSUME NEW L, L \subseteq Slots, IsFiniteSet(L), NEW slot \in Slots, slot \notin L
    PROVE  /\ L \cup {slot} \subseteq Slots /\ IsFiniteSet(L \cup {slot})
           /\ SetSum(SizeOf, L \cup {slot}) = SetSum(SizeOf, L) + slot.size
<1>1. Capacity \in Nat
  BY ArenaAssumption
<1>2. \A s \in Slots : SizeOf[s] = s.size /\ SizeOf[s] \in Nat
  BY <1>1 DEF SizeOf, Slots, MIN_SLOT_SIZE
<1>3. \A s \in L \cup {slot} : SizeOf[s] \in Nat
  BY <1>2
<1>4. SetSum(SizeOf, L \cup {slot}) = SetSum(SizeOf, L) + SizeOf[slot]
  BY <1>3, SetSumAdd
<1> QED BY <1>2, <1>4, FS_AddElement

\* The arithmetic of the ceiling: `used` grows by at most eight bytes for each
\* call that can no longer exceed.
LEMMA CeilingSum ==
    ASSUME NEW al \in Nat, NEW us \in Nat, NEW e \in Nat, NEW k \in Nat, NEW j \in Nat, NEW n \in Nat,
           us + 8 * k <= al + 8 * n, (e = 0 /\ j <= k) \/ (e <= 8 /\ j = k - 1)
    PROVE  us + e + 8 * j <= al + 8 * n
<1> QED OBVIOUS

\* An allocation ends: its slot is live, of the size it owed and the excess.
LEMMA PlacedBalanced ==
    ASSUME NEW al, NEW us, NEW top, NEW F, NEW L, NEW th, NEW t, NEW slot, NEW excess,
           NEW us2, NEW top2, NEW F2, NEW M, NEW new,
           Balanced(al, us, top, F, L, th), Moved(th, t, Idle, new),
           t \in Threads, th[t].pc \in {"list", "bump", "excess"},
           slot \in Slots, slot \notin L, slot.layout = th[t].layout, Adds(M, L, slot),
           excess \in Nat, excess = 0 \/ (th[t].pc = "excess" /\ excess <= 8),
           slot.size = OwedBy(th[t]) + excess, us2 = us + excess,
           top2 \in 0..Capacity, F2 \in Seq(FreeNodes), Tiled(M, F2, HeldNodes(new), top2)
    PROVE  Balanced(al, us2, top2, F2, M, new)
<1>0. SUFFICES Balanced(al, us + excess, top2, F2, L \cup {slot}, new)
  BY Zenon DEF Adds
<1>1. /\ al \in Nat /\ us \in Nat /\ SetSum(SizeOf, L) \in Nat
      /\ us = SetSum(SizeOf, L) + OwedSum(th) /\ Ceiling(al, us, th)
      /\ th \in CallTable /\ CallsOK(th, al)
      /\ L \subseteq Slots /\ IsFiniteSet(L)
      /\ \A s \in L : s.size >= required_slot_size(s.layout)
  BY BalancedParts
<1>2. /\ new \in CallTable /\ CallsOK(new, al)
      /\ OwedSum(th) \in Nat /\ OwedSum(new) \in Nat /\ OwedBy(th[t]) \in Nat
      /\ OwedSum(new) = OwedSum(th) - OwedBy(th[t])
  BY <1>1, CallReturns
<1>3. /\ L \cup {slot} \subseteq Slots /\ IsFiniteSet(L \cup {slot})
      /\ SetSum(SizeOf, L \cup {slot}) = SetSum(SizeOf, L) + slot.size
  BY <1>1, LiveGrows
<1>4. us + excess \in Nat /\ us + excess = SetSum(SizeOf, L \cup {slot}) + OwedSum(new)
  <2>1. PICK o \in Nat : o = OwedBy(th[t])
    BY <1>2
  <2>2. slot.size = o + excess /\ OwedSum(new) = OwedSum(th) - o
    BY <1>2, <2>1
  <2>3. PICK m \in Nat : m = OwedSum(th)
    BY <1>2
  <2>4. PICK k \in Nat : k = SetSum(SizeOf, L)
    BY <1>1
  <2>5. SetSum(SizeOf, L \cup {slot}) = k + (o + excess) /\ OwedSum(new) = m - o /\ us = k + m
    BY <1>1, <1>3, <2>2, <2>3, <2>4
  <2> QED BY <2>5
<1>5. \A s \in L \cup {slot} : s.size >= required_slot_size(s.layout)
  <2>1. OwedBy(th[t]) = required_slot_size(th[t].layout)
    BY DEF OwedBy
  <2>2. slot.size >= required_slot_size(slot.layout)
    BY <1>2, <2>1
  <2> QED BY <1>1, <2>2
<1>6. Ceiling(al, us + excess, new)
  <2>1. /\ Cardinality(Threads) \in Nat
        /\ Cardinality(Exceeding(th)) \in Nat /\ Cardinality(Exceeding(new)) \in Nat
        /\ Cardinality(Exceeding(new)) <= Cardinality(Exceeding(th))
        /\ t \in Exceeding(th) => Cardinality(Exceeding(new)) = Cardinality(Exceeding(th)) - 1
    BY <1>1, ExceedingMoves, IdleCall
  <2>2. \/ excess = 0 /\ Cardinality(Exceeding(new)) <= Cardinality(Exceeding(th))
        \/ excess <= 8 /\ Cardinality(Exceeding(new)) = Cardinality(Exceeding(th)) - 1
    BY <2>1 DEF Exceeding
  <2>3. us + 8 * Cardinality(Exceeding(th)) <= al + 8 * Cardinality(Threads)
    BY <1>1 DEF Ceiling
  <2> QED BY <1>1, <2>1, <2>2, <2>3, CeilingSum DEF Ceiling
<1>7. al \in {0, Capacity}
  BY DEF Balanced
<1>8. Tiled(L \cup {slot}, F2, HeldNodes(new), top2)
  BY Zenon DEF Adds
<1> QED BY <1>2, <1>3, <1>4, <1>5, <1>6, <1>7, <1>8 DEF Balanced

\* What is known of a call that looks for a slot.
LEMMA Asks ==
    ASSUME NEW al, NEW us, NEW top, NEW F, NEW L, NEW th, NEW t,
           Balanced(al, us, top, F, L, th), t \in Threads, th[t].pc \in {"list", "bump", "excess", "undo"}
    PROVE  /\ th[t].layout \in Layouts
           /\ required_slot_size(th[t].layout) \in Nat
           /\ required_slot_size(th[t].layout) >= 16 /\ required_slot_size(th[t].layout) % 8 = 0
           /\ OwedBy(th[t]) = required_slot_size(th[t].layout)
<1>1. CallOK(th[t], al)
  BY BalancedParts DEF CallsOK
<1>2. th[t].layout \in Layouts
  BY <1>1 DEF CallOK, Allocating
<1>3. OwedBy(th[t]) = required_slot_size(th[t].layout)
  BY DEF OwedBy
<1> QED BY <1>2, <1>3, SlotSize DEF MIN_SLOT_SIZE

\* alloc_from_bump finds room above the bump pointer.
LEMMA BumpBalanced ==
    ASSUME NEW al, NEW us, NEW top, NEW F, NEW L, NEW th, NEW t, NEW n, NEW M, NEW new,
           Balanced(al, us, top, F, L, th), Moved(th, t, Idle, new),
           t \in Threads, th[t].pc = "bump", n = required_slot_size(th[t].layout),
           top + n <= al, Adds(M, L, Slot(top, n, th[t].layout))
    PROVE  Balanced(al, us, top + n, F, M, new)
<1>1. /\ th[t].layout \in Layouts /\ n \in Nat /\ n >= 16 /\ n % 8 = 0 /\ OwedBy(th[t]) = n
  BY Asks
<1>2. /\ al \in Nat /\ us \in Nat /\ top \in Nat /\ Capacity \in Nat /\ al <= Capacity
      /\ th \in CallTable /\ F \in Seq(FreeNodes) /\ Len(F) \in Nat
      /\ Tiled(L, F, HeldNodes(th), top)
  BY BalancedParts DEF Balanced
<1>3. PICK slot : slot = Slot(top, n, th[t].layout)
  OBVIOUS
<1>4. slot.start = top /\ slot.size = n /\ slot.layout = th[t].layout /\ Adds(M, L, slot)
  BY <1>3 DEF Slot
<1>5. slot \in Slots
  <2>1. top \in 0..Capacity /\ n \in 16..Capacity
    BY <1>1, <1>2
  <2> QED BY <1>1, <1>3, <2>1 DEF Slot, Slots, MIN_SLOT_SIZE
<1>6. slot \notin L /\ Tiled(M, F, HeldNodes(th), top + n)
  BY <1>1, <1>2, <1>4, TiledBump
<1>7. HeldNodes(new) = HeldNodes(th)
  BY <1>2, HeldSame, IdleCall
<1>8. top + n \in 0..Capacity /\ us = us + 0 /\ slot.size = OwedBy(th[t]) + 0 /\ 0 \in Nat
  BY <1>1, <1>2, <1>4
<1>9. Tiled(M, F, HeldNodes(new), top + n)
  BY <1>6, <1>7
<1> QED BY <1>2, <1>4, <1>5, <1>6, <1>8, <1>9, PlacedBalanced

\* A node of the list.
LEMMA NodeOfList ==
    ASSUME NEW al, NEW us, NEW top, NEW F, NEW L, NEW th, NEW i,
           Balanced(al, us, top, F, L, th), i \in 1..Len(F)
    PROVE  /\ F[i] \in FreeNodes /\ F[i].start \in 0..Capacity /\ F[i].size \in 16..Capacity
           /\ F[i].start + F[i].size <= top /\ F[i].start % 8 = 0 /\ F[i].size % 8 = 0
<1>1. F[i] \in FreeNodes
  BY BalancedParts
<1>2. Piece(F[i], top)
  BY BalancedParts DEF Tiled, Pieces
<1> QED BY <1>1, <1>2 DEF FreeNodes, Piece, MIN_SLOT_SIZE

IsSplit(E, F, i, n) == E = [F EXCEPT ![i] = Remainder(F[i], n)]

\* alloc_from_free_list splits a node.
LEMMA SplitBalanced ==
    ASSUME NEW al, NEW us, NEW top, NEW F, NEW L, NEW th, NEW t, NEW i, NEW n, NEW E, NEW M, NEW new,
           Balanced(al, us, top, F, L, th), Moved(th, t, Idle, new),
           t \in Threads, th[t].pc = "list", n = required_slot_size(th[t].layout),
           i \in 1..Len(F), F[i].size - n >= 16,
           IsSplit(E, F, i, n), Adds(M, L, Slot(F[i].start, n, th[t].layout))
    PROVE  Balanced(al, us, top, E, M, new)
<1>1. /\ th[t].layout \in Layouts /\ n \in Nat /\ n >= 16 /\ n % 8 = 0 /\ OwedBy(th[t]) = n
  BY Asks
<1>2. /\ al \in Nat /\ us \in Nat /\ top \in Nat /\ top <= Capacity /\ Capacity \in Nat
      /\ th \in CallTable /\ F \in Seq(FreeNodes) /\ Len(F) \in Nat
      /\ Tiled(L, F, HeldNodes(th), top)
  BY BalancedParts
<1>0. n \in Nat /\ n >= 16 /\ Capacity \in Nat
  BY <1>1, <1>2
<1>3. PICK node : /\ node = F[i] /\ node.start \in 0..Capacity /\ node.size \in 16..Capacity
                  /\ node.start + node.size <= top
  BY NodeOfList
<1>4. PICK slot : slot = Slot(node.start, n, th[t].layout)
  OBVIOUS
<1>5. PICK rest : rest = Remainder(node, n)
  OBVIOUS
<1>6. slot.start = node.start /\ slot.size = n /\ slot.layout = th[t].layout /\ Adds(M, L, slot)
  BY <1>3, <1>4 DEF Slot
<1>7. rest.start = node.start + n /\ rest.size = node.size - n
  BY <1>5 DEF Remainder
<1>8. node.size - n >= 16
  BY <1>3
<1>9. slot \in Slots
  <2>1. node.start \in 0..Capacity /\ n \in 16..Capacity
    BY <1>0, <1>3, <1>8
  <2> QED BY <1>1, <1>4, <2>1 DEF Slot, Slots, MIN_SLOT_SIZE
<1>10. rest \in FreeNodes
  <2>0. PICK a, b \in Nat : a = node.start /\ b = node.size /\ b - n >= 16 /\ a + b <= Capacity
    <3>1. node.start + node.size <= Capacity
      BY <1>2, <1>3
    <3> QED BY <1>3, <1>8, <3>1
  <2>1. PICK m, d \in Nat : m = n /\ m >= 16 /\ d = b - m /\ d >= 16 /\ a + b <= Capacity
    BY <1>0, <2>0
  <2>2. a + m \in 0..Capacity /\ d \in 16..Capacity
    BY <1>0, <2>1
  <2> QED BY <1>5, <2>0, <2>1, <2>2, Zenon DEF Remainder, FreeNodes, MIN_SLOT_SIZE
<1>11. E \in Seq(FreeNodes) /\ Len(E) = Len(F) /\ E[i] = rest /\ \A j \in 1..Len(F) : j # i => E[j] = F[j]
  <2>1. E = [F EXCEPT ![i] = rest]
    BY <1>3, <1>5 DEF IsSplit
  <2> QED BY <1>2, <1>10, <2>1, Replaced
<1>12. slot \notin L /\ Tiled(M, E, HeldNodes(th), top)
  <2>1. Cut(node, n, slot, rest)
    BY <1>1, <1>6, <1>7, <1>8 DEF Cut
  <2>2. SplitsAt(E, F, i, n, slot)
    BY <1>3, <1>11, <2>1, Zenon DEF SplitsAt
  <2> QED BY <1>2, <1>6, <2>2, TiledSplit
<1>13. HeldNodes(new) = HeldNodes(th)
  BY <1>2, HeldSame, IdleCall
<1>14. top \in 0..Capacity /\ us = us + 0 /\ slot.size = OwedBy(th[t]) + 0 /\ 0 \in Nat
  BY <1>1, <1>2, <1>6
<1>15. Tiled(M, E, HeldNodes(new), top)
  BY <1>12, <1>13
<1> QED BY <1>6, <1>9, <1>11, <1>12, <1>14, <1>15, PlacedBalanced

\* A node is taken off the list.
LEMMA Removed ==
    ASSUME NEW T, NEW s, NEW k, NEW r, s \in Seq(T), k \in 1..Len(s), r = RemoveAt(s, k)
    PROVE  /\ r \in Seq(T) /\ Len(r) = Len(s) - 1
           /\ \A j \in 1..(Len(s) - 1) : r[j] = IF j < k THEN s[j] ELSE s[j + 1]
<1>1. IsCut(r, s, k)
  BY DEF RemoveAt, IsCut
<1> QED BY <1>1, CutOut

\* alloc_from_free_list takes a node whole: it stays with the call.
LEMMA TakeBalanced ==
    ASSUME NEW al, NEW us, NEW top, NEW F, NEW L, NEW th, NEW t, NEW i, NEW E, NEW c, NEW new,
           Balanced(al, us, top, F, L, th), Moved(th, t, c, new),
           t \in Threads, th[t].pc = "list", c \in Calls, c.pc = "excess",
           c.layout = th[t].layout, c.node = F[i], i \in 1..Len(F),
           F[i].size >= required_slot_size(th[t].layout),
           F[i].size - required_slot_size(th[t].layout) < 16,
           E = RemoveAt(F, i)
    PROVE  Balanced(al, us, top, E, L, new)
<1>1. /\ th[t].layout \in Layouts /\ OwedBy(th[t]) = required_slot_size(th[t].layout)
  BY Asks
<1>2. /\ al \in Nat /\ us \in Nat /\ th \in CallTable /\ CallsOK(th, al)
      /\ F \in Seq(FreeNodes) /\ Len(F) \in Nat
      /\ Tiled(L, F, HeldNodes(th), top)
      /\ us = SetSum(SizeOf, L) + OwedSum(th) /\ Ceiling(al, us, th)
      /\ SetSum(SizeOf, L) \in Nat
  BY BalancedParts
<1>3. F[i] \in FreeNodes
  BY NodeOfList
<1>4. CallOK(c, al)
  BY <1>1, <1>3 DEF CallOK, MIN_SLOT_SIZE
<1>5. OwedBy(c) = OwedBy(th[t])
  BY <1>1 DEF OwedBy
<1>6. /\ new \in CallTable /\ CallsOK(new, al)
      /\ OwedSum(th) \in Nat /\ OwedSum(new) \in Nat
      /\ OwedBy(c) \in Nat /\ OwedBy(th[t]) \in Nat
      /\ OwedSum(new) = OwedSum(th) - OwedBy(th[t]) + OwedBy(c)
  BY <1>2, <1>4, CallMoves
<1>7. OwedSum(new) = OwedSum(th)
  BY <1>5, <1>6
<1>8. Ceiling(al, us, new)
  <2>1. t \in Exceeding(th)
    BY DEF Exceeding
  <2>2. Cardinality(Exceeding(new)) = Cardinality(Exceeding(th))
    BY <1>2, <2>1, ExceedingMoves
  <2> QED BY <1>2, <2>2 DEF Ceiling
<1>9. /\ E \in Seq(FreeNodes) /\ Len(E) = Len(F) - 1
      /\ \A j \in 1..(Len(F) - 1) : E[j] = IF j < i THEN F[j] ELSE F[j + 1]
  BY <1>2, Removed
<1>10. /\ t \notin DOMAIN HeldNodes(th) /\ HeldNodes(new)[t] = F[i]
       /\ \A u : u \in DOMAIN HeldNodes(new) <=> u \in DOMAIN HeldNodes(th) \/ u = t
       /\ \A u \in DOMAIN HeldNodes(th) : HeldNodes(new)[u] = HeldNodes(th)[u]
  BY <1>2, HeldMoves
<1>11. Tiled(L, E, HeldNodes(new), top)
  BY <1>2, <1>9, <1>10, TiledTake
<1> QED BY <1>2, <1>6, <1>7, <1>8, <1>9, <1>11 DEF Balanced

\* What is known of a call that holds a node: the excess is at most eight bytes.
LEMMA Holds ==
    ASSUME NEW al, NEW us, NEW top, NEW F, NEW L, NEW th, NEW t,
           Balanced(al, us, top, F, L, th), t \in Threads, th[t].pc = "excess"
    PROVE  LET node == th[t].node
               n    == required_slot_size(th[t].layout)
           IN  /\ node \in FreeNodes /\ node.start \in 0..Capacity /\ node.size \in 16..Capacity
               /\ node.size - n \in 0..8
<1>1. CallOK(th[t], al) /\ th \in CallTable /\ Tiled(L, F, HeldNodes(th), top) /\ Capacity \in Nat
  BY BalancedParts DEF CallsOK
<1>2. PICK n : n = required_slot_size(th[t].layout) /\ n \in Nat /\ n >= 16 /\ n % 8 = 0
  BY Asks
<1>3. PICK node : node = th[t].node /\ node \in FreeNodes /\ node.size >= n /\ node.size - n < 16
  BY <1>1, <1>2 DEF CallOK, MIN_SLOT_SIZE
<1>4. node.start \in 0..Capacity /\ node.size \in 16..Capacity
  BY <1>3 DEF FreeNodes, MIN_SLOT_SIZE
<1>5. node.size % 8 = 0
  <2>1. t \in DOMAIN HeldNodes(th) /\ HeldNodes(th)[t] = node
    BY <1>3 DEF HeldNodes
  <2>2. Piece(node, top)
    BY <1>1, <2>1 DEF Tiled, Pieces
  <2> QED BY <2>2 DEF Piece
<1>6. PICK b \in Nat : b = node.size /\ b % 8 = 0 /\ b >= n /\ b - n < 16
  BY <1>1, <1>3, <1>4, <1>5
<1>7. b - n \in 0..8
  <2>1. PICK k \in Nat : b = 8 * k
    <3>1. b = 8 * (b \div 8) /\ b \div 8 \in Nat
      BY <1>6
    <3> QED BY <3>1
  <2>2. PICK m \in Nat : n = 8 * m
    <3>1. n = 8 * (n \div 8) /\ n \div 8 \in Nat
      BY <1>2
    <3> QED BY <3>1
  <2>3. 8 * k >= 8 * m /\ 8 * k - 8 * m < 16
    BY <1>6, <2>1, <2>2
  <2>4. k - m \in 0..1
    BY <2>3
  <2> QED BY <2>1, <2>2, <2>4
<1> QED BY <1>2, <1>3, <1>4, <1>6, <1>7

\* add_excess places the value in the node.
LEMMA PlaceBalanced ==
    ASSUME NEW al, NEW us, NEW top, NEW F, NEW L, NEW th, NEW t, NEW node, NEW us2, NEW M, NEW new,
           Balanced(al, us, top, F, L, th), Moved(th, t, Idle, new),
           t \in Threads, th[t].pc = "excess", node = th[t].node,
           us2 = us + Excess(node, required_slot_size(th[t].layout)),
           Adds(M, L, Slot(node.start, node.size, th[t].layout))
    PROVE  Balanced(al, us2, top, F, M, new)
<1>1. PICK n : /\ n = required_slot_size(th[t].layout) /\ n \in Nat
               /\ th[t].layout \in Layouts /\ OwedBy(th[t]) = n
  BY Asks
<1>2. /\ al \in Nat /\ us \in Nat /\ top \in 0..Capacity /\ Capacity \in Nat
      /\ th \in CallTable /\ F \in Seq(FreeNodes)
      /\ Tiled(L, F, HeldNodes(th), top)
  BY BalancedParts DEF Balanced
<1>3. node.start \in 0..Capacity /\ node.size \in 16..Capacity /\ node.size - n \in 0..8
  BY <1>1, Holds
<1>4. PICK slot : slot = Slot(node.start, node.size, th[t].layout)
  OBVIOUS
<1>5. slot.start = node.start /\ slot.size = node.size /\ slot.layout = th[t].layout /\ Adds(M, L, slot)
  BY <1>4 DEF Slot
<1>6. slot \in Slots
  BY <1>1, <1>3, <1>4 DEF Slot, Slots, MIN_SLOT_SIZE
<1>7. /\ t \in DOMAIN HeldNodes(th) /\ HeldNodes(th)[t] = node
      /\ \A u : u \in DOMAIN HeldNodes(new) <=> u \in DOMAIN HeldNodes(th) /\ u # t
      /\ \A u \in DOMAIN HeldNodes(new) : HeldNodes(new)[u] = HeldNodes(th)[u]
  BY <1>2, HeldMoves, IdleCall
<1>8. slot \notin L /\ Tiled(M, F, HeldNodes(new), top)
  BY <1>2, <1>5, <1>7, TiledPlace
<1>9. PICK excess \in 0..8 : excess = node.size - n
  BY <1>3
<1>10. slot.size = OwedBy(th[t]) + excess /\ us2 = us + excess /\ excess \in Nat /\ excess <= 8
  <2>1. PICK b \in Nat : b = node.size
    BY <1>2, <1>3
  <2>2. slot.size = b /\ excess = b - n /\ excess \in Nat /\ excess <= 8
    BY <1>5, <1>9, <2>1
  <2>3. us2 = us + excess
    BY <1>1, <1>9 DEF Excess
  <2>4. b = n + excess
    BY <1>1, <2>2
  <2> QED BY <1>1, <2>2, <2>3, <2>4
<1> QED BY <1>2, <1>5, <1>6, <1>8, <1>10, PlacedBalanced

Frees(E, F, slot) == E = <<Node(slot.start, slot.size)>> \o F

\* dealloc puts a slot on the list.
LEMMA FreeBalanced ==
    ASSUME NEW al, NEW us, NEW top, NEW F, NEW L, NEW th, NEW t, NEW slot, NEW E, NEW M, NEW c, NEW new,
           Balanced(al, us, top, F, L, th), Moved(th, t, c, new),
           t \in Threads, th[t].pc = "idle", slot \in L, Takes(M, L, slot),
           c \in Calls, c.pc = "release", c.val = slot.size,
           Frees(E, F, slot)
    PROVE  Balanced(al, us, top, E, M, new)
<1>1. /\ al \in Nat /\ us \in Nat /\ th \in CallTable /\ CallsOK(th, al) /\ Capacity \in Nat
      /\ F \in Seq(FreeNodes) /\ Len(F) \in Nat /\ L \subseteq Slots /\ IsFiniteSet(L)
      /\ Tiled(L, F, HeldNodes(th), top)
      /\ us = SetSum(SizeOf, L) + OwedSum(th) /\ Ceiling(al, us, th)
      /\ SetSum(SizeOf, L) \in Nat
      /\ \A s \in L : s.size >= required_slot_size(s.layout)
  BY BalancedParts
<1>2. PICK node : node = Node(slot.start, slot.size)
  OBVIOUS
<1>3. node \in FreeNodes /\ node.start = slot.start /\ node.size = slot.size /\ slot.size \in Nat
  BY <1>1, <1>2 DEF Node, Slots, FreeNodes, MIN_SLOT_SIZE
<1>4. /\ E \in Seq(FreeNodes) /\ Len(E) = Len(F) + 1 /\ E[1] = node
      /\ \A j \in 1..Len(F) : E[j + 1] = F[j]
  <2>1. E = <<node>> \o F /\ <<node>> \in Seq(FreeNodes) /\ Len(<<node>>) = 1 /\ <<node>>[1] = node
    BY <1>2, <1>3 DEF Frees
  <2>2. /\ E \in Seq(FreeNodes) /\ Len(E) = 1 + Len(F)
        /\ \A j \in 1..(1 + Len(F)) : E[j] = IF j <= 1 THEN <<node>>[j] ELSE F[j - 1]
    BY <1>1, <2>1, ConcatProperties
  <2>3. E[1] = node
    BY <1>1, <2>1, <2>2
  <2>4. ASSUME NEW j \in 1..Len(F)
        PROVE  E[j + 1] = F[j]
    <3>1. j + 1 \in 1..(1 + Len(F)) /\ ~(j + 1 <= 1) /\ (j + 1) - 1 = j
      BY <1>1
    <3> QED BY <2>2, <3>1
  <2> QED BY <1>1, <2>2, <2>3, <2>4
<1>5. /\ M \subseteq Slots /\ IsFiniteSet(M) /\ SetSum(SizeOf, L) = slot.size + SetSum(SizeOf, M)
      /\ SetSum(SizeOf, M) \in Nat
  <2>1. M = L \ {slot}
    BY DEF Takes
  <2>2. \A s \in L : SizeOf[s] = s.size /\ SizeOf[s] \in Nat
    BY <1>1 DEF SizeOf, Slots, MIN_SLOT_SIZE
  <2>3. SetSum(SizeOf, L) = SizeOf[slot] + SetSum(SizeOf, L \ {slot})
    BY <1>1, <2>2, SetSumStep
  <2>4. IsFiniteSet(M)
    BY <1>1, <2>1, FS_RemoveElement
  <2>5. SetSum(SizeOf, M) \in Nat
    BY <2>1, <2>2, <2>4, SetSumStep
  <2> QED BY <1>1, <2>1, <2>2, <2>3, <2>4, <2>5
<1>6. CallOK(c, al) /\ OwedBy(c) = slot.size /\ OwedBy(th[t]) = 0
  BY DEF CallOK, OwedBy, Allocating
<1>7. /\ new \in CallTable /\ CallsOK(new, al)
      /\ OwedSum(th) \in Nat /\ OwedSum(new) \in Nat
      /\ OwedSum(new) = OwedSum(th) - OwedBy(th[t]) + OwedBy(c)
  BY <1>1, <1>6, CallMoves
<1>8. us = SetSum(SizeOf, M) + OwedSum(new)
  BY <1>1, <1>3, <1>5, <1>6, <1>7
<1>9. Ceiling(al, us, new)
  <2>1. /\ Cardinality(Threads) \in Nat
        /\ Cardinality(Exceeding(th)) \in Nat /\ Cardinality(Exceeding(new)) \in Nat
        /\ Cardinality(Exceeding(new)) <= Cardinality(Exceeding(th))
    BY <1>1, ExceedingMoves
  <2> QED BY <1>1, <2>1 DEF Ceiling
<1>10. HeldNodes(new) = HeldNodes(th)
  BY <1>1, HeldSame
<1>11. Tiled(M, E, HeldNodes(th), top)
  BY <1>1, <1>3, <1>4, TiledFree
<1>12. \A s \in M : s.size >= required_slot_size(s.layout)
  BY <1>1 DEF Takes
<1>13. al \in {0, Capacity} /\ top \in 0..Capacity
  BY DEF Balanced
<1> QED BY <1>1, <1>4, <1>5, <1>7, <1>8, <1>9, <1>10, <1>11, <1>12, <1>13 DEF Balanced

\* defragment replaces the list.
LEMMA DefragmentBalanced ==
    ASSUME NEW al, NEW us, NEW top, NEW F, NEW L, NEW th, Balanced(al, us, top, F, L, th)
    PROVE  Balanced(al, us, top, Defragmented(F), L, th)
<1>1. /\ Tiled(L, F, HeldNodes(th), top) /\ top \in Nat /\ top <= Capacity /\ Capacity \in Nat
      /\ F \in Seq(FreeNodes) /\ Len(F) \in Nat
  BY BalancedParts
<1>2. Separate(F, top)
  <2>1. FreeNodes \subseteq Nodes
    BY <1>1 DEF FreeNodes, Nodes, MIN_SLOT_SIZE
  <2>2. F \in Seq(Nodes)
    BY <1>1, <2>1, SeqMonotonic
  <2> QED BY <1>1, <2>2 DEF Separate, Tiled, Pieces, Disjoint
<1>3. PICK E : E = Defragmented(F) /\ Same(F, Len(F), E, top)
  BY <1>2, DefragmentedSame
<1>4. Tiled(L, E, HeldNodes(th), top)
  BY <1>1, <1>3, TiledReplace DEF Same
<1>5. E \in Seq(FreeNodes)
  <2>1. E \in Seq(Nodes) /\ Len(E) \in Nat /\ \A j \in 1..Len(E) : E[j] \in Nodes /\ Piece(E[j], top)
    BY <1>3 DEF Same
  <2>2. \A r \in Nodes : Piece(r, top) => r \in FreeNodes
    BY <1>1 DEF Nodes, FreeNodes, Piece, MIN_SLOT_SIZE
  <2>3. \A j \in 1..Len(E) : E[j] \in FreeNodes
    BY <2>1, <2>2
  <2> QED BY <2>1, <2>3
<1> QED BY <1>3, <1>4, <1>5 DEF Balanced

\* init publishes the capacity.
LEMMA CapacityBalanced ==
    ASSUME NEW us, NEW top, NEW F, NEW L, NEW th, Balanced(0, us, top, F, L, th)
    PROVE  Balanced(Capacity, us, top, F, L, th)
<1>1. us \in Nat /\ Capacity \in Nat /\ CallsOK(th, 0) /\ th \in CallTable /\ Ceiling(0, us, th)
  BY BalancedParts
<1>2. CallsOK(th, Capacity)
  <2>1. ASSUME NEW t \in Threads
        PROVE  CallOK(th[t], Capacity)
    <3>1. CallOK(th[t], 0) /\ th[t] \in Calls
      BY <1>1 DEF CallsOK, CallTable
    <3>2. th[t].pc = "swap" => th[t].val + required_slot_size(th[t].layout) <= Capacity
      <4>1. SUFFICES ASSUME th[t].pc = "swap" PROVE th[t].val + required_slot_size(th[t].layout) <= Capacity
        OBVIOUS
      <4>2. PICK v \in Nat : v = th[t].val
        BY <3>1 DEF Calls
      <4>3. PICK n \in Nat : n = required_slot_size(th[t].layout)
        BY <3>1, <4>1, SlotSize DEF CallOK, Allocating
      <4>4. v + n <= 0
        BY <3>1, <4>1, <4>2, <4>3 DEF CallOK
      <4> QED BY <1>1, <4>2, <4>3, <4>4
    <3> QED BY <3>1, <3>2 DEF CallOK
  <2> QED BY <2>1 DEF CallsOK
<1>3. Ceiling(Capacity, us, th)
  <2>1. Cardinality(Threads) \in Nat /\ Cardinality(Exceeding(th)) \in Nat
    <3>1. IsFiniteSet(Threads) /\ Exceeding(th) \in SUBSET Threads
      BY ArenaAssumption DEF Exceeding
    <3>2. IsFiniteSet(Exceeding(th))
      BY <3>1, FS_Subset
    <3> QED BY <3>1, <3>2, FS_CardinalityType
  <2> QED BY <1>1, <2>1 DEF Ceiling
<1> QED BY <1>2, <1>3 DEF Balanced

-----------------------------------------------------------------------------
(***************************************************************************)
(* The actions.                                                            *)
(***************************************************************************)

\* The ways an action writes the state of a call.
Goes(th, t, pc, val, new) == new = [th EXCEPT ![t].pc = pc, ![t].val = val]
Starts(th, t, layout, val, new) ==
    new = [th EXCEPT ![t] = [@ EXCEPT !.pc = "check", !.layout = layout, !.val = val]]
Keeps(th, t, node, new) == new = [th EXCEPT ![t].pc = "excess", ![t].node = node]

\* Goto moves one call.
LEMMA GotoMoves ==
    ASSUME NEW th, NEW t, NEW pc, NEW val, NEW new, th \in CallTable, t \in Threads,
           pc \in Stages, val \in Nat, Goes(th, t, pc, val, new)
    PROVE  \E c \in Calls : /\ Moved(th, t, c, new) /\ c.pc = pc /\ c.val = val
                            /\ c.layout = th[t].layout /\ c.node = th[t].node
<1>1. PICK r \in Calls : r = th[t]
  BY DEF CallTable
<1>2. PICK c : c = [r EXCEPT !.pc = pc, !.val = val]
  OBVIOUS
<1>3. c \in Calls /\ c.pc = pc /\ c.val = val /\ c.layout = r.layout /\ c.node = r.node
  BY <1>2 DEF Calls
<1>4. new = [th EXCEPT ![t] = c]
  BY <1>1, <1>2 DEF CallTable, Goes
<1> QED BY <1>1, <1>3, <1>4 DEF Moved

\* alloc starts one.
LEMMA AllocMoves ==
    ASSUME NEW th, NEW t, NEW layout, NEW val, NEW new, th \in CallTable, t \in Threads,
           layout \in Layouts, val \in Nat,
           Starts(th, t, layout, val, new)
    PROVE  \E c \in Calls : Moved(th, t, c, new) /\ c.pc = "check" /\ c.layout = layout /\ c.val = val
<1>1. PICK r \in Calls : r = th[t]
  BY DEF CallTable
<1>2. PICK c : c = [r EXCEPT !.pc = "check", !.layout = layout, !.val = val]
  OBVIOUS
<1>3. c \in Calls /\ c.pc = "check" /\ c.layout = layout /\ c.val = val
  BY <1>2 DEF Calls, Stages
<1>4. new = [th EXCEPT ![t] = c]
  BY <1>1, <1>2 DEF CallTable, Starts
<1> QED BY <1>3, <1>4 DEF Moved

\* alloc_from_free_list leaves a node with one.
LEMMA TakeMoves ==
    ASSUME NEW th, NEW t, NEW node, NEW new, th \in CallTable, t \in Threads,
           node \in FreeNodes, Keeps(th, t, node, new)
    PROVE  \E c \in Calls : /\ Moved(th, t, c, new) /\ c.pc = "excess" /\ c.node = node
                            /\ c.layout = th[t].layout
<1>1. PICK r \in Calls : r = th[t]
  BY DEF CallTable
<1>2. PICK c : c = [r EXCEPT !.pc = "excess", !.node = node]
  OBVIOUS
<1>3. c \in Calls /\ c.pc = "excess" /\ c.node = node /\ c.layout = r.layout
  BY <1>2 DEF Calls, Stages
<1>4. new = [th EXCEPT ![t] = c]
  BY <1>1, <1>2 DEF CallTable, Keeps
<1> QED BY <1>1, <1>3, <1>4 DEF Moved

\* What every action may use, and what of it is left to show.
LEMMA ArenaFacts ==
    ASSUME ArenaInv
    PROVE  /\ Balanced(allocated, used, offset, free_list, live, thread)
           /\ allocated \in Nat /\ used \in Nat /\ offset \in Nat /\ locked_size \in Nat
           /\ thread \in CallTable
           /\ \A t \in Threads : thread[t] \in Calls /\ CallOK(thread[t], allocated)
<1>1. Balanced(allocated, used, offset, free_list, live, thread) /\ locked_size \in Nat
  BY ArenaAssumption DEF ArenaInv, FlagsOK
<1>2. allocated \in Nat /\ used \in Nat /\ offset \in Nat /\ thread \in CallTable /\ CallsOK(thread, allocated)
  BY <1>1, BalancedParts
<1> QED BY <1>1, <1>2 DEF CallsOK, CallTable

\* alloc
LEMMA AllocKeeps ==
    ASSUME ArenaInv, NEW t \in Threads, NEW layout \in Layouts, alloc(t, layout)
    PROVE  ArenaInv'
<1>1. PICK c \in Calls : Moved(thread, t, c, thread') /\ c.pc = "check" /\ c.layout = layout
  <2>1. Starts(thread, t, layout, used, thread')
    BY DEF alloc, Starts
  <2> QED BY <2>1, ArenaFacts, AllocMoves
<1>2. CallOK(c, allocated) /\ OwedBy(c) = 0
  BY <1>1 DEF CallOK, OwedBy, Allocating
<1>3. thread[t].pc = "idle" /\ OwedBy(thread[t]) = 0
  BY DEF alloc, At, OwedBy
<1>4. used = used - OwedBy(thread[t]) + OwedBy(c) /\ used <= used
  BY <1>2, <1>3, ArenaFacts
<1>5. Balanced(allocated, used, offset, free_list, live, thread')
  BY <1>1, <1>2, <1>3, <1>4, ArenaFacts, CallBalanced
<1>6. UNCHANGED <<ready, allocated, used, locked_size, memory, defragging>>
  BY DEF alloc
<1> QED BY <1>5, <1>6 DEF ArenaInv, FlagsOK, memory, defragging

\* reserve_used: the check against the ceiling.
LEMMA CheckKeeps ==
    ASSUME ArenaInv, NEW t \in Threads, reserve_used_check(t)
    PROVE  ArenaInv'
<1>1. /\ thread[t].pc = "check" /\ OwedBy(thread[t]) = 0 /\ thread[t].layout \in Layouts
      /\ thread[t].val \in Nat
  BY ArenaFacts DEF reserve_used_check, At, OwedBy, CallOK, Allocating, Calls
<1>2. PICK c \in Calls : /\ Moved(thread, t, c, thread') /\ CallOK(c, allocated) /\ OwedBy(c) = 0
                         /\ c.pc # "excess" /\ c.pc # "list"
  <2>1. CASE BelowCeiling(thread[t].val + Needed(t))
    <3>1. Goes(thread, t, "swap", thread[t].val, thread')
      BY <2>1 DEF reserve_used_check, Goto, Goes
    <3>2. PICK c \in Calls : /\ Moved(thread, t, c, thread') /\ c.pc = "swap"
                             /\ c.val = thread[t].val /\ c.layout = thread[t].layout
      BY <1>1, <3>1, ArenaFacts, GotoMoves DEF Stages
    <3>3. thread[t].val + required_slot_size(thread[t].layout) <= allocated
      <4>1. PICK v \in Nat : v = thread[t].val
        BY <1>1
      <4>2. PICK n \in Nat : n = required_slot_size(thread[t].layout)
        BY <1>1, SlotSize
      <4>3. v + n <= allocated - locked_size
        BY <2>1, <4>1, <4>2 DEF BelowCeiling, Needed
      <4> QED BY <4>1, <4>2, <4>3, ArenaFacts
    <3>4. CallOK(c, allocated) /\ OwedBy(c) = 0
      BY <1>1, <3>2, <3>3 DEF CallOK, OwedBy, Allocating
    <3> QED BY <3>2, <3>4
  <2>2. CASE ~BelowCeiling(thread[t].val + Needed(t))
    <3>1. Moved(thread, t, Idle, thread')
      BY <2>2 DEF reserve_used_check, Return, Moved
    <3> QED BY <3>1, IdleCall
  <2> QED BY <2>1, <2>2
<1>3. used = used - OwedBy(thread[t]) + OwedBy(c) /\ used <= used
  BY <1>1, <1>2, ArenaFacts
<1>4. Balanced(allocated, used, offset, free_list, live, thread')
  BY <1>1, <1>2, <1>3, ArenaFacts, CallBalanced
<1>5. UNCHANGED <<ready, allocated, used, locked_size, memory, defragging>>
  BY DEF reserve_used_check
<1> QED BY <1>4, <1>5 DEF ArenaInv, FlagsOK, memory, defragging

\* reserve_used: the compare-and-swap.
LEMMA SwapKeeps ==
    ASSUME ArenaInv, NEW t \in Threads, reserve_used_swap(t)
    PROVE  ArenaInv'
<1>1. /\ thread[t].pc = "swap" /\ OwedBy(thread[t]) = 0 /\ thread[t].layout \in Layouts
      /\ thread[t].val + required_slot_size(thread[t].layout) <= allocated
  BY ArenaFacts DEF reserve_used_swap, At, OwedBy, CallOK, Allocating
<1>2. PICK n \in Nat : n = required_slot_size(thread[t].layout)
  BY <1>1, SlotSize
<1>3. ASSUME used = thread[t].val, used' = used + Needed(t), Goto(t, "list", 0)
      PROVE  Balanced(allocated, used', offset, free_list, live, thread')
  <2>1. Goes(thread, t, "list", 0, thread')
    BY <1>3 DEF Goto, Goes
  <2>2. PICK c \in Calls : Moved(thread, t, c, thread') /\ c.pc = "list" /\ c.layout = thread[t].layout
    BY <2>1, ArenaFacts, GotoMoves DEF Stages
  <2>3. CallOK(c, allocated) /\ OwedBy(c) = n
    BY <1>1, <1>2, <2>2 DEF CallOK, OwedBy, Allocating
  <2>4. used' = used + n /\ used' <= allocated
    BY <1>1, <1>2, <1>3 DEF Needed
  <2>5. used' = used - OwedBy(thread[t]) + OwedBy(c)
    BY <1>1, <1>2, <2>3, <2>4, ArenaFacts
  <2> QED BY <1>1, <2>2, <2>3, <2>4, <2>5, ArenaFacts, CallBalanced
<1>4. ASSUME Goto(t, "check", used), UNCHANGED used
      PROVE  Balanced(allocated, used', offset, free_list, live, thread')
  <2>1. Goes(thread, t, "check", used, thread')
    BY <1>4 DEF Goto, Goes
  <2>2. PICK c \in Calls : Moved(thread, t, c, thread') /\ c.pc = "check" /\ c.layout = thread[t].layout
    BY <2>1, ArenaFacts, GotoMoves DEF Stages
  <2>3. CallOK(c, allocated) /\ OwedBy(c) = 0
    BY <1>1, <2>2 DEF CallOK, OwedBy, Allocating
  <2>4. used' = used - OwedBy(thread[t]) + OwedBy(c) /\ used' <= used
    BY <1>1, <1>4, <2>3, ArenaFacts
  <2> QED BY <1>1, <2>2, <2>3, <2>4, ArenaFacts, CallBalanced
<1>5. Balanced(allocated, used', offset, free_list, live, thread')
  BY <1>3, <1>4 DEF reserve_used_swap
<1>6. UNCHANGED <<ready, allocated, locked_size, memory, defragging>>
  BY DEF reserve_used_swap
<1> QED BY <1>5, <1>6 DEF ArenaInv, FlagsOK, memory, defragging

\* alloc_from_free_list
LEMMA ListKeeps ==
    ASSUME ArenaInv, NEW t \in Threads, alloc_from_free_list(t)
    PROVE  ArenaInv'
<1>1. thread[t].pc = "list" /\ UNCHANGED <<ready, allocated, used, locked_size, offset, defragging>>
  BY DEF alloc_from_free_list, At
<1>2. PICK n : n = required_slot_size(thread[t].layout) /\ n = Needed(t) /\ n \in Nat
  BY <1>1, ArenaFacts, Asks DEF Needed
<1>3. PICK fits : fits = {i \in 1..Len(free_list) : free_list[i].size >= n}
  OBVIOUS
<1>4. Balanced(allocated, used, offset, free_list', live', thread')
  <2>1. CASE fits = {}
    <3>1. UNCHANGED <<free_list, live>> /\ Goes(thread, t, "bump", 0, thread')
      BY <1>2, <1>3, <2>1 DEF alloc_from_free_list, Goto, Goes
    <3>2. PICK c \in Calls : Moved(thread, t, c, thread') /\ c.pc = "bump" /\ c.layout = thread[t].layout
      BY <3>1, ArenaFacts, GotoMoves DEF Stages
    <3>3. CallOK(c, allocated) /\ OwedBy(c) = n /\ OwedBy(thread[t]) = n
      BY <1>1, <1>2, <3>2, ArenaFacts DEF CallOK, OwedBy, Allocating
    <3>4. used = used - OwedBy(thread[t]) + OwedBy(c) /\ used <= used
      BY <1>2, <3>3, ArenaFacts
    <3>5. Balanced(allocated, used, offset, free_list, live, thread')
      BY <1>1, <3>2, <3>3, <3>4, ArenaFacts, CallBalanced
    <3> QED BY <3>1, <3>5
  <2>2. CASE fits # {}
    <3>1. PICK i \in 1..Len(free_list) : i = Min(fits) /\ free_list[i].size >= n
      <4>1. fits \in SUBSET Nat
        BY <1>3
      <4> QED BY <1>3, <2>2, <4>1, MinIsLeast
    <3>2. CASE free_list[i].size - n >= 16
      <4>1. /\ IsSplit(free_list', free_list, i, n)
            /\ Adds(live', live, Slot(free_list[i].start, n, thread[t].layout))
            /\ Moved(thread, t, Idle, thread')
        BY <1>2, <1>3, <2>2, <3>1, <3>2
           DEF alloc_from_free_list, Return, Moved, IsSplit, Adds, MIN_SLOT_SIZE
      <4> QED BY <1>1, <1>2, <3>2, <4>1, ArenaFacts, SplitBalanced
    <3>3. CASE ~(free_list[i].size - n >= 16)
      <4>1. /\ free_list' = RemoveAt(free_list, i) /\ live' = live
            /\ Keeps(thread, t, free_list[i], thread')
        BY <1>2, <1>3, <2>2, <3>1, <3>3 DEF alloc_from_free_list, Keeps, MIN_SLOT_SIZE
      <4>2. free_list[i] \in FreeNodes /\ free_list[i].size \in 16..Capacity /\ Capacity \in Nat
        BY ArenaFacts, NodeOfList, ArenaAssumption
      <4>3. PICK c \in Calls : /\ Moved(thread, t, c, thread') /\ c.pc = "excess"
                               /\ c.node = free_list[i] /\ c.layout = thread[t].layout
        BY <4>1, <4>2, ArenaFacts, TakeMoves
      <4>4. /\ free_list[i].size >= required_slot_size(thread[t].layout)
            /\ free_list[i].size - required_slot_size(thread[t].layout) < 16
        BY <1>2, <3>1, <3>3, <4>2
      <4>5. Balanced(allocated, used, offset, free_list', live, thread')
        BY <1>1, <4>1, <4>3, <4>4, ArenaFacts, TakeBalanced
      <4> QED BY <4>1, <4>5
    <3> QED BY <3>2, <3>3
  <2> QED BY <2>1, <2>2
<1> QED BY <1>1, <1>4 DEF ArenaInv, FlagsOK, defragging

\* add_excess
LEMMA ExcessKeeps ==
    ASSUME ArenaInv, NEW t \in Threads, add_excess(t)
    PROVE  ArenaInv'
<1>1. /\ thread[t].pc = "excess" /\ Moved(thread, t, Idle, thread')
      /\ used' = used + Excess(thread[t].node, required_slot_size(thread[t].layout))
      /\ Adds(live', live, Slot(thread[t].node.start, thread[t].node.size, thread[t].layout))
  BY DEF add_excess, At, Needed, Return, Moved, Adds
<1>2. Balanced(allocated, used', offset, free_list, live', thread')
  <2>1. Balanced(allocated, used, offset, free_list, live, thread)
    BY ArenaFacts
  <2> QED BY <1>1, <2>1, PlaceBalanced
<1>3. UNCHANGED <<ready, allocated, locked_size, offset, free_list, defragging>>
  BY DEF add_excess
<1> QED BY <1>2, <1>3 DEF ArenaInv, FlagsOK, defragging

\* alloc_from_bump
LEMMA BumpKeeps ==
    ASSUME ArenaInv, NEW t \in Threads, alloc_from_bump(t)
    PROVE  ArenaInv'
<1>1. thread[t].pc = "bump" /\ UNCHANGED <<ready, allocated, used, locked_size, free_list, defragging>>
  BY DEF alloc_from_bump, At
<1>2. PICK n : n = required_slot_size(thread[t].layout) /\ n = Needed(t) /\ n \in Nat
  BY <1>1, ArenaFacts, Asks DEF Needed
<1>3. align_up(offset, SLOT_ALIGN) = offset
  <2>1. offset \in Nat /\ offset % 8 = 0
    BY ArenaFacts, BalancedParts
  <2>2. PICK k \in Nat : offset = 8 * k
    <3>1. offset = 8 * (offset \div 8) /\ offset \div 8 \in Nat
      BY <2>1
    <3> QED BY <3>1
  <2>3. (8 * k + 8 - 1) \div 8 = k
    OBVIOUS
  <2> QED BY <2>2, <2>3 DEF align_up, SLOT_ALIGN
<1>4. Balanced(allocated, used, offset', free_list, live', thread')
  <2>1. CASE InArena(offset, n)
    <3>1. /\ offset' = offset + n /\ Moved(thread, t, Idle, thread')
          /\ Adds(live', live, Slot(offset, n, thread[t].layout))
      BY <1>2, <1>3, <2>1 DEF alloc_from_bump, Return, Moved, Adds
    <3>2. offset + n <= allocated
      BY <2>1 DEF InArena
    <3>3. Balanced(allocated, used, offset + n, free_list, live', thread')
      BY <1>1, <1>2, <3>1, <3>2, ArenaFacts, BumpBalanced
    <3> QED BY <3>1, <3>3
  <2>2. CASE ~InArena(offset, n)
    <3>1. UNCHANGED <<offset, live>> /\ Goes(thread, t, "undo", 0, thread')
      BY <1>2, <1>3, <2>2 DEF alloc_from_bump, Goto, Goes
    <3>2. PICK c \in Calls : Moved(thread, t, c, thread') /\ c.pc = "undo" /\ c.layout = thread[t].layout
      BY <3>1, ArenaFacts, GotoMoves DEF Stages
    <3>3. CallOK(c, allocated) /\ OwedBy(c) = n /\ OwedBy(thread[t]) = n
      BY <1>1, <1>2, <3>2, ArenaFacts DEF CallOK, OwedBy, Allocating
    <3>4. used = used - OwedBy(thread[t]) + OwedBy(c) /\ used <= used
      BY <1>2, <3>3, ArenaFacts
    <3>5. Balanced(allocated, used, offset, free_list, live, thread')
      BY <1>1, <3>2, <3>3, <3>4, ArenaFacts, CallBalanced
    <3> QED BY <3>1, <3>5
  <2> QED BY <2>1, <2>2
<1> QED BY <1>1, <1>4 DEF ArenaInv, FlagsOK, defragging

\* undo_reserve
LEMMA UndoKeeps ==
    ASSUME ArenaInv, NEW t \in Threads, undo_reserve(t)
    PROVE  ArenaInv'
<1>1. thread[t].pc = "undo" /\ Moved(thread, t, Idle, thread') /\ used' = used - Needed(t)
  BY DEF undo_reserve, At, Return, Moved
<1>2. /\ Needed(t) = OwedBy(thread[t]) /\ Needed(t) \in Nat
  BY <1>1, ArenaFacts, Asks DEF Needed
<1>3. used' = used - OwedBy(thread[t]) + OwedBy(Idle) /\ used' <= used
  BY <1>1, <1>2, ArenaFacts, IdleCall
<1>4. Balanced(allocated, used', offset, free_list, live, thread')
  BY <1>1, <1>3, ArenaFacts, IdleCall, CallBalanced
<1>5. UNCHANGED <<ready, allocated, locked_size, memory, defragging>>
  BY DEF undo_reserve
<1> QED BY <1>4, <1>5 DEF ArenaInv, FlagsOK, memory, defragging

\* dealloc
LEMMA DeallocKeeps ==
    ASSUME ArenaInv, NEW t \in Threads, NEW slot \in live, dealloc(t, slot)
    PROVE  ArenaInv'
<1>1. /\ thread[t].pc = "idle" /\ Takes(live', live, slot)
      /\ Frees(free_list', free_list, slot)
      /\ Goes(thread, t, "release", slot.size, thread')
  BY DEF dealloc, At, Takes, Frees, Goto, Goes
<1>2. slot.size \in Nat
  <2>1. slot \in Slots
    BY ArenaFacts, BalancedParts
  <2> QED BY <2>1, ArenaAssumption DEF Slots, MIN_SLOT_SIZE
<1>3. PICK c \in Calls : Moved(thread, t, c, thread') /\ c.pc = "release" /\ c.val = slot.size
  BY <1>1, <1>2, ArenaFacts, GotoMoves DEF Stages
<1>4. Balanced(allocated, used, offset, free_list', live', thread')
  BY <1>1, <1>3, ArenaFacts, FreeBalanced
<1>5. UNCHANGED <<ready, allocated, used, locked_size, offset, defragging>>
  BY DEF dealloc
<1> QED BY <1>4, <1>5 DEF ArenaInv, FlagsOK, defragging

\* release_used
LEMMA ReleaseKeeps ==
    ASSUME ArenaInv, NEW t \in Threads, release_used(t)
    PROVE  ArenaInv'
<1>1. /\ thread[t].pc = "release" /\ used' = used - thread[t].val
      /\ Goes(thread, t, "count", 0, thread')
  BY DEF release_used, At, Goto, Goes
<1>2. OwedBy(thread[t]) = thread[t].val /\ thread[t].val \in Nat
  BY <1>1, ArenaFacts DEF OwedBy, Calls
<1>3. PICK c \in Calls : Moved(thread, t, c, thread') /\ c.pc = "count"
  BY <1>1, ArenaFacts, GotoMoves DEF Stages
<1>4. CallOK(c, allocated) /\ OwedBy(c) = 0
  BY <1>3 DEF CallOK, OwedBy, Allocating
<1>5. used' = used - OwedBy(thread[t]) + OwedBy(c) /\ used' <= used
  BY <1>1, <1>2, <1>4, ArenaFacts
<1>6. Balanced(allocated, used', offset, free_list, live, thread')
  BY <1>1, <1>3, <1>4, <1>5, ArenaFacts, CallBalanced
<1>7. UNCHANGED <<ready, allocated, locked_size, memory, defragging>>
  BY DEF release_used
<1> QED BY <1>6, <1>7 DEF ArenaInv, FlagsOK, memory, defragging

\* count_dealloc, and the store of the reservation: a call that owes nothing
\* returns.
LEMMA ReturnKeeps ==
    ASSUME ArenaInv, NEW t \in Threads, thread[t].pc \in {"count", "store"}, Return(t)
    PROVE  Balanced(allocated, used, offset, free_list, live, thread')
<1>1. Moved(thread, t, Idle, thread') /\ OwedBy(thread[t]) = 0
  BY DEF Return, Moved, OwedBy
<1>2. used = used - OwedBy(thread[t]) + OwedBy(Idle) /\ used <= used
  BY <1>1, ArenaFacts, IdleCall
<1> QED BY <1>1, <1>2, ArenaFacts, IdleCall, CallBalanced

\* count_dealloc
LEMMA CountKeeps ==
    ASSUME ArenaInv, NEW t \in Threads, count_dealloc(t)
    PROVE  ArenaInv'
<1>1. Balanced(allocated, used, offset, free_list, live, thread')
  BY ReturnKeeps DEF count_dealloc, At
<1>2. dealloc_count' \in 0..(DefragEvery - 1)
  <2>1. dealloc_count \in Nat /\ DefragEvery \in Nat /\ DefragEvery > 0
    BY ArenaAssumption DEF ArenaInv, FlagsOK
  <2>2. (dealloc_count + 1) % DefragEvery \in 0..(DefragEvery - 1)
    BY <2>1
  <2> QED BY <2>2 DEF count_dealloc
<1>3. requested' \in BOOLEAN
  BY DEF count_dealloc
<1>4. UNCHANGED <<ready, allocated, used, locked_size, memory, defrag>>
  BY DEF count_dealloc
<1> QED BY <1>1, <1>2, <1>3, <1>4 DEF ArenaInv, FlagsOK, memory

\* set_locked_size: the check.
LEMMA LockedKeeps ==
    ASSUME ArenaInv, NEW t \in Threads, NEW size \in Reservations, set_locked_size(t, size)
    PROVE  ArenaInv'
<1>1. thread[t].pc = "idle" /\ OwedBy(thread[t]) = 0 /\ Goes(thread, t, "store", size, thread')
  BY DEF set_locked_size, At, Goto, Goes, OwedBy
<1>2. size \in Nat
  BY ArenaAssumption
<1>3. PICK c \in Calls : Moved(thread, t, c, thread') /\ c.pc = "store" /\ c.val = size
  BY <1>1, <1>2, ArenaFacts, GotoMoves DEF Stages
<1>4. CallOK(c, allocated) /\ OwedBy(c) = 0
  BY <1>3 DEF CallOK, OwedBy, Allocating
<1>5. used = used - OwedBy(thread[t]) + OwedBy(c) /\ used <= used
  BY <1>1, <1>4, ArenaFacts
<1>6. Balanced(allocated, used, offset, free_list, live, thread')
  BY <1>1, <1>3, <1>4, <1>5, ArenaFacts, CallBalanced
<1>7. UNCHANGED <<ready, allocated, used, locked_size, memory, defragging>>
  BY DEF set_locked_size
<1> QED BY <1>6, <1>7 DEF ArenaInv, FlagsOK, memory, defragging

\* set_locked_size: the store.
LEMMA StoreKeeps ==
    ASSUME ArenaInv, NEW t \in Threads, store_locked_size(t)
    PROVE  ArenaInv'
<1>1. Balanced(allocated, used, offset, free_list, live, thread')
  BY ReturnKeeps DEF store_locked_size, At
<1>2. locked_size' \in Reservations
  BY ArenaFacts DEF store_locked_size, At, CallOK
<1>3. UNCHANGED <<ready, allocated, used, memory, defragging>>
  BY DEF store_locked_size
<1> QED BY <1>1, <1>2, <1>3 DEF ArenaInv, FlagsOK, memory, defragging

\* Everything is zero, empty or idle.
LEMMA InitArena == Init => ArenaInv
<1> SUFFICES ASSUME Init PROVE ArenaInv
  OBVIOUS
<1>1. PICK th : th = thread /\ th = [t \in Threads |-> Idle]
  BY DEF Init
<1>2. \A t \in Threads : th[t] = Idle
  BY <1>1
<1>3. th \in CallTable /\ CallsOK(th, 0)
  <2>1. th \in [Threads -> Calls]
    BY <1>1, IdleCall
  <2> QED BY <1>2, <2>1, IdleCall DEF CallTable, CallsOK
<1>4. Capacity \in Nat /\ IsFiniteSet(Threads) /\ Cardinality(Threads) \in Nat
  BY ArenaAssumption, FS_CardinalityType
<1>5. IsFiniteSet({}) /\ SetSum(SizeOf, {}) = 0
  <2>1. IsFiniteSet({})
    BY FS_EmptySet
  <2>2. \A x \in {} : SizeOf[x] \in Nat
    OBVIOUS
  <2> QED BY <2>1, <2>2, SetSumStep
<1>6. OwedSum(th) = 0
  <2>1. PICK f : f = [t \in Threads |-> OwedBy(th[t])]
    OBVIOUS
  <2>2. \A t \in Threads : f[t] = 0
    BY <1>2, <2>1, IdleCall
  <2>3. SetSum(f, Threads) = 0
    BY <1>4, <2>2, SetSumZero
  <2> QED BY <2>1, <2>3 DEF OwedSum
<1>7. Ceiling(0, 0, th)
  <2>1. Exceeding(th) = {}
    BY <1>2, IdleCall DEF Exceeding
  <2>2. Cardinality(Exceeding(th)) = 0
    BY <2>1, FS_EmptySet
  <2> QED BY <1>4, <2>2 DEF Ceiling
<1>8. Tiled({}, << >>, HeldNodes(th), 0)
  <2>1. DOMAIN HeldNodes(th) = {}
    BY <1>2, IdleCall DEF HeldNodes
  <2> QED BY <2>1 DEF Tiled, Pieces, Disjoint, Covered
<1>9. Balanced(0, 0, 0, << >>, {}, th)
  BY <1>3, <1>4, <1>5, <1>6, <1>7, <1>8 DEF Balanced
<1>10. FlagsOK
  <2>1. 0 \in 0..(DefragEvery - 1)
    BY ArenaAssumption
  <2> QED BY <2>1 DEF Init, FlagsOK
<1> QED BY <1>1, <1>9, <1>10 DEF ArenaInv, Init

\* Every step keeps the invariant.
LEMMA NextArena == ArenaInv /\ [Next]_vars => ArenaInv'
<1> SUFFICES ASSUME ArenaInv, [Next]_vars
             PROVE  ArenaInv'
  OBVIOUS
<1>1. CASE InitBase
  BY <1>1 DEF ArenaInv, FlagsOK, InitBase, memory, defragging
<1>2. CASE InitCapacity
  <2>1. Balanced(0, used, offset, free_list, live, thread)
    BY <1>2, ArenaFacts DEF InitCapacity
  <2>2. Balanced(Capacity, used, offset, free_list, live, thread)
    BY <2>1, CapacityBalanced
  <2> QED BY <1>2, <2>2 DEF ArenaInv, FlagsOK, InitCapacity, memory, defragging
<1>3. ASSUME NEW t \in Threads, Step(t)
      PROVE  ArenaInv'
  BY <1>3, CheckKeeps, SwapKeeps, ListKeeps, ExcessKeeps, BumpKeeps, UndoKeeps, ReleaseKeeps,
     CountKeeps, StoreKeeps DEF Step
<1>4. ASSUME NEW t \in Threads, NEW layout \in Layouts, alloc(t, layout)
      PROVE  ArenaInv'
  BY <1>4, AllocKeeps
<1>5. ASSUME NEW t \in Threads, NEW slot \in live, dealloc(t, slot)
      PROVE  ArenaInv'
  BY <1>5, DeallocKeeps
<1>6. ASSUME NEW t \in Threads, NEW size \in Reservations, set_locked_size(t, size)
      PROVE  ArenaInv'
  BY <1>6, LockedKeeps
<1>7. CASE take_request
  BY <1>7 DEF ArenaInv, FlagsOK, take_request, memory
<1>8. CASE defragment
  <2>1. Balanced(allocated, used, offset, Defragmented(free_list), live, thread)
    BY ArenaFacts, DefragmentBalanced
  <2> QED BY <1>8, <2>1 DEF ArenaInv, FlagsOK, defragment
<1>9. CASE UNCHANGED vars
  BY <1>9 DEF ArenaInv, FlagsOK, vars, memory, defragging
<1> QED BY <1>1, <1>2, <1>3, <1>4, <1>5, <1>6, <1>7, <1>8, <1>9 DEF Next

\* The allocator's books stay balanced, whatever its threads and the
\* defragmentation interleave: the inductive invariant behind the theorems below
\* (all of allocator.rs).
THEOREM ArenaSafe == Spec => []ArenaInv
<1>1. Init => ArenaInv
  BY InitArena
<1>2. ArenaInv /\ [Next]_vars => ArenaInv'
  BY NextArena
<1> QED BY <1>1, <1>2, PTL DEF Spec

\* `used` never wraps below 0 and nothing outside the arena is handed out
\* (allocator.rs:77-145).
THEOREM ArenaTyped == Spec => []TypeOK
<1>1. ArenaInv => TypeOK
  BY DEF ArenaInv, FlagsOK, Balanced, TypeOK, CallTable, Calls, Stages, Slots, FreeNodes
<1> QED BY <1>1, ArenaSafe, PTL

\* A value and its header lie inside its slot at an aligned address, in a slot
\* that is new, split or reused whole (allocator.rs:57-75, 147-201).
THEOREM NoValueTooLarge == Spec => []ValueFits
<1>1. ArenaInv => ValueFits
  <2>1. SUFFICES ASSUME ArenaInv, NEW s \in live
                 PROVE  LET addr == UserAddress(s)
                        IN  /\ addr % s.layout.align = 0
                            /\ s.start <= addr - HeaderSize
                            /\ addr + s.layout.size <= s.start + s.size
    BY DEF ValueFits
  <2>2. s \in Slots /\ s.size >= required_slot_size(s.layout)
    <3>1. Balanced(allocated, used, offset, free_list, live, thread)
      BY <2>1, ArenaFacts
    <3>2. live \subseteq Slots /\ \A r \in live : r.size >= required_slot_size(r.layout)
      BY <3>1, BalancedParts
    <3> QED BY <2>1, <3>2
  <2>3. s.start \in Nat /\ s.size \in Nat /\ s.layout \in Layouts
    BY <2>2, ArenaAssumption DEF Slots, MIN_SLOT_SIZE
  <2> QED BY <2>2, <2>3, SlotHoldsValue
<1> QED BY <1>1, ArenaSafe, PTL

-----------------------------------------------------------------------------
(***************************************************************************)
(* What the tiling and the sums say of the runs' properties.               *)
(***************************************************************************)

\* Owners(a), from the parts of a tiling.
OwnersOf(L, F, H, a) ==
    {<<"live", s>> : s \in {s \in L : Covers(s, a)}}
      \cup {<<"free", i>> : i \in {i \in 1..Len(F) : Covers(F[i], a)}}
      \cup {<<"thread", t>> : t \in {t \in DOMAIN H : Covers(H[t], a)}}

\* In a tiling every address below the bump pointer has one owner, the others
\* have none.
LEMMA TiledOwners ==
    ASSUME NEW L, NEW F, NEW H, NEW top, NEW a, Tiled(L, F, H, top), a \in Nat
    PROVE  /\ a < top => \E o : OwnersOf(L, F, H, a) = {o}
           /\ ~(a < top) => OwnersOf(L, F, H, a) = {}
<1>1. Pieces(L, F, H, top) /\ Disjoint(L, F, H) /\ Covered(L, F, H, top)
  BY DEF Tiled
<1>2. ASSUME NEW r, Piece(r, top), Covers(r, a)
      PROVE  a < top
  BY <1>1, <1>2 DEF Piece, Covers, Pieces
<1>3. ASSUME NEW r, NEW s, Piece(r, top), Piece(s, top), Apart(r, s), Covers(r, a)
      PROVE  ~Covers(s, a)
  BY <1>3 DEF Piece, Covers, Apart
<1>4. ASSUME NEW o \in OwnersOf(L, F, H, a), NEW p \in OwnersOf(L, F, H, a)
      PROVE  o = p
  <2>1. \/ \E s \in L : o = <<"live", s>> /\ Covers(s, a)
        \/ \E i \in 1..Len(F) : o = <<"free", i>> /\ Covers(F[i], a)
        \/ \E t \in DOMAIN H : o = <<"thread", t>> /\ Covers(H[t], a)
    BY <1>4, Zenon DEF OwnersOf
  <2>2. \/ \E s \in L : p = <<"live", s>> /\ Covers(s, a)
        \/ \E i \in 1..Len(F) : p = <<"free", i>> /\ Covers(F[i], a)
        \/ \E t \in DOMAIN H : p = <<"thread", t>> /\ Covers(H[t], a)
    BY <1>4, Zenon DEF OwnersOf
  <2>3. /\ \A s \in L : Piece(s, top)
        /\ \A i \in 1..Len(F) : Piece(F[i], top)
        /\ \A t \in DOMAIN H : Piece(H[t], top)
    BY <1>1 DEF Pieces
  <2>4. /\ \A s, r \in L : Covers(s, a) /\ Covers(r, a) => s = r
        /\ \A i, j \in 1..Len(F) : Covers(F[i], a) /\ Covers(F[j], a) => i = j
        /\ \A t, u \in DOMAIN H : Covers(H[t], a) /\ Covers(H[u], a) => t = u
    BY <1>1, <1>3, <2>3, Zenon DEF Disjoint
  <2>5. /\ \A s \in L, i \in 1..Len(F) : Covers(s, a) => ~Covers(F[i], a)
        /\ \A s \in L, t \in DOMAIN H : Covers(s, a) => ~Covers(H[t], a)
        /\ \A i \in 1..Len(F), t \in DOMAIN H : Covers(F[i], a) => ~Covers(H[t], a)
    BY <1>1, <1>3, <2>3, Zenon DEF Disjoint
  <2>6. CASE \E s \in L : o = <<"live", s>> /\ Covers(s, a)
    BY <2>2, <2>4, <2>5, <2>6, Zenon
  <2>7. CASE \E i \in 1..Len(F) : o = <<"free", i>> /\ Covers(F[i], a)
    BY <2>2, <2>4, <2>5, <2>7, Zenon
  <2>8. CASE \E t \in DOMAIN H : o = <<"thread", t>> /\ Covers(H[t], a)
    BY <2>2, <2>4, <2>5, <2>8, Zenon
  <2> QED BY <2>1, <2>6, <2>7, <2>8
<1>5. ASSUME NEW o \in OwnersOf(L, F, H, a)
      PROVE  a < top
  <2>1. \E r : Piece(r, top) /\ Covers(r, a)
    BY <1>1, <1>5, Zenon DEF OwnersOf, Pieces
  <2> QED BY <1>2, <2>1
<1>6. ASSUME a < top
      PROVE  OwnersOf(L, F, H, a) # {}
  BY <1>1, <1>6, Zenon DEF Covered, OwnersOf
<1> QED BY <1>4, <1>5, <1>6, Zenon

\* Pieces of memory that do not overlap and lie below the bump pointer have no
\* more bytes than lie below it.
LEMMA SizesBelowTop ==
    ASSUME NEW L, IsFiniteSet(L), NEW f, NEW top \in Nat,
           \A s \in L : Piece(s, top) /\ f[s] = s.size,
           \A s, r \in L : s # r => Apart(s, r)
    PROVE  SetSum(f, L) <= top
<1> DEFINE From(s, n) == \A r \in s : n <= r.start
           bad == {s \in SUBSET L : \E n \in 0..top : From(s, n) /\ ~(n + SetSum(f, s) <= top)}
<1>1. \A s \in L : s.start \in Nat /\ s.size \in Nat /\ s.size >= 16 /\ s.start + s.size <= top /\ f[s] \in Nat
  BY DEF Piece
<1>2. SUFFICES ASSUME bad # {}
               PROVE  FALSE
  <2>1. L \notin bad
    BY <1>2
  <2>2. From(L, 0) /\ 0 \in 0..top
    BY <1>1
  <2>3. SetSum(f, L) \in Nat
    BY <1>1, SetSumStep
  <2>4. 0 + SetSum(f, L) <= top
    BY <2>1, <2>2
  <2> QED BY <2>3, <2>4
<1>3. PICK s \in bad : \A r \in bad : Cardinality(s) <= Cardinality(r)
  <2>1. bad \in SUBSET SUBSET L
    OBVIOUS
  <2> HIDE DEF bad
  <2> QED BY <1>2, <2>1, SmallestSet
<1>4. PICK n \in 0..top : From(s, n) /\ ~(n + SetSum(f, s) <= top)
  BY <1>3
<1>5. s \in SUBSET L /\ IsFiniteSet(s) /\ \A x \in s : f[x] \in Nat
  BY <1>1, <1>3, FS_Subset
<1>6. s # {}
  <2>1. SUFFICES ASSUME s = {} PROVE FALSE
    OBVIOUS
  <2>2. SetSum(f, s) = 0
    BY <1>5, <2>1, SetSumStep
  <2> QED BY <1>4, <2>2
<1>7. PICK x \in s : \A r \in s : x.start <= r.start
  <2> DEFINE starts == {r.start : r \in s}
  <2>1. starts \in SUBSET Nat /\ starts # {}
    BY <1>1, <1>5, <1>6
  <2>2. PICK m \in starts : \A k \in starts : m <= k
    <3> HIDE DEF starts
    <3> QED BY <2>1, MinIsLeast
  <2> QED BY <2>2
<1>8. x \in L /\ n <= x.start /\ x.start + x.size \in 0..top /\ f[x] = x.size
  BY <1>1, <1>4, <1>5, <1>7
<1>9. From(s \ {x}, x.start + x.size)
  <2>1. SUFFICES ASSUME NEW r \in s, r # x
                 PROVE  x.start + x.size <= r.start
    OBVIOUS
  <2>2. r \in L /\ Apart(r, x) /\ x.start <= r.start
    BY <1>5, <1>7, <1>8, <2>1
  <2> QED BY <1>1, <1>8, <2>2 DEF Apart
<1>10. s \ {x} \notin bad /\ s \ {x} \in SUBSET L
  <2>1. Cardinality(s \ {x}) = Cardinality(s) - 1 /\ Cardinality(s) \in Nat /\ s \ {x} \in SUBSET L
    BY <1>5, <1>7, Smaller
  <2> HIDE DEF bad
  <2> QED BY <1>3, <2>1
<1>11. (x.start + x.size) + SetSum(f, s \ {x}) <= top
  BY <1>8, <1>9, <1>10
<1>12. SetSum(f, s) = f[x] + SetSum(f, s \ {x}) /\ SetSum(f, s \ {x}) \in Nat
  <2>1. IsFiniteSet(s \ {x})
    BY <1>5, FS_RemoveElement
  <2> QED BY <1>5, <1>7, <2>1, SetSumStep
<1> QED BY <1>1, <1>4, <1>8, <1>11, <1>12

\* No two values overlap and no freed slot is lost or listed twice
\* (allocator.rs:103-201, 334-363).
THEOREM EveryWordHasOneOwner == Spec => []OneOwner
<1>1. ArenaInv => OneOwner
  <2>1. SUFFICES ASSUME ArenaInv, NEW w \in 0..((Capacity \div SLOT_ALIGN) - 1)
                 PROVE  Cardinality(Owners(w * SLOT_ALIGN)) = IF w * SLOT_ALIGN < offset THEN 1 ELSE 0
    BY DEF OneOwner
  <2>2. PICK a \in Nat : a = w * SLOT_ALIGN
    BY ArenaAssumption DEF SLOT_ALIGN
  <2>3. Balanced(allocated, used, offset, free_list, live, thread)
    BY <2>1, ArenaFacts
  <2>4. Tiled(live, free_list, HeldNodes(thread), offset)
    BY <2>3, BalancedParts
  <2>5. Owners(a) = OwnersOf(live, free_list, HeldNodes(thread), a)
    BY DEF Owners, OwnersOf, HeldNodes, At, Covers
  <2>6. CASE a < offset
    <3>1. PICK o : Owners(a) = {o}
      <4>1. \E o : OwnersOf(live, free_list, HeldNodes(thread), a) = {o}
        BY <2>4, <2>6, TiledOwners, Zenon
      <4> QED BY <2>5, <4>1, Zenon
    <3>2. Cardinality(Owners(a)) = 1
      BY <3>1, FS_Singleton
    <3> QED BY <2>2, <2>6, <3>2
  <2>7. CASE ~(a < offset)
    <3>1. Owners(a) = {}
      BY <2>4, <2>5, <2>7, TiledOwners
    <3>2. Cardinality(Owners(a)) = 0
      BY <3>1, FS_EmptySet
    <3> QED BY <2>2, <2>7, <3>2
  <2> QED BY <2>6, <2>7
<1> QED BY <1>1, ArenaSafe, PTL

\* What the invariant says of a call is what Owed says of its thread.
LEMMA OwedIs ==
    ASSUME NEW t \in Threads
    PROVE  Owed(t) = OwedBy(thread[t])
<1> QED BY DEF Owed, OwedBy, Needed

\* The promise counter is exact, although it is updated outside the mutex of the
\* free list (allocator.rs:77-145, 203-221).
THEOREM NoByteMiscounted == Spec => []UsedIsExact
<1>1. ArenaInv => UsedIsExact
  <2>1. SUFFICES ASSUME ArenaInv
                 PROVE  UsedIsExact
    OBVIOUS
  <2> DEFINE sizes == [s \in live |-> s.size]
             owed == [t \in Threads |-> Owed(t)]
             owes == [t \in Threads |-> OwedBy(thread[t])]
  <2>2. Balanced(allocated, used, offset, free_list, live, thread)
    BY <2>1, ArenaFacts
  <2>3. IsFiniteSet(live) /\ live \subseteq Slots /\ used = SetSum(SizeOf, live) + OwedSum(thread)
    BY <2>2, BalancedParts
  <2>4. SetSum(SizeOf, live) = SetSum(sizes, live)
    <3>1. \A s \in live : SizeOf[s] = sizes[s]
      BY <2>3 DEF SizeOf
    <3> HIDE DEF sizes
    <3> QED BY <2>3, <3>1, SetSumSame
  <2>5. OwedSum(thread) = SetSum(owed, Threads)
    <3>1. IsFiniteSet(Threads)
      BY ArenaAssumption
    <3>2. \A t \in Threads : owes[t] = owed[t]
      BY OwedIs
    <3>3. OwedSum(thread) = SetSum(owes, Threads)
      BY DEF OwedSum
    <3> HIDE DEF owes, owed
    <3> QED BY <3>1, <3>2, <3>3, SetSumSame
  <2>6. SetSum(sizes, live) = MapThenSumSet(LAMBDA s : s.size, live)
    BY DEF SetSum, MapThenSumSet, MapThenFoldSet
  <2>7. SetSum(owed, Threads) = MapThenSumSet(Owed, Threads)
    BY DEF SetSum, MapThenSumSet, MapThenFoldSet
  <2> QED BY <2>3, <2>4, <2>5, <2>6, <2>7 DEF UsedIsExact
<1> QED BY <1>1, ArenaSafe, PTL

\* get_free_mem_size wraps by at most eight bytes per thread while calls are
\* under way, and not at all when none is (allocator.rs:268-276).
THEOREM FreeMemoryBounded == Spec => []FreeMemory
<1>1. ArenaInv => FreeMemory
  <2>1. SUFFICES ASSUME ArenaInv
                 PROVE  FreeMemory
    OBVIOUS
  <2>2. Balanced(allocated, used, offset, free_list, live, thread)
    BY <2>1, ArenaFacts
  <2>3. /\ allocated \in Nat /\ used \in Nat /\ offset \in Nat
        /\ IsFiniteSet(live) /\ live \subseteq Slots
        /\ used = SetSum(SizeOf, live) + OwedSum(thread)
        /\ Ceiling(allocated, used, thread) /\ SetSum(SizeOf, live) \in Nat
        /\ Tiled(live, free_list, HeldNodes(thread), offset)
    BY <2>2, BalancedParts
  <2>4. IsFiniteSet(Threads) /\ Cardinality(Threads) \in Nat
    BY ArenaAssumption, FS_CardinalityType
  <2>5. used - allocated <= Cardinality(Threads) * (MIN_SLOT_SIZE - SLOT_ALIGN)
    <3>1. Exceeding(thread) \subseteq Threads
      BY DEF Exceeding
    <3>2. Cardinality(Exceeding(thread)) \in Nat
      BY <2>4, <3>1, FS_Subset, FS_CardinalityType
    <3> QED BY <2>3, <2>4, <3>2 DEF Ceiling, MIN_SLOT_SIZE, SLOT_ALIGN
  <2>6. ASSUME \A t \in Threads : Owed(t) = 0
        PROVE  used <= offset
    <3>1. OwedSum(thread) = 0
      <4>1. PICK f : f = [t \in Threads |-> OwedBy(thread[t])]
        OBVIOUS
      <4>2. \A t \in Threads : f[t] = 0
        BY <2>6, <4>1, OwedIs
      <4>3. SetSum(f, Threads) = 0
        BY <2>4, <4>2, SetSumZero
      <4> QED BY <4>1, <4>3 DEF OwedSum
    <3>2. \A s \in live : Piece(s, offset) /\ SizeOf[s] = s.size
      BY <2>3 DEF Tiled, Pieces, SizeOf
    <3>3. \A s, r \in live : s # r => Apart(s, r)
      BY <2>3 DEF Tiled, Disjoint
    <3>4. SetSum(SizeOf, live) <= offset
      BY <2>3, <3>2, <3>3, SizesBelowTop
    <3> QED BY <2>3, <3>1, <3>4
  <2> QED BY <2>5, <2>6 DEF FreeMemory
<1> QED BY <1>1, ArenaSafe, PTL
=============================================================================
