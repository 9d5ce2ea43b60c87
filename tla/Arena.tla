------------------------------- MODULE Arena -------------------------------
(***************************************************************************)
(* The global allocator of the process: src/src/memory/allocator.rs.       *)
(*                                                                         *)
(* Threads allocate and free slots of one arena of `allocated` bytes.      *)
(*   used         bytes promised to allocations; compare-and-swap, no lock *)
(*   offset       the bump pointer: nothing above it was ever handed out   *)
(*   free_list    freed slots, under the mutex FREE_LIST                   *)
(*   locked_size  LOCKED_SIZE, the tail reservation that limits `used`     *)
(* An allocation first raises `used`, then looks for a slot, and lowers    *)
(* `used` again when there is none; a free puts the slot on the list and   *)
(* then lowers `used`.  Every atomic access to `used` and `locked_size`    *)
(* and every critical section of a mutex is a step of its own.             *)
(*                                                                         *)
(* Addresses are offsets from ARENA_BASE, which mmap aligns to a page.     *)
(* Memory from the system allocator (before init) is left out: dealloc     *)
(* tells it apart by its address.                                          *)
(***************************************************************************)
EXTENDS Integers, Sequences, SequencesExt, FiniteSets, FiniteSetsExt

CONSTANTS
    Threads,        \* threads of the process (a bound)
    Layouts,        \* [size, align] of the values the process allocates
    Capacity,       \* MEMORY_LIMIT, the size of the arena in bytes
    Reservations,   \* sizes the server asks set_locked_size for
    DefragEvery,    \* 32: every so many frees ask for a defragmentation
    DefragThread,   \* TRUE on Windows: the Unix init does not start the thread
    None

ASSUME ArenaAssumption ==
    /\ Capacity \in Nat \ {0} /\ Reservations \subseteq Nat
    /\ DefragEvery \in Nat \ {0} /\ DefragThread \in BOOLEAN
    /\ IsFiniteSet(Threads)
    /\ Layouts \subseteq [size : Nat \ {0}, align : Nat \ {0}]

VARIABLES
    ready,          \* init: whether ARENA_BASE is set
    allocated,      \* GLOBAL.allocated
    used,           \* GLOBAL.used
    offset,         \* GLOBAL.offset
    locked_size,    \* LOCKED_SIZE
    free_list,      \* the nodes of FREE_LIST, head first
    live,           \* the slots the program holds, with their AllocHeader
    thread,         \* what each thread is doing inside the allocator
    dealloc_count,  \* DEALLOC_COUNT & 31
    requested,      \* the flag under DEFRAG_MUTEX
    defrag          \* the arena-defrag thread

memory == <<offset, free_list, live>>
defragging == <<dealloc_count, requested, defrag>>
vars == <<ready, allocated, used, locked_size, memory, thread, defragging>>

HeaderSize == 16        \* size_of::<AllocHeader>()
MIN_SLOT_SIZE == 16     \* size_of::<FreeNode>()
SLOT_ALIGN == 8

align_up(value, align) == ((value + align - 1) \div align) * align

\* Bug variant: no room for the padding of an aligned value.
required_slot_size_unpadded(layout) == align_up(HeaderSize + layout.size, SLOT_ALIGN)

\* Room for the header, the worst padding and the value.  The sums do not
\* overflow: a Layout is at most isize::MAX bytes.
required_slot_size(layout) ==
    align_up(Max({HeaderSize + (layout.align - 1) + layout.size, MIN_SLOT_SIZE}), SLOT_ALIGN)

\* place_header: the address returned for a slot; the header is just below.
UserAddress(slot) == align_up(slot.start + HeaderSize, slot.layout.align)

\* Bug variant: no ceiling.
BelowCeiling_none(bytes) == TRUE

\* `used` may reach the ceiling, which the reservation as it is now lowers.
BelowCeiling(bytes) == bytes <= allocated - locked_size

\* Bug variant: the start of a slot is compared with the capacity, not its end.
InArena_start(start, size) == start < allocated

InArena(start, size) == start + size <= allocated

\* Bug variant: the remainder of a split slot keeps the size of the whole.
Remainder_whole(node, needed) == [start |-> node.start + needed, size |-> node.size]

\* What a split leaves on the list.
Remainder(node, needed) == [start |-> node.start + needed, size |-> node.size - needed]

\* Bug variant: the excess is forgotten.
Excess_dropped(node, needed) == 0

\* What a slot that is too small to split has beyond what was asked for.
Excess(node, needed) == node.size - needed

Slot(start, size, layout) == [start |-> start, size |-> size, layout |-> layout]
Node(start, size) == [start |-> start, size |-> size]

-----------------------------------------------------------------------------
Idle == [pc |-> "idle", layout |-> None, val |-> 0, node |-> None]

Init ==
    /\ ready = FALSE /\ allocated = 0
    /\ used = 0 /\ offset = 0 /\ locked_size = 0
    /\ free_list = << >> /\ live = {}
    /\ thread = [t \in Threads |-> Idle]
    /\ dealloc_count = 0 /\ requested = FALSE /\ defrag = "wait"

\* init publishes the base first, then the capacity.
InitBase ==
    /\ ~ready
    /\ ready' = TRUE
    /\ UNCHANGED <<allocated, used, locked_size, memory, thread, defragging>>

InitCapacity ==
    /\ ready /\ allocated = 0
    /\ allocated' = Capacity
    /\ UNCHANGED <<ready, used, locked_size, memory, thread, defragging>>

At(t, pc) == thread[t].pc = pc
Goto(t, pc, val) == thread' = [thread EXCEPT ![t].pc = pc, ![t].val = val]
Return(t) == thread' = [thread EXCEPT ![t] = Idle]
Needed(t) == required_slot_size(thread[t].layout)

-----------------------------------------------------------------------------
(***************************************************************************)
(* alloc.                                                                  *)
(***************************************************************************)

\* alloc, and the first load of `used` in reserve_used.  With no capacity yet
\* the allocation is refused: nothing changes.
alloc(t, layout) ==
    /\ At(t, "idle") /\ ready /\ allocated > 0
    /\ thread' = [thread EXCEPT ![t] = [@ EXCEPT !.pc = "check", !.layout = layout, !.val = used]]
    /\ UNCHANGED <<ready, allocated, used, locked_size, memory, defragging>>

\* A value above the ceiling: null.
reserve_used_check(t) ==
    /\ At(t, "check")
    /\ IF BelowCeiling(thread[t].val + Needed(t))
         THEN Goto(t, "swap", thread[t].val) ELSE Return(t)
    /\ UNCHANGED <<ready, allocated, used, locked_size, memory, defragging>>

\* compare_exchange_weak: it fails when `used` has changed, and may fail
\* when it has not.
reserve_used_swap(t) ==
    /\ At(t, "swap")
    /\ \/ /\ used = thread[t].val
          /\ used' = used + Needed(t)
          /\ Goto(t, "list", 0)
       \/ /\ Goto(t, "check", used)
          /\ UNCHANGED used
    /\ UNCHANGED <<ready, allocated, locked_size, memory, defragging>>

\* First fit.  What is left of the slot stays in its place on the list when
\* it can hold a node; otherwise the slot is used whole.
alloc_from_free_list(t) ==
    LET needed == Needed(t)
        fits   == {i \in 1..Len(free_list) : free_list[i].size >= needed}
        i      == Min(fits)
        node   == free_list[i]
        split  == node.size - needed >= MIN_SLOT_SIZE
    IN  /\ At(t, "list")
        /\ IF fits = {}
             THEN Goto(t, "bump", 0) /\ UNCHANGED <<free_list, live>>
           ELSE IF split
             THEN /\ free_list' = [free_list EXCEPT ![i] = Remainder(node, needed)]
                  /\ live' = live \cup {Slot(node.start, needed, thread[t].layout)}
                  /\ Return(t)
             ELSE /\ free_list' = RemoveAt(free_list, i)
                  /\ thread' = [thread EXCEPT ![t].pc = "excess", ![t].node = node]
                  /\ UNCHANGED live
        /\ UNCHANGED <<ready, allocated, used, locked_size, offset, defragging>>

\* A slot used whole: `used` grows by what was not asked for, without a check
\* and after the mutex is given back.
add_excess(t) ==
    LET node == thread[t].node
    IN  /\ At(t, "excess")
        /\ used' = used + Excess(node, Needed(t))
        /\ live' = live \cup {Slot(node.start, node.size, thread[t].layout)}
        /\ Return(t)
        /\ UNCHANGED <<ready, allocated, locked_size, offset, free_list, defragging>>

\* Load, check and compare-and-swap of `offset` are one step: it only grows,
\* so a check that fails stays failed and a swap that fails is tried again.
alloc_from_bump(t) ==
    LET start == align_up(offset, SLOT_ALIGN)
    IN  /\ At(t, "bump")
        /\ IF InArena(start, Needed(t))
             THEN /\ offset' = start + Needed(t)
                  /\ live' = live \cup {Slot(start, Needed(t), thread[t].layout)}
                  /\ Return(t)
             ELSE Goto(t, "undo", 0) /\ UNCHANGED <<offset, live>>
        /\ UNCHANGED <<ready, allocated, used, locked_size, free_list, defragging>>

\* No slot: the promise is taken back, null is returned.
undo_reserve(t) ==
    /\ At(t, "undo")
    /\ used' = used - Needed(t)
    /\ Return(t)
    /\ UNCHANGED <<ready, allocated, locked_size, memory, defragging>>

-----------------------------------------------------------------------------
(***************************************************************************)
(* dealloc.                                                                *)
(***************************************************************************)

\* The header gives the slot back its bounds; the slot becomes the head of
\* the list.
dealloc(t, slot) ==
    /\ At(t, "idle")
    /\ live' = live \ {slot}
    /\ free_list' = <<Node(slot.start, slot.size)>> \o free_list
    /\ Goto(t, "release", slot.size)
    /\ UNCHANGED <<ready, allocated, used, locked_size, offset, defragging>>

release_used(t) ==
    /\ At(t, "release")
    /\ used' = used - thread[t].val
    /\ Goto(t, "count", 0)
    /\ UNCHANGED <<ready, allocated, locked_size, memory, defragging>>

\* Every DefragEvery-th free sets the flag and notifies the condition variable.
count_dealloc(t) ==
    /\ At(t, "count")
    /\ dealloc_count' = (dealloc_count + 1) % DefragEvery
    /\ requested' = (requested \/ dealloc_count = DefragEvery - 1)
    /\ Return(t)
    /\ UNCHANGED <<ready, allocated, used, locked_size, memory, defrag>>

-----------------------------------------------------------------------------
(***************************************************************************)
(* The reservation, moved by the server.                                   *)
(***************************************************************************)

\* The check; a size that does not fit changes nothing.
set_locked_size(t, size) ==
    /\ At(t, "idle")
    /\ used + size <= allocated
    /\ Goto(t, "store", size)
    /\ UNCHANGED <<ready, allocated, used, locked_size, memory, defragging>>

\* The store, after which `used` may have moved.
store_locked_size(t) ==
    /\ At(t, "store")
    /\ locked_size' = thread[t].val
    /\ Return(t)
    /\ UNCHANGED <<ready, allocated, used, memory, defragging>>

-----------------------------------------------------------------------------
(***************************************************************************)
(* The arena-defrag thread.                                                *)
(***************************************************************************)

\* Puts a node before the first one that is not below it.
InsertSorted(nodes, node) ==
    LET i == Min({i \in 1..Len(nodes) : nodes[i].start >= node.start} \cup {Len(nodes) + 1})
    IN  InsertAt(nodes, i, node)

Sorted(nodes) ==
    LET sorted[i \in 0..Len(nodes)] ==
          IF i = 0 THEN << >> ELSE InsertSorted(sorted[i - 1], nodes[i])
    IN  sorted[Len(nodes)]

\* Appends a node, or adds it to the last one when it begins where that ends.
Merge(nodes, node) ==
    IF nodes # << >> /\ Last(nodes).start + Last(nodes).size = node.start
      THEN [nodes EXCEPT ![Len(nodes)].size = @ + node.size]
      ELSE Append(nodes, node)

Merged(nodes) ==
    LET merged[i \in 0..Len(nodes)] ==
          IF i = 0 THEN << >> ELSE Merge(merged[i - 1], nodes[i])
    IN  merged[Len(nodes)]

\* Sorted by address, neighbours merged.
Defragmented(nodes) == Merged(Sorted(nodes))

take_request ==
    /\ DefragThread /\ defrag = "wait" /\ requested
    /\ requested' = FALSE
    /\ defrag' = "run"
    /\ UNCHANGED <<ready, allocated, used, locked_size, memory, thread, dealloc_count>>

defragment ==
    /\ defrag = "run"
    /\ free_list' = Defragmented(free_list)
    /\ defrag' = "wait"
    /\ UNCHANGED <<ready, allocated, used, locked_size, offset, live, thread, dealloc_count, requested>>

-----------------------------------------------------------------------------
\* The next step of a call that is under way.
Step(t) ==
    \/ reserve_used_check(t) \/ reserve_used_swap(t)
    \/ alloc_from_free_list(t) \/ add_excess(t) \/ alloc_from_bump(t) \/ undo_reserve(t)
    \/ release_used(t) \/ count_dealloc(t) \/ store_locked_size(t)

Next ==
    \/ InitBase \/ InitCapacity
    \/ \E t \in Threads :
         \/ Step(t)
         \/ \E layout \in Layouts : alloc(t, layout)
         \/ \E slot \in live : dealloc(t, slot)
         \/ \E size \in Reservations : set_locked_size(t, size)
    \/ take_request \/ defragment

Spec == Init /\ [][Next]_vars

-----------------------------------------------------------------------------
\* Type invariant: `used` never wraps below 0, and nothing outside the arena
\* is ever handed out.
TypeOK ==
    /\ ready \in BOOLEAN /\ allocated \in {0, Capacity}
    /\ used \in Nat /\ offset \in 0..Capacity /\ locked_size \in Reservations \cup {0}
    /\ free_list \in Seq([start : 0..Capacity, size : MIN_SLOT_SIZE..Capacity])
    /\ live \subseteq [start : 0..Capacity, size : MIN_SLOT_SIZE..Capacity, layout : Layouts]
    /\ thread \in [Threads ->
          [pc : {"idle", "check", "swap", "list", "excess", "bump", "undo", "release", "count", "store"},
           layout : Layouts \cup {None}, val : Nat,
           node : [start : 0..Capacity, size : MIN_SLOT_SIZE..Capacity] \cup {None}]]
    /\ dealloc_count \in 0..(DefragEvery - 1)
    /\ requested \in BOOLEAN /\ defrag \in {"wait", "run"}

\* Who has the word at address a: a value, the free list, or a thread that
\* has taken a slot off the list.
Owners(a) ==
    LET Covers(s) == s.start <= a /\ a < s.start + s.size
    IN  {<<"live", s>> : s \in {s \in live : Covers(s)}}
        \cup {<<"free", i>> : i \in {i \in 1..Len(free_list) : Covers(free_list[i])}}
        \cup {<<"thread", t>> : t \in {t \in Threads : At(t, "excess") /\ Covers(thread[t].node)}}

\* Each word below the bump pointer has exactly one owner, and no word above
\* it has one: no two values overlap, no freed slot is lost or listed twice,
\* whatever splits, merges and defragmentations interleave with allocations
\* (alloc_from_free_list, dealloc, defragment, allocator.rs:167-201, 103-145,
\* 334-363).
OneOwner ==
    \A w \in 0..((Capacity \div SLOT_ALIGN) - 1) :
        Cardinality(Owners(w * SLOT_ALIGN)) = IF w * SLOT_ALIGN < offset THEN 1 ELSE 0

\* A value and its header lie inside its slot at an aligned address, also in a
\* reused slot whose start is aligned to 8 bytes only (required_slot_size and
\* place_header, allocator.rs:57-75).
ValueFits ==
    \A s \in live :
        LET addr == UserAddress(s)
        IN  /\ addr % s.layout.align = 0
            /\ s.start <= addr - HeaderSize
            /\ addr + s.layout.size <= s.start + s.size

\* What a call under way has added to `used` for a slot that is not live.
Owed(t) ==
    CASE thread[t].pc \in {"list", "excess", "bump", "undo"} -> Needed(t)
      [] thread[t].pc = "release"                            -> thread[t].val
      [] OTHER                                               -> 0

\* `used` is the size of the live slots plus what calls under way owe: it is
\* updated outside the mutex of the free list, at six places, and still no
\* byte is counted twice or forgotten.
UsedIsExact ==
    used = MapThenSumSet(LAMBDA s : s.size, live) + MapThenSumSet(Owed, Threads)

\* get_free_mem_size (allocator.rs:268-276) subtracts `used` from the
\* capacity.  It can wrap only while calls are under way, by at most the
\* excess of one slot per thread; with no call under way `used` is at most
\* what was ever handed out.  (More cannot be said: the ceiling of reserve_used
\* is older than the exchange it guards, set_locked_size stores what it checked
\* earlier, and the excess of a slot is added without a check, so that the
\* headroom of CHANGELOG.md:12-13 is not always there.)
FreeMemory ==
    /\ used - allocated <= Cardinality(Threads) * (MIN_SLOT_SIZE - SLOT_ALIGN)
    /\ (\A t \in Threads : Owed(t) = 0) => used <= offset
=============================================================================
