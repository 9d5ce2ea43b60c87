--------------------------- MODULE RegistryProofs ---------------------------
(***************************************************************************)
(* Proofs that the invariants of module Registry hold for any number of    *)
(* handlers, names and queues.                                             *)
(*                                                                         *)
(* The invariant says which handlers have asked for a lock and which have  *)
(* it, from where each handler is (LockOK).  A granted write excludes      *)
(* every other grant, so that the handler between the two updates of       *)
(* CreateQ or DeleteQ is the only one that looks at the maps.              *)
(***************************************************************************)
EXTENDS Registry, Facts

-----------------------------------------------------------------------------
(***************************************************************************)
(* A lock: its requests are those of the users, each of whom has one, in   *)
(* the mode its command calls for; the holders are granted theirs.         *)
(***************************************************************************)
Requests == [task : Tasks, mode : {"read", "write"}]

LockOK(lock, users, holders, writers) ==
    /\ lock \in Seq(Requests)
    /\ \A t \in Tasks : t \in users <=> \E i \in 1..Len(lock) : lock[i].task = t
    /\ \A i, j \in 1..Len(lock) : lock[i].task = lock[j].task => i = j
    /\ \A i \in 1..Len(lock) : lock[i].mode = "write" <=> lock[i].task \in writers
    /\ \A t \in holders : Granted(lock, t)

\* Two sets of tasks that differ in t at most.
SameBut(A, B, t) == \A u \in Tasks \ {t} : u \in A <=> u \in B

\* What giving a lock back does to the sequence of requests.
LEMMA ReleaseIs ==
    ASSUME NEW lock \in Seq(Requests), NEW t, \E i \in 1..Len(lock) : lock[i].task = t
    PROVE  \E k \in 1..Len(lock) :
             /\ lock[k].task = t
             /\ Release(lock, t) \in Seq(Requests)
             /\ Len(Release(lock, t)) = Len(lock) - 1
             /\ \A j \in 1..(Len(lock) - 1) :
                  Release(lock, t)[j] = IF j < k THEN lock[j] ELSE lock[j + 1]
<1> DEFINE S == {i \in 1..Len(lock) : lock[i].task = t}
           k == Min(S)
<1>1. k \in S
  <2>1. S \in SUBSET Nat /\ S # {}
    OBVIOUS
  <2> HIDE DEF S
  <2> QED BY <2>1, MinIsLeast
<1>2. Release(lock, t) = SubSeq(lock, 1, k - 1) \o SubSeq(lock, k + 1, Len(lock))
  BY <1>1 DEF Release, RemoveFirstMatch, SelectInSeq, RemoveAt
<1>3. k \in 1..Len(lock) /\ lock[k].task = t
  BY <1>1
<1> HIDE DEF k
<1> DEFINE new == Release(lock, t)
<1>4. IsCut(new, lock, k)
  BY <1>2 DEF IsCut
<1> HIDE DEF new
<1>5. /\ new \in Seq(Requests)
      /\ Len(new) = Len(lock) - 1
      /\ \A j \in 1..(Len(lock) - 1) : new[j] = IF j < k THEN lock[j] ELSE lock[j + 1]
  BY <1>3, <1>4, CutOut
<1> QED
  BY <1>3, <1>5, Zenon DEF new

\* A task asks for a lock: nobody loses a grant.
LEMMA AcquireOK ==
    ASSUME NEW lock, NEW U, NEW H, NEW W, LockOK(lock, U, H, W),
           NEW t \in Tasks \ U, NEW mode \in {"read", "write"},
           NEW U2, NEW H2, NEW W2, H \subseteq U, H2 \subseteq U2, H2 \subseteq Tasks,
           SameBut(U, U2, t), SameBut(H, H2, t), SameBut(W, W2, t),
           t \in U2, t \notin H2, mode = "write" <=> t \in W2
    PROVE  LockOK(Acquire(lock, t, mode), U2, H2, W2)
<1> DEFINE r == [task |-> t, mode |-> mode]
           new == Append(lock, r)
<1>1. r \in Requests /\ r.task = t /\ r.mode = mode
  BY DEF Requests
<1>2. lock \in Seq(Requests)
  BY DEF LockOK
<1> HIDE DEF r
<1>3. /\ new \in Seq(Requests) /\ Len(new) = Len(lock) + 1
      /\ \A i \in 1..Len(lock) : new[i] = lock[i]
      /\ new[Len(lock) + 1] = r
  BY <1>1, <1>2
<1>4. Acquire(lock, t, mode) = new
  BY DEF Acquire, r
<1> HIDE DEF new
<1>5. \A i \in 1..Len(lock) : lock[i].task \in Tasks /\ lock[i].task # t
  <2>1. \A i \in 1..Len(lock) : lock[i] \in Requests
    BY <1>2
  <2>2. \A i \in 1..Len(lock) : lock[i].task \in Tasks
    BY <2>1 DEF Requests
  <2> QED BY <2>2 DEF LockOK
<1>6. ASSUME NEW u \in Tasks PROVE u \in U2 <=> \E i \in 1..Len(new) : new[i].task = u
  <2>1. CASE u = t
    BY <2>1, <1>1, <1>2, <1>3
  <2>2. CASE u # t
    <3>1. u \in U2 <=> \E i \in 1..Len(lock) : lock[i].task = u
      BY <2>2 DEF LockOK, SameBut
    <3>2. Len(lock) \in Nat
      BY <1>2
    <3> QED BY <3>1, <3>2, <2>2, <1>1, <1>3
  <2> QED BY <2>1, <2>2
<1>7. ASSUME NEW i \in 1..Len(new), NEW j \in 1..Len(new), new[i].task = new[j].task
      PROVE  i = j
  BY <1>1, <1>2, <1>3, <1>5, <1>7 DEF LockOK
<1>8. ASSUME NEW i \in 1..Len(new) PROVE new[i].mode = "write" <=> new[i].task \in W2
  <2>1. CASE i = Len(lock) + 1
    BY <2>1, <1>1, <1>3
  <2>2. CASE i \in 1..Len(lock)
    BY <2>2, <1>3, <1>5 DEF LockOK, SameBut
  <2> QED BY <2>1, <2>2, <1>2, <1>3
<1>9. ASSUME NEW u \in H2 PROVE Granted(new, u)
  <2>1. Granted(lock, u)
    BY DEF LockOK, SameBut
  <2>2. PICK i \in 1..Len(lock) :
             /\ lock[i].task = u
             /\ lock[i].mode = "write" => i = 1
             /\ \A j \in 1..(i - 1) : lock[j].mode = "read"
    BY <2>1 DEF Granted
  <2>3. i \in 1..Len(new) /\ new[i] = lock[i] /\ \A j \in 1..(i - 1) : new[j] = lock[j]
    BY <1>2, <1>3
  <2> QED BY <2>2, <2>3 DEF Granted
<1> QED
  BY <1>3, <1>4, <1>6, <1>7, <1>8, <1>9 DEF LockOK

\* A task gives its lock back: nobody loses a grant.
LEMMA ReleaseOK ==
    ASSUME NEW lock, NEW U, NEW H, NEW W, LockOK(lock, U, H, W),
           NEW t \in Tasks, t \in U,
           NEW U2, NEW H2, NEW W2, H2 \subseteq Tasks,
           SameBut(U, U2, t), SameBut(H, H2, t), SameBut(W, W2, t),
           t \notin U2, t \notin H2
    PROVE  LockOK(Release(lock, t), U2, H2, W2)
<1> DEFINE new == Release(lock, t)
<1>1. lock \in Seq(Requests) /\ \E i \in 1..Len(lock) : lock[i].task = t
  BY DEF LockOK
<1>2. PICK k \in 1..Len(lock) :
             /\ lock[k].task = t
             /\ new \in Seq(Requests)
             /\ Len(new) = Len(lock) - 1
             /\ \A j \in 1..(Len(lock) - 1) : new[j] = IF j < k THEN lock[j] ELSE lock[j + 1]
  BY <1>1, ReleaseIs
<1> HIDE DEF new
<1> DEFINE Old(j) == IF j < k THEN j ELSE j + 1
<1>3. Len(lock) \in Nat
  BY <1>1
<1>4. ASSUME NEW j \in 1..Len(new) PROVE Old(j) \in 1..Len(lock) /\ new[j] = lock[Old(j)] /\ Old(j) # k
  BY <1>2, <1>3
<1>5. ASSUME NEW i \in 1..Len(lock), i # k PROVE \E j \in 1..Len(new) : Old(j) = i
  <2>1. CASE i < k
    BY <2>1, <1>2, <1>3
  <2>2. CASE i > k
    <3>1. i - 1 \in 1..Len(new) /\ Old(i - 1) = i
      BY <2>2, <1>2, <1>3
    <3> QED BY <3>1
  <2> QED BY <2>1, <2>2, <1>5
<1>6. \A i, j \in 1..Len(lock) : lock[i].task = lock[j].task => i = j
  BY DEF LockOK
<1>7. ASSUME NEW j \in 1..Len(new) PROVE new[j].task \in Tasks /\ new[j].task # t
  <2>1. new[j] \in Requests
    BY <1>2
  <2>2. new[j].task # t
    <3> HIDE DEF Old
    <3> QED BY <1>2, <1>4, <1>6
  <2> QED BY <2>1, <2>2 DEF Requests
<1>8. \A i, j \in 1..Len(new) : Old(i) = Old(j) => i = j
  BY <1>2, <1>3
<1>9. \A i, j \in 1..Len(new) : i < j => Old(i) < Old(j)
  BY <1>2, <1>3
<1>9a. \A j \in 1..Len(new) : Old(j) = 1 => j = 1
  BY <1>2, <1>3
<1> HIDE DEF Old
<1>10. ASSUME NEW u \in Tasks PROVE u \in U2 <=> \E i \in 1..Len(new) : new[i].task = u
  <2>1. CASE u = t
    BY <2>1, <1>7
  <2>2. CASE u # t
    <3>1. u \in U2 <=> \E i \in 1..Len(lock) : lock[i].task = u
      BY <2>2 DEF LockOK, SameBut
    <3>2. ASSUME NEW i \in 1..Len(lock), lock[i].task = u PROVE \E j \in 1..Len(new) : new[j].task = u
      BY <3>2, <2>2, <1>2, <1>4, <1>5
    <3>3. ASSUME NEW j \in 1..Len(new), new[j].task = u PROVE \E i \in 1..Len(lock) : lock[i].task = u
      BY <3>3, <1>4
    <3> QED BY <3>1, <3>2, <3>3
  <2> QED BY <2>1, <2>2
<1>11. ASSUME NEW i \in 1..Len(new), NEW j \in 1..Len(new), new[i].task = new[j].task
       PROVE  i = j
  BY <1>4, <1>6, <1>8, <1>11
<1>12. ASSUME NEW i \in 1..Len(new) PROVE new[i].mode = "write" <=> new[i].task \in W2
  BY <1>4, <1>7 DEF LockOK, SameBut
<1>13. ASSUME NEW u \in H2 PROVE Granted(new, u)
  <2>1. Granted(lock, u) /\ u # t
    BY DEF LockOK, SameBut
  <2>2. PICK i \in 1..Len(lock) :
             /\ lock[i].task = u
             /\ lock[i].mode = "write" => i = 1
             /\ \A j \in 1..(i - 1) : lock[j].mode = "read"
    BY <2>1 DEF Granted
  <2>3. i # k
    BY <2>1, <2>2, <1>2
  <2>4. PICK j \in 1..Len(new) : Old(j) = i
    BY <2>3, <1>5
  <2>5. new[j].task = u /\ (new[j].mode = "write" => j = 1)
    BY <2>2, <2>4, <1>4, <1>9a
  <2>6. ASSUME NEW m \in 1..(j - 1) PROVE new[m].mode = "read"
    <3>1. m \in 1..Len(new) /\ m < j
      BY <1>2, <1>3
    <3>2. Old(m) \in 1..(i - 1)
      BY <3>1, <2>4, <1>4, <1>9, <1>3
    <3> QED BY <3>1, <3>2, <2>2, <1>4
  <2> QED BY <2>5, <2>6 DEF Granted
<1> QED
  BY <1>2, <1>10, <1>11, <1>12, <1>13 DEF LockOK, new

\* A lock that is neither asked for nor given back: its owner may learn that
\* it is granted.
LEMMA KeepOK ==
    ASSUME NEW lock, NEW U, NEW H, NEW W, LockOK(lock, U, H, W),
           NEW t \in Tasks,
           NEW U2, NEW H2, NEW W2, H2 \subseteq Tasks,
           SameBut(U, U2, t), SameBut(H, H2, t), SameBut(W, W2, t),
           t \in U <=> t \in U2, t \in H2 => t \in H \/ Granted(lock, t),
           t \in U => (t \in W <=> t \in W2)
    PROVE  LockOK(lock, U2, H2, W2)
<1>1. lock \in Seq(Requests) /\ Len(lock) \in Nat
  BY DEF LockOK
<1>2. \A i \in 1..Len(lock) : lock[i].task \in Tasks
  <2>1. \A i \in 1..Len(lock) : lock[i] \in Requests
    BY <1>1
  <2> QED BY <2>1 DEF Requests
<1>3. \A u \in Tasks : u \in U2 <=> \E i \in 1..Len(lock) : lock[i].task = u
  BY DEF LockOK, SameBut
<1>4. ASSUME NEW i \in 1..Len(lock) PROVE lock[i].mode = "write" <=> lock[i].task \in W2
  <2>1. CASE lock[i].task = t
    BY <2>1 DEF LockOK
  <2>2. CASE lock[i].task # t
    BY <2>2, <1>2 DEF LockOK, SameBut
  <2> QED BY <2>1, <2>2
<1>5. \A u \in H2 : Granted(lock, u)
  BY DEF LockOK, SameBut
<1> QED
  BY <1>1, <1>3, <1>4, <1>5 DEF LockOK

\* A writer that is granted the lock excludes everyone else.
LEMMA Exclusive ==
    ASSUME NEW lock, NEW U, NEW H, NEW W, LockOK(lock, U, H, W),
           NEW t \in W, Granted(lock, t), NEW u \in H
    PROVE  u = t
<1>1. PICK i \in 1..Len(lock) :
           /\ lock[i].task = t
           /\ lock[i].mode = "write" => i = 1
  BY DEF Granted
<1>2. PICK j \in 1..Len(lock) :
           /\ lock[j].task = u
           /\ \A m \in 1..(j - 1) : lock[m].mode = "read"
  BY DEF LockOK, Granted
<1>3. i = 1 /\ lock[1].mode = "write"
  BY <1>1 DEF LockOK
<1>4. j = 1
  <2> SUFFICES ASSUME j > 1 PROVE FALSE
    BY <1>2
  <2>1. 1 \in 1..(j - 1)
    BY <1>2
  <2> QED BY <2>1, <1>2, <1>3
<1> QED BY <1>1, <1>2, <1>3, <1>4

-----------------------------------------------------------------------------
(***************************************************************************)
(* The inductive invariant.                                                *)
(***************************************************************************)
Writing(k) == k.cmd \in {"CreateQ", "DeleteQ"}

\* A handler that has asked for the lock of queue_names, and one that has it.
UsesNames(k) ==
    \/ k.cmd = "Queue" /\ k.pc = "lookup"
    \/ Writing(k) /\ k.pc \in {"first", "second", "half"}
    \/ k.cmd = "ListM" /\ k.pc = "first"
    \/ k.cmd = "NetStats" /\ k.pc \in {"first", "second"}
HoldsNames(k) ==
    \/ Writing(k) /\ k.pc \in {"second", "half"}
    \/ k.cmd = "NetStats" /\ k.pc = "second"

\* The same for the lock of queue.
UsesQueue(k) ==
    \/ k.cmd = "Queue" /\ k.pc \in {"first", "lookup", "work"}
    \/ Writing(k) /\ k.pc \in {"second", "half"}
    \/ k.cmd \in {"ListM", "NetStats"} /\ k.pc = "second"
HoldsQueue(k) ==
    \/ k.cmd = "Queue" /\ k.pc \in {"lookup", "work"}
    \/ Writing(k) /\ k.pc = "half"

\* The users and holders of the two locks.
NamesUsers == {t \in Tasks : UsesNames(task[t])}
NamesHolders == {t \in Tasks : HoldsNames(task[t])}
QueueUsers == {t \in Tasks : UsesQueue(task[t])}
QueueHolders == {t \in Tasks : HoldsQueue(task[t])}
Writers == {t \in Tasks : Writing(task[t])}

\* The places only one kind of handler comes to; a request has a name.
PlacesOK ==
    \A t \in Tasks :
        /\ ~At(t, "idle") => task[t].name \in Names
        /\ At(t, "lookup") => task[t].cmd = "Queue"
        /\ At(t, "half") => Writing(task[t])

LocksOK ==
    /\ LockOK(names_lock, NamesUsers, NamesHolders, Writers)
    /\ LockOK(queue_lock, QueueUsers, QueueHolders, Writers)

\* Names lead to different queues.  A name leads to a queue unless its CreateQ
\* is half done; DeleteQ has taken the name away before the queue.
MapsAgree ==
    /\ \A m, n \in DOMAIN queue_names : queue_names[m] = queue_names[n] => m = n
    /\ \A n \in DOMAIN queue_names :
         \/ queue_names[n] \in queue
         \/ \E t \in Tasks : At(t, "half") /\ Writing(task[t]) /\ task[t].hash = queue_names[n]
    /\ \A t \in Tasks : At(t, "half") =>
         \/ task[t].cmd = "CreateQ" /\ task[t].hash \in Range(queue_names)
         \/ task[t].cmd = "DeleteQ" /\ task[t].hash \notin Range(queue_names)

\* The inductive invariant.
RegistryInv ==
    /\ TypeOK /\ PlacesOK /\ LocksOK /\ MapsAgree
    /\ WorksOnRegistered /\ NoHalfRegistered

\* The states of a handler.
TaskRecords ==
    [pc : {"idle", "first", "lookup", "second", "half", "work"},
     cmd : Commands \cup {None}, name : Names \cup {None}, hash : Hashes \cup {None}]

\* A step of handler t leaves the other handlers where they are.
OnlyTask(t) == \A u \in Tasks \ {t} : task'[u] = task[u]

\* Then only t can enter or leave the users and the holders of a lock.
LEMMA SetsOfOthers ==
    ASSUME NEW t \in Tasks, OnlyTask(t)
    PROVE  /\ SameBut(NamesUsers, NamesUsers', t) /\ SameBut(NamesHolders, NamesHolders', t)
           /\ SameBut(QueueUsers, QueueUsers', t) /\ SameBut(QueueHolders, QueueHolders', t)
           /\ SameBut(Writers, Writers', t)
           /\ NamesHolders \subseteq NamesUsers /\ QueueHolders \subseteq QueueUsers
           /\ NamesHolders' \subseteq NamesUsers' /\ QueueHolders' \subseteq QueueUsers'
           /\ NamesHolders' \subseteq Tasks /\ QueueHolders' \subseteq Tasks
           /\ t \in NamesUsers <=> UsesNames(task[t])
           /\ t \in NamesHolders <=> HoldsNames(task[t])
           /\ t \in QueueUsers <=> UsesQueue(task[t])
           /\ t \in QueueHolders <=> HoldsQueue(task[t])
           /\ t \in Writers <=> Writing(task[t])
           /\ t \in NamesUsers' <=> UsesNames(task'[t])
           /\ t \in NamesHolders' <=> HoldsNames(task'[t])
           /\ t \in QueueUsers' <=> UsesQueue(task'[t])
           /\ t \in QueueHolders' <=> HoldsQueue(task'[t])
           /\ t \in Writers' <=> Writing(task'[t])
<1>1. /\ SameBut(NamesUsers, NamesUsers', t) /\ SameBut(NamesHolders, NamesHolders', t)
      /\ SameBut(QueueUsers, QueueUsers', t) /\ SameBut(QueueHolders, QueueHolders', t)
      /\ SameBut(Writers, Writers', t)
  BY DEF OnlyTask, SameBut, NamesUsers, NamesHolders, QueueUsers, QueueHolders, Writers
<1>2. /\ NamesHolders \subseteq NamesUsers
      /\ NamesHolders' \subseteq NamesUsers'
  BY DEF NamesUsers, NamesHolders, HoldsNames, UsesNames, Writing
<1>3. /\ QueueHolders \subseteq QueueUsers
      /\ QueueHolders' \subseteq QueueUsers'
  BY DEF QueueUsers, QueueHolders, HoldsQueue, UsesQueue, Writing
<1> QED
  BY <1>1, <1>2, <1>3 DEF NamesUsers, NamesHolders, QueueUsers, QueueHolders, Writers

\* names_lock is left alone.
LEMMA NamesKept ==
    ASSUME NEW t \in Tasks, OnlyTask(t), LocksOK, names_lock' = names_lock,
           UsesNames(task[t]) <=> UsesNames(task'[t]),
           HoldsNames(task'[t]) => HoldsNames(task[t]) \/ Granted(names_lock, t),
           UsesNames(task[t]) => (Writing(task[t]) <=> Writing(task'[t]))
    PROVE  LockOK(names_lock, NamesUsers, NamesHolders, Writers)'
  BY SetsOfOthers, KeepOK DEF LocksOK

\* names_lock is asked for.
LEMMA NamesAcquired ==
    ASSUME NEW t \in Tasks, OnlyTask(t), LocksOK, NEW mode \in {"read", "write"},
           names_lock' = Acquire(names_lock, t, mode),
           ~UsesNames(task[t]), UsesNames(task'[t]), ~HoldsNames(task'[t]),
           mode = "write" <=> Writing(task'[t])
    PROVE  LockOK(names_lock, NamesUsers, NamesHolders, Writers)'
  BY SetsOfOthers, AcquireOK DEF LocksOK

\* names_lock is given back.
LEMMA NamesReleased ==
    ASSUME NEW t \in Tasks, OnlyTask(t), LocksOK, names_lock' = Release(names_lock, t),
           UsesNames(task[t]), ~UsesNames(task'[t])
    PROVE  LockOK(names_lock, NamesUsers, NamesHolders, Writers)'
  BY SetsOfOthers, ReleaseOK DEF LocksOK

\* queue_lock is left alone.
LEMMA QueueKept ==
    ASSUME NEW t \in Tasks, OnlyTask(t), LocksOK, queue_lock' = queue_lock,
           UsesQueue(task[t]) <=> UsesQueue(task'[t]),
           HoldsQueue(task'[t]) => HoldsQueue(task[t]) \/ Granted(queue_lock, t),
           UsesQueue(task[t]) => (Writing(task[t]) <=> Writing(task'[t]))
    PROVE  LockOK(queue_lock, QueueUsers, QueueHolders, Writers)'
  BY SetsOfOthers, KeepOK DEF LocksOK

\* queue_lock is asked for.
LEMMA QueueAcquired ==
    ASSUME NEW t \in Tasks, OnlyTask(t), LocksOK, NEW mode \in {"read", "write"},
           queue_lock' = Acquire(queue_lock, t, mode),
           ~UsesQueue(task[t]), UsesQueue(task'[t]), ~HoldsQueue(task'[t]),
           mode = "write" <=> Writing(task'[t])
    PROVE  LockOK(queue_lock, QueueUsers, QueueHolders, Writers)'
  BY SetsOfOthers, AcquireOK DEF LocksOK

\* queue_lock is given back.
LEMMA QueueReleased ==
    ASSUME NEW t \in Tasks, OnlyTask(t), LocksOK, queue_lock' = Release(queue_lock, t),
           UsesQueue(task[t]), ~UsesQueue(task'[t])
    PROVE  LockOK(queue_lock, QueueUsers, QueueHolders, Writers)'
  BY SetsOfOthers, ReleaseOK DEF LocksOK

-----------------------------------------------------------------------------
(***************************************************************************)
(* Every action keeps the locks in order.                                  *)
(***************************************************************************)

\* An action of t changes the record of t alone, to what it says.
LEMMA TaskIsSet ==
    ASSUME NEW t \in Tasks, task \in [Tasks -> TaskRecords], NEW r,
           task' = [task EXCEPT ![t] = r]
    PROVE  OnlyTask(t) /\ task'[t] = r
  BY DEF OnlyTask

\* Every step of a handler, whatever the others do, leaves each lock with the
\* requests and grants that the places of the handlers call for.
LEMMA LocksStep ==
    ASSUME NEW t \in Tasks, TypeOK, PlacesOK, LocksOK,
           Step(t) \/ \E cmd \in Commands, name \in Names : Start(t, cmd, name)
    PROVE  LocksOK' /\ OnlyTask(t)
<1> USE DEF UsesNames, HoldsNames, UsesQueue, HoldsQueue, Writing
<1> DEFINE k == task[t]
<1>1. task \in [Tasks -> TaskRecords] /\ k \in TaskRecords
  BY DEF TypeOK, TaskRecords
<1>2. ASSUME NEW cmd \in Commands, NEW name \in Names, Start(t, cmd, name)
      PROVE  LocksOK' /\ OnlyTask(t)
  <2>1. OnlyTask(t) /\ task'[t] = [pc |-> "first", cmd |-> cmd, name |-> name, hash |-> None]
    BY <1>1, <1>2, TaskIsSet DEF Start
  <2>2. task'[t].pc = "first" /\ task'[t].cmd = cmd /\ task[t].pc = "idle"
    BY <1>2, <2>1 DEF Start, At
  <2>3. CASE cmd = "Queue"
    <3>1. LockOK(names_lock, NamesUsers, NamesHolders, Writers)'
      BY <1>2, <2>1, <2>2, <2>3, NamesKept DEF Start
    <3>2. LockOK(queue_lock, QueueUsers, QueueHolders, Writers)'
      BY <1>2, <2>1, <2>2, <2>3, QueueAcquired DEF Start
    <3> QED BY <3>1, <3>2, <2>1 DEF LocksOK
  <2>4. CASE cmd # "Queue"
    <3>1. LockOK(names_lock, NamesUsers, NamesHolders, Writers)'
      BY <1>2, <2>1, <2>2, <2>4, NamesAcquired, RegistryAssumption DEF Start
    <3>2. LockOK(queue_lock, QueueUsers, QueueHolders, Writers)'
      BY <1>2, <2>1, <2>2, <2>4, QueueKept DEF Start
    <3> QED BY <3>1, <3>2, <2>1 DEF LocksOK
  <2> QED BY <2>3, <2>4
<1>3. ASSUME QueueEnter(t) PROVE LocksOK' /\ OnlyTask(t)
  <2>1. OnlyTask(t) /\ task'[t].pc = "lookup" /\ task'[t].cmd = k.cmd
    BY <1>1, <1>3 DEF OnlyTask, QueueEnter, Goto, TaskRecords
  <2>2. LockOK(names_lock, NamesUsers, NamesHolders, Writers)'
    BY <1>3, <2>1, NamesAcquired DEF QueueEnter, At, registry, locks
  <2>3. LockOK(queue_lock, QueueUsers, QueueHolders, Writers)'
    BY <1>3, <2>1, QueueKept DEF QueueEnter, At, registry, locks
  <2> QED BY <2>1, <2>2, <2>3 DEF LocksOK
<1>4. ASSUME QueueWork(t) PROVE LocksOK' /\ OnlyTask(t)
  <2>1. OnlyTask(t) /\ task'[t].pc = "idle"
    BY <1>1, <1>4 DEF OnlyTask, QueueWork, Answer, Idle
  <2>2. LockOK(names_lock, NamesUsers, NamesHolders, Writers)'
    BY <1>4, <2>1, NamesKept DEF QueueWork, At, registry, locks
  <2>3. LockOK(queue_lock, QueueUsers, QueueHolders, Writers)'
    BY <1>4, <2>1, QueueReleased DEF QueueWork, At, registry, locks
  <2> QED BY <2>1, <2>2, <2>3 DEF LocksOK
<1>5. ASSUME WriterEnter(t) PROVE LocksOK' /\ OnlyTask(t)
  <2>1. OnlyTask(t) /\ task'[t].pc = "second" /\ task'[t].cmd = k.cmd
    BY <1>1, <1>5 DEF OnlyTask, WriterEnter, Goto, TaskRecords
  <2>2. LockOK(names_lock, NamesUsers, NamesHolders, Writers)'
    BY <1>5, <2>1, NamesKept DEF WriterEnter, At, registry, locks
  <2>3. LockOK(queue_lock, QueueUsers, QueueHolders, Writers)'
    BY <1>5, <2>1, QueueAcquired DEF WriterEnter, At, registry, locks
  <2> QED BY <2>1, <2>2, <2>3 DEF LocksOK
<1>6. ASSUME WriteRejected(t) PROVE LocksOK' /\ OnlyTask(t)
  <2>1. OnlyTask(t) /\ task'[t].pc = "idle"
    BY <1>1, <1>6 DEF OnlyTask, WriteRejected, Answer, Idle
  <2>2. LockOK(names_lock, NamesUsers, NamesHolders, Writers)'
    BY <1>6, <2>1, NamesReleased DEF WriteRejected, At, registry, locks
  <2>3. LockOK(queue_lock, QueueUsers, QueueHolders, Writers)'
    BY <1>6, <2>1, QueueReleased DEF WriteRejected, At, registry, locks
  <2> QED BY <2>1, <2>2, <2>3 DEF LocksOK
<1>7. ASSUME InsertName(t) PROVE LocksOK' /\ OnlyTask(t)
  <2>1. OnlyTask(t) /\ task'[t].pc = "half" /\ task'[t].cmd = k.cmd
    BY <1>1, <1>7 DEF OnlyTask, InsertName, TaskRecords
  <2>2. LockOK(names_lock, NamesUsers, NamesHolders, Writers)'
    BY <1>7, <2>1, NamesKept DEF InsertName, At, registry, locks
  <2>3. LockOK(queue_lock, QueueUsers, QueueHolders, Writers)'
    BY <1>7, <2>1, QueueKept DEF InsertName, At, registry, locks
  <2> QED BY <2>1, <2>2, <2>3 DEF LocksOK
<1>8. ASSUME RemoveName(t) PROVE LocksOK' /\ OnlyTask(t)
  <2>1. OnlyTask(t) /\ task'[t].pc = "half" /\ task'[t].cmd = k.cmd
    BY <1>1, <1>8 DEF OnlyTask, RemoveName, TaskRecords
  <2>2. LockOK(names_lock, NamesUsers, NamesHolders, Writers)'
    BY <1>8, <2>1, NamesKept DEF RemoveName, At, registry, locks
  <2>3. LockOK(queue_lock, QueueUsers, QueueHolders, Writers)'
    BY <1>8, <2>1, QueueKept DEF RemoveName, At, registry, locks
  <2> QED BY <2>1, <2>2, <2>3 DEF LocksOK
<1>9. ASSUME WriteQueue(t) PROVE LocksOK' /\ OnlyTask(t)
  <2>1. OnlyTask(t) /\ task'[t].pc = "idle"
    BY <1>1, <1>9 DEF OnlyTask, WriteQueue, Answer, Idle
  <2>2. LockOK(names_lock, NamesUsers, NamesHolders, Writers)'
    BY <1>9, <2>1, NamesReleased DEF WriteQueue, At, PlacesOK
  <2>3. LockOK(queue_lock, QueueUsers, QueueHolders, Writers)'
    BY <1>9, <2>1, QueueReleased DEF WriteQueue, At, PlacesOK
  <2> QED BY <2>1, <2>2, <2>3 DEF LocksOK
<1>10. ASSUME ListWork(t) PROVE LocksOK' /\ OnlyTask(t)
  <2>1. OnlyTask(t) /\ task'[t].pc = "idle"
    BY <1>1, <1>10 DEF OnlyTask, ListWork, Answer, Idle
  <2>2. LockOK(names_lock, NamesUsers, NamesHolders, Writers)'
    BY <1>10, <2>1, NamesKept DEF ListWork, At, registry, locks
  <2>3. LockOK(queue_lock, QueueUsers, QueueHolders, Writers)'
    BY <1>10, <2>1, QueueKept DEF ListWork, At, registry, locks
  <2> QED BY <2>1, <2>2, <2>3 DEF LocksOK
<1>11. ASSUME StatsEnter(t) PROVE LocksOK' /\ OnlyTask(t)
  <2>1. OnlyTask(t) /\ task'[t].pc = "second" /\ task'[t].cmd = k.cmd
    BY <1>1, <1>11 DEF OnlyTask, StatsEnter, Goto, TaskRecords
  <2>2. LockOK(names_lock, NamesUsers, NamesHolders, Writers)'
    BY <1>11, <2>1, NamesKept DEF StatsEnter, At, registry, locks
  <2>3. LockOK(queue_lock, QueueUsers, QueueHolders, Writers)'
    BY <1>11, <2>1, QueueAcquired DEF StatsEnter, At, registry, locks
  <2> QED BY <2>1, <2>2, <2>3 DEF LocksOK
<1>12. ASSUME StatsWork(t) PROVE LocksOK' /\ OnlyTask(t)
  <2>1. OnlyTask(t) /\ task'[t].pc = "idle"
    BY <1>1, <1>12 DEF OnlyTask, StatsWork, Answer, Idle
  <2>2. LockOK(names_lock, NamesUsers, NamesHolders, Writers)'
    BY <1>12, <2>1, NamesReleased DEF StatsWork, At, registry, locks
  <2>3. LockOK(queue_lock, QueueUsers, QueueHolders, Writers)'
    BY <1>12, <2>1, QueueReleased DEF StatsWork, At, registry, locks
  <2> QED BY <2>1, <2>2, <2>3 DEF LocksOK
<1>13. ASSUME get_queue(t) PROVE LocksOK' /\ OnlyTask(t)
  <2> DEFINE hash == IF k.name \in DOMAIN queue_names THEN queue_names[k.name] ELSE None
  <2>0. k.pc = "lookup" /\ k.cmd = "Queue" /\ names_lock' = Release(names_lock, t)
    <3>1. At(t, "lookup") /\ names_lock' = Release(names_lock, t)
      BY <1>13 DEF get_queue
    <3> QED BY <3>1 DEF At, PlacesOK
  <2>1. CASE hash \in queue
    <3>1. OnlyTask(t) /\ task'[t].pc = "work" /\ task'[t].cmd = k.cmd
      BY <1>1, <1>13, <2>1 DEF OnlyTask, get_queue, TaskRecords
    <3>2. LockOK(names_lock, NamesUsers, NamesHolders, Writers)'
      BY <2>0, <3>1, NamesReleased
    <3>3. LockOK(queue_lock, QueueUsers, QueueHolders, Writers)'
      BY <1>13, <2>0, <2>1, <3>1, QueueKept DEF get_queue
    <3> QED BY <3>1, <3>2, <3>3 DEF LocksOK
  <2>2. CASE hash \notin queue
    <3>1. OnlyTask(t) /\ task'[t].pc = "idle"
      BY <1>1, <1>13, <2>2 DEF OnlyTask, get_queue, Answer, Idle
    <3>2. LockOK(names_lock, NamesUsers, NamesHolders, Writers)'
      BY <2>0, <3>1, NamesReleased
    <3>3. LockOK(queue_lock, QueueUsers, QueueHolders, Writers)'
      <4>1. queue_lock' = Release(queue_lock, t)
        BY <1>13, <2>2 DEF get_queue
      <4> QED BY <4>1, <2>0, <3>1, QueueReleased
    <3> QED BY <3>1, <3>2, <3>3 DEF LocksOK
  <2> QED BY <2>1, <2>2
<1>14. ASSUME ListNames(t) PROVE LocksOK' /\ OnlyTask(t)
  <2>1. CASE k.name \in DOMAIN queue_names
    <3>1. OnlyTask(t) /\ task'[t].pc = "second" /\ task'[t].cmd = k.cmd
      BY <1>1, <1>14, <2>1 DEF OnlyTask, ListNames, TaskRecords
    <3>2. LockOK(names_lock, NamesUsers, NamesHolders, Writers)'
      BY <1>14, <2>1, <3>1, NamesReleased DEF ListNames, At
    <3>3. LockOK(queue_lock, QueueUsers, QueueHolders, Writers)'
      BY <1>14, <2>1, <3>1, QueueAcquired DEF ListNames, At
    <3> QED BY <3>1, <3>2, <3>3 DEF LocksOK
  <2>2. CASE k.name \notin DOMAIN queue_names
    <3>1. OnlyTask(t) /\ task'[t].pc = "idle"
      BY <1>1, <1>14, <2>2 DEF OnlyTask, ListNames, Answer, Idle
    <3>2. LockOK(names_lock, NamesUsers, NamesHolders, Writers)'
      BY <1>14, <2>2, <3>1, NamesReleased DEF ListNames, At
    <3>3. LockOK(queue_lock, QueueUsers, QueueHolders, Writers)'
      BY <1>14, <2>2, <3>1, QueueKept DEF ListNames, At
    <3> QED BY <3>1, <3>2, <3>3 DEF LocksOK
  <2> QED BY <2>1, <2>2
<1>15. ASSUME ListQueue(t) PROVE LocksOK' /\ OnlyTask(t)
  <2>1. /\ OnlyTask(t)
        /\ \/ task'[t].pc = "idle"
           \/ task'[t].pc = "work" /\ task'[t].cmd = k.cmd
    BY <1>1, <1>15 DEF OnlyTask, ListQueue, Goto, Answer, Idle, TaskRecords
  <2>2. LockOK(names_lock, NamesUsers, NamesHolders, Writers)'
    BY <1>15, <2>1, NamesKept DEF ListQueue, At
  <2>3. LockOK(queue_lock, QueueUsers, QueueHolders, Writers)'
    BY <1>15, <2>1, QueueReleased DEF ListQueue, At
  <2> QED BY <2>1, <2>2, <2>3 DEF LocksOK
<1> QED
  BY <1>2, <1>3, <1>4, <1>5, <1>6, <1>7, <1>8, <1>9, <1>10, <1>11, <1>12, <1>13, <1>14, <1>15 DEF Step

-----------------------------------------------------------------------------
(***************************************************************************)
(* What the maps hold.                                                     *)
(***************************************************************************)

\* A writer with the lock of queue: no other handler has it.
LEMMA Alone ==
    ASSUME NEW t \in Tasks, LocksOK, Writing(task[t]), Granted(queue_lock, t)
    PROVE  \A u \in Tasks \ {t} : ~HoldsQueue(task[u])
<1>1. t \in Writers /\ LockOK(queue_lock, QueueUsers, QueueHolders, Writers)
  BY DEF Writers, LocksOK
<1>2. \A u \in QueueHolders : u = t
  BY <1>1, Exclusive
<1> QED BY <1>2 DEF QueueHolders

\* The handler between the two updates has the lock, and is alone.
LEMMA AloneAtHalf ==
    ASSUME NEW t \in Tasks, LocksOK, PlacesOK, At(t, "half")
    PROVE  \A u \in Tasks \ {t} : ~HoldsQueue(task[u])
<1>1. Writing(task[t])
  BY DEF PlacesOK
<1>2. Granted(queue_lock, t)
  BY <1>1 DEF LocksOK, LockOK, QueueHolders, HoldsQueue, At
<1> QED BY <1>1, <1>2, Alone

\* Steps that neither change the maps nor begin or end a half-done update.
LEMMA QuietStep ==
    ASSUME NEW t \in Tasks, MapsAgree, OnlyTask(t), UNCHANGED registry,
           task[t].pc # "half", task'[t].pc # "half"
    PROVE  MapsAgree'
<1>1. \A u \in Tasks : At(u, "half") => u # t /\ At(u, "half")' /\ task'[u] = task[u]
  BY DEF At, OnlyTask
<1>2. \A u \in Tasks : At(u, "half")' => u # t /\ At(u, "half") /\ task'[u] = task[u]
  BY DEF At, OnlyTask
<1>3. queue_names' = queue_names /\ queue' = queue
  BY DEF registry
<1>4. (\A m, n \in DOMAIN queue_names : queue_names[m] = queue_names[n] => m = n)'
  BY <1>3 DEF MapsAgree
<1>5. (\A n \in DOMAIN queue_names :
         \/ queue_names[n] \in queue
         \/ \E u \in Tasks : At(u, "half") /\ Writing(task[u]) /\ task[u].hash = queue_names[n])'
  BY <1>1, <1>3 DEF MapsAgree
<1>6. (\A u \in Tasks : At(u, "half") =>
         \/ task[u].cmd = "CreateQ" /\ task[u].hash \in Range(queue_names)
         \/ task[u].cmd = "DeleteQ" /\ task[u].hash \notin Range(queue_names))'
  BY <1>2, <1>3 DEF MapsAgree, Range
<1> QED BY <1>4, <1>5, <1>6 DEF MapsAgree

\* The name of a new queue.
LEMMA InsertNameMaps ==
    ASSUME NEW t \in Tasks, RegistryInv, InsertName(t), OnlyTask(t)
    PROVE  MapsAgree' /\ Range(queue_names') \subseteq Hashes /\ DOMAIN queue_names' \subseteq Names
<1> DEFINE k == task[t]
<1>1. PICK hash \in Fresh :
         /\ queue_names' = [n \in DOMAIN queue_names \cup {k.name} |->
                              IF n = k.name THEN hash ELSE queue_names[n]]
         /\ task' = [task EXCEPT ![t].pc = "half", ![t].hash = hash]
  BY DEF InsertName
<1>2. k \in TaskRecords /\ task \in [Tasks -> TaskRecords]
  BY DEF RegistryInv, TypeOK, TaskRecords
<1>3. task'[t].pc = "half" /\ task'[t].hash = hash /\ task'[t].cmd = "CreateQ"
  BY <1>1, <1>2 DEF InsertName, TaskRecords
<1>4. hash \in Hashes /\ hash \notin Range(queue_names)
  BY DEF Fresh
<1>5. \A u \in Tasks : ~At(u, "half")
  <2>1. \A u \in Tasks \ {t} : ~HoldsQueue(task[u])
    BY Alone DEF RegistryInv, InsertName, Writing
  <2>2. ~At(t, "half")
    BY DEF InsertName, At
  <2> QED BY <2>1, <2>2 DEF HoldsQueue, RegistryInv, PlacesOK, At
<1>6. k.name \notin DOMAIN queue_names /\ queue' = queue
  BY DEF InsertName
<1>7. DOMAIN queue_names' = DOMAIN queue_names \cup {k.name} /\ k.name \in Names
  BY <1>1 DEF InsertName, RegistryInv, PlacesOK, At
<1>8. /\ queue_names'[k.name] = hash
      /\ \A n \in DOMAIN queue_names : n # k.name /\ queue_names'[n] = queue_names[n]
  BY <1>1, <1>6
<1>9. \A n \in DOMAIN queue_names : queue_names[n] # hash /\ queue_names[n] \in Hashes
  BY <1>4 DEF Range, RegistryInv, TypeOK
<1>10. (\A m, n \in DOMAIN queue_names : queue_names[m] = queue_names[n] => m = n)'
  BY <1>7, <1>8, <1>9 DEF RegistryInv, MapsAgree
<1>11. (\A n \in DOMAIN queue_names :
         \/ queue_names[n] \in queue
         \/ \E u \in Tasks : At(u, "half") /\ Writing(task[u]) /\ task[u].hash = queue_names[n])'
  <2> SUFFICES ASSUME NEW n \in DOMAIN queue_names'
               PROVE  \/ queue_names'[n] \in queue'
                      \/ \E u \in Tasks : task'[u].pc = "half" /\ Writing(task'[u]) /\ task'[u].hash = queue_names'[n]
    BY DEF At
  <2>1. CASE n = k.name
    BY <2>1, <1>3, <1>8 DEF Writing
  <2>2. CASE n # k.name
    BY <2>2, <1>5, <1>6, <1>7, <1>8 DEF RegistryInv, MapsAgree
  <2> QED BY <2>1, <2>2
<1>12. (\A u \in Tasks : At(u, "half") =>
         \/ task[u].cmd = "CreateQ" /\ task[u].hash \in Range(queue_names)
         \/ task[u].cmd = "DeleteQ" /\ task[u].hash \notin Range(queue_names))'
  <2>1. \A u \in Tasks \ {t} : ~(At(u, "half")')
    BY <1>5 DEF OnlyTask, At
  <2>2. task'[t].hash \in Range(queue_names')
    BY <1>3, <1>7, <1>8 DEF Range
  <2> QED BY <2>1, <2>2, <1>3 DEF At
<1> QED
  BY <1>2, <1>4, <1>7, <1>8, <1>9, <1>10, <1>11, <1>12 DEF MapsAgree, Range, RegistryInv, TypeOK, TaskRecords

\* The name of a queue that is to go.
LEMMA RemoveNameMaps ==
    ASSUME NEW t \in Tasks, RegistryInv, RemoveName(t), OnlyTask(t)
    PROVE  MapsAgree' /\ Range(queue_names') \subseteq Hashes /\ DOMAIN queue_names' \subseteq Names
<1> DEFINE k == task[t]
           hash == queue_names[k.name]
<1>1. /\ k.cmd = "DeleteQ" /\ k.name \in DOMAIN queue_names /\ queue' = queue
      /\ queue_names' = [n \in DOMAIN queue_names \ {k.name} |-> queue_names[n]]
      /\ task' = [task EXCEPT ![t].pc = "half", ![t].hash = hash]
  BY DEF RemoveName, Restrict
<1>2. k \in TaskRecords /\ task \in [Tasks -> TaskRecords]
  BY DEF RegistryInv, TypeOK, TaskRecords
<1>3. task'[t].pc = "half" /\ task'[t].hash = hash /\ task'[t].cmd = "DeleteQ"
  BY <1>1, <1>2 DEF TaskRecords
<1>4. \A u \in Tasks : ~At(u, "half")
  <2>1. \A u \in Tasks \ {t} : ~HoldsQueue(task[u])
    BY Alone DEF RegistryInv, RemoveName, Writing
  <2>2. ~At(t, "half")
    BY DEF RemoveName, At
  <2> QED BY <2>1, <2>2 DEF HoldsQueue, RegistryInv, PlacesOK, At
<1>5. /\ DOMAIN queue_names' = DOMAIN queue_names \ {k.name}
      /\ \A n \in DOMAIN queue_names' : n \in DOMAIN queue_names /\ n # k.name /\ queue_names'[n] = queue_names[n]
  BY <1>1
<1>6. \A n \in DOMAIN queue_names : queue_names[n] \in queue /\ queue_names[n] \in Hashes
  BY <1>4 DEF RegistryInv, MapsAgree, TypeOK, Range
<1>7. hash \notin Range(queue_names')
  BY <1>1, <1>5 DEF Range, RegistryInv, MapsAgree
<1>8. (\A m, n \in DOMAIN queue_names : queue_names[m] = queue_names[n] => m = n)'
  BY <1>5 DEF RegistryInv, MapsAgree
<1>9. \A n \in DOMAIN queue_names' : queue_names'[n] \in queue'
  BY <1>1, <1>5, <1>6
<1>10. (\A u \in Tasks : At(u, "half") =>
         \/ task[u].cmd = "CreateQ" /\ task[u].hash \in Range(queue_names)
         \/ task[u].cmd = "DeleteQ" /\ task[u].hash \notin Range(queue_names))'
  <2>1. \A u \in Tasks \ {t} : ~(At(u, "half")')
    BY <1>4 DEF OnlyTask, At
  <2> QED BY <2>1, <1>3, <1>7 DEF At
<1>11. MapsAgree'
  BY <1>8, <1>9, <1>10 DEF MapsAgree
<1> QED
  BY <1>5, <1>6, <1>11 DEF Range, RegistryInv, TypeOK

\* The second half of CreateQ and DeleteQ.
LEMMA WriteQueueMaps ==
    ASSUME NEW t \in Tasks, RegistryInv, WriteQueue(t), OnlyTask(t)
    PROVE  MapsAgree' /\ queue' \subseteq Hashes
<1> DEFINE k == task[t]
<1>1. /\ At(t, "half") /\ queue_names' = queue_names /\ task'[t].pc = "idle"
      /\ queue' = IF k.cmd = "CreateQ" THEN queue \cup {k.hash} ELSE queue \ {k.hash}
  <2>1. task \in [Tasks -> TaskRecords]
    BY DEF RegistryInv, TypeOK, TaskRecords
  <2> QED BY <2>1 DEF WriteQueue, Answer, Idle
<1>2. \A u \in Tasks : At(u, "half") => u = t
  BY <1>1, AloneAtHalf DEF RegistryInv, HoldsQueue, PlacesOK, At
<1>3. \A u \in Tasks : ~(At(u, "half")')
  BY <1>1, <1>2 DEF OnlyTask, At
<1>4. ASSUME NEW n \in DOMAIN queue_names PROVE queue_names[n] \in queue'
  <2>1. queue_names[n] \in queue \/ k.hash = queue_names[n]
    BY <1>2 DEF RegistryInv, MapsAgree
  <2>2. CASE k.cmd = "CreateQ"
    BY <2>1, <2>2, <1>1
  <2>3. CASE k.cmd # "CreateQ"
    <3>1. k.hash \notin Range(queue_names)
      BY <2>3, <1>1 DEF RegistryInv, MapsAgree
    <3>2. k.hash # queue_names[n]
      BY <3>1 DEF Range
    <3> QED BY <2>1, <2>3, <3>2, <1>1
  <2> QED BY <2>2, <2>3
<1>5. MapsAgree'
  BY <1>1, <1>3, <1>4 DEF RegistryInv, MapsAgree
<1>6. queue' \subseteq Hashes
  <2>1. queue \subseteq Hashes
    BY DEF RegistryInv, TypeOK
  <2>2. CASE k.cmd = "CreateQ"
    <3>1. k.hash \in Range(queue_names) /\ Range(queue_names) \subseteq Hashes
      BY <2>2, <1>1 DEF RegistryInv, MapsAgree, TypeOK
    <3> QED BY <3>1, <2>1, <2>2, <1>1
  <2>3. CASE k.cmd # "CreateQ"
    BY <2>1, <2>3, <1>1
  <2> QED BY <2>2, <2>3
<1> QED BY <1>5, <1>6

-----------------------------------------------------------------------------
(***************************************************************************)
(* The record of the handler that takes a step, and its response.          *)
(***************************************************************************)

\* A handler that may look names up finds every name with its queue.
LEMMA LookupFinds ==
    ASSUME NEW t \in Tasks, RegistryInv, At(t, "lookup"), NEW n \in DOMAIN queue_names
    PROVE  queue_names[n] \in queue
<1>1. HoldsQueue(task[t]) /\ ~At(t, "half")
  BY DEF RegistryInv, PlacesOK, HoldsQueue, At
<1>2. \A u \in Tasks : ~At(u, "half")
  BY <1>1, AloneAtHalf DEF RegistryInv
<1> QED BY <1>2 DEF RegistryInv, MapsAgree

\* What a step makes of the record of its handler.
RecordOK(t) ==
    /\ task' \in [Tasks -> TaskRecords]
    /\ task'[t].pc # "idle" => task'[t].name \in Names
    /\ task'[t].pc = "lookup" => task'[t].cmd = "Queue"
    /\ task'[t].pc = "half" => Writing(task'[t])
    /\ task'[t].pc = "work" /\ task'[t].cmd = "Queue" => task'[t].hash \in queue'
    /\ reply'.cmd \in Commands \cup {None} /\ reply'.code # "QueueNotFound"

\* A step that only moves the handler to another place.
LEMMA GotoRecord ==
    ASSUME NEW t \in Tasks, RegistryInv, NEW pc, Goto(t, pc), reply' = reply,
           pc \in {"lookup", "second", "work"}, task[t].pc # "idle",
           pc = "lookup" => task[t].cmd = "Queue", pc = "work" => task[t].cmd # "Queue"
    PROVE  RecordOK(t)
<1>1. task \in [Tasks -> TaskRecords] /\ task[t] \in TaskRecords
  BY DEF RegistryInv, TypeOK, TaskRecords
<1>2. task'[t].pc = pc /\ task'[t].name = task[t].name /\ task'[t].cmd = task[t].cmd
  BY <1>1 DEF Goto, TaskRecords
<1>3. task' \in [Tasks -> TaskRecords]
  BY <1>1 DEF Goto, TaskRecords
<1>4. task[t].name \in Names /\ reply.cmd \in Commands \cup {None} /\ reply.code # "QueueNotFound"
  BY DEF RegistryInv, PlacesOK, At, TypeOK, NoHalfRegistered
<1> QED BY <1>2, <1>3, <1>4 DEF RecordOK

\* A step that ends the handler.
LEMMA AnswerRecord ==
    ASSUME NEW t \in Tasks, RegistryInv, NEW code, Answer(t, code), code # "QueueNotFound"
    PROVE  RecordOK(t)
<1>1. task \in [Tasks -> TaskRecords] /\ task[t] \in TaskRecords
  BY DEF RegistryInv, TypeOK, TaskRecords
<1>2. Idle \in TaskRecords /\ Idle.pc = "idle"
  BY DEF Idle, TaskRecords
<1>3. task' = [task EXCEPT ![t] = Idle] /\ reply'.cmd = task[t].cmd /\ reply'.code = code
  BY DEF Answer
<1> HIDE DEF Idle
<1>4. task' \in [Tasks -> TaskRecords] /\ task'[t].pc = "idle"
  BY <1>1, <1>2, <1>3
<1>5. task[t].cmd \in Commands \cup {None}
  BY <1>1 DEF TaskRecords
<1> QED BY <1>3, <1>4, <1>5 DEF RecordOK

\* Every step.
LEMMA RecordStep ==
    ASSUME NEW t \in Tasks, RegistryInv,
           Step(t) \/ \E cmd \in Commands, name \in Names : Start(t, cmd, name)
    PROVE  RecordOK(t)
<1> DEFINE k == task[t]
<1>1. task \in [Tasks -> TaskRecords] /\ k \in TaskRecords
  BY DEF RegistryInv, TypeOK, TaskRecords
<1>2. reply.cmd \in Commands \cup {None} /\ reply.code # "QueueNotFound"
  BY DEF RegistryInv, TypeOK, NoHalfRegistered
<1>3. k.pc # "idle" => k.name \in Names
  BY DEF RegistryInv, PlacesOK, At
<1>4. ASSUME NEW cmd \in Commands, NEW name \in Names, Start(t, cmd, name)
      PROVE  RecordOK(t)
  <2> DEFINE r == [pc |-> "first", cmd |-> cmd, name |-> name, hash |-> None]
  <2>1. r \in TaskRecords /\ r.pc = "first" /\ r.name = name
    BY DEF TaskRecords
  <2>2. task' = [task EXCEPT ![t] = r] /\ reply' = reply
    BY <1>4 DEF Start
  <2> HIDE DEF r
  <2>3. task' \in [Tasks -> TaskRecords] /\ task'[t] = r
    BY <1>1, <2>1, <2>2
  <2> QED BY <1>2, <2>1, <2>2, <2>3 DEF RecordOK
<1>5. ASSUME QueueEnter(t) \/ WriterEnter(t) \/ StatsEnter(t) PROVE RecordOK(t)
  <2>1. CASE QueueEnter(t)
    BY <2>1, GotoRecord DEF QueueEnter, At
  <2>2. CASE WriterEnter(t)
    BY <2>2, GotoRecord DEF WriterEnter, At
  <2>3. CASE StatsEnter(t)
    BY <2>3, GotoRecord DEF StatsEnter, At
  <2> QED BY <1>5, <2>1, <2>2, <2>3
<1>6. ASSUME QueueWork(t) \/ WriteRejected(t) \/ WriteQueue(t) \/ ListWork(t) \/ StatsWork(t)
      PROVE  RecordOK(t)
  <2>1. CASE QueueWork(t)
    BY <2>1, AnswerRecord DEF QueueWork
  <2>2. CASE WriteRejected(t)
    BY <2>2, AnswerRecord DEF WriteRejected
  <2>3. CASE WriteQueue(t)
    BY <2>3, AnswerRecord DEF WriteQueue
  <2>4. CASE ListWork(t)
    BY <2>4, AnswerRecord DEF ListWork
  <2>5. CASE StatsWork(t)
    BY <2>5, AnswerRecord DEF StatsWork
  <2> QED BY <1>6, <2>1, <2>2, <2>3, <2>4, <2>5
<1>7. ASSUME get_queue(t) PROVE RecordOK(t)
  <2> DEFINE hash == IF k.name \in DOMAIN queue_names THEN queue_names[k.name] ELSE None
  <2>1. At(t, "lookup") /\ queue' = queue /\ queue \subseteq Hashes
    BY <1>7 DEF get_queue, registry, RegistryInv, TypeOK
  <2>2. CASE hash \in queue
    <3>1. task' = [task EXCEPT ![t].pc = "work", ![t].hash = hash] /\ reply' = reply
      BY <1>7, <2>2 DEF get_queue
    <3>2. hash \in Hashes
      BY <2>1, <2>2
    <3> HIDE DEF hash
    <3>3. /\ task' \in [Tasks -> TaskRecords] /\ task'[t].pc = "work"
          /\ task'[t].name = k.name /\ task'[t].hash = hash
      BY <1>1, <3>1, <3>2 DEF TaskRecords
    <3> QED BY <1>2, <1>3, <2>1, <2>2, <3>1, <3>3 DEF RecordOK, At
  <2>3. CASE hash \notin queue
    <3>1. hash = None
      BY <2>1, <2>3, LookupFinds
    <3>2. Answer(t, "QueueHashNotFound")
      BY <1>7, <2>3, <3>1 DEF get_queue
    <3> QED BY <3>2, AnswerRecord
  <2> QED BY <2>2, <2>3
<1>8. ASSUME ListNames(t) PROVE RecordOK(t)
  <2>1. CASE k.name \in DOMAIN queue_names
    <3>1. task' = [task EXCEPT ![t].pc = "second", ![t].hash = queue_names[k.name]] /\ reply' = reply
      BY <1>8, <2>1 DEF ListNames
    <3>2. queue_names[k.name] \in Hashes
      BY <2>1 DEF RegistryInv, TypeOK, Range
    <3>3. task' \in [Tasks -> TaskRecords] /\ task'[t].pc = "second" /\ task'[t].name = k.name
      BY <1>1, <3>1, <3>2 DEF TaskRecords
    <3>4. k.pc = "first"
      BY <1>8 DEF ListNames, At
    <3> QED BY <1>2, <1>3, <3>1, <3>3, <3>4 DEF RecordOK
  <2>2. CASE k.name \notin DOMAIN queue_names
    BY <1>8, <2>2, AnswerRecord DEF ListNames
  <2> QED BY <2>1, <2>2
<1>9. ASSUME ListQueue(t) PROVE RecordOK(t)
  <2>1. CASE k.hash \in queue
    BY <1>9, <2>1, GotoRecord DEF ListQueue, At
  <2>2. CASE k.hash \notin queue
    BY <1>9, <2>2, AnswerRecord DEF ListQueue
  <2> QED BY <2>1, <2>2
<1>10. ASSUME InsertName(t) \/ RemoveName(t) PROVE RecordOK(t)
  <2>1. PICK hash \in Hashes : task' = [task EXCEPT ![t].pc = "half", ![t].hash = hash]
    <3>1. CASE InsertName(t)
      BY <3>1 DEF InsertName, Fresh
    <3>2. CASE RemoveName(t)
      <4>1. queue_names[k.name] \in Hashes
        BY <3>2 DEF RemoveName, RegistryInv, TypeOK, Range
      <4> QED BY <3>2, <4>1 DEF RemoveName
    <3> QED BY <1>10, <3>1, <3>2
  <2>2. k.pc = "second" /\ Writing(k) /\ reply' = reply
    BY <1>10 DEF InsertName, RemoveName, At, Writing
  <2>3. /\ task' \in [Tasks -> TaskRecords] /\ task'[t].pc = "half"
        /\ task'[t].name = k.name /\ task'[t].cmd = k.cmd
    BY <1>1, <2>1 DEF TaskRecords
  <2> QED BY <1>2, <1>3, <2>2, <2>3 DEF RecordOK, Writing
<1> QED
  BY <1>4, <1>5, <1>6, <1>7, <1>8, <1>9, <1>10 DEF Step

-----------------------------------------------------------------------------
(***************************************************************************)
(* The invariant is inductive.                                             *)
(***************************************************************************)

\* A step changes the maps only as CreateQ and DeleteQ do.
LEMMA MapsStep ==
    ASSUME NEW t \in Tasks, RegistryInv, OnlyTask(t),
           Step(t) \/ \E cmd \in Commands, name \in Names : Start(t, cmd, name)
    PROVE  \/ UNCHANGED registry /\ task[t].pc # "half" /\ task'[t].pc # "half"
           \/ InsertName(t)
           \/ RemoveName(t)
           \/ WriteQueue(t)
<1> DEFINE quiet == UNCHANGED registry /\ task[t].pc # "half" /\ task'[t].pc # "half"
<1>1. task \in [Tasks -> TaskRecords] /\ task[t] \in TaskRecords
  BY DEF RegistryInv, TypeOK, TaskRecords
<1>2. ASSUME NEW cmd \in Commands, NEW name \in Names, Start(t, cmd, name) PROVE quiet
  BY <1>1, <1>2 DEF Start, At
<1>3. ASSUME QueueEnter(t) PROVE quiet
  BY <1>1, <1>3 DEF QueueEnter, At, Goto
<1>4. ASSUME get_queue(t) PROVE quiet
  <2>1. UNCHANGED registry /\ task[t].pc = "lookup"
    BY <1>4 DEF get_queue, At
  <2>2. task'[t].pc \in {"work", "idle"}
    BY <1>1, <1>4 DEF get_queue, Answer, Idle, TaskRecords
  <2> QED BY <2>1, <2>2
<1>5. ASSUME QueueWork(t) PROVE quiet
  BY <1>1, <1>5 DEF QueueWork, At, Answer, Idle
<1>6. ASSUME WriterEnter(t) PROVE quiet
  BY <1>1, <1>6 DEF WriterEnter, At, Goto
<1>7. ASSUME WriteRejected(t) PROVE quiet
  BY <1>1, <1>7 DEF WriteRejected, At, Answer, Idle
<1>8. ASSUME ListNames(t) PROVE quiet
  <2>1. UNCHANGED registry /\ task[t].pc = "first"
    BY <1>8 DEF ListNames, At
  <2>2. task'[t].pc \in {"second", "idle"}
    BY <1>1, <1>8 DEF ListNames, Answer, Idle, TaskRecords
  <2> QED BY <2>1, <2>2
<1>9. ASSUME ListQueue(t) PROVE quiet
  <2>1. UNCHANGED registry /\ task[t].pc = "second"
    BY <1>9 DEF ListQueue, At
  <2>2. task'[t].pc \in {"work", "idle"}
    BY <1>1, <1>9 DEF ListQueue, Goto, Answer, Idle, TaskRecords
  <2> QED BY <2>1, <2>2
<1>10. ASSUME ListWork(t) PROVE quiet
  BY <1>1, <1>10 DEF ListWork, At, Answer, Idle
<1>11. ASSUME StatsEnter(t) PROVE quiet
  BY <1>1, <1>11 DEF StatsEnter, At, Goto
<1>12. ASSUME StatsWork(t) PROVE quiet
  BY <1>1, <1>12 DEF StatsWork, At, Answer, Idle
<1> HIDE DEF quiet
<1>13. quiet \/ InsertName(t) \/ RemoveName(t) \/ WriteQueue(t)
  BY <1>2, <1>3, <1>4, <1>5, <1>6, <1>7, <1>8, <1>9, <1>10, <1>11, <1>12 DEF Step
<1> QED BY <1>13 DEF quiet

\* One step of one handler.
LEMMA HandlerStep ==
    ASSUME NEW t \in Tasks, RegistryInv,
           Step(t) \/ \E cmd \in Commands, name \in Names : Start(t, cmd, name)
    PROVE  RegistryInv'
<1>1. LocksOK' /\ OnlyTask(t)
  BY LocksStep DEF RegistryInv
<1>2. RecordOK(t)
  BY RecordStep
<1>3. /\ MapsAgree' /\ Range(queue_names') \subseteq Hashes
      /\ DOMAIN queue_names' \subseteq Names /\ queue' \subseteq Hashes
  <2>1. CASE UNCHANGED registry /\ task[t].pc # "half" /\ task'[t].pc # "half"
    BY <2>1, <1>1, QuietStep DEF RegistryInv, TypeOK, registry, Range
  <2>2. CASE InsertName(t)
    BY <2>2, <1>1, InsertNameMaps DEF RegistryInv, TypeOK, InsertName
  <2>3. CASE RemoveName(t)
    BY <2>3, <1>1, RemoveNameMaps DEF RegistryInv, TypeOK, RemoveName
  <2>4. CASE WriteQueue(t)
    BY <2>4, <1>1, WriteQueueMaps DEF RegistryInv, TypeOK, WriteQueue, Range
  <2> QED BY <2>1, <2>2, <2>3, <2>4, <1>1, MapsStep
<1>4. TypeOK'
  <2>1. names_lock' \in Seq(Requests) /\ queue_lock' \in Seq(Requests)
    BY <1>1 DEF LocksOK, LockOK
  <2> QED BY <1>2, <1>3, <2>1 DEF TypeOK, RecordOK, TaskRecords, Requests
<1>5. PlacesOK'
  BY <1>1, <1>2 DEF RecordOK, OnlyTask, RegistryInv, PlacesOK, At
<1>6. WorksOnRegistered'
  <2> SUFFICES ASSUME NEW u \in Tasks, task'[u].cmd = "Queue", task'[u].pc = "work"
               PROVE  task'[u].hash \in queue'
    BY DEF WorksOnRegistered, At
  <2>1. CASE u = t
    BY <2>1, <1>2 DEF RecordOK
  <2>2. CASE u # t
    <3>1. task'[u] = task[u] /\ HoldsQueue(task[u]) /\ task[u].hash \in queue
      BY <2>2, <1>1 DEF OnlyTask, HoldsQueue, RegistryInv, WorksOnRegistered, At
    <3>2. ~WriteQueue(t)
      BY <2>2, <3>1, AloneAtHalf DEF WriteQueue, RegistryInv
    <3>3. queue' = queue
      BY <3>2, <1>1, MapsStep DEF registry, InsertName, RemoveName
    <3> QED BY <3>1, <3>3
  <2> QED BY <2>1, <2>2
<1>7. NoHalfRegistered'
  BY <1>2 DEF RecordOK, NoHalfRegistered
<1> QED
  BY <1>1, <1>3, <1>4, <1>5, <1>6, <1>7 DEF RegistryInv

\* The registry as run builds it from the configuration.
LEMMA InitRegistry ==
    ASSUME Init
    PROVE  RegistryInv
<1>1. PICK configured \in SUBSET Names :
        \E hash \in [configured -> Hashes], nameless \in SUBSET Hashes :
          IsInjective(hash) /\ queue_names = hash /\ queue = Range(hash) \cup nameless
  BY DEF Init
<1>2. PICK hash \in [configured -> Hashes], nameless \in SUBSET Hashes :
          IsInjective(hash) /\ queue_names = hash /\ queue = Range(hash) \cup nameless
  BY <1>1
<1>3. /\ DOMAIN queue_names \subseteq Names /\ Range(queue_names) \subseteq Hashes
      /\ queue \subseteq Hashes
      /\ \A n \in DOMAIN queue_names : queue_names[n] \in queue
  BY <1>2 DEF Range
<1>4. \A m, n \in DOMAIN queue_names : queue_names[m] = queue_names[n] => m = n
  BY <1>2 DEF IsInjective
<1>5. /\ task \in [Tasks -> TaskRecords]
      /\ \A t \in Tasks : task[t].pc = "idle"
  BY DEF Init, Idle, TaskRecords
<1>6. names_lock = << >> /\ queue_lock = << >> /\ reply = [cmd |-> None, code |-> None]
  BY DEF Init
<1>7. TypeOK
  BY <1>3, <1>5, <1>6 DEF TypeOK, TaskRecords
<1>8. PlacesOK /\ WorksOnRegistered
  BY <1>5 DEF PlacesOK, WorksOnRegistered, At
<1>9. NamesUsers = {} /\ NamesHolders = {} /\ QueueUsers = {} /\ QueueHolders = {}
  BY <1>5 DEF NamesUsers, NamesHolders, QueueUsers, QueueHolders,
              UsesNames, HoldsNames, UsesQueue, HoldsQueue
<1>10. LocksOK
  BY <1>6, <1>9 DEF LocksOK, LockOK
<1>11. MapsAgree
  BY <1>3, <1>4, <1>5 DEF MapsAgree, At
<1>12. NoHalfRegistered
  BY <1>6, RegistryAssumption DEF NoHalfRegistered
<1> QED
  BY <1>7, <1>8, <1>10, <1>11, <1>12 DEF RegistryInv

-----------------------------------------------------------------------------
(***************************************************************************)
(* The theorems.                                                           *)
(***************************************************************************)

\* The inductive invariant holds in every state.
THEOREM RegistrySafe == Spec => []RegistryInv
<1>1. Init => RegistryInv
  BY InitRegistry
<1>2. RegistryInv /\ [Next]_vars => RegistryInv'
  <2>1. CASE Next
    BY <2>1, HandlerStep DEF Next
  <2>2. CASE UNCHANGED vars
    <3>1. /\ queue_names' = queue_names /\ queue' = queue /\ names_lock' = names_lock
          /\ queue_lock' = queue_lock /\ task' = task /\ reply' = reply
      BY <2>2 DEF vars
    <3>2. TypeOK => TypeOK'
      BY <3>1 DEF TypeOK
    <3>3. PlacesOK => PlacesOK'
      BY <3>1 DEF PlacesOK, At
    <3>4. LocksOK => LocksOK'
      BY <3>1 DEF LocksOK, NamesUsers, NamesHolders, QueueUsers, QueueHolders, Writers
    <3>5. MapsAgree => MapsAgree'
      BY <3>1 DEF MapsAgree, At
    <3>6. WorksOnRegistered /\ NoHalfRegistered => WorksOnRegistered' /\ NoHalfRegistered'
      BY <3>1 DEF WorksOnRegistered, NoHalfRegistered, At
    <3> QED BY <3>2, <3>3, <3>4, <3>5, <3>6 DEF RegistryInv
  <2> QED BY <2>1, <2>2
<1> QED
  BY <1>1, <1>2, PTL DEF Spec

\* The maps, the locks and the handlers keep their types: the registry holds
\* Uuids under names of requests, a lock holds requests of handlers.
THEOREM RegistryTyped == Spec => []TypeOK
<1>1. RegistryInv => TypeOK
  BY DEF RegistryInv
<1> QED BY <1>1, RegistrySafe, PTL

\* For any number of handlers: no DeleteQ takes a queue away from a handler
\* that works on it.
THEOREM NoQueueTakenAway == Spec => []WorksOnRegistered
<1>1. RegistryInv => WorksOnRegistered
  BY DEF RegistryInv
<1> QED BY <1>1, RegistrySafe, PTL

\* For any number of handlers: get_queue never answers QueueNotFound, because
\* no handler can look while CreateQ or DeleteQ is between its two maps.
THEOREM NoHalfRegisteredSeen == Spec => []NoHalfRegistered
<1>1. RegistryInv => NoHalfRegistered
  BY DEF RegistryInv
<1> QED BY <1>1, RegistrySafe, PTL

\* One step leaves no queue behind that no name leads to.
LEMMA NamelessStep ==
    ASSUME NEW t \in Tasks, RegistryInv,
           Step(t) \/ \E cmd \in Commands, name \in Names : Start(t, cmd, name)
    PROVE  Nameless' \subseteq Nameless
<1> DEFINE k == task[t]
<1> SUFFICES ASSUME NEW h \in Nameless' PROVE h \in Nameless
  OBVIOUS
<1>1. OnlyTask(t)
  BY LocksStep DEF RegistryInv
<1>2. /\ h \in queue' /\ h \notin Range(queue_names')
      /\ \A u \in Tasks : task'[u].pc = "half" => h # task'[u].hash
  BY DEF Nameless, At
<1> SUFFICES /\ h \in queue /\ h \notin Range(queue_names)
             /\ \A u \in Tasks : task[u].pc = "half" => h # task[u].hash
  BY DEF Nameless, At
<1>3. \A u \in Tasks \ {t} : task[u].pc = "half" => h # task[u].hash
  BY <1>1, <1>2 DEF OnlyTask
<1>4. task \in [Tasks -> TaskRecords] /\ k \in TaskRecords
  BY DEF RegistryInv, TypeOK, TaskRecords
<1>5. CASE UNCHANGED registry /\ k.pc # "half" /\ task'[t].pc # "half"
  BY <1>2, <1>3, <1>5 DEF registry, Range
<1>6. CASE InsertName(t)
  <2>1. /\ queue' = queue /\ k.pc = "second" /\ k.name \notin DOMAIN queue_names
        /\ DOMAIN queue_names \subseteq DOMAIN queue_names'
        /\ \A n \in DOMAIN queue_names : queue_names'[n] = queue_names[n]
    BY <1>6 DEF InsertName, At
  <2>2. h \notin Range(queue_names)
    BY <1>2, <2>1 DEF Range
  <2> QED BY <1>2, <1>3, <2>1, <2>2
<1>7. CASE RemoveName(t)
  <2>1. /\ queue' = queue /\ k.pc = "second" /\ k.name \in DOMAIN queue_names
        /\ queue_names' = [n \in DOMAIN queue_names \ {k.name} |-> queue_names[n]]
        /\ task' = [task EXCEPT ![t].pc = "half", ![t].hash = queue_names[k.name]]
    BY <1>7 DEF RemoveName, At, Restrict
  <2>2. task'[t].pc = "half" /\ task'[t].hash = queue_names[k.name]
    BY <1>4, <2>1 DEF TaskRecords
  <2>3. h # queue_names[k.name]
    BY <1>2, <2>2
  <2>4. \A n \in DOMAIN queue_names \ {k.name} : h # queue_names[n]
    BY <1>2, <2>1 DEF Range
  <2>5. h \notin Range(queue_names)
    BY <2>3, <2>4 DEF Range
  <2> QED BY <1>2, <1>3, <2>1, <2>5
<1>8. CASE WriteQueue(t)
  <2>1. /\ queue_names' = queue_names /\ k.pc = "half"
        /\ queue' = IF k.cmd = "CreateQ" THEN queue \cup {k.hash} ELSE queue \ {k.hash}
    BY <1>8 DEF WriteQueue, At
  <2>2. h # k.hash
    <3>1. CASE k.cmd = "CreateQ"
      <4>1. k.hash \in Range(queue_names)
        BY <2>1, <3>1 DEF RegistryInv, MapsAgree, At
      <4> QED BY <4>1, <2>1, <1>2
    <3>2. CASE k.cmd # "CreateQ"
      BY <3>2, <2>1, <1>2
    <3> QED BY <3>1, <3>2
  <2> QED BY <1>2, <1>3, <2>1, <2>2
<1> QED
  BY <1>1, <1>5, <1>6, <1>7, <1>8, MapsStep

\* For any number of handlers: no step of CreateQ or DeleteQ leaves a queue
\* behind that no name leads to, which could never be deleted.
THEOREM NoQueueLeaks == Spec => NoNewNameless
<1>1. RegistryInv /\ [Next]_vars => [Nameless' \subseteq Nameless]_vars
  BY NamelessStep DEF Next
<1> QED
  BY <1>1, RegistrySafe, PTL DEF Spec, NoNewNameless
=============================================================================
