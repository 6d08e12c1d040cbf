--------------------------- MODULE JobQueueProofs ---------------------------
(***************************************************************************)
(* Proofs about JobQueue, for any numbers of threads and jobs and for any  *)
(* capacity.                                                               *)
(***************************************************************************)
EXTENDS JobQueue, TLAPS

-----------------------------------------------------------------------------
(* Type correctness                                                        *)

\* A thread that goes to a pc of PCs leaves pc well-typed, alone or waking.
LEMMA GotoType ==
    ASSUME NEW t \in Threads, NEW l \in PCs, pc \in [Threads -> PCs], Goto(t, l)
    PROVE  pc' \in [Threads -> PCs]
  BY DEF Goto

LEMMA GotoWakingType ==
    ASSUME NEW t \in Threads, NEW l \in PCs, NEW woken,
           pc \in [Threads -> PCs], GotoWaking(t, l, woken)
    PROVE  pc' \in [Threads -> PCs]
  <1>1. \A u \in Threads : Relock(u) \in PCs
    BY DEF Relock, PCs
  <1> QED BY <1>1 DEF GotoWaking

\* The mutex operations leave the mutexes well-typed.
MutexTypeOK == /\ owner \in [Mutexes -> Threads \cup {NoThread}]
               /\ dead \in SUBSET Mutexes /\ stranded \in SUBSET Threads

LEMMA LockType ==
    ASSUME NEW t \in Threads, NEW m \in Mutexes, MutexTypeOK, Lock(t, m)
    PROVE  MutexTypeOK'
  BY DEF MutexTypeOK, Lock, mutexVars

LEMMA UnlockType ==
    ASSUME NEW m \in Mutexes, MutexTypeOK, Unlock(m)
    PROVE  MutexTypeOK'
  BY DEF MutexTypeOK, Unlock

LEMMA DestroyMutexType ==
    ASSUME NEW m \in Mutexes, MutexTypeOK, DestroyMutex(m)
    PROVE  MutexTypeOK'
  BY DEF MutexTypeOK, DestroyMutex, mutexVars

\* What TypeOK says of the struct, and of the locals and the history.
StructTypeOK == /\ buffer \in [0..Capacity-1 -> Jobs \cup {NoJob}]
                /\ front \in 0..Capacity-1 /\ rear \in 0..Capacity-1
                /\ count \in Int /\ destroyed \in BOOLEAN
LocalTypeOK == /\ data \in [Threads -> Jobs \cup {NoJob}]
               /\ submitted \in SUBSET Jobs
               /\ stored \in Seq(Jobs \cup {NoJob}) /\ taken \in Seq(Jobs \cup {NoJob})

LEMMA TypeOKParts ==
    TypeOK <=> /\ StructTypeOK /\ MutexTypeOK /\ LocalTypeOK
               /\ freed \in BOOLEAN /\ pc \in [Threads -> PCs]
  BY DEF TypeOK, StructTypeOK, MutexTypeOK, LocalTypeOK

LEMMA TypeOKPartsPrime ==
    TypeOK' <=> /\ StructTypeOK' /\ MutexTypeOK' /\ LocalTypeOK'
                /\ freed' \in BOOLEAN /\ pc' \in [Threads -> PCs]
  BY DEF TypeOK, StructTypeOK, MutexTypeOK, LocalTypeOK

\* The pthread and struct variables of a step that leaves them alone.
LEMMA UnchangedTypes ==
    /\ StructTypeOK /\ UNCHANGED structVars => StructTypeOK'
    /\ MutexTypeOK /\ UNCHANGED mutexVars => MutexTypeOK'
    /\ LocalTypeOK /\ UNCHANGED <<data, history>> => LocalTypeOK'
  BY DEF StructTypeOK, MutexTypeOK, LocalTypeOK, structVars, mutexVars, history

LEMMA InitType == Init => TypeOK
  <1> SUFFICES ASSUME Init PROVE TypeOK
    OBVIOUS
  <1>1. StructTypeOK
    <2>1. 0 \in 0..Capacity-1 /\ 0 \in Int
      BY CapacityAssumption
    <2>2. buffer \in [0..Capacity-1 -> Jobs \cup {NoJob}]
      BY DEF Init
    <2> QED BY <2>1, <2>2, Zenon DEF Init, StructTypeOK
  <1>2. MutexTypeOK /\ LocalTypeOK
    BY DEF Init, MutexTypeOK, LocalTypeOK
  <1>3. freed \in BOOLEAN /\ pc \in [Threads -> PCs]
    BY DEF Init, PCs, Outside
  <1> QED BY <1>1, <1>2, <1>3, TypeOKParts

LEMMA PushType ==
    ASSUME TypeOK, NEW t \in Threads, Push(t)
    PROVE  TypeOK'
  <1> USE TypeOKParts, TypeOKPartsPrime
  <1>m. Mutexes = {"push_lock", "pop_lock", "count_lock"}
    BY DEF Mutexes
  <1>p. {"push_count", "push_check", "push_dead", "push_sleep", "push_asleep",
         "push_store", "push_recount", "push_commit", "push_return",
         "ok", "failed"} \subseteq PCs
    BY DEF PCs, PushHeld, Outside
  <1>1. CASE PushLock(t)
    BY <1>1, <1>m, <1>p, LockType, GotoType, UnchangedTypes DEF PushLock, LockStep, Quiet
  <1>2. CASE PushCountLock(t)
    BY <1>2, <1>m, <1>p, LockType, GotoType, UnchangedTypes DEF PushCountLock, LockStep, Quiet
  <1>3. CASE PushCheck(t)
    <2>1. \E l \in PCs : Goto(t, l)
      BY <1>3, <1>p DEF PushCheck, StructTypeOK, Quiet
    <2> QED BY <1>3, <2>1, <1>m, UnlockType, GotoType, UnchangedTypes DEF PushCheck, Quiet
  <1>4. CASE PushDead(t)
    BY <1>4, <1>m, <1>p, UnlockType, GotoType, UnchangedTypes DEF PushDead, UnlockStep, Quiet
  <1>5. CASE PushWait(t)
    <2>1. \E l \in PCs : Goto(t, l)
      BY <1>5, <1>p DEF PushWait, Quiet
    <2> QED BY <1>5, <2>1, <1>m, UnlockType, GotoType, UnchangedTypes DEF PushWait, Quiet
  <1>6. CASE PushStore(t)
    <2>1. pc' \in [Threads -> PCs] /\ MutexTypeOK' /\ freed' \in BOOLEAN
      BY <1>6, <1>p, GotoType, UnchangedTypes DEF PushStore
    <2>2. StructTypeOK'
      BY <1>6, CapacityAssumption DEF PushStore, StructTypeOK, LocalTypeOK
    <2>3. LocalTypeOK'
      BY <1>6 DEF PushStore, LocalTypeOK
    <2> QED BY <2>1, <2>2, <2>3
  <1>7. CASE PushRecountLock(t)
    BY <1>7, <1>m, <1>p, LockType, GotoType, UnchangedTypes DEF PushRecountLock, LockStep, Quiet
  <1>8. CASE PushCommit(t)
    <2>1. pc' \in [Threads -> PCs]
      BY <1>8, <1>p, GotoWakingType DEF PushCommit
    <2>2. StructTypeOK'
      BY <1>8 DEF PushCommit, StructTypeOK
    <2> QED BY <1>8, <2>1, <2>2, <1>m, UnlockType, UnchangedTypes DEF PushCommit
  <1>9. CASE PushReturn(t)
    BY <1>9, <1>m, <1>p, UnlockType, GotoType, UnchangedTypes DEF PushReturn, UnlockStep, Quiet
  <1> QED BY <1>1, <1>2, <1>3, <1>4, <1>5, <1>6, <1>7, <1>8, <1>9 DEF Push

LEMMA PopType ==
    ASSUME TypeOK, NEW t \in Threads, Pop(t)
    PROVE  TypeOK'
  <1> USE TypeOKParts, TypeOKPartsPrime
  <1>m. Mutexes = {"push_lock", "pop_lock", "count_lock"}
    BY DEF Mutexes
  <1>p. {"pop_count", "pop_check", "pop_dead", "pop_sleep", "pop_asleep",
         "pop_take", "pop_recount", "pop_commit", "pop_return",
         "ok", "failed"} \subseteq PCs
    BY DEF PCs, PopHeld, Outside
  <1>1. CASE PopLock(t)
    BY <1>1, <1>m, <1>p, LockType, GotoType, UnchangedTypes DEF PopLock, LockStep, Quiet
  <1>2. CASE PopCountLock(t)
    BY <1>2, <1>m, <1>p, LockType, GotoType, UnchangedTypes DEF PopCountLock, LockStep, Quiet
  <1>3. CASE PopCheck(t)
    <2>1. \E l \in PCs : Goto(t, l)
      BY <1>3, <1>p DEF PopCheck, StructTypeOK, Quiet
    <2> QED BY <1>3, <2>1, <1>m, UnlockType, GotoType, UnchangedTypes DEF PopCheck, Quiet
  <1>4. CASE PopDead(t)
    BY <1>4, <1>m, <1>p, UnlockType, GotoType, UnchangedTypes DEF PopDead, UnlockStep, Quiet
  <1>5. CASE PopWait(t)
    <2>1. \E l \in PCs : Goto(t, l)
      BY <1>5, <1>p DEF PopWait, Quiet
    <2> QED BY <1>5, <2>1, <1>m, UnlockType, GotoType, UnchangedTypes DEF PopWait, Quiet
  <1>6. CASE PopTake(t)
    <2>1. pc' \in [Threads -> PCs] /\ MutexTypeOK' /\ freed' \in BOOLEAN
      BY <1>6, <1>p, GotoType, UnchangedTypes DEF PopTake
    <2>2. StructTypeOK'
      BY <1>6, CapacityAssumption DEF PopTake, StructTypeOK
    <2>3. LocalTypeOK'
      BY <1>6 DEF PopTake, LocalTypeOK, StructTypeOK
    <2> QED BY <2>1, <2>2, <2>3
  <1>7. CASE PopRecountLock(t)
    BY <1>7, <1>m, <1>p, LockType, GotoType, UnchangedTypes DEF PopRecountLock, LockStep, Quiet
  <1>8. CASE PopCommit(t)
    <2>1. pc' \in [Threads -> PCs]
      BY <1>8, <1>p, GotoWakingType DEF PopCommit
    <2>2. StructTypeOK'
      BY <1>8 DEF PopCommit, StructTypeOK
    <2> QED BY <1>8, <2>1, <2>2, <1>m, UnlockType, UnchangedTypes DEF PopCommit
  <1>9. CASE PopReturn(t)
    BY <1>9, <1>m, <1>p, UnlockType, GotoType, UnchangedTypes DEF PopReturn, UnlockStep, Quiet
  <1> QED BY <1>1, <1>2, <1>3, <1>4, <1>5, <1>6, <1>7, <1>8, <1>9 DEF Pop

LEMMA DestroyType ==
    ASSUME TypeOK, NEW t \in Threads, Destroy(t)
    PROVE  TypeOK'
  <1> USE TypeOKParts, TypeOKPartsPrime
  <1>m. Mutexes = {"push_lock", "pop_lock", "count_lock"}
    BY DEF Mutexes
  <1>p. {"mark", "drain_lock", "drain_check", "kill_push_lock", "kill_pop_lock",
         "kill_count_lock", "kill_not_full", "kill_not_empty", "free_buffer",
         "ok"} \subseteq PCs
    BY DEF PCs, Teardown, Outside
  <1>1. CASE DestroyLock(t)
    BY <1>1, <1>m, <1>p, LockType, GotoType, UnchangedTypes DEF DestroyLock, LockStep, Quiet
  <1>2. CASE DestroyMark(t)
    <2>1. pc' \in [Threads -> PCs]
      BY <1>2, <1>p, GotoWakingType DEF DestroyMark
    <2>2. StructTypeOK'
      BY <1>2 DEF DestroyMark, StructTypeOK
    <2> QED BY <1>2, <2>1, <2>2, <1>m, UnlockType, UnchangedTypes DEF DestroyMark
  <1>3. CASE DrainLock(t)
    BY <1>3, <1>m, <1>p, LockType, GotoType, UnchangedTypes DEF DrainLock, LockStep, Quiet
  <1>4. CASE DrainCheck(t)
    <2>1. \E l \in PCs : Goto(t, l)
      BY <1>4, <1>p DEF DrainCheck, Quiet
    <2> QED BY <1>4, <2>1, <1>m, UnlockType, GotoType, UnchangedTypes DEF DrainCheck, Quiet
  <1>5. CASE KillMutex(t)
    BY <1>5, <1>m, <1>p, DestroyMutexType, GotoType, UnchangedTypes DEF KillMutex, Quiet
  <1>6. CASE KillCond(t)
    BY <1>6, <1>p, GotoType, UnchangedTypes DEF KillCond
  <1>7. CASE FreeBuffer(t)
    BY <1>7, <1>p, GotoType, UnchangedTypes DEF FreeBuffer
  <1> QED BY <1>1, <1>2, <1>3, <1>4, <1>5, <1>6, <1>7 DEF Destroy

\* The other steps: a call begins, a sleeper wakes by itself, nothing happens.
LEMMA CallType ==
    ASSUME TypeOK, NEW t \in Threads,
           (\E d \in Jobs : PushCall(t, d)) \/ PopCall(t) \/ DestroyCall(t) \/ SpuriousWake(t)
    PROVE  TypeOK'
  <1> USE TypeOKParts, TypeOKPartsPrime
  <1>p. {"push_lock", "pop_lock", "mark_lock"} \subseteq PCs /\ Relock(t) \in PCs
    BY DEF PCs, Relock
  <1>1. CASE \E d \in Jobs : PushCall(t, d)
    <2>1. pc' \in [Threads -> PCs]
      BY <1>1, <1>p, GotoType DEF PushCall
    <2>2. LocalTypeOK'
      BY <1>1 DEF PushCall, LocalTypeOK
    <2> QED BY <1>1, <2>1, <2>2, UnchangedTypes DEF PushCall
  <1>2. CASE PopCall(t)
    BY <1>2, <1>p, GotoType, UnchangedTypes DEF PopCall
  <1>3. CASE DestroyCall(t)
    BY <1>3, <1>p, GotoType, UnchangedTypes DEF DestroyCall
  <1>4. CASE SpuriousWake(t)
    BY <1>4, <1>p, GotoType, UnchangedTypes DEF SpuriousWake
  <1> QED BY <1>1, <1>2, <1>3, <1>4

LEMMA NextType == TypeOK /\ [Next]_vars => TypeOK'
  <1> SUFFICES ASSUME TypeOK, [Next]_vars PROVE TypeOK'
    OBVIOUS
  <1>t. Producers \subseteq Threads /\ Consumers \subseteq Threads /\ Destroyer \in Threads
    BY DEF Threads
  <1>1. CASE \E t \in Producers, d \in Jobs : PushCall(t, d)
    BY <1>1, <1>t, CallType
  <1>2. CASE \E t \in Consumers : PopCall(t)
    BY <1>2, <1>t, CallType
  <1>3. CASE DestroyCall(Destroyer)
    BY <1>3, <1>t, CallType
  <1>4. CASE \E t \in Threads : Step(t) \/ SpuriousWake(t)
    BY <1>4, PushType, PopType, DestroyType, CallType DEF Step
  <1>5. CASE UNCHANGED vars
    BY <1>5 DEF vars, structVars, mutexVars, history, TypeOK
  <1> QED BY <1>1, <1>2, <1>3, <1>4, <1>5 DEF Next

\* Every reachable state of the queue is well-typed: no step of push, pop or
\* destroy sends front or rear out of the buffer, for any capacity.
THEOREM TypeCorrect == Spec => []TypeOK
  BY InitType, NextType, PTL DEF Spec

-----------------------------------------------------------------------------
(* The slots of the circular buffer                                        *)

LEMMA DivMod ==
    \A n \in Nat : /\ n \div Capacity \in Int
                   /\ n % Capacity \in 0..Capacity-1
                   /\ n = Capacity * (n \div Capacity) + (n % Capacity)
  BY CapacityAssumption

LEMMA Multiples == \A p, q \in Int : p < q => Capacity * p + Capacity <= Capacity * q
  <1> SUFFICES ASSUME NEW p \in Int, NEW q \in Int, p < q
               PROVE  Capacity * p + Capacity <= Capacity * q
    OBVIOUS
  <1>1. PICK d \in Nat : q = p + 1 + d
    <2>1. q - p - 1 \in Nat /\ q = p + 1 + (q - p - 1)
      OBVIOUS
    <2> QED BY <2>1
  <1>2. /\ Capacity * q = Capacity * p + Capacity + Capacity * d
        /\ Capacity * p \in Int /\ Capacity * d \in Int
    BY <1>1, CapacityAssumption
  <1>3. Capacity * d >= 0
    BY CapacityAssumption
  <1> QED BY <1>2, <1>3, CapacityAssumption

LEMMA DivModUnique ==
    \A p, q \in Int, r, s \in 0..Capacity-1 :
       Capacity * p + r = Capacity * q + s => p = q /\ r = s
  <1> SUFFICES ASSUME NEW p \in Int, NEW q \in Int,
                      NEW r \in 0..Capacity-1, NEW s \in 0..Capacity-1,
                      Capacity * p + r = Capacity * q + s
               PROVE  p = q /\ r = s
    OBVIOUS
  <1>1. Capacity * p \in Int /\ Capacity * q \in Int
    BY CapacityAssumption
  <1>2. ~(p < q) /\ ~(q < p)
    BY <1>1, Multiples, CapacityAssumption
  <1>3. p = q
    BY <1>2
  <1> QED BY <1>1, <1>3, CapacityAssumption

LEMMA SlotType == \A n \in Nat : Slot(n) \in 0..Capacity-1
  BY DivMod DEF Slot

\* Advancing an index by (i + 1) % capacity moves it to the next slot.
LEMMA SlotSucc == \A n \in Nat : (Slot(n) + 1) % Capacity = Slot(n + 1)
  <1> SUFFICES ASSUME NEW n \in Nat
               PROVE  ((n % Capacity) + 1) % Capacity = (n + 1) % Capacity
    BY DEF Slot
  <1> DEFINE q == n \div Capacity
             r == n % Capacity
             next == (n + 1) % Capacity
  <1>1. q \in Int /\ r \in 0..Capacity-1 /\ n = Capacity * q + r
    BY DivMod
  <1>2. /\ (n + 1) \div Capacity \in Int /\ next \in 0..Capacity-1
        /\ n + 1 = Capacity * ((n + 1) \div Capacity) + next
    BY DivMod
  <1>3. CASE r + 1 < Capacity
    <2>1. (r + 1) % Capacity = r + 1 /\ r + 1 \in 0..Capacity-1
      BY <1>1, <1>3, CapacityAssumption
    <2>2. Capacity * ((n + 1) \div Capacity) + next = Capacity * q + (r + 1)
      BY <1>1, <1>2, CapacityAssumption
    <2>3. next = r + 1
      BY <2>1, <2>2, <1>1, <1>2, DivModUnique
    <2> QED BY <2>1, <2>3
  <1>4. CASE r + 1 = Capacity
    <2>1. (r + 1) % Capacity = 0 /\ 0 \in 0..Capacity-1 /\ q + 1 \in Int
      BY <1>1, <1>4, CapacityAssumption
    <2>2. Capacity * ((n + 1) \div Capacity) + next = Capacity * (q + 1) + 0
      BY <1>1, <1>2, <1>4, CapacityAssumption
    <2>3. next = 0
      BY <2>1, <2>2, <1>2, DivModUnique
    <2> QED BY <2>1, <2>3
  <1> QED BY <1>1, <1>3, <1>4, CapacityAssumption

\* Positions less than the capacity apart are in different slots.
LEMMA SlotsDiffer == \A a, b \in Nat : a < b /\ b < a + Capacity => Slot(a) # Slot(b)
  <1> SUFFICES ASSUME NEW a \in Nat, NEW b \in Nat, a < b, b < a + Capacity,
                      a % Capacity = b % Capacity
               PROVE  FALSE
    BY DEF Slot
  <1> DEFINE p == a \div Capacity
             q == b \div Capacity
             r == a % Capacity
  <1> HIDE DEF p, q, r
  <1>1. /\ p \in Int /\ q \in Int /\ r \in 0..Capacity-1
        /\ a = Capacity * p + r /\ b = Capacity * q + r
    BY DivMod DEF p, q, r
  <1>2. Capacity * p \in Int /\ Capacity * q \in Int
    BY <1>1, CapacityAssumption
  <1>3. p # q /\ ~(p < q)
    BY <1>1, <1>2, Multiples, CapacityAssumption
  <1>4. q < p
    BY <1>1, <1>3
  <1> QED BY <1>4, <1>1, <1>2, Multiples, CapacityAssumption

-----------------------------------------------------------------------------
(* How a step moves the threads and the locks of an intact queue           *)

\* Thread t goes to l; of the others some may wake, the rest stay.
Moves(t, l) ==
    /\ pc'[t] = l
    /\ \A u \in Threads \ {t} :
          \/ pc'[u] = pc[u]
          \/ /\ pc[u] \in {"push_asleep", "pop_asleep"}
             /\ pc'[u] \in {"push_relock", "pop_relock"}

LEMMA GotoMoves ==
    ASSUME TypeOK, NEW t \in Threads, NEW l, Goto(t, l)
    PROVE  Moves(t, l)
  BY DEF TypeOK, Goto, Moves

LEMMA GotoWakingMoves ==
    ASSUME NEW t \in Threads, NEW l, NEW woken, GotoWaking(t, l, woken),
           woken \subseteq not_full \cup not_empty
    PROVE  Moves(t, l)
  BY DEF GotoWaking, Moves, Relock, not_full, not_empty

\* pthread_cond_signal wakes only sleepers.
LEMMA SignalSleepers ==
    ASSUME NEW cond, NEW woken \in Signal(cond)
    PROVE  woken \subseteq cond
  BY DEF Signal

LEMMA LockIntact ==
    ASSUME Intact, NEW t, NEW m, Lock(t, m)
    PROVE  owner[m] = NoThread /\ owner' = [owner EXCEPT ![m] = t]
  BY DEF Intact, Lock

LEMMA UnlockIntact ==
    ASSUME Intact, NEW m, Unlock(m)
    PROVE  owner' = [owner EXCEPT ![m] = NoThread]
  BY DEF Intact, Unlock

\* A queue that is intact after a step was intact before it.
LEMMA IntactBefore ==
    ASSUME [Next]_vars, Intact'
    PROVE  Intact
  <1>1. ASSUME NEW t, Push(t) PROVE Intact
    BY <1>1 DEF Push, PushLock, PushCountLock, PushCheck, PushDead, PushWait,
       PushStore, PushRecountLock, PushCommit, PushReturn, Lock, Unlock, mutexVars, Intact, LockStep, UnlockStep, Quiet
  <1>2. ASSUME NEW t, Pop(t) PROVE Intact
    BY <1>2 DEF Pop, PopLock, PopCountLock, PopCheck, PopDead, PopWait,
       PopTake, PopRecountLock, PopCommit, PopReturn, Lock, Unlock, mutexVars, Intact, LockStep, UnlockStep, Quiet
  <1>3. ASSUME NEW t, Destroy(t) PROVE Intact
    <2>1. CASE KillMutex(t)
      BY <2>1 DEF KillMutex, DestroyMutex, mutexVars, Intact, Quiet
    <2>2. CASE ~KillMutex(t)
      BY <1>3, <2>2 DEF Destroy, DestroyLock, DestroyMark, DrainLock, DrainCheck,
         KillCond, FreeBuffer, Lock, Unlock, mutexVars, Intact, LockStep, Quiet
    <2> QED BY <2>1, <2>2
  <1>4. ASSUME NEW t, (\E d \in Jobs : PushCall(t, d)) \/ PopCall(t)
                      \/ DestroyCall(t) \/ SpuriousWake(t)
        PROVE  Intact
    BY <1>4 DEF PushCall, PopCall, DestroyCall, SpuriousWake, mutexVars, Intact
  <1>5. CASE UNCHANGED vars
    BY <1>5 DEF vars, mutexVars, Intact
  <1> QED BY <1>1, <1>2, <1>3, <1>4, <1>5 DEF Next, Step

\* The invariant of an intact queue.  QueueInv alone is not inductive: that a
\* store finds a free slot needs ChecksStillHold, and that only one thread is
\* between its test of count and its update needs LocksExclusive.
IntactInv == LocksExclusive /\ ChecksStillHold /\ QueueInv

\* A step that leaves the buffer, its indices and the history alone, and takes
\* no thread into or out of the gap between an index and the count.
LEMMA QuietStep ==
    ASSUME QueueInv, UNCHANGED <<buffer, front, rear, count, stored, taken>>,
           Storing' <=> Storing, Taking' <=> Taking
    PROVE  QueueInv'
  BY DEF QueueInv, Fifo, SlotsKept, CountExact, Slot

InGap == {"push_recount", "push_commit"}
OutGap == {"pop_recount", "pop_commit"}

LEMMA QuietGaps ==
    ASSUME NEW t \in Threads, NEW l, Moves(t, l),
           pc[t] \in InGap <=> l \in InGap, pc[t] \in OutGap <=> l \in OutGap
    PROVE  (Storing' <=> Storing) /\ (Taking' <=> Taking)
  <1>1. \A u \in Threads : /\ pc'[u] \in InGap <=> pc[u] \in InGap
                           /\ pc'[u] \in OutGap <=> pc[u] \in OutGap
    BY DEF Moves, InGap, OutGap
  <1> QED BY <1>1 DEF Storing, Taking, InGap, OutGap

\* Thread t takes mutex m, which was free, and enters exactly m's section.
LEMMA Acquires ==
    ASSUME TypeOK, LocksExclusive, NEW t \in Threads, NEW l, NEW m \in Mutexes,
           Moves(t, l), owner[m] = NoThread, owner' = [owner EXCEPT ![m] = t],
           l \in PushHeld  <=> pc[t] \in PushHeld  \/ m = "push_lock",
           l \in PopHeld   <=> pc[t] \in PopHeld   \/ m = "pop_lock",
           l \in CountHeld <=> pc[t] \in CountHeld \/ m = "count_lock"
    PROVE  LocksExclusive'
  BY NoThreadAssumption
     DEF TypeOK, LocksExclusive, Moves, Mutexes, PushHeld, PopHeld, CountHeld

\* Thread t gives up mutex m and leaves exactly m's section.
LEMMA Releases ==
    ASSUME TypeOK, LocksExclusive, NEW t \in Threads, NEW l, NEW m \in Mutexes,
           Moves(t, l), owner[m] = t, owner' = [owner EXCEPT ![m] = NoThread],
           l \in PushHeld  <=> pc[t] \in PushHeld  /\ m # "push_lock",
           l \in PopHeld   <=> pc[t] \in PopHeld   /\ m # "pop_lock",
           l \in CountHeld <=> pc[t] \in CountHeld /\ m # "count_lock"
    PROVE  LocksExclusive'
  BY NoThreadAssumption
     DEF TypeOK, LocksExclusive, Moves, Mutexes, PushHeld, PopHeld, CountHeld

\* Thread t moves within the sections it is in and touches no mutex.
LEMMA KeepsLocks ==
    ASSUME LocksExclusive, NEW t \in Threads, NEW l, Moves(t, l), owner' = owner,
           l \in PushHeld  <=> pc[t] \in PushHeld,
           l \in PopHeld   <=> pc[t] \in PopHeld,
           l \in CountHeld <=> pc[t] \in CountHeld
    PROVE  LocksExclusive'
  BY DEF LocksExclusive, Moves, PushHeld, PopHeld, CountHeld

\* A step that does not change count keeps what the threads know of it.
LEMMA KeepsChecks ==
    ASSUME ChecksStillHold, NEW t \in Threads, NEW l, Moves(t, l), UNCHANGED count,
           l \in {"push_store", "push_recount", "push_commit"} => count < Capacity,
           l \in {"pop_take", "pop_recount", "pop_commit"} => count > 0
    PROVE  ChecksStillHold'
  BY DEF ChecksStillHold, Moves

LEMMA PushIntact ==
    ASSUME TypeOK, Intact, IntactInv, NEW t \in Threads, Push(t)
    PROVE  IntactInv'
  <1>1. CASE PushLock(t)
    <2>1. Moves(t, "push_count") /\ pc[t] \in {"push_lock", "push_relock"}
      BY <1>1, GotoMoves DEF PushLock, LockStep, Quiet
    <2>2. LocksExclusive'
      BY <1>1, <2>1, LockIntact, Acquires
         DEF PushLock, IntactInv, Mutexes, PushHeld, PopHeld, CountHeld, LockStep, Quiet
    <2>3. ChecksStillHold'
      BY <1>1, <2>1, KeepsChecks DEF PushLock, structVars, IntactInv, ChecksStillHold, LockStep, Quiet
    <2>4. QueueInv'
      BY <1>1, <2>1, QuietStep, QuietGaps
         DEF PushLock, structVars, history, IntactInv, InGap, OutGap, LockStep, Quiet
    <2> QED BY <2>2, <2>3, <2>4 DEF IntactInv
  <1>2. CASE PushCountLock(t)
    <2>1. Moves(t, "push_check") /\ pc[t] = "push_count"
      BY <1>2, GotoMoves DEF PushCountLock, LockStep, Quiet
    <2>2. LocksExclusive'
      BY <1>2, <2>1, LockIntact, Acquires
         DEF PushCountLock, IntactInv, Mutexes, PushHeld, PopHeld, CountHeld, LockStep, Quiet
    <2>3. ChecksStillHold'
      BY <1>2, <2>1, KeepsChecks DEF PushCountLock, structVars, IntactInv, ChecksStillHold, LockStep, Quiet
    <2>4. QueueInv'
      BY <1>2, <2>1, QuietStep, QuietGaps
         DEF PushCountLock, structVars, history, IntactInv, InGap, OutGap, LockStep, Quiet
    <2> QED BY <2>2, <2>3, <2>4 DEF IntactInv
  <1>3. CASE PushCheck(t)
    <2>1. PICK l \in {"push_dead", "push_sleep", "push_store"} :
             /\ Moves(t, l) /\ pc[t] = "push_check"
             /\ l = "push_store" => count < Capacity
      <3>1. count \in 0..Capacity /\ destroyed \in BOOLEAN
        BY DEF TypeOK, IntactInv, QueueInv, CountExact
      <3>2. PICK l \in {"push_dead", "push_sleep", "push_store"} :
               Goto(t, l) /\ (l = "push_store" => count < Capacity)
        BY <1>3, <3>1, CapacityAssumption DEF PushCheck, Quiet
      <3> QED BY <1>3, <3>2, GotoMoves DEF PushCheck, Quiet
    <2>2. LocksExclusive'
      <3>1. owner["count_lock"] = t
        BY <2>1 DEF IntactInv, LocksExclusive, PushHeld, PopHeld, CountHeld
      <3> QED BY <1>3, <2>1, <3>1, UnlockIntact, Releases
                 DEF PushCheck, IntactInv, Mutexes, PushHeld, PopHeld, CountHeld, Quiet
    <2>3. ChecksStillHold'
      BY <1>3, <2>1, KeepsChecks DEF PushCheck, structVars, IntactInv, ChecksStillHold, Quiet
    <2>4. QueueInv'
      BY <1>3, <2>1, QuietStep, QuietGaps
         DEF PushCheck, structVars, history, IntactInv, InGap, OutGap, Quiet
    <2> QED BY <2>2, <2>3, <2>4 DEF IntactInv
  <1>4. CASE PushDead(t)
    <2>1. Moves(t, "failed") /\ pc[t] = "push_dead"
      BY <1>4, GotoMoves DEF PushDead, UnlockStep, Quiet
    <2>2. LocksExclusive'
      <3>1. owner["push_lock"] = t
        BY <2>1 DEF IntactInv, LocksExclusive, PushHeld, PopHeld, CountHeld
      <3> QED BY <1>4, <2>1, <3>1, UnlockIntact, Releases
                 DEF PushDead, IntactInv, Mutexes, PushHeld, PopHeld, CountHeld, UnlockStep, Quiet
    <2>3. ChecksStillHold'
      BY <1>4, <2>1, KeepsChecks DEF PushDead, structVars, IntactInv, ChecksStillHold, UnlockStep, Quiet
    <2>4. QueueInv'
      BY <1>4, <2>1, QuietStep, QuietGaps
         DEF PushDead, structVars, history, IntactInv, InGap, OutGap, UnlockStep, Quiet
    <2> QED BY <2>2, <2>3, <2>4 DEF IntactInv
  <1>5. CASE PushWait(t)
    <2>1. Moves(t, "push_asleep") /\ pc[t] = "push_sleep"
      BY <1>5, GotoMoves DEF PushWait, Intact, Quiet
    <2>2. LocksExclusive'
      <3>1. owner["push_lock"] = t
        BY <2>1 DEF IntactInv, LocksExclusive, PushHeld, PopHeld, CountHeld
      <3> QED BY <1>5, <2>1, <3>1, UnlockIntact, Releases
                 DEF PushWait, IntactInv, Mutexes, PushHeld, PopHeld, CountHeld, Quiet
    <2>3. ChecksStillHold'
      BY <1>5, <2>1, KeepsChecks DEF PushWait, structVars, IntactInv, ChecksStillHold, Quiet
    <2>4. QueueInv'
      BY <1>5, <2>1, QuietStep, QuietGaps
         DEF PushWait, structVars, history, IntactInv, InGap, OutGap, Quiet
    <2> QED BY <2>2, <2>3, <2>4 DEF IntactInv
  <1>6. CASE PushStore(t)
    <2>1. Moves(t, "push_recount") /\ pc[t] = "push_store"
      BY <1>6, GotoMoves DEF PushStore
    <2>2. LocksExclusive'
      BY <1>6, <2>1, KeepsLocks
         DEF PushStore, mutexVars, IntactInv, PushHeld, PopHeld, CountHeld
    <2>3. ChecksStillHold'
      BY <1>6, <2>1, KeepsChecks DEF PushStore, IntactInv, ChecksStillHold
    <2>4. ~Storing /\ Storing' /\ (Taking' <=> Taking)
      <3>1. \A u \in Threads : pc[u] \in PushHeld => u = t
        BY <2>1 DEF IntactInv, LocksExclusive, PushHeld
      <3>2. ~Storing
        BY <2>1, <3>1 DEF Storing, PushHeld
      <3>3. Storing'
        BY <2>1 DEF Moves, Storing
      <3>4. \A u \in Threads : pc'[u] \in OutGap <=> pc[u] \in OutGap
        BY <2>1 DEF Moves, OutGap
      <3> QED BY <3>2, <3>3, <3>4 DEF Taking, OutGap
    <2>s. Len(stored) \in Nat /\ Len(taken) \in Nat /\ data[t] \in Jobs \cup {NoJob}
      BY DEF TypeOK
    <2>5. /\ Len(taken) <= Len(stored) /\ Len(stored) < Len(taken) + Capacity
          /\ rear = Slot(Len(stored))
      <3>1. count < Capacity /\ count \in 0..Capacity
        BY <2>1 DEF IntactInv, QueueInv, CountExact, ChecksStillHold
      <3>2. /\ count = Len(stored) - Len(taken) - 0 + (IF Taking THEN 1 ELSE 0)
            /\ rear = Slot(Len(stored)) /\ Len(taken) <= Len(stored)
        BY <2>4 DEF IntactInv, QueueInv, CountExact, Fifo
      <3> QED BY <3>1, <3>2, <2>s, CapacityAssumption
    <2>a. /\ taken' = taken /\ Len(stored') = Len(stored) + 1
          /\ \A i \in 1..Len(stored) : stored'[i] = stored[i]
          /\ stored'[Len(stored) + 1] = data[t]
      BY <1>6, <2>s DEF PushStore, TypeOK
    <2>6. Fifo'
      BY <2>5, <2>s, <2>a DEF IntactInv, QueueInv, Fifo
    <2>7. SlotsKept'
      <3> SUFFICES ASSUME NEW i \in Len(taken)+1..Len(stored)+1
                   PROVE  buffer'[Slot(i - 1)] = stored'[i]
        BY <2>a DEF SlotsKept, Slot
      <3>1. buffer' = [buffer EXCEPT ![Slot(Len(stored))] = data[t]]
        BY <1>6, <2>5 DEF PushStore, Intact
      <3>2. i - 1 \in Nat /\ Slot(i - 1) \in 0..Capacity-1
        <4>1. i - 1 \in Nat
          BY <2>s
        <4> QED BY <4>1, SlotType
      <3>3. CASE i = Len(stored) + 1
        BY <3>1, <3>2, <3>3, <2>s, <2>a DEF TypeOK
      <3>4. CASE i \in Len(taken)+1..Len(stored)
        <4>1. Slot(i - 1) # Slot(Len(stored))
          BY <3>2, <3>4, <2>5, <2>s, SlotsDiffer, CapacityAssumption
        <4>2. buffer'[Slot(i - 1)] = buffer[Slot(i - 1)]
          BY <4>1, <3>1, <3>2 DEF TypeOK
        <4>3. stored'[i] = stored[i]
          BY <3>4, <2>a, <2>s
        <4> QED BY <4>2, <4>3, <3>4 DEF IntactInv, QueueInv, SlotsKept
      <3> QED BY <3>3, <3>4, <2>s
    <2>8. CountExact'
      <3>1. front' = Slot(Len(taken')) /\ count' = count /\ count \in 0..Capacity
        BY <1>6, <2>a DEF PushStore, IntactInv, QueueInv, CountExact
      <3>2. rear' = Slot(Len(stored'))
        BY <1>6, <2>5, <2>s, <2>a, SlotSucc DEF PushStore
      <3>3. count = Len(stored') - Len(taken') - 1 + (IF Taking' THEN 1 ELSE 0)
        BY <2>4, <2>s, <2>a DEF IntactInv, QueueInv, CountExact
      <3> QED BY <3>1, <3>2, <3>3, <2>4 DEF CountExact, Slot
    <2> QED BY <2>2, <2>3, <2>6, <2>7, <2>8 DEF IntactInv, QueueInv
  <1>7. CASE PushRecountLock(t)
    <2>1. Moves(t, "push_commit") /\ pc[t] = "push_recount"
      BY <1>7, GotoMoves DEF PushRecountLock, LockStep, Quiet
    <2>2. LocksExclusive'
      BY <1>7, <2>1, LockIntact, Acquires
         DEF PushRecountLock, IntactInv, Mutexes, PushHeld, PopHeld, CountHeld, LockStep, Quiet
    <2>3. ChecksStillHold'
      BY <1>7, <2>1, KeepsChecks DEF PushRecountLock, structVars, IntactInv, ChecksStillHold, LockStep, Quiet
    <2>4. QueueInv'
      BY <1>7, <2>1, QuietStep, QuietGaps
         DEF PushRecountLock, structVars, history, IntactInv, InGap, OutGap, LockStep, Quiet
    <2> QED BY <2>2, <2>3, <2>4 DEF IntactInv
  <1>8. CASE PushCommit(t)
    <2>1. Moves(t, "push_return") /\ pc[t] = "push_commit"
      BY <1>8, SignalSleepers, GotoWakingMoves DEF PushCommit
    <2>2. LocksExclusive'
      <3>1. owner["count_lock"] = t
        BY <2>1 DEF IntactInv, LocksExclusive, CountHeld
      <3> QED BY <1>8, <2>1, <3>1, UnlockIntact, Releases
                 DEF PushCommit, IntactInv, Mutexes, PushHeld, PopHeld, CountHeld
    <2>3. \A u \in Threads : pc[u] \in PushHeld => u = t
      BY <2>1 DEF IntactInv, LocksExclusive, PushHeld
    <2>4. Storing /\ ~Storing' /\ (Taking' <=> Taking)
      <3>1. Storing
        BY <2>1 DEF Storing
      <3>2. ~Storing'
        BY <2>1, <2>3 DEF Moves, Storing, PushHeld
      <3>3. \A u \in Threads : pc'[u] \in OutGap <=> pc[u] \in OutGap
        BY <2>1 DEF Moves, OutGap
      <3> QED BY <3>1, <3>2, <3>3 DEF Taking, OutGap
    <2>5. count \in 0..Capacity /\ count < Capacity /\ count' = count + 1
      BY <1>8, <2>1 DEF PushCommit, IntactInv, QueueInv, CountExact, ChecksStillHold
    <2>6. ChecksStillHold'
      BY <2>1, <2>3, <2>5, CapacityAssumption DEF IntactInv, ChecksStillHold, Moves, PushHeld
    <2>7. UNCHANGED <<buffer, front, rear, stored, taken>>
      BY <1>8 DEF PushCommit, history
    <2>8. Fifo' /\ SlotsKept'
      BY <2>7 DEF IntactInv, QueueInv, Fifo, SlotsKept, Slot
    <2>9. CountExact'
      <3>1. Len(stored) \in Nat /\ Len(taken) \in Nat
        BY DEF TypeOK
      <3>2. count = Len(stored) - Len(taken) - 1 + (IF Taking THEN 1 ELSE 0)
        BY <2>4 DEF IntactInv, QueueInv, CountExact
      <3>3. count' = Len(stored') - Len(taken') - 0 + (IF Taking' THEN 1 ELSE 0)
        BY <3>1, <3>2, <2>4, <2>5, <2>7
      <3> QED BY <3>3, <2>4, <2>5, <2>7, CapacityAssumption
                 DEF IntactInv, QueueInv, CountExact, Slot
    <2> QED BY <2>2, <2>6, <2>8, <2>9 DEF IntactInv, QueueInv
  <1>9. CASE PushReturn(t)
    <2>1. Moves(t, "ok") /\ pc[t] = "push_return"
      BY <1>9, GotoMoves DEF PushReturn, UnlockStep, Quiet
    <2>2. LocksExclusive'
      <3>1. owner["push_lock"] = t
        BY <2>1 DEF IntactInv, LocksExclusive, PushHeld, PopHeld, CountHeld
      <3> QED BY <1>9, <2>1, <3>1, UnlockIntact, Releases
                 DEF PushReturn, IntactInv, Mutexes, PushHeld, PopHeld, CountHeld, UnlockStep, Quiet
    <2>3. ChecksStillHold'
      BY <1>9, <2>1, KeepsChecks DEF PushReturn, structVars, IntactInv, ChecksStillHold, UnlockStep, Quiet
    <2>4. QueueInv'
      BY <1>9, <2>1, QuietStep, QuietGaps
         DEF PushReturn, structVars, history, IntactInv, InGap, OutGap, UnlockStep, Quiet
    <2> QED BY <2>2, <2>3, <2>4 DEF IntactInv
  <1> QED BY <1>1, <1>2, <1>3, <1>4, <1>5, <1>6, <1>7, <1>8, <1>9 DEF Push

LEMMA PopIntact ==
    ASSUME TypeOK, Intact, IntactInv, NEW t \in Threads, Pop(t)
    PROVE  IntactInv'
  <1>1. CASE PopLock(t)
    <2>1. Moves(t, "pop_count") /\ pc[t] \in {"pop_lock", "pop_relock"}
      BY <1>1, GotoMoves DEF PopLock, LockStep, Quiet
    <2>2. LocksExclusive'
      BY <1>1, <2>1, LockIntact, Acquires
         DEF PopLock, IntactInv, Mutexes, PushHeld, PopHeld, CountHeld, LockStep, Quiet
    <2>3. ChecksStillHold'
      BY <1>1, <2>1, KeepsChecks DEF PopLock, structVars, IntactInv, ChecksStillHold, LockStep, Quiet
    <2>4. QueueInv'
      BY <1>1, <2>1, QuietStep, QuietGaps
         DEF PopLock, structVars, history, IntactInv, InGap, OutGap, LockStep, Quiet
    <2> QED BY <2>2, <2>3, <2>4 DEF IntactInv
  <1>2. CASE PopCountLock(t)
    <2>1. Moves(t, "pop_check") /\ pc[t] = "pop_count"
      BY <1>2, GotoMoves DEF PopCountLock, LockStep, Quiet
    <2>2. LocksExclusive'
      BY <1>2, <2>1, LockIntact, Acquires
         DEF PopCountLock, IntactInv, Mutexes, PushHeld, PopHeld, CountHeld, LockStep, Quiet
    <2>3. ChecksStillHold'
      BY <1>2, <2>1, KeepsChecks DEF PopCountLock, structVars, IntactInv, ChecksStillHold, LockStep, Quiet
    <2>4. QueueInv'
      BY <1>2, <2>1, QuietStep, QuietGaps
         DEF PopCountLock, structVars, history, IntactInv, InGap, OutGap, LockStep, Quiet
    <2> QED BY <2>2, <2>3, <2>4 DEF IntactInv
  <1>3. CASE PopCheck(t)
    <2>1. PICK l \in {"pop_dead", "pop_sleep", "pop_take"} :
             /\ Moves(t, l) /\ pc[t] = "pop_check"
             /\ l = "pop_take" => count > 0
      <3>1. count \in 0..Capacity /\ destroyed \in BOOLEAN
        BY DEF TypeOK, IntactInv, QueueInv, CountExact
      <3>2. PICK l \in {"pop_dead", "pop_sleep", "pop_take"} :
               Goto(t, l) /\ (l = "pop_take" => count > 0)
        BY <1>3, <3>1, CapacityAssumption DEF PopCheck, Quiet
      <3> QED BY <1>3, <3>2, GotoMoves DEF PopCheck, Quiet
    <2>2. LocksExclusive'
      <3>1. owner["count_lock"] = t
        BY <2>1 DEF IntactInv, LocksExclusive, PushHeld, PopHeld, CountHeld
      <3> QED BY <1>3, <2>1, <3>1, UnlockIntact, Releases
                 DEF PopCheck, IntactInv, Mutexes, PushHeld, PopHeld, CountHeld, Quiet
    <2>3. ChecksStillHold'
      BY <1>3, <2>1, KeepsChecks DEF PopCheck, structVars, IntactInv, ChecksStillHold, Quiet
    <2>4. QueueInv'
      BY <1>3, <2>1, QuietStep, QuietGaps
         DEF PopCheck, structVars, history, IntactInv, InGap, OutGap, Quiet
    <2> QED BY <2>2, <2>3, <2>4 DEF IntactInv
  <1>4. CASE PopDead(t)
    <2>1. Moves(t, "failed") /\ pc[t] = "pop_dead"
      BY <1>4, GotoMoves DEF PopDead, UnlockStep, Quiet
    <2>2. LocksExclusive'
      <3>1. owner["pop_lock"] = t
        BY <2>1 DEF IntactInv, LocksExclusive, PushHeld, PopHeld, CountHeld
      <3> QED BY <1>4, <2>1, <3>1, UnlockIntact, Releases
                 DEF PopDead, IntactInv, Mutexes, PushHeld, PopHeld, CountHeld, UnlockStep, Quiet
    <2>3. ChecksStillHold'
      BY <1>4, <2>1, KeepsChecks DEF PopDead, structVars, IntactInv, ChecksStillHold, UnlockStep, Quiet
    <2>4. QueueInv'
      BY <1>4, <2>1, QuietStep, QuietGaps
         DEF PopDead, structVars, history, IntactInv, InGap, OutGap, UnlockStep, Quiet
    <2> QED BY <2>2, <2>3, <2>4 DEF IntactInv
  <1>5. CASE PopWait(t)
    <2>1. Moves(t, "pop_asleep") /\ pc[t] = "pop_sleep"
      BY <1>5, GotoMoves DEF PopWait, Intact, Quiet
    <2>2. LocksExclusive'
      <3>1. owner["pop_lock"] = t
        BY <2>1 DEF IntactInv, LocksExclusive, PushHeld, PopHeld, CountHeld
      <3> QED BY <1>5, <2>1, <3>1, UnlockIntact, Releases
                 DEF PopWait, IntactInv, Mutexes, PushHeld, PopHeld, CountHeld, Quiet
    <2>3. ChecksStillHold'
      BY <1>5, <2>1, KeepsChecks DEF PopWait, structVars, IntactInv, ChecksStillHold, Quiet
    <2>4. QueueInv'
      BY <1>5, <2>1, QuietStep, QuietGaps
         DEF PopWait, structVars, history, IntactInv, InGap, OutGap, Quiet
    <2> QED BY <2>2, <2>3, <2>4 DEF IntactInv
  <1>6. CASE PopTake(t)
    <2>1. Moves(t, "pop_recount") /\ pc[t] = "pop_take"
      BY <1>6, GotoMoves DEF PopTake
    <2>2. LocksExclusive'
      BY <1>6, <2>1, KeepsLocks
         DEF PopTake, mutexVars, IntactInv, PushHeld, PopHeld, CountHeld
    <2>3. ChecksStillHold'
      BY <1>6, <2>1, KeepsChecks DEF PopTake, IntactInv, ChecksStillHold
    <2>4. ~Taking /\ Taking' /\ (Storing' <=> Storing)
      <3>1. \A u \in Threads : pc[u] \in PopHeld => u = t
        BY <2>1 DEF IntactInv, LocksExclusive, PopHeld
      <3>2. ~Taking
        BY <2>1, <3>1 DEF Taking, PopHeld
      <3>3. Taking'
        BY <2>1 DEF Moves, Taking
      <3>4. \A u \in Threads : pc'[u] \in InGap <=> pc[u] \in InGap
        BY <2>1 DEF Moves, InGap
      <3> QED BY <3>2, <3>3, <3>4 DEF Storing, InGap
    <2>s. Len(stored) \in Nat /\ Len(taken) \in Nat
      BY DEF TypeOK
    <2>5. Len(taken) < Len(stored) /\ front = Slot(Len(taken))
      <3>1. count > 0 /\ count \in 0..Capacity
        BY <2>1 DEF IntactInv, QueueInv, CountExact, ChecksStillHold
      <3>2. /\ count = Len(stored) - Len(taken) - (IF Storing THEN 1 ELSE 0) + 0
            /\ front = Slot(Len(taken))
        BY <2>4 DEF IntactInv, QueueInv, CountExact
      <3> QED BY <3>1, <3>2, <2>s, CapacityAssumption
    <2>6. buffer[front] = stored[Len(taken) + 1]
      <3>1. Len(taken) + 1 \in Len(taken)+1..Len(stored) /\ (Len(taken) + 1) - 1 = Len(taken)
        BY <2>5, <2>s
      <3> QED BY <3>1, <2>5 DEF IntactInv, QueueInv, SlotsKept
    <2>a. /\ stored' = stored /\ buffer' = buffer /\ Len(taken') = Len(taken) + 1
          /\ \A i \in 1..Len(taken) : taken'[i] = taken[i]
          /\ taken'[Len(taken) + 1] = buffer[front]
      BY <1>6, <2>s DEF PopTake, TypeOK, Intact
    <2>7. Fifo'
      BY <2>5, <2>6, <2>s, <2>a DEF IntactInv, QueueInv, Fifo
    <2>8. SlotsKept'
      BY <2>5, <2>s, <2>a DEF IntactInv, QueueInv, SlotsKept, Slot
    <2>9. CountExact'
      <3>1. rear' = Slot(Len(stored')) /\ count' = count /\ count \in 0..Capacity
        BY <1>6, <2>a DEF PopTake, IntactInv, QueueInv, CountExact
      <3>2. front' = Slot(Len(taken'))
        BY <1>6, <2>5, <2>s, <2>a, SlotSucc DEF PopTake
      <3>3. count = Len(stored') - Len(taken') - (IF Storing' THEN 1 ELSE 0) + 1
        BY <2>4, <2>s, <2>a DEF IntactInv, QueueInv, CountExact
      <3> QED BY <3>1, <3>2, <3>3, <2>4 DEF CountExact, Slot
    <2> QED BY <2>2, <2>3, <2>7, <2>8, <2>9 DEF IntactInv, QueueInv
  <1>7. CASE PopRecountLock(t)
    <2>1. Moves(t, "pop_commit") /\ pc[t] = "pop_recount"
      BY <1>7, GotoMoves DEF PopRecountLock, LockStep, Quiet
    <2>2. LocksExclusive'
      BY <1>7, <2>1, LockIntact, Acquires
         DEF PopRecountLock, IntactInv, Mutexes, PushHeld, PopHeld, CountHeld, LockStep, Quiet
    <2>3. ChecksStillHold'
      BY <1>7, <2>1, KeepsChecks DEF PopRecountLock, structVars, IntactInv, ChecksStillHold, LockStep, Quiet
    <2>4. QueueInv'
      BY <1>7, <2>1, QuietStep, QuietGaps
         DEF PopRecountLock, structVars, history, IntactInv, InGap, OutGap, LockStep, Quiet
    <2> QED BY <2>2, <2>3, <2>4 DEF IntactInv
  <1>8. CASE PopCommit(t)
    <2>1. Moves(t, "pop_return") /\ pc[t] = "pop_commit"
      BY <1>8, SignalSleepers, GotoWakingMoves DEF PopCommit
    <2>2. LocksExclusive'
      <3>1. owner["count_lock"] = t
        BY <2>1 DEF IntactInv, LocksExclusive, CountHeld
      <3> QED BY <1>8, <2>1, <3>1, UnlockIntact, Releases
                 DEF PopCommit, IntactInv, Mutexes, PushHeld, PopHeld, CountHeld
    <2>3. \A u \in Threads : pc[u] \in PopHeld => u = t
      BY <2>1 DEF IntactInv, LocksExclusive, PopHeld
    <2>4. Taking /\ ~Taking' /\ (Storing' <=> Storing)
      <3>1. Taking
        BY <2>1 DEF Taking
      <3>2. ~Taking'
        BY <2>1, <2>3 DEF Moves, Taking, PopHeld
      <3>3. \A u \in Threads : pc'[u] \in InGap <=> pc[u] \in InGap
        BY <2>1 DEF Moves, InGap
      <3> QED BY <3>1, <3>2, <3>3 DEF Storing, InGap
    <2>5. count \in 0..Capacity /\ count > 0 /\ count' = count - 1
      BY <1>8, <2>1 DEF PopCommit, IntactInv, QueueInv, CountExact, ChecksStillHold
    <2>6. ChecksStillHold'
      BY <2>1, <2>3, <2>5, CapacityAssumption DEF IntactInv, ChecksStillHold, Moves, PopHeld
    <2>7. UNCHANGED <<buffer, front, rear, stored, taken>>
      BY <1>8 DEF PopCommit, history
    <2>8. Fifo' /\ SlotsKept'
      BY <2>7 DEF IntactInv, QueueInv, Fifo, SlotsKept, Slot
    <2>9. CountExact'
      <3>1. Len(stored) \in Nat /\ Len(taken) \in Nat
        BY DEF TypeOK
      <3>2. count = Len(stored) - Len(taken) - (IF Storing THEN 1 ELSE 0) + 1
        BY <2>4 DEF IntactInv, QueueInv, CountExact
      <3>3. count' = Len(stored') - Len(taken') - (IF Storing' THEN 1 ELSE 0) + 0
        BY <3>1, <3>2, <2>4, <2>5, <2>7
      <3> QED BY <3>3, <2>4, <2>5, <2>7, CapacityAssumption
                 DEF IntactInv, QueueInv, CountExact, Slot
    <2> QED BY <2>2, <2>6, <2>8, <2>9 DEF IntactInv, QueueInv
  <1>9. CASE PopReturn(t)
    <2>1. Moves(t, "ok") /\ pc[t] = "pop_return"
      BY <1>9, GotoMoves DEF PopReturn, UnlockStep, Quiet
    <2>2. LocksExclusive'
      <3>1. owner["pop_lock"] = t
        BY <2>1 DEF IntactInv, LocksExclusive, PushHeld, PopHeld, CountHeld
      <3> QED BY <1>9, <2>1, <3>1, UnlockIntact, Releases
                 DEF PopReturn, IntactInv, Mutexes, PushHeld, PopHeld, CountHeld, UnlockStep, Quiet
    <2>3. ChecksStillHold'
      BY <1>9, <2>1, KeepsChecks DEF PopReturn, structVars, IntactInv, ChecksStillHold, UnlockStep, Quiet
    <2>4. QueueInv'
      BY <1>9, <2>1, QuietStep, QuietGaps
         DEF PopReturn, structVars, history, IntactInv, InGap, OutGap, UnlockStep, Quiet
    <2> QED BY <2>2, <2>3, <2>4 DEF IntactInv
  <1> QED BY <1>1, <1>2, <1>3, <1>4, <1>5, <1>6, <1>7, <1>8, <1>9 DEF Pop

LEMMA DestroyIntact ==
    ASSUME TypeOK, Intact, IntactInv, NEW t \in Threads, Destroy(t), Intact'
    PROVE  IntactInv'
  <1>1. CASE DestroyLock(t)
    <2>1. Moves(t, "mark") /\ pc[t] = "mark_lock"
      BY <1>1, GotoMoves DEF DestroyLock, LockStep, Quiet
    <2>2. LocksExclusive'
      BY <1>1, <2>1, LockIntact, Acquires
         DEF DestroyLock, IntactInv, Mutexes, PushHeld, PopHeld, CountHeld, LockStep, Quiet
    <2>3. ChecksStillHold'
      BY <1>1, <2>1, KeepsChecks DEF DestroyLock, structVars, IntactInv, ChecksStillHold, LockStep, Quiet
    <2>4. QueueInv'
      BY <1>1, <2>1, QuietStep, QuietGaps
         DEF DestroyLock, structVars, history, IntactInv, InGap, OutGap, LockStep, Quiet
    <2> QED BY <2>2, <2>3, <2>4 DEF IntactInv
  <1>2. CASE DestroyMark(t)
    <2>1. Moves(t, "drain_lock") /\ pc[t] = "mark"
      BY <1>2, GotoWakingMoves DEF DestroyMark
    <2>2. LocksExclusive'
      <3>1. owner["count_lock"] = t
        BY <2>1 DEF IntactInv, LocksExclusive, PushHeld, PopHeld, CountHeld
      <3> QED BY <1>2, <2>1, <3>1, UnlockIntact, Releases
                 DEF DestroyMark, IntactInv, Mutexes, PushHeld, PopHeld, CountHeld
    <2>3. ChecksStillHold'
      BY <1>2, <2>1, KeepsChecks DEF DestroyMark, structVars, IntactInv, ChecksStillHold
    <2>4. QueueInv'
      BY <1>2, <2>1, QuietStep, QuietGaps
         DEF DestroyMark, structVars, history, IntactInv, InGap, OutGap
    <2> QED BY <2>2, <2>3, <2>4 DEF IntactInv
  <1>3. CASE DrainLock(t)
    <2>1. Moves(t, "drain_check") /\ pc[t] = "drain_lock"
      BY <1>3, GotoMoves DEF DrainLock, LockStep, Quiet
    <2>2. LocksExclusive'
      BY <1>3, <2>1, LockIntact, Acquires
         DEF DrainLock, IntactInv, Mutexes, PushHeld, PopHeld, CountHeld, LockStep, Quiet
    <2>3. ChecksStillHold'
      BY <1>3, <2>1, KeepsChecks DEF DrainLock, structVars, IntactInv, ChecksStillHold, LockStep, Quiet
    <2>4. QueueInv'
      BY <1>3, <2>1, QuietStep, QuietGaps
         DEF DrainLock, structVars, history, IntactInv, InGap, OutGap, LockStep, Quiet
    <2> QED BY <2>2, <2>3, <2>4 DEF IntactInv
  <1>4. CASE DrainCheck(t)
    <2>1. PICK l \in {"drain_lock", "kill_push_lock"} :
             /\ Moves(t, l) /\ pc[t] = "drain_check"
             /\ TRUE
      <3>1. count \in 0..Capacity /\ destroyed \in BOOLEAN
        BY DEF TypeOK, IntactInv, QueueInv, CountExact
      <3>2. PICK l \in {"drain_lock", "kill_push_lock"} :
               Goto(t, l) /\ (TRUE)
        BY <1>4, <3>1, CapacityAssumption DEF DrainCheck, Quiet
      <3> QED BY <1>4, <3>2, GotoMoves DEF DrainCheck, Quiet
    <2>2. LocksExclusive'
      <3>1. owner["count_lock"] = t
        BY <2>1 DEF IntactInv, LocksExclusive, PushHeld, PopHeld, CountHeld
      <3> QED BY <1>4, <2>1, <3>1, UnlockIntact, Releases
                 DEF DrainCheck, IntactInv, Mutexes, PushHeld, PopHeld, CountHeld, Quiet
    <2>3. ChecksStillHold'
      BY <1>4, <2>1, KeepsChecks DEF DrainCheck, structVars, IntactInv, ChecksStillHold, Quiet
    <2>4. QueueInv'
      BY <1>4, <2>1, QuietStep, QuietGaps
         DEF DrainCheck, structVars, history, IntactInv, InGap, OutGap, Quiet
    <2> QED BY <2>2, <2>3, <2>4 DEF IntactInv
  <1>5. CASE KillMutex(t) \/ KillCond(t)
    <2>1. PICK l \in Teardown : Moves(t, l) /\ pc[t] \in Teardown
      BY <1>5, GotoMoves DEF KillMutex, KillCond, Teardown, Quiet
    <2>2. owner' = owner
      BY <1>5 DEF KillMutex, KillCond, DestroyMutex, mutexVars, Quiet
    <2>3. LocksExclusive'
      BY <2>1, <2>2, KeepsLocks DEF IntactInv, Teardown, PushHeld, PopHeld, CountHeld
    <2>4. UNCHANGED <<structVars, history>>
      BY <1>5 DEF KillMutex, KillCond, Quiet
    <2>5. ChecksStillHold'
      BY <2>1, <2>4, KeepsChecks DEF structVars, IntactInv, Teardown
    <2>6. QueueInv'
      BY <2>1, <2>4, QuietStep, QuietGaps
         DEF structVars, history, IntactInv, InGap, OutGap, Teardown
    <2> QED BY <2>3, <2>5, <2>6 DEF IntactInv
  <1>6. CASE FreeBuffer(t)
    BY <1>6 DEF FreeBuffer, Intact
  <1> QED BY <1>1, <1>2, <1>3, <1>4, <1>5, <1>6 DEF Destroy

LEMMA CallIntact ==
    ASSUME TypeOK, Intact, IntactInv, NEW t \in Threads,
           (\E d \in Jobs : PushCall(t, d)) \/ PopCall(t) \/ DestroyCall(t) \/ SpuriousWake(t)
    PROVE  IntactInv'
  <1> DEFINE Before == Outside \cup {"push_asleep", "pop_asleep"}
             After == {"push_lock", "pop_lock", "mark_lock", "push_relock", "pop_relock"}
  <1>1. PICK l \in After : Moves(t, l) /\ pc[t] \in Before
    BY GotoMoves DEF PushCall, PopCall, DestroyCall, SpuriousWake, Relock, not_full, not_empty
  <1>2. UNCHANGED <<structVars, owner, stored, taken>>
    BY DEF PushCall, PopCall, DestroyCall, SpuriousWake, mutexVars, history
  <1>3. LocksExclusive'
    BY <1>1, <1>2, KeepsLocks DEF IntactInv, Outside, PushHeld, PopHeld, CountHeld
  <1>4. ChecksStillHold'
    BY <1>1, <1>2, KeepsChecks DEF structVars, IntactInv
  <1>5. QueueInv'
    BY <1>1, <1>2, QuietStep, QuietGaps DEF structVars, IntactInv, InGap, OutGap, Outside
  <1> QED BY <1>3, <1>4, <1>5 DEF IntactInv

-----------------------------------------------------------------------------
(* The queue works while it is intact                                      *)

LEMMA InitIntact == Init => IntactInv
  <1> SUFFICES ASSUME Init PROVE IntactInv
    OBVIOUS
  <1>1. \A t \in Threads : pc[t] = "idle"
    BY DEF Init
  <1>2. LocksExclusive
    BY <1>1, NoThreadAssumption
       DEF Init, LocksExclusive, Mutexes, PushHeld, PopHeld, CountHeld
  <1>3. ChecksStillHold
    BY <1>1 DEF ChecksStillHold
  <1>4. ~Storing /\ ~Taking
    BY <1>1 DEF Storing, Taking
  <1>5. Len(stored) = 0 /\ Len(taken) = 0
    BY DEF Init
  <1>6. Fifo /\ SlotsKept
    BY <1>5 DEF Fifo, SlotsKept
  <1>7. CountExact
    <2>1. Slot(0) = 0 /\ 0 \in 0..Capacity
      BY CapacityAssumption DEF Slot
    <2> QED BY <2>1, <1>4, <1>5 DEF Init, CountExact
  <1> QED BY <1>2, <1>3, <1>6, <1>7 DEF IntactInv, QueueInv

LEMMA NextIntact ==
    ASSUME TypeOK, Intact => IntactInv, [Next]_vars
    PROVE  (Intact => IntactInv)'
  <1> SUFFICES ASSUME Intact' PROVE IntactInv'
    OBVIOUS
  <1>i. Intact /\ IntactInv
    BY IntactBefore
  <1>t. Producers \subseteq Threads /\ Consumers \subseteq Threads /\ Destroyer \in Threads
    BY DEF Threads
  <1>1. CASE \E t \in Producers, d \in Jobs : PushCall(t, d)
    BY <1>1, <1>i, <1>t, CallIntact
  <1>2. CASE \E t \in Consumers : PopCall(t)
    BY <1>2, <1>i, <1>t, CallIntact
  <1>3. CASE DestroyCall(Destroyer)
    BY <1>3, <1>i, <1>t, CallIntact
  <1>4. CASE \E t \in Threads : Step(t) \/ SpuriousWake(t)
    BY <1>4, <1>i, PushIntact, PopIntact, DestroyIntact, CallIntact DEF Step
  <1>5. CASE UNCHANGED vars
    BY <1>5, <1>i DEF vars, structVars, mutexVars, history, IntactInv, LocksExclusive,
       ChecksStillHold, QueueInv, Fifo, SlotsKept, CountExact, Storing, Taking, Slot
  <1> QED BY <1>1, <1>2, <1>3, <1>4, <1>5 DEF Next

LEMMA IntactInvariant == Spec => [](Intact => IntactInv)
  <1>1. TypeOK /\ (Intact => IntactInv) /\ [Next]_vars => TypeOK' /\ (Intact => IntactInv)'
    BY NextType, NextIntact
  <1>2. Init => TypeOK /\ (Intact => IntactInv)
    BY InitType, InitIntact
  <1> QED BY <1>1, <1>2, PTL DEF Spec

\* Until job_queue_destroy begins its teardown, whatever the callers do, jobs
\* leave the queue in order, none lost, none twice; no unread slot is
\* overwritten; and count, front and rear agree.
THEOREM QueueCorrect == Spec => []IntactQueue
  <1>1. (Intact => IntactInv) => IntactQueue
    BY DEF IntactInv, IntactQueue
  <1> QED BY <1>1, IntactInvariant, PTL

\* Until then each mutex excludes: its holder is the one thread in its
\* section of push, pop or destroy.
THEOREM LocksCorrect == Spec => []IntactLocks
  <1>1. (Intact => IntactInv) => IntactLocks
    BY DEF IntactInv, IntactLocks
  <1> QED BY <1>1, IntactInvariant, PTL

\* Until then a push that found the queue not full still finds it not full
\* when it stores and counts, and a pop that found it not empty likewise.
THEOREM ChecksCorrect == Spec => []IntactChecks
  <1>1. (Intact => IntactInv) => IntactChecks
    BY DEF IntactInv, IntactChecks
  <1> QED BY <1>1, IntactInvariant, PTL
=============================================================================
