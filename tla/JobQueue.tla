------------------------------ MODULE JobQueue ------------------------------
(***************************************************************************)
(* The bounded job queue of Opgave3/src/job_queue.c, one action per        *)
(* critical section or library call.  Three mutexes guard it: push_lock    *)
(* serialises the pushers, pop_lock the poppers, and count_lock guards     *)
(* count and destroyed.  A thread tests count under count_lock, releases   *)
(* count_lock, and only then sleeps on a condition variable whose mutex is *)
(* push_lock or pop_lock; signals are sent under count_lock.               *)
(*                                                                         *)
(* The locals full, empty, dead and remaining live from one test to the    *)
(* branch on it and are folded into the pc the test leads to.  A condition *)
(* variable is the set of threads asleep on it.                            *)
(***************************************************************************)
EXTENDS Integers, Sequences, FiniteSets

CONSTANTS
    Producers,  \* threads that call job_queue_push
    Consumers,  \* threads that call job_queue_pop
    Destroyer,  \* the thread that calls job_queue_destroy
    Capacity,   \* q->capacity
    Jobs,       \* the void* jobs, each a fresh allocation of the caller
    NoJob,      \* content of a slot that was never written, or was freed
    NoThread    \* owner of a free mutex

Threads == Producers \cup Consumers \cup {Destroyer}
Mutexes == {"push_lock", "pop_lock", "count_lock"}

ASSUME CapacityAssumption == Capacity \in Nat \ {0}
ASSUME NoThreadAssumption == NoThread \notin Threads
ASSUME NoJobAssumption    == NoJob \notin Jobs

VARIABLES
    buffer, front, rear, count, destroyed, \* struct job_queue
    owner,      \* [Mutexes -> the thread holding it, or NoThread]
    dead,       \* mutexes that pthread_mutex_destroy has taken down
    stranded,   \* threads that were inside pthread_mutex_lock at that moment
    freed,      \* free(q->buffer) was executed
    pc,         \* where each thread is
    data,       \* each thread's job: the argument of push, the result of pop
    submitted,  \* jobs handed to push so far (each is pushed once)
    stored,     \* history: the jobs written to the buffer, in order
    taken       \* history: the jobs read from the buffer, in order

structVars == <<buffer, front, rear, count, destroyed>>
mutexVars  == <<owner, dead, stranded>>
history    == <<submitted, stored, taken>>
vars == <<structVars, mutexVars, freed, pc, data, history>>

-----------------------------------------------------------------------------
(* Program counters, grouped by what the thread holds there.               *)

\* Outside the queue: never called, last call returned 0, returned -1.
Outside == {"idle", "ok", "failed"}

PushHeld == {"push_count", "push_check", "push_dead", "push_sleep",
             "push_store", "push_recount", "push_commit", "push_return"}
PopHeld  == {"pop_count", "pop_check", "pop_dead", "pop_sleep",
             "pop_take", "pop_recount", "pop_commit", "pop_return"}
CountHeld == {"push_check", "push_commit", "pop_check", "pop_commit",
              "mark", "drain_check"}
Teardown == {"kill_push_lock", "kill_pop_lock", "kill_count_lock",
             "kill_not_full", "kill_not_empty", "free_buffer"}
PCs == Outside \cup PushHeld \cup PopHeld \cup Teardown \cup
       {"push_lock", "push_asleep", "push_relock",
        "pop_lock", "pop_asleep", "pop_relock",
        "mark_lock", "mark", "drain_lock", "drain_check"}

\* Where a thread is about to lock mutex m for the first time.
LockPCs(m) == CASE m = "push_lock"  -> {"push_lock"}
                [] m = "pop_lock"   -> {"pop_lock"}
                [] m = "count_lock" -> {"push_count", "push_recount",
                                        "pop_count", "pop_recount",
                                        "mark_lock", "drain_lock"}

Goto(t, l) == pc' = [pc EXCEPT ![t] = l]

-----------------------------------------------------------------------------
(* The pthread primitives, as glibc implements them.                       *)

\* pthread_mutex_lock.  On a destroyed mutex it returns EINVAL, which the
\* code ignores; a thread that was already inside the call when the mutex was
\* destroyed still waits for the owner and then holds it.
Lock(t, m) ==
    \/ /\ m \notin dead
       /\ owner[m] = NoThread
       /\ owner' = [owner EXCEPT ![m] = t]
       /\ UNCHANGED <<dead, stranded>>
    \/ /\ m \in dead
       /\ t \notin stranded
       /\ UNCHANGED mutexVars
    \/ /\ m \in dead
       /\ t \in stranded
       /\ owner[m] = NoThread
       /\ owner' = [owner EXCEPT ![m] = t]
       /\ stranded' = stranded \ {t}
       /\ UNCHANGED dead

\* pthread_mutex_unlock: EINVAL, and no release, once m was destroyed.
Unlock(m) ==
    /\ owner' = IF m \in dead THEN owner ELSE [owner EXCEPT ![m] = NoThread]
    /\ UNCHANGED <<dead, stranded>>

not_full  == {t \in Threads : pc[t] = "push_asleep"}
not_empty == {t \in Threads : pc[t] = "pop_asleep"}

\* Nothing but the mutexes and the thread's pc changes.
Quiet == UNCHANGED <<structVars, freed, data, history>>

LockStep(t, m, from, to) ==
    /\ pc[t] \in from
    /\ Lock(t, m)
    /\ Goto(t, to)
    /\ Quiet

UnlockStep(t, m, from, to) ==
    /\ pc[t] = from
    /\ Unlock(m)
    /\ Goto(t, to)
    /\ Quiet

\* pthread_cond_signal: the sets of threads it may wake.
Signal(cond) == IF cond = {} THEN {{}} ELSE {{w} : w \in cond}

\* The pc of a woken thread: back inside pthread_cond_wait, relocking.
Relock(t) == IF pc[t] = "push_asleep" THEN "push_relock" ELSE "pop_relock"

\* Thread t goes to l while the threads in woken leave their sleep.
GotoWaking(t, l, woken) ==
    pc' = [u \in Threads |-> IF u = t THEN l
                             ELSE IF u \in woken THEN Relock(u) ELSE pc[u]]

\* A mutex counts as used while it is held or while a pthread_cond_wait that
\* released it has not returned.
Busy(m) ==
    \/ owner[m] # NoThread
    \/ m = "push_lock" /\ \E t \in Threads : pc[t] \in {"push_asleep", "push_relock"}
    \/ m = "pop_lock"  /\ \E t \in Threads : pc[t] \in {"pop_asleep", "pop_relock"}

\* pthread_mutex_destroy: EBUSY and no effect on a used mutex.  Any thread
\* about to lock m may already be inside the call, past its check of m.
DestroyMutex(m) ==
    \/ /\ Busy(m)
       /\ UNCHANGED mutexVars
    \/ /\ ~Busy(m)
       /\ dead' = dead \cup {m}
       /\ \E S \in SUBSET {t \in Threads : pc[t] \in LockPCs(m)} :
              stranded' = stranded \cup S
       /\ UNCHANGED owner

-----------------------------------------------------------------------------
(* job_queue_init                                                          *)

Init ==
    /\ buffer = [i \in 0..Capacity-1 |-> NoJob]
    /\ front = 0 /\ rear = 0 /\ count = 0 /\ destroyed = FALSE
    /\ owner = [m \in Mutexes |-> NoThread]
    /\ dead = {} /\ stranded = {} /\ freed = FALSE
    /\ pc = [t \in Threads |-> "idle"]
    /\ data = [t \in Threads |-> NoJob]
    /\ submitted = {} /\ stored = <<>> /\ taken = <<>>

-----------------------------------------------------------------------------
(* job_queue_push                                                          *)

PushCall(t, d) ==
    /\ pc[t] \in Outside
    /\ d \in Jobs \ submitted
    /\ submitted' = submitted \cup {d}
    /\ data' = [data EXCEPT ![t] = d]
    /\ Goto(t, "push_lock")
    /\ UNCHANGED <<structVars, mutexVars, freed, stored, taken>>

PushLock(t) == LockStep(t, "push_lock", {"push_lock", "push_relock"}, "push_count")

PushCountLock(t) == LockStep(t, "count_lock", {"push_count"}, "push_check")

\* Mutant of PushCheck: the test for a full queue is missing.
PushCheckNoFull(t) ==
    /\ pc[t] = "push_check"
    /\ Unlock("count_lock")
    /\ Goto(t, IF destroyed THEN "push_dead" ELSE "push_store")
    /\ Quiet

PushCheck(t) ==
    /\ pc[t] = "push_check"
    /\ Unlock("count_lock")
    /\ Goto(t, CASE destroyed                           -> "push_dead"
                 [] ~destroyed /\ count = Capacity      -> "push_sleep"
                 [] ~destroyed /\ count # Capacity      -> "push_store")
    /\ Quiet

PushDead(t) == UnlockStep(t, "push_lock", "push_dead", "failed")

\* Mutant of PushWait: sleeps with push_lock held.
PushWaitKeepsLock(t) ==
    /\ pc[t] = "push_sleep"
    /\ Goto(t, "push_asleep")
    /\ Quiet /\ UNCHANGED mutexVars

\* pthread_cond_wait releases push_lock and sleeps in one step; on a
\* destroyed mutex it returns an error at once and the loop goes round.
PushWait(t) ==
    /\ pc[t] = "push_sleep"
    /\ Unlock("push_lock")
    /\ Goto(t, IF "push_lock" \in dead THEN "push_count" ELSE "push_asleep")
    /\ Quiet

\* Mutant of PushStore: rear does not wrap around.
PushStoreNoWrap(t) ==
    /\ pc[t] = "push_store"
    /\ buffer' = IF freed THEN buffer ELSE [buffer EXCEPT ![rear] = data[t]]
    /\ rear' = rear + 1
    /\ stored' = Append(stored, data[t])
    /\ Goto(t, "push_recount")
    /\ UNCHANGED <<front, count, destroyed, mutexVars, freed, data, submitted, taken>>

PushStore(t) ==
    /\ pc[t] = "push_store"
    /\ buffer' = IF freed THEN buffer ELSE [buffer EXCEPT ![rear] = data[t]]
    /\ rear' = (rear + 1) % Capacity
    /\ stored' = Append(stored, data[t])
    /\ Goto(t, "push_recount")
    /\ UNCHANGED <<front, count, destroyed, mutexVars, freed, data, submitted, taken>>

PushRecountLock(t) == LockStep(t, "count_lock", {"push_recount"}, "push_commit")

PushCommit(t) ==
    /\ pc[t] = "push_commit"
    /\ count' = count + 1
    /\ Unlock("count_lock")
    /\ \E woken \in Signal(not_empty) : GotoWaking(t, "push_return", woken)
    /\ UNCHANGED <<buffer, front, rear, destroyed, freed, data, history>>

PushReturn(t) == UnlockStep(t, "push_lock", "push_return", "ok")

Push(t) == \/ PushLock(t)  \/ PushCountLock(t)   \/ PushCheck(t)
           \/ PushDead(t)  \/ PushWait(t)        \/ PushStore(t)
           \/ PushRecountLock(t) \/ PushCommit(t) \/ PushReturn(t)

-----------------------------------------------------------------------------
(* job_queue_pop                                                           *)

PopCall(t) ==
    /\ pc[t] \in Outside
    /\ Goto(t, "pop_lock")
    /\ UNCHANGED <<structVars, mutexVars, freed, data, history>>

\* Mutants of PopLock: a woken pop does not test count again ("if" for
\* "while"); pop_lock is not taken at all.
PopLockNoRetest(t) ==
    \/ LockStep(t, "pop_lock", {"pop_lock"}, "pop_count")
    \/ LockStep(t, "pop_lock", {"pop_relock"}, "pop_take")
PopLockSkipped(t) ==
    /\ pc[t] \in {"pop_lock", "pop_relock"}
    /\ Goto(t, "pop_count")
    /\ Quiet /\ UNCHANGED mutexVars

PopLock(t) == LockStep(t, "pop_lock", {"pop_lock", "pop_relock"}, "pop_count")

PopCountLock(t) == LockStep(t, "count_lock", {"pop_count"}, "pop_check")

\* Mutant of PopCheck: fails as soon as destroyed is set, jobs left or not.
PopCheckDropsJobs(t) ==
    /\ pc[t] = "pop_check"
    /\ Unlock("count_lock")
    /\ Goto(t, IF destroyed THEN "pop_dead"
               ELSE IF count = 0 THEN "pop_sleep" ELSE "pop_take")
    /\ Quiet

PopCheck(t) ==
    /\ pc[t] = "pop_check"
    /\ Unlock("count_lock")
    /\ Goto(t, CASE count = 0 /\ destroyed  -> "pop_dead"
                 [] count = 0 /\ ~destroyed -> "pop_sleep"
                 [] count # 0               -> "pop_take")
    /\ Quiet

PopDead(t) == UnlockStep(t, "pop_lock", "pop_dead", "failed")

PopWait(t) ==
    /\ pc[t] = "pop_sleep"
    /\ Unlock("pop_lock")
    /\ Goto(t, IF "pop_lock" \in dead THEN "pop_count" ELSE "pop_asleep")
    /\ Quiet

\* Bound on the history of reads.  It bites only in executions that have
\* already gone wrong after the teardown: before it a read follows a store.
TakeBound == Len(taken) < Cardinality(Jobs)

\* Mutant of PopTake: front does not wrap around.
PopTakeNoWrap(t) ==
    /\ pc[t] = "pop_take"
    /\ data' = [data EXCEPT ![t] = buffer[front]]
    /\ taken' = Append(taken, buffer[front])
    /\ front' = front + 1
    /\ Goto(t, "pop_recount")
    /\ UNCHANGED <<buffer, rear, count, destroyed, mutexVars, freed, submitted, stored>>

\* A freed buffer holds the old jobs or what the allocator wrote over them.
PopTake(t) ==
    /\ pc[t] = "pop_take"
    /\ TakeBound
    /\ \E d \in {buffer[front]} \cup (IF freed THEN {NoJob} ELSE {}) :
          /\ data' = [data EXCEPT ![t] = d]
          /\ taken' = Append(taken, d)
    /\ front' = (front + 1) % Capacity
    /\ Goto(t, "pop_recount")
    /\ UNCHANGED <<buffer, rear, count, destroyed, mutexVars, freed, submitted, stored>>

PopRecountLock(t) == LockStep(t, "count_lock", {"pop_recount"}, "pop_commit")

PopCommit(t) ==
    /\ pc[t] = "pop_commit"
    /\ count' = count - 1
    /\ Unlock("count_lock")
    /\ \E woken \in Signal(not_full) : GotoWaking(t, "pop_return", woken)
    /\ UNCHANGED <<buffer, front, rear, destroyed, freed, data, history>>

\* Mutant of PopReturn: returns with pop_lock held.
PopReturnKeepsLock(t) ==
    /\ pc[t] = "pop_return"
    /\ Goto(t, "ok")
    /\ Quiet /\ UNCHANGED mutexVars

PopReturn(t) == UnlockStep(t, "pop_lock", "pop_return", "ok")

Pop(t) == \/ PopLock(t)  \/ PopCountLock(t)   \/ PopCheck(t)
          \/ PopDead(t)  \/ PopWait(t)        \/ PopTake(t)
          \/ PopRecountLock(t) \/ PopCommit(t) \/ PopReturn(t)

-----------------------------------------------------------------------------
(* job_queue_destroy                                                       *)

DestroyCall(t) ==
    /\ pc[t] \in Outside
    /\ ~destroyed
    /\ Goto(t, "mark_lock")
    /\ UNCHANGED <<structVars, mutexVars, freed, data, history>>

DestroyLock(t) == LockStep(t, "count_lock", {"mark_lock"}, "mark")

\* Sets the flag and broadcasts both conditions under count_lock.
DestroyMark(t) ==
    /\ pc[t] = "mark"
    /\ destroyed' = TRUE
    /\ GotoWaking(t, "drain_lock", not_empty \cup not_full)
    /\ Unlock("count_lock")
    /\ UNCHANGED <<buffer, front, rear, count, freed, data, history>>

DrainLock(t) == LockStep(t, "count_lock", {"drain_lock"}, "drain_check")

\* Mutant of DrainCheck: does not wait for the queue to empty.
DrainCheckNoWait(t) == UnlockStep(t, "count_lock", "drain_check", "kill_push_lock")

DrainCheck(t) ==
    /\ pc[t] = "drain_check"
    /\ Unlock("count_lock")
    /\ Goto(t, IF count = 0 THEN "kill_push_lock" ELSE "drain_lock")
    /\ Quiet

KillMutex(t) ==
    /\ \/ /\ pc[t] = "kill_push_lock"
          /\ DestroyMutex("push_lock")
          /\ Goto(t, "kill_pop_lock")
       \/ /\ pc[t] = "kill_pop_lock"
          /\ DestroyMutex("pop_lock")
          /\ Goto(t, "kill_count_lock")
       \/ /\ pc[t] = "kill_count_lock"
          /\ DestroyMutex("count_lock")
          /\ Goto(t, "kill_not_full")
    /\ Quiet

\* pthread_cond_destroy blocks while a thread is asleep on the condition.
KillCond(t) ==
    /\ \/ /\ pc[t] = "kill_not_full"
          /\ not_full = {}
          /\ Goto(t, "kill_not_empty")
       \/ /\ pc[t] = "kill_not_empty"
          /\ not_empty = {}
          /\ Goto(t, "free_buffer")
    /\ UNCHANGED <<structVars, mutexVars, freed, data, history>>

FreeBuffer(t) ==
    /\ pc[t] = "free_buffer"
    /\ freed' = TRUE
    /\ Goto(t, "ok")
    /\ UNCHANGED <<structVars, mutexVars, data, history>>

Destroy(t) == \/ DestroyLock(t) \/ DestroyMark(t) \/ DrainLock(t)
              \/ DrainCheck(t)  \/ KillMutex(t)   \/ KillCond(t)
              \/ FreeBuffer(t)

-----------------------------------------------------------------------------
\* POSIX lets pthread_cond_wait return without a signal.
SpuriousWake(t) ==
    /\ t \in not_full \cup not_empty
    /\ Goto(t, Relock(t))
    /\ UNCHANGED <<structVars, mutexVars, freed, data, history>>

\* A step of a call in progress.
Step(t) == Push(t) \/ Pop(t) \/ Destroy(t)

Next ==
    \/ \E t \in Producers, d \in Jobs : PushCall(t, d)
    \/ \E t \in Consumers : PopCall(t)
    \/ DestroyCall(Destroyer)
    \/ \E t \in Threads : Step(t) \/ SpuriousWake(t)

Spec == Init /\ [][Next]_vars

-----------------------------------------------------------------------------
(* Properties                                                              *)

\* Type correctness of the queue, the locks and the threads' locals.  count
\* is only an integer: once the mutexes are destroyed nothing bounds it.
TypeOK ==
    /\ buffer \in [0..Capacity-1 -> Jobs \cup {NoJob}]
    /\ front \in 0..Capacity-1 /\ rear \in 0..Capacity-1
    /\ count \in Int /\ destroyed \in BOOLEAN /\ freed \in BOOLEAN
    /\ owner \in [Mutexes -> Threads \cup {NoThread}]
    /\ dead \in SUBSET Mutexes /\ stranded \in SUBSET Threads
    /\ pc \in [Threads -> PCs]
    /\ data \in [Threads -> Jobs \cup {NoJob}]
    /\ submitted \in SUBSET Jobs
    /\ stored \in Seq(Jobs \cup {NoJob}) /\ taken \in Seq(Jobs \cup {NoJob})

\* The queue before job_queue_destroy has taken anything down.
Intact == dead = {} /\ ~freed

\* A job is in the buffer but not yet counted, or counted but already read.
Storing == \E t \in Threads : pc[t] \in {"push_recount", "push_commit"}
Taking  == \E t \in Threads : pc[t] \in {"pop_recount", "pop_commit"}

Slot(n) == n % Capacity

\* Jobs leave in the order in which they were stored, none lost, none twice.
Fifo ==
    /\ Len(taken) <= Len(stored)
    /\ \A i \in 1..Len(taken) : taken[i] = stored[i]

\* Every job not yet taken is still in its slot: push never overwrites one.
SlotsKept ==
    \A i \in Len(taken)+1..Len(stored) : buffer[Slot(i-1)] = stored[i]

\* front, rear and count describe the same jobs, although they are written
\* under three different locks: count lags behind rear while a push is
\* between its store and its count++, and behind front likewise.
CountExact ==
    /\ front = Slot(Len(taken)) /\ rear = Slot(Len(stored))
    /\ count = Len(stored) - Len(taken) - (IF Storing THEN 1 ELSE 0)
                                        + (IF Taking THEN 1 ELSE 0)
    /\ count \in 0..Capacity

\* Each mutex is held by exactly the thread whose pc is in its section.
LocksExclusive ==
    \A t \in Threads :
       /\ (owner["push_lock"] = t)  <=> (pc[t] \in PushHeld)
       /\ (owner["pop_lock"] = t)   <=> (pc[t] \in PopHeld)
       /\ (owner["count_lock"] = t) <=> (pc[t] \in CountHeld)

\* What a thread found out about count under count_lock is still true when it
\* acts on it after releasing count_lock: the other side can only help.
ChecksStillHold ==
    \A t \in Threads :
       /\ pc[t] \in {"push_store", "push_recount", "push_commit"} => count < Capacity
       /\ pc[t] \in {"pop_take", "pop_recount", "pop_commit"} => count > 0

\* The queue is sound: the buffer, the indices and the count agree with the
\* jobs stored and taken.
QueueInv == Fifo /\ SlotsKept /\ CountExact

\* QueueInv for as long as job_queue_destroy has taken nothing down.
IntactQueue == Intact => QueueInv

\* The three mutexes exclude, and are held where the code relies on them.
IntactLocks == Intact => LocksExclusive

\* The tests made under count_lock are not stale when they are acted on.
IntactChecks == Intact => ChecksStillHold

-----------------------------------------------------------------------------
(* Refinement of the queue job_queue.h promises                            *)

Occupied == count + (IF Storing THEN 1 ELSE 0) - (IF Taking THEN 1 ELSE 0)

\* The jobs in the circular buffer, oldest first: a push takes effect when it
\* stores its job, a pop when it reads one.
Contents == [i \in 1..Occupied |-> buffer[Slot(front + i - 1)]]

Phase(l) ==
    CASE l \in Outside -> l
      [] l \in {"push_lock", "push_count", "push_check", "push_sleep",
                "push_asleep", "push_relock", "push_store"} -> "pushing"
      [] l \in {"pop_lock", "pop_count", "pop_check", "pop_sleep",
                "pop_asleep", "pop_relock", "pop_take"} -> "popping"
      [] l \in {"push_dead", "pop_dead"} -> "rejected"
      [] l \in {"mark_lock", "mark"} -> "closing"
      [] l \in {"drain_lock", "drain_check"} -> "draining"
      [] l \in Teardown \cup {"push_recount", "push_commit", "push_return",
                "pop_recount", "pop_commit", "pop_return"} -> "done"

Abstract == INSTANCE BoundedFifo
            WITH queue <- Contents, closed <- destroyed, job <- data,
                 phase <- [t \in Threads |-> Phase(pc[t])]

\* Where one thread pushes and destroys, as main does in all three programs,
\* the queue implements job_queue.h, its teardown included.
ImplementsFifo == Abstract!Spec
=============================================================================
