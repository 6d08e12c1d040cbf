-------------------------- MODULE WorkerPoolProofs --------------------------
(***************************************************************************)
(* Proofs about WorkerPool, for any number of workers and jobs and for any *)
(* capacity: the queue stays sound through its teardown, every job is      *)
(* handled once and freed once, and the queue implements BoundedFifo.      *)
(***************************************************************************)
EXTENDS WorkerPool, JobQueueProofs, SequenceTheorems

-----------------------------------------------------------------------------
(* The inductive invariant                                                 *)

PushPCs  == {"push_lock", "push_count", "push_check", "push_sleep", "push_asleep",
             "push_relock", "push_store", "push_recount", "push_commit", "push_return"}
PopPCs   == {"pop_lock", "pop_count", "pop_check", "pop_dead", "pop_sleep", "pop_asleep",
             "pop_relock", "pop_take", "pop_recount", "pop_commit", "pop_return"}
Closing  == {"mark_lock", "mark"}
Draining == {"drain_lock", "drain_check"}

\* Where main is in the program says where it is in the queue, and whether
\* destroyed is set; its pushes never fail.
MainAt ==
    /\ main = "create" => pc[Destroyer] = "idle"
    /\ main = "walk" => pc[Destroyer] \in {"idle", "ok"} \cup PushPCs
    /\ main = "destroy" => pc[Destroyer] \in Closing \cup Draining \cup Teardown \cup {"ok"}
    /\ main = "exit" => pc[Destroyer] = "ok"
    /\ destroyed <=> \/ main = "exit"
                     \/ main = "destroy" /\ pc[Destroyer] \notin Closing

\* Likewise for the workers, which only pop.
WorkersAt ==
    \A w \in Consumers :
       /\ worker[w] = "unborn" => pc[w] = "idle"
       /\ worker[w] = "loop" => pc[w] \in {"idle", "ok"}
       /\ worker[w] = "pop" => pc[w] \in PopPCs \cup {"ok", "failed"}
       /\ worker[w] = "free" => pc[w] = "ok"
       /\ worker[w] = "exited" => pc[w] = "failed"
       /\ worker[w] = "missing" => pc[w] = "idle"
       /\ main = "exit" => worker[w] \in {"exited", "missing"}

\* The teardown changes nothing: it begins with an empty queue, and from then
\* on no worker is, or comes, between its test of count and its count--.
TornDown == \/ main = "exit"
            \/ main = "destroy" /\ pc[Destroyer] \in Teardown \cup {"ok"}
Drained  == /\ count = 0 /\ taken = stored
            /\ \A w \in Consumers : pc[w] \notin {"pop_take", "pop_recount", "pop_commit"}
TeardownSafe == (TornDown => Drained) /\ (~TornDown => Intact)

\* The jobs are the files the walk has yet to meet, those it could not copy
\* (which some programs push all the same), the one main is pushing, and those
\* stored, once each.
Offering == {"push_lock", "push_count", "push_check", "push_sleep", "push_asleep",
             "push_relock", "push_store"}
Offered(f) == pc[Destroyer] \in Offering /\ data[Destroyer] = f
Stored(f)  == \E i \in 1..Len(stored) : stored[i] = f
Accounted ==
    /\ \A f \in Jobs : /\ f \in submitted \/ f \in todo \/ f \in uncopied
                       /\ f \in todo => f \notin submitted /\ f \notin uncopied
                       /\ f \in submitted <=> Stored(f) \/ Offered(f)
                       /\ ~(Stored(f) /\ Offered(f))
    /\ pc[Destroyer] \in Offering => data[Destroyer] \in Jobs
    /\ \A i \in 1..Len(stored) : stored[i] \in Jobs
    /\ \A i, j \in 1..Len(stored) : stored[i] = stored[j] => i = j
    /\ main \in {"destroy", "exit"} => todo = {}

\* A worker that has read a job from the buffer and not yet freed it carries
\* it alone.
Unhandled(w) == \/ pc[w] \in {"pop_recount", "pop_commit", "pop_return"}
                \/ worker[w] = "pop" /\ pc[w] = "ok"
Carries(w) == Unhandled(w) \/ worker[w] = "free"
Taken(f) == \E i \in 1..Len(taken) : taken[i] = f
CarriedOnce ==
    \A w \in Consumers : Carries(w) =>
       /\ Taken(data[w])
       /\ \A v \in Consumers \ {w} : Carries(v) => data[v] # data[w]

\* A path is allocated while it is offered, queued or carried, unless it is
\* the NULL of a failed strdup.
Queued(f)  == \E i \in Len(taken)+1..Len(stored) : stored[i] = f
Carried(f) == \E w \in Consumers : Carries(w) /\ data[w] = f
HeapExact ==
    \A f \in Jobs : f \in heap <=> /\ Offered(f) \/ Queued(f) \/ Carried(f)
                                  /\ f \notin uncopied

\* A job was handled, and once, if it is a path that was taken and nobody has
\* yet to.
Held(f) == \E w \in Consumers : Unhandled(w) /\ data[w] = f
HandledExact ==
    \A f \in Jobs :
       handled[f] = IF Taken(f) /\ ~Held(f) /\ f \notin uncopied THEN 1 ELSE 0

JobsInv == Accounted /\ CarriedOnce /\ HeapExact /\ HandledExact

PoolInv == /\ PoolTypeOK /\ (Intact => IntactInv) /\ QueueInv
           /\ MainAt /\ WorkersAt /\ TeardownSafe /\ JobsInv

-----------------------------------------------------------------------------
(* The steps of push, pop and destroy                                      *)

\* Thread t goes to l; of the others some may leave their sleep.
MovesTo(t, l) ==
    /\ pc'[t] = l
    /\ \A u \in Threads \ {t} :
          \/ pc'[u] = pc[u]
          \/ pc[u] = "push_asleep" /\ pc'[u] = "push_relock"
          \/ pc[u] = "pop_asleep" /\ pc'[u] = "pop_relock"

LEMMA GotoMovesTo ==
    ASSUME TypeOK, NEW t \in Threads, NEW l, Goto(t, l)
    PROVE  MovesTo(t, l)
  BY DEF TypeOK, Goto, MovesTo

LEMMA WakingMovesTo ==
    ASSUME NEW t \in Threads, NEW l, NEW woken, GotoWaking(t, l, woken),
           woken \subseteq not_full \cup not_empty
    PROVE  MovesTo(t, l)
  BY DEF GotoWaking, MovesTo, Relock, not_full, not_empty

\* The steps that move a thread and otherwise touch the mutexes only.
PushEdge(a, b) ==
    \/ a \in {"push_lock", "push_relock"} /\ b = "push_count"
    \/ a = "push_count" /\ b = "push_check"
    \/ a = "push_check" /\ b = "push_dead" /\ destroyed
    \/ a = "push_check" /\ b \in {"push_sleep", "push_store"}
    \/ a = "push_dead" /\ b = "failed"
    \/ a = "push_sleep" /\ b \in {"push_asleep", "push_count"}
    \/ a = "push_recount" /\ b = "push_commit"
    \/ a = "push_return" /\ b = "ok"
    \/ a = "push_asleep" /\ b = "push_relock"

PopEdge(a, b) ==
    \/ a \in {"pop_lock", "pop_relock"} /\ b = "pop_count"
    \/ a = "pop_count" /\ b = "pop_check"
    \/ a = "pop_check" /\ b = "pop_dead" /\ count = 0 /\ destroyed
    \/ a = "pop_check" /\ b = "pop_sleep" /\ count = 0 /\ ~destroyed
    \/ a = "pop_check" /\ b = "pop_take" /\ count # 0
    \/ a = "pop_dead" /\ b = "failed"
    \/ a = "pop_sleep" /\ b \in {"pop_asleep", "pop_count"}
    \/ a = "pop_recount" /\ b = "pop_commit"
    \/ a = "pop_return" /\ b = "ok"
    \/ a = "pop_asleep" /\ b = "pop_relock"

DestroyEdge(a, b) ==
    \/ a = "mark_lock" /\ b = "mark"
    \/ a = "drain_lock" /\ b = "drain_check"
    \/ a = "drain_check" /\ b = "drain_lock"
    \/ a = "drain_check" /\ b = "kill_push_lock" /\ count = 0 /\ UNCHANGED <<dead, freed>>
    \/ a \in Teardown /\ b \in Teardown
    \/ a = "free_buffer" /\ b = "ok"

Kept == UNCHANGED <<buffer, front, rear, count, destroyed, data, submitted, stored, taken>>

LEMMA PushKinds ==
    ASSUME TypeOK, NEW t \in Threads, Push(t)
    PROVE  \/ PushStore(t) /\ pc[t] = "push_store" /\ MovesTo(t, "push_recount")
           \/ PushCommit(t) /\ pc[t] = "push_commit" /\ MovesTo(t, "push_return")
           \/ \E l : Kept /\ MovesTo(t, l) /\ PushEdge(pc[t], l) /\ UNCHANGED <<dead, freed>>
  <1> USE DEF Kept, Quiet, structVars, history, LockStep, UnlockStep, Lock, Unlock, mutexVars
  <1>1. CASE PushLock(t)
    BY <1>1, GotoMovesTo DEF PushLock, PushEdge
  <1>2. CASE PushCountLock(t)
    BY <1>2, GotoMovesTo DEF PushCountLock, PushEdge
  <1>3. CASE PushCheck(t)
    <2>1. PICK l : Goto(t, l) /\ PushEdge("push_check", l)
      BY <1>3 DEF PushCheck, PushEdge, TypeOK
    <2> QED BY <1>3, <2>1, GotoMovesTo DEF PushCheck
  <1>4. CASE PushDead(t)
    BY <1>4, GotoMovesTo DEF PushDead, PushEdge
  <1>5. CASE PushWait(t)
    <2>1. PICK l \in {"push_asleep", "push_count"} : Goto(t, l)
      BY <1>5 DEF PushWait
    <2> QED BY <1>5, <2>1, GotoMovesTo DEF PushWait, PushEdge
  <1>6. CASE PushStore(t)
    BY <1>6, GotoMovesTo DEF PushStore
  <1>7. CASE PushRecountLock(t)
    BY <1>7, GotoMovesTo DEF PushRecountLock, PushEdge
  <1>8. CASE PushCommit(t)
    BY <1>8, WakingMovesTo, SignalSleepers DEF PushCommit
  <1>9. CASE PushReturn(t)
    BY <1>9, GotoMovesTo DEF PushReturn, PushEdge
  <1> QED BY <1>1, <1>2, <1>3, <1>4, <1>5, <1>6, <1>7, <1>8, <1>9 DEF Push

LEMMA PopKinds ==
    ASSUME TypeOK, NEW t \in Threads, Pop(t)
    PROVE  \/ PopTake(t) /\ pc[t] = "pop_take" /\ MovesTo(t, "pop_recount")
           \/ PopCommit(t) /\ pc[t] = "pop_commit" /\ MovesTo(t, "pop_return")
           \/ \E l : Kept /\ MovesTo(t, l) /\ PopEdge(pc[t], l) /\ UNCHANGED <<dead, freed>>
  <1> USE DEF Kept, Quiet, structVars, history, LockStep, UnlockStep, Lock, Unlock, mutexVars
  <1>1. CASE PopLock(t)
    BY <1>1, GotoMovesTo DEF PopLock, PopEdge
  <1>2. CASE PopCountLock(t)
    BY <1>2, GotoMovesTo DEF PopCountLock, PopEdge
  <1>3. CASE PopCheck(t)
    <2>1. PICK l : Goto(t, l) /\ PopEdge("pop_check", l)
      BY <1>3 DEF PopCheck, PopEdge, TypeOK
    <2> QED BY <1>3, <2>1, GotoMovesTo DEF PopCheck
  <1>4. CASE PopDead(t)
    BY <1>4, GotoMovesTo DEF PopDead, PopEdge
  <1>5. CASE PopWait(t)
    <2>1. PICK l \in {"pop_asleep", "pop_count"} : Goto(t, l)
      BY <1>5 DEF PopWait
    <2> QED BY <1>5, <2>1, GotoMovesTo DEF PopWait, PopEdge
  <1>6. CASE PopTake(t)
    BY <1>6, GotoMovesTo DEF PopTake
  <1>7. CASE PopRecountLock(t)
    BY <1>7, GotoMovesTo DEF PopRecountLock, PopEdge
  <1>8. CASE PopCommit(t)
    BY <1>8, WakingMovesTo, SignalSleepers DEF PopCommit
  <1>9. CASE PopReturn(t)
    BY <1>9, GotoMovesTo DEF PopReturn, PopEdge
  <1> QED BY <1>1, <1>2, <1>3, <1>4, <1>5, <1>6, <1>7, <1>8, <1>9 DEF Pop

LEMMA DestroyKinds ==
    ASSUME TypeOK, NEW t \in Threads, Destroy(t)
    PROVE  \/ DestroyMark(t) /\ pc[t] = "mark" /\ MovesTo(t, "drain_lock")
           \/ \E l : Kept /\ MovesTo(t, l) /\ DestroyEdge(pc[t], l)
                     /\ (pc[t] \notin Teardown => UNCHANGED <<dead, freed>>)
  <1> USE DEF Kept, Quiet, structVars, history, LockStep, UnlockStep, Lock, Unlock, mutexVars
  <1>1. CASE DestroyLock(t)
    BY <1>1, GotoMovesTo DEF DestroyLock, DestroyEdge
  <1>2. CASE DestroyMark(t)
    BY <1>2, WakingMovesTo DEF DestroyMark
  <1>3. CASE DrainLock(t)
    BY <1>3, GotoMovesTo DEF DrainLock, DestroyEdge
  <1>4. CASE DrainCheck(t)
    <2>1. PICK l : Goto(t, l) /\ DestroyEdge("drain_check", l)
      BY <1>4 DEF DrainCheck, DestroyEdge
    <2> QED BY <1>4, <2>1, GotoMovesTo DEF DrainCheck
  <1>5. CASE KillMutex(t)
    <2>1. PICK l \in Teardown : Goto(t, l) /\ pc[t] \in Teardown
      BY <1>5 DEF KillMutex, Teardown
    <2> QED BY <1>5, <2>1, GotoMovesTo DEF KillMutex, DestroyEdge
  <1>6. CASE KillCond(t)
    <2>1. PICK l \in Teardown : Goto(t, l) /\ pc[t] \in Teardown
      BY <1>6 DEF KillCond, Teardown
    <2> QED BY <1>6, <2>1, GotoMovesTo DEF KillCond, DestroyEdge
  <1>7. CASE FreeBuffer(t)
    BY <1>7, GotoMovesTo DEF FreeBuffer, DestroyEdge, Teardown
  <1> QED BY <1>1, <1>2, <1>3, <1>4, <1>5, <1>6, <1>7 DEF Destroy

LEMMA WakeKinds ==
    ASSUME TypeOK, NEW t \in Threads, SpuriousWake(t)
    PROVE  \E l : Kept /\ MovesTo(t, l) /\ (PushEdge(pc[t], l) \/ PopEdge(pc[t], l))
                  /\ UNCHANGED <<dead, freed>>
  BY GotoMovesTo DEF SpuriousWake, not_full, not_empty, Relock, PushEdge, PopEdge, Kept,
     structVars, history, mutexVars

-----------------------------------------------------------------------------
(* Who takes them                                                          *)

MainPushes ==
    /\ main = "walk" /\ ~destroyed /\ pc[Destroyer] \in PushPCs
    /\ \/ /\ PushStore(Destroyer) /\ pc[Destroyer] = "push_store"
          /\ MovesTo(Destroyer, "push_recount")
       \/ /\ PushCommit(Destroyer) /\ pc[Destroyer] = "push_commit"
          /\ MovesTo(Destroyer, "push_return")
       \/ \E l \in PushPCs \cup {"ok"} :
             Kept /\ MovesTo(Destroyer, l) /\ PushEdge(pc[Destroyer], l) /\ UNCHANGED <<dead, freed>>

WorkerPops(w) ==
    /\ worker[w] = "pop" /\ pc[w] \in PopPCs
    /\ \/ PopTake(w) /\ pc[w] = "pop_take" /\ MovesTo(w, "pop_recount")
       \/ PopCommit(w) /\ pc[w] = "pop_commit" /\ MovesTo(w, "pop_return")
       \/ \E l \in PopPCs \cup {"ok", "failed"} :
             Kept /\ MovesTo(w, l) /\ PopEdge(pc[w], l) /\ UNCHANGED <<dead, freed>>

MainDestroys ==
    /\ main = "destroy"
    /\ \/ /\ DestroyMark(Destroyer) /\ pc[Destroyer] = "mark"
          /\ MovesTo(Destroyer, "drain_lock")
       \/ \E l \in Closing \cup Draining \cup Teardown \cup {"ok"} :
             /\ Kept /\ MovesTo(Destroyer, l) /\ DestroyEdge(pc[Destroyer], l)
             /\ (pc[Destroyer] \notin Teardown => UNCHANGED <<dead, freed>>)

\* Edges stay within the call they belong to.
LEMMA EdgeEnds ==
    ASSUME NEW a, NEW b
    PROVE  /\ PushEdge(a, b) => /\ a \in PushPCs \cup {"push_dead"}
                                /\ b \in PushPCs \cup {"push_dead", "ok", "failed"}
                                /\ a # "push_dead" /\ ~destroyed => b \in PushPCs \cup {"ok"}
           /\ PopEdge(a, b) => a \in PopPCs /\ b \in PopPCs \cup {"ok", "failed"}
           /\ DestroyEdge(a, b) => /\ a \in Closing \cup Draining \cup Teardown
                                   /\ b \in Closing \cup Draining \cup Teardown \cup {"ok"}
  BY DEF PushEdge, PopEdge, DestroyEdge, PushPCs, PopPCs, Closing, Draining, Teardown

LEMMA PoolThreads ==
    /\ Threads = Consumers \cup {Destroyer} /\ Destroyer \notin Consumers
    /\ Destroyer \in Threads /\ Producers = {Destroyer} /\ Consumers \subseteq Threads
  BY PoolAssumption DEF Threads

\* main pushes and destroys, the workers pop.
LEMMA Roles ==
    ASSUME PoolTypeOK, MainAt, WorkersAt
    PROVE  /\ pc[Destroyer] \notin PopPCs \cup {"push_dead"}
           /\ pc[Destroyer] \in PushPCs => main = "walk" /\ ~destroyed
           /\ pc[Destroyer] \in Closing \cup Draining \cup Teardown => main = "destroy"
           /\ \A w \in Consumers :
                 /\ pc[w] \in PopPCs => worker[w] = "pop"
                 /\ pc[w] \notin PushPCs \cup {"push_dead"} \cup Closing \cup Draining \cup Teardown
  <1>1. /\ main \in {"create", "walk", "destroy", "exit"}
        /\ worker \in [Consumers -> {"unborn", "loop", "pop", "free", "exited", "missing"}]
    BY DEF PoolTypeOK
  <1>2. pc[Destroyer] \notin PopPCs \cup {"push_dead"}
    BY <1>1 DEF MainAt, PushPCs, PopPCs, Closing, Draining, Teardown
  <1>3. pc[Destroyer] \in PushPCs => main = "walk" /\ ~destroyed
    BY <1>1 DEF MainAt, PushPCs, Closing, Draining, Teardown
  <1>4. pc[Destroyer] \in Closing \cup Draining \cup Teardown => main = "destroy"
    BY <1>1 DEF MainAt, PushPCs, Closing, Draining, Teardown
  <1>5. ASSUME NEW w \in Consumers
        PROVE  /\ pc[w] \in PopPCs => worker[w] = "pop"
               /\ pc[w] \notin PushPCs \cup {"push_dead"} \cup Closing \cup Draining \cup Teardown
    BY <1>1 DEF WorkersAt, PushPCs, PopPCs, Closing, Draining, Teardown
  <1> QED BY <1>2, <1>3, <1>4, <1>5

LEMMA QueueKinds ==
    ASSUME PoolTypeOK, MainAt, WorkersAt, NEW t \in Threads, Step(t) \/ SpuriousWake(t)
    PROVE  \/ MainPushes
           \/ \E w \in Consumers : w = t /\ WorkerPops(w)
           \/ MainDestroys
  <1>0. TypeOK
    BY DEF PoolTypeOK
  <1>1. \/ Push(t) \/ Pop(t) \/ Destroy(t) \/ SpuriousWake(t)
    BY DEF Step
  <1>2. ASSUME NEW l, PushEdge(pc[t], l), MovesTo(t, l), Kept, UNCHANGED <<dead, freed>>
        PROVE  MainPushes
    BY <1>2, Roles, PoolThreads, EdgeEnds DEF MainPushes
  <1>3. ASSUME NEW l, PopEdge(pc[t], l), MovesTo(t, l), Kept, UNCHANGED <<dead, freed>>
        PROVE  \E w \in Consumers : w = t /\ WorkerPops(w)
    BY <1>3, Roles, PoolThreads, EdgeEnds DEF WorkerPops
  <1>4. CASE Push(t)
    <2>1. CASE PushStore(t) /\ pc[t] = "push_store" /\ MovesTo(t, "push_recount")
      BY <2>1, Roles, PoolThreads DEF MainPushes, PushPCs
    <2>2. CASE PushCommit(t) /\ pc[t] = "push_commit" /\ MovesTo(t, "push_return")
      BY <2>2, Roles, PoolThreads DEF MainPushes, PushPCs
    <2> QED BY <1>0, <1>4, <2>1, <2>2, <1>2, PushKinds
  <1>5. CASE Pop(t)
    <2>1. CASE PopTake(t) /\ pc[t] = "pop_take" /\ MovesTo(t, "pop_recount")
      BY <2>1, Roles, PoolThreads DEF WorkerPops, PopPCs
    <2>2. CASE PopCommit(t) /\ pc[t] = "pop_commit" /\ MovesTo(t, "pop_return")
      BY <2>2, Roles, PoolThreads DEF WorkerPops, PopPCs
    <2> QED BY <1>0, <1>5, <2>1, <2>2, <1>3, PopKinds
  <1>6. CASE Destroy(t)
    <2>1. CASE DestroyMark(t) /\ pc[t] = "mark" /\ MovesTo(t, "drain_lock")
      BY <2>1, Roles, PoolThreads DEF MainDestroys, Closing
    <2>2. ASSUME NEW l, Kept, MovesTo(t, l), DestroyEdge(pc[t], l),
                 pc[t] \notin Teardown => UNCHANGED <<dead, freed>>
          PROVE  MainDestroys
      BY <2>2, Roles, PoolThreads, EdgeEnds DEF MainDestroys
    <2> QED BY <1>0, <1>6, <2>1, <2>2, DestroyKinds
  <1>7. CASE SpuriousWake(t)
    BY <1>0, <1>7, <1>2, <1>3, WakeKinds
  <1> QED BY <1>1, <1>4, <1>5, <1>6, <1>7

\* Seen from the queue, a step of the program is a step of its callers.
LEMMA PoolQueue == [PoolNext]_allVars => [Next]_vars
  <1> SUFFICES ASSUME [PoolNext]_allVars PROVE [Next]_vars
    OBVIOUS
  <1>1. CASE MainStep
    BY <1>1, PoolThreads DEF MainStep, CreateWorker, CreateIgnored, Created, CreateFails, WalkPush,
         WalkPushNull, WalkSkip, WalkEnds, JoinAndExit, JoinCrashes, Next
  <1>2. CASE \E w \in Consumers : WorkerStep(w)
    BY <1>2 DEF WorkerStep, WorkerPop, WorkerHandle, WorkerFree, WorkerExit,
         WorkerPassesNull, WorkerCrashes, Next
  <1>3. CASE \E t \in Threads : QueueStep(t) \/ (SpuriousWake(t) /\ UNCHANGED poolVars)
    BY <1>3 DEF QueueStep, Next
  <1>4. CASE Terminated \/ UNCHANGED allVars
    BY <1>4 DEF Terminated, allVars
  <1> QED BY <1>1, <1>2, <1>3, <1>4 DEF PoolNext

-----------------------------------------------------------------------------
(* Where the threads are                                                   *)

Places == MainAt /\ WorkersAt

LEMMA PlacesPush ==
    ASSUME PoolTypeOK, Places, MainPushes, UNCHANGED poolVars
    PROVE  Places'
  <1>1. /\ pc'[Destroyer] \in PushPCs \cup {"ok"}
        /\ \A w \in Consumers : \/ pc'[w] = pc[w]
                                \/ pc[w] \in PopPCs /\ pc'[w] \in PopPCs
    <2>1. \E l \in PushPCs \cup {"ok"} : MovesTo(Destroyer, l)
      BY DEF MainPushes, PushPCs
    <2>2. \A w \in Consumers : pc[w] # "push_asleep"
      BY Roles DEF Places, PushPCs
    <2> QED BY <2>1, <2>2, PoolThreads DEF MovesTo, PopPCs
  <1>2. main' = main /\ worker' = worker /\ main = "walk" /\ ~destroyed /\ destroyed' = destroyed
    BY DEF MainPushes, poolVars, PushStore, PushCommit, Kept
  <1>3. MainAt'
    BY <1>1, <1>2 DEF MainAt
  <1>4. WorkersAt'
    BY <1>1, <1>2 DEF Places, WorkersAt, PopPCs
  <1> QED BY <1>3, <1>4 DEF Places

LEMMA PlacesPop ==
    ASSUME PoolTypeOK, Places, NEW t \in Consumers, WorkerPops(t), UNCHANGED poolVars
    PROVE  Places'
  <1>1. /\ pc'[t] \in PopPCs \cup {"ok", "failed"}
        /\ \A w \in Consumers \ {t} : \/ pc'[w] = pc[w]
                                      \/ pc[w] \in PopPCs /\ pc'[w] \in PopPCs
        /\ \/ pc'[Destroyer] = pc[Destroyer]
           \/ pc[Destroyer] \in PushPCs /\ pc'[Destroyer] \in PushPCs
    <2>1. \E l \in PopPCs \cup {"ok", "failed"} : MovesTo(t, l)
      BY DEF WorkerPops, PopPCs
    <2>2. /\ \A w \in Consumers : pc[w] # "push_asleep"
          /\ pc[Destroyer] # "pop_asleep"
      BY Roles DEF Places, PushPCs, PopPCs
    <2> QED BY <2>1, <2>2, PoolThreads DEF MovesTo, PopPCs, PushPCs
  <1>2. main' = main /\ worker' = worker /\ worker[t] = "pop" /\ destroyed' = destroyed
    BY DEF WorkerPops, poolVars, PopTake, PopCommit, Kept
  <1>3. MainAt'
    BY <1>1, <1>2 DEF Places, MainAt, PushPCs, Closing, Draining, Teardown
  <1>4. WorkersAt'
    BY <1>1, <1>2 DEF Places, WorkersAt, PopPCs
  <1> QED BY <1>3, <1>4 DEF Places

LEMMA PlacesDestroy ==
    ASSUME PoolTypeOK, Places, MainDestroys, UNCHANGED poolVars
    PROVE  Places'
  <1>1. /\ pc'[Destroyer] \in Closing \cup Draining \cup Teardown \cup {"ok"}
        /\ \A w \in Consumers : \/ pc'[w] = pc[w]
                                \/ pc[w] \in PopPCs /\ pc'[w] \in PopPCs
    <2>1. \E l \in Closing \cup Draining \cup Teardown \cup {"ok"} : MovesTo(Destroyer, l)
      BY DEF MainDestroys, Draining
    <2>2. \A w \in Consumers : pc[w] # "push_asleep"
      BY Roles DEF Places, PushPCs
    <2> QED BY <2>1, <2>2, PoolThreads DEF MovesTo, PopPCs
  <1>2. main' = main /\ worker' = worker /\ main = "destroy"
    BY DEF MainDestroys, poolVars
  <1>3. destroyed' <=> pc'[Destroyer] \notin Closing
    <2>1. CASE DestroyMark(Destroyer) /\ MovesTo(Destroyer, "drain_lock")
      BY <2>1 DEF DestroyMark, MovesTo, Closing
    <2>2. ASSUME NEW l, Kept, MovesTo(Destroyer, l), DestroyEdge(pc[Destroyer], l)
          PROVE  destroyed' <=> pc'[Destroyer] \notin Closing
      <3>1. pc[Destroyer] \in Closing <=> l \in Closing
        BY <2>2 DEF DestroyEdge, Closing, Teardown
      <3> QED BY <2>2, <3>1, <1>2 DEF Places, MainAt, Kept, MovesTo
    <2> QED BY <2>1, <2>2 DEF MainDestroys
  <1>4. MainAt'
    BY <1>1, <1>2, <1>3 DEF MainAt
  <1>5. WorkersAt'
    BY <1>1, <1>2 DEF Places, WorkersAt, PopPCs
  <1> QED BY <1>4, <1>5 DEF Places

\* The steps of the program outside the queue.
LEMMA PlacesMain ==
    ASSUME PoolTypeOK, Places, MainStep
    PROVE  Places'
  <1> USE DEF Places
  <1>0. /\ pc \in [Threads -> PCs] /\ main \in {"create", "walk", "destroy", "exit"}
        /\ worker \in [Consumers -> {"unborn", "loop", "pop", "free", "exited", "missing"}]
    BY DEF PoolTypeOK, TypeOK
  <1>1. ASSUME NEW w \in Consumers, NEW s \in {"loop", "missing"}, Created(w, s)
        PROVE  Places'
    <2>1. pc' = pc /\ destroyed' = destroyed /\ main = "create" /\ main' \in {"create", "walk"}
      BY <1>1 DEF Created, vars, structVars
    <2>2. MainAt'
      BY <2>1 DEF MainAt
    <2>3. WorkersAt'
      BY <1>0, <1>1, <2>1 DEF Created, WorkersAt
    <2> QED BY <2>2, <2>3
  <1>2. ASSUME NEW f \in Jobs, WalkPush(f) \/ WalkPushNull(f) PROVE Places'
    <2>1. /\ pc' = [pc EXCEPT ![Destroyer] = "push_lock"] /\ destroyed' = destroyed
          /\ main = "walk" /\ main' = main /\ worker' = worker
      BY <1>2 DEF WalkPush, WalkPushNull, PushCall, structVars, Goto
    <2>2. pc'[Destroyer] = "push_lock" /\ \A w \in Consumers : pc'[w] = pc[w]
      BY <1>0, <2>1, PoolThreads
    <2> QED BY <2>1, <2>2 DEF MainAt, WorkersAt, PushPCs
  <1>3. ASSUME NEW f \in Jobs, WalkSkip(f) PROVE Places'
    BY <1>3 DEF WalkSkip, vars, structVars, MainAt, WorkersAt
  <1>4. CASE WalkEnds
    <2>1. /\ pc' = [pc EXCEPT ![Destroyer] = "mark_lock"] /\ ~destroyed /\ destroyed' = destroyed
          /\ main' = "destroy" /\ worker' = worker
      BY <1>4 DEF WalkEnds, DestroyCall, structVars, Goto
    <2>2. pc'[Destroyer] = "mark_lock" /\ \A w \in Consumers : pc'[w] = pc[w]
      BY <1>0, <2>1, PoolThreads
    <2> QED BY <2>1, <2>2 DEF MainAt, WorkersAt, Closing
  <1>5. CASE JoinAndExit
    BY <1>0, <1>5 DEF JoinAndExit, vars, structVars, MainAt, WorkersAt, Closing
  <1>6. CASE CreateFails \/ JoinCrashes
    BY <1>6 DEF CreateFails, JoinCrashes, vars, structVars, MainAt, WorkersAt
  <1> QED BY <1>1, <1>2, <1>3, <1>4, <1>5, <1>6 DEF MainStep, CreateWorker, CreateIgnored

LEMMA PlacesWorker ==
    ASSUME PoolTypeOK, Places, NEW w \in Consumers, WorkerStep(w)
    PROVE  Places'
  <1> USE DEF Places
  <1>0. /\ pc \in [Threads -> PCs]
        /\ worker \in [Consumers -> {"unborn", "loop", "pop", "free", "exited", "missing"}]
    BY DEF PoolTypeOK, TypeOK
  <1>1. CASE WorkerPop(w)
    <2>1. /\ pc' = [pc EXCEPT ![w] = "pop_lock"] /\ destroyed' = destroyed /\ main' = main
          /\ worker' = [worker EXCEPT ![w] = "pop"] /\ worker[w] = "loop"
      BY <1>1 DEF WorkerPop, PopCall, structVars, Goto
    <2>2. /\ pc'[w] = "pop_lock" /\ pc'[Destroyer] = pc[Destroyer] /\ worker'[w] = "pop"
          /\ \A v \in Consumers \ {w} : pc'[v] = pc[v] /\ worker'[v] = worker[v]
      BY <1>0, <2>1, PoolThreads
    <2> QED BY <2>1, <2>2 DEF MainAt, WorkersAt, PopPCs
  <1>2. CASE \/ WorkerHandle(w) \/ WorkerFree(w) \/ WorkerExit(w)
            \/ WorkerPassesNull(w) \/ WorkerCrashes(w)
    <2>1. pc' = pc /\ destroyed' = destroyed /\ main' = main
      BY <1>2 DEF WorkerHandle, WorkerFree, WorkerExit, WorkerPassesNull, WorkerCrashes,
         vars, structVars
    <2>2. WorkersAt'
      BY <1>0, <1>2, <2>1 DEF WorkerHandle, WorkerFree, WorkerExit, WorkerPassesNull,
         WorkerCrashes, Popped, WorkersAt
    <2> QED BY <2>1, <2>2 DEF MainAt
  <1> QED BY <1>1, <1>2 DEF WorkerStep

LEMMA PlacesStep ==
    ASSUME PoolTypeOK, Places, [PoolNext]_allVars
    PROVE  Places'
  <1>1. ASSUME NEW t \in Threads, QueueStep(t) \/ (SpuriousWake(t) /\ UNCHANGED poolVars)
        PROVE  Places'
    BY <1>1, QueueKinds, PlacesPush, PlacesPop, PlacesDestroy DEF QueueStep, Places
  <1>2. CASE UNCHANGED allVars
    BY <1>2 DEF allVars, vars, poolVars, structVars, Places, MainAt, WorkersAt
  <1> QED BY <1>1, <1>2, PlacesMain, PlacesWorker DEF PoolNext, Terminated

-----------------------------------------------------------------------------
(* The teardown                                                            *)

\* Once the teardown has begun nothing happens to the queue any more.
LEMMA TornStep ==
    ASSUME PoolTypeOK, Places, TornDown, Drained, [PoolNext]_allVars
    PROVE  TornDown' /\ Drained' /\ UNCHANGED <<buffer, front, rear, count, stored, taken>>
  <1>0. /\ pc \in [Threads -> PCs] /\ main \in {"destroy", "exit"}
        /\ pc[Destroyer] \in Teardown \cup {"ok"}
    BY DEF PoolTypeOK, TypeOK, TornDown, Places, MainAt
  <1>1. ASSUME MainDestroys, UNCHANGED poolVars
        PROVE  TornDown' /\ Drained' /\ UNCHANGED <<buffer, front, rear, count, stored, taken>>
    <2>1. PICK l : Kept /\ MovesTo(Destroyer, l) /\ DestroyEdge(pc[Destroyer], l)
      BY <1>0, <1>1 DEF MainDestroys, Teardown
    <2>2. l \in Teardown \cup {"ok"}
      BY <1>0, <2>1 DEF DestroyEdge, Teardown
    <2>3. TornDown'
      BY <1>1, <2>1, <2>2 DEF MainDestroys, MovesTo, TornDown, poolVars
    <2>4. Drained'
      BY <2>1, PoolThreads DEF Kept, MovesTo, Drained
    <2> QED BY <2>1, <2>3, <2>4 DEF Kept
  <1>2. ASSUME NEW w \in Consumers, WorkerPops(w), UNCHANGED poolVars
        PROVE  TornDown' /\ Drained' /\ UNCHANGED <<buffer, front, rear, count, stored, taken>>
    <2>1. PICK l : Kept /\ MovesTo(w, l) /\ PopEdge(pc[w], l)
      BY <1>2 DEF WorkerPops, Drained
    <2>2. l \notin {"pop_take", "pop_recount", "pop_commit"}
      BY <2>1 DEF PopEdge, Drained
    <2>3. pc'[Destroyer] = pc[Destroyer]
      BY <2>1, <1>0, PoolThreads DEF MovesTo, Teardown
    <2>4. TornDown'
      BY <1>2, <2>3 DEF TornDown, poolVars
    <2>5. Drained'
      BY <2>1, <2>2, PoolThreads DEF Kept, MovesTo, Drained
    <2> QED BY <2>1, <2>4, <2>5 DEF Kept
  <1>3. ASSUME NEW t \in Threads, QueueStep(t) \/ (SpuriousWake(t) /\ UNCHANGED poolVars)
        PROVE  TornDown' /\ Drained' /\ UNCHANGED <<buffer, front, rear, count, stored, taken>>
    <2>1. ~MainPushes
      BY <1>0 DEF MainPushes
    <2> QED BY <1>1, <1>2, <1>3, <2>1, QueueKinds DEF QueueStep, Places
  <1>4. CASE MainStep
    BY <1>0, <1>4 DEF MainStep, CreateWorker, CreateIgnored, Created, CreateFails, WalkPush,
         WalkPushNull, WalkSkip, WalkEnds, JoinAndExit, JoinCrashes,
       vars, structVars, history, TornDown, Drained
  <1>5. ASSUME NEW w \in Consumers, WorkerStep(w)
        PROVE  TornDown' /\ Drained' /\ UNCHANGED <<buffer, front, rear, count, stored, taken>>
    <2>1. UNCHANGED <<buffer, front, rear, count, stored, taken, main>>
      BY <1>5 DEF WorkerStep, WorkerPop, WorkerHandle, WorkerFree, WorkerExit,
         WorkerPassesNull, WorkerCrashes, PopCall,
         vars, structVars, history
    <2>2. /\ pc'[w] = pc[w] \/ pc'[w] = "pop_lock"
          /\ \A u \in Threads \ {w} : pc'[u] = pc[u]
      BY <1>0, <1>5, PoolThreads DEF WorkerStep, WorkerPop, WorkerHandle, WorkerFree, WorkerExit,
         WorkerPassesNull, WorkerCrashes,
         PopCall, Goto, vars
    <2>3. TornDown'
      BY <2>1, <2>2, PoolThreads DEF TornDown
    <2>4. Drained'
      BY <2>1, <2>2, PoolThreads DEF Drained
    <2> QED BY <2>1, <2>3, <2>4
  <1>6. CASE UNCHANGED allVars
    BY <1>6 DEF allVars, vars, poolVars, structVars, history, TornDown, Drained
  <1> QED BY <1>3, <1>4, <1>5, <1>6 DEF PoolNext, Terminated

\* What job_queue_destroy finds when it sees count = 0 under count_lock.
LEMMA DrainFinds ==
    ASSUME PoolTypeOK, Places, IntactInv, pc[Destroyer] = "drain_check", count = 0
    PROVE  Drained
  <1>1. \A t \in Threads : pc[t] \notin {"pop_take", "pop_recount", "pop_commit"}
    BY DEF IntactInv, ChecksStillHold
  <1>2. ~Taking
    BY <1>1 DEF Taking
  <1>3. ~Storing
    BY Roles, PoolThreads DEF Storing, Places, PushPCs
  <1>4. /\ stored \in Seq(Jobs \cup {NoJob}) /\ taken \in Seq(Jobs \cup {NoJob})
        /\ Len(stored) \in Nat /\ Len(taken) \in Nat
    BY DEF PoolTypeOK, TypeOK
  <1>5. Len(stored) = Len(taken)
    BY <1>2, <1>3, <1>4 DEF IntactInv, QueueInv, CountExact
  <1>6. taken = stored
    BY <1>4, <1>5, SeqEqual DEF IntactInv, QueueInv, Fifo
  <1> QED BY <1>1, <1>6, PoolThreads DEF Drained

\* Before the teardown nothing is taken down, and it begins drained.
LEMMA UntornStep ==
    ASSUME PoolTypeOK, Places, ~TornDown, Intact, IntactInv, [PoolNext]_allVars
    PROVE  Intact' /\ (TornDown' => Drained')
  <1>0. pc \in [Threads -> PCs]
    BY DEF PoolTypeOK, TypeOK
  <1>1. ASSUME MainPushes, UNCHANGED poolVars
        PROVE  Intact' /\ (TornDown' => Drained')
    BY <1>1 DEF MainPushes, PushStore, PushCommit, Unlock, mutexVars, Intact, TornDown, poolVars
  <1>2. ASSUME NEW w \in Consumers, WorkerPops(w), UNCHANGED poolVars
        PROVE  Intact' /\ (TornDown' => Drained')
    <2>1. Intact'
      BY <1>2 DEF WorkerPops, PopTake, PopCommit, Unlock, mutexVars, Intact
    <2>2. ~TornDown'
      <3>1. PICK l : MovesTo(w, l)
        BY <1>2 DEF WorkerPops
      <3>2. pc'[Destroyer] \in Teardown \cup {"ok"} => pc'[Destroyer] = pc[Destroyer]
        BY <3>1, PoolThreads DEF MovesTo, Teardown
      <3> QED BY <1>2, <3>2 DEF TornDown, poolVars
    <2> QED BY <2>1, <2>2
  <1>3. ASSUME MainDestroys, UNCHANGED poolVars
        PROVE  Intact' /\ (TornDown' => Drained')
    <2>1. main = "destroy" /\ pc[Destroyer] \in Closing \cup Draining
      BY <1>3 DEF MainDestroys, TornDown, Places, MainAt
    <2>2. CASE DestroyMark(Destroyer) /\ MovesTo(Destroyer, "drain_lock")
      BY <1>3, <2>1, <2>2 DEF DestroyMark, Unlock, Intact, TornDown, MovesTo, poolVars, Teardown
    <2>3. ASSUME NEW l, Kept, MovesTo(Destroyer, l), DestroyEdge(pc[Destroyer], l),
                 UNCHANGED <<dead, freed>>
          PROVE  Intact' /\ (TornDown' => Drained')
      <3>1. Intact'
        BY <2>3 DEF Intact
      <3>2. CASE l \in Closing \cup Draining
        BY <1>3, <2>1, <2>3, <3>1, <3>2 DEF MovesTo, TornDown, poolVars, Closing, Draining, Teardown
      <3>3. CASE pc[Destroyer] = "drain_check" /\ count = 0
        BY <2>3, <3>1, <3>3, DrainFinds, PoolThreads DEF Kept, MovesTo, Drained
      <3> QED BY <2>1, <2>3, <3>2, <3>3 DEF DestroyEdge, Closing, Draining, Teardown
    <2>4. pc[Destroyer] \notin Teardown
      BY <2>1 DEF Closing, Draining, Teardown
    <2> QED BY <1>3, <2>2, <2>3, <2>4 DEF MainDestroys
  <1>4. ASSUME NEW t \in Threads, QueueStep(t) \/ (SpuriousWake(t) /\ UNCHANGED poolVars)
        PROVE  Intact' /\ (TornDown' => Drained')
    BY <1>1, <1>2, <1>3, <1>4, QueueKinds DEF QueueStep, Places
  <1>5. CASE MainStep
    <2>1. Intact'
      BY <1>5 DEF MainStep, CreateWorker, CreateIgnored, Created, CreateFails, WalkPush,
         WalkPushNull, WalkSkip, WalkEnds, JoinAndExit, JoinCrashes,
         PushCall, DestroyCall, vars, mutexVars, Intact
    <2>2. ~TornDown'
      BY <1>0, <1>5, PoolThreads DEF MainStep, CreateWorker, CreateIgnored, Created, CreateFails, WalkPush,
         WalkPushNull, WalkSkip, WalkEnds, JoinAndExit, JoinCrashes,
         PushCall, DestroyCall, Goto, vars, TornDown, Teardown
    <2> QED BY <2>1, <2>2
  <1>6. ASSUME NEW w \in Consumers, WorkerStep(w)
        PROVE  Intact' /\ (TornDown' => Drained')
    <2>1. Intact' /\ main' = main
      BY <1>6 DEF WorkerStep, WorkerPop, WorkerHandle, WorkerFree, WorkerExit,
         WorkerPassesNull, WorkerCrashes, PopCall,
         vars, mutexVars, Intact
    <2>2. pc'[Destroyer] = pc[Destroyer]
      BY <1>0, <1>6, PoolThreads DEF WorkerStep, WorkerPop, WorkerHandle, WorkerFree, WorkerExit,
         WorkerPassesNull, WorkerCrashes,
         PopCall, Goto, vars
    <2> QED BY <2>1, <2>2 DEF TornDown
  <1>7. CASE UNCHANGED allVars
    BY <1>7 DEF allVars, vars, poolVars, mutexVars, TornDown, Intact
  <1> QED BY <1>4, <1>5, <1>6, <1>7 DEF PoolNext, Terminated

-----------------------------------------------------------------------------
(* Types, and the queue through its teardown                               *)

LEMMA PoolInitType == PoolInit => PoolTypeOK
  BY InitType DEF PoolInit, PoolTypeOK, AllPrograms

LEMMA PoolStepType ==
    ASSUME PoolTypeOK, [PoolNext]_allVars
    PROVE  PoolTypeOK'
  <1>1. TypeOK'
    BY PoolQueue, NextType DEF PoolTypeOK
  <1> DEFINE Own == /\ main \in {"create", "walk", "destroy", "exit"}
                    /\ todo \in SUBSET Jobs /\ uncopied \in SUBSET Jobs /\ heap \in SUBSET Jobs
                    /\ worker \in [Consumers -> {"unborn", "loop", "pop", "free", "exited", "missing"}]
                    /\ handled \in [Jobs -> Nat]
                    /\ programs \in (SUBSET AllPrograms) \ {{}} /\ running \in BOOLEAN
  <1>2. Own
    BY DEF PoolTypeOK
  <1>3. \A P : OnlyIn(P) => programs' \in (SUBSET AllPrograms) \ {{}}
    BY <1>2 DEF OnlyIn
  <1>4. ASSUME MainStep PROVE Own'
    <2>1. ASSUME NEW w \in Consumers, CreateWorker(w) \/ CreateIgnored(w) PROVE Own'
      BY <1>2, <1>3, <2>1 DEF CreateWorker, CreateIgnored, Created
    <2>2. ASSUME NEW f \in Jobs, WalkPush(f) \/ WalkPushNull(f) \/ WalkSkip(f) PROVE Own'
      BY <1>2, <1>3, <2>2 DEF WalkPush, WalkPushNull, WalkSkip
    <2>3. ASSUME CreateFails \/ WalkEnds \/ JoinAndExit \/ JoinCrashes PROVE Own'
      BY <1>2, <1>3, <2>3 DEF CreateFails, WalkEnds, JoinAndExit, JoinCrashes
    <2> QED BY <1>4, <2>1, <2>2, <2>3 DEF MainStep
  <1>6. ASSUME NEW w \in Consumers, WorkerStep(w) PROVE Own'
    <2>1. CASE WorkerHandle(w)
      <3>1. \A f \in Jobs : handled[f] + 1 \in Nat
        BY <1>2
      <3> QED BY <1>2, <2>1, <3>1 DEF WorkerHandle
    <2>2. CASE WorkerPop(w) \/ WorkerFree(w) \/ WorkerExit(w)
      BY <1>2, <2>2 DEF WorkerPop, WorkerFree, WorkerExit
    <2>3. CASE WorkerPassesNull(w) \/ WorkerCrashes(w)
      BY <1>2, <1>3, <2>3 DEF WorkerPassesNull, WorkerCrashes
    <2> QED BY <1>6, <2>1, <2>2, <2>3 DEF WorkerStep
  <1>7. ASSUME UNCHANGED poolVars PROVE Own'
    BY <1>2, <1>7 DEF poolVars
  <1>8. Own'
    BY <1>4, <1>6, <1>7 DEF PoolNext, QueueStep, Terminated, allVars
  <1> QED BY <1>1, <1>8 DEF PoolTypeOK

\* During the teardown no thread is between an index and the count.
LEMMA NoGap ==
    ASSUME PoolTypeOK, Places, TornDown, Drained
    PROVE  ~Storing /\ ~Taking
  <1>1. pc[Destroyer] \in Teardown \cup {"ok"}
    BY DEF TornDown, Places, MainAt
  <1>2. ~Storing
    BY <1>1, Roles, PoolThreads DEF Storing, Places, PushPCs, Teardown
  <1>3. ~Taking
    BY <1>1, PoolThreads DEF Taking, Drained, Teardown
  <1> QED BY <1>2, <1>3

LEMMA NoGapPrime ==
    ASSUME PoolTypeOK', Places', TornDown', Drained'
    PROVE  ~Storing' /\ ~Taking'
  <1>1. pc'[Destroyer] \in Teardown \cup {"ok"}
    BY DEF TornDown, Places, MainAt
  <1>2. \A w \in Consumers : pc'[w] \notin {"push_recount", "push_commit"}
    BY DEF Places, WorkersAt, PoolTypeOK, PopPCs
  <1>3. ~Storing'
    BY <1>1, <1>2, PoolThreads DEF Storing, Teardown
  <1>4. ~Taking'
    BY <1>1, PoolThreads DEF Taking, Drained, Teardown
  <1> QED BY <1>3, <1>4

\* The queue is sound either because it is intact or because nothing happens to it.
LEMMA QueueInvStep ==
    ASSUME PoolTypeOK, Places, Intact => IntactInv, QueueInv, TeardownSafe, [PoolNext]_allVars
    PROVE  (Intact => IntactInv)' /\ QueueInv' /\ TeardownSafe'
  <1>1. (Intact => IntactInv)'
    BY PoolQueue, NextIntact DEF PoolTypeOK
  <1>2. CASE ~TornDown
    <2>1. Intact' /\ (TornDown' => Drained')
      BY <1>2, UntornStep DEF TeardownSafe
    <2> QED BY <1>1, <2>1 DEF TeardownSafe, IntactInv
  <1>3. CASE TornDown
    <2>1. /\ TornDown' /\ Drained /\ Drained'
          /\ UNCHANGED <<buffer, front, rear, count, stored, taken>>
      BY <1>3, TornStep DEF TeardownSafe
    <2>2. ~Storing /\ ~Taking
      BY <1>3, <2>1, NoGap
    <2>3. ~Storing' /\ ~Taking'
      BY <2>1, PlacesStep, PoolStepType, NoGapPrime
    <2>4. QueueInv'
      BY <2>1, <2>2, <2>3, QuietStep
    <2> QED BY <1>1, <2>1, <2>4 DEF TeardownSafe
  <1> QED BY <1>2, <1>3

-----------------------------------------------------------------------------
(* The jobs                                                                *)

\* A step that leaves alone where the jobs are, and who carries them.
LEMMA JobsFrame ==
    ASSUME JobsInv, UNCHANGED <<submitted, stored, taken, todo, uncopied, handled, heap>>,
           pc'[Destroyer] \in Offering <=> pc[Destroyer] \in Offering,
           pc[Destroyer] \in Offering => data'[Destroyer] = data[Destroyer],
           \A w \in Consumers : /\ Unhandled(w)' <=> Unhandled(w)
                                /\ Carries(w)' <=> Carries(w)
                                /\ Carries(w) => data'[w] = data[w],
           main' \in {"destroy", "exit"} => todo = {}
    PROVE  JobsInv'
  <1>1. \A f : (Stored(f)' <=> Stored(f)) /\ (Taken(f)' <=> Taken(f)) /\ (Queued(f)' <=> Queued(f))
    BY DEF Stored, Taken, Queued
  <1>2. \A f : (Offered(f)' <=> Offered(f)) /\ (Carried(f)' <=> Carried(f)) /\ (Held(f)' <=> Held(f))
    BY DEF Offered, Carried, Held, Carries
  <1>3. Accounted'
    BY <1>1, <1>2 DEF JobsInv, Accounted
  <1>4. CarriedOnce'
    BY <1>1, <1>2 DEF JobsInv, CarriedOnce
  <1>5. HeapExact'
    BY <1>1, <1>2 DEF JobsInv, HeapExact
  <1>6. HandledExact'
    BY <1>1, <1>2 DEF JobsInv, HandledExact
  <1> QED BY <1>3, <1>4, <1>5, <1>6 DEF JobsInv

\* The other workers of a step go on carrying what they carry.
LEMMA OthersCarry ==
    ASSUME Places, PoolTypeOK, NEW t \in Threads, NEW l, MovesTo(t, l), worker' = worker,
           NEW w \in Consumers, w # t
    PROVE  (Unhandled(w)' <=> Unhandled(w)) /\ (Carries(w)' <=> Carries(w))
  <1>1. w \in Threads \ {t}
    BY PoolThreads
  <1> QED BY <1>1 DEF MovesTo, Unhandled, Carries

LEMMA JobsPush ==
    ASSUME PoolTypeOK, Places, JobsInv, MainPushes, ~PushStore(Destroyer), UNCHANGED poolVars
    PROVE  JobsInv'
  <1>1. PICK l : /\ MovesTo(Destroyer, l)
                 /\ l \in Offering <=> pc[Destroyer] \in Offering
    <2>1. CASE pc[Destroyer] = "push_commit" /\ MovesTo(Destroyer, "push_return")
      BY <2>1 DEF Offering
    <2>2. ASSUME NEW l \in PushPCs \cup {"ok"}, MovesTo(Destroyer, l), PushEdge(pc[Destroyer], l)
          PROVE  l \in Offering <=> pc[Destroyer] \in Offering
      BY <2>2 DEF PushEdge, PushPCs, Offering
    <2> QED BY <2>1, <2>2 DEF MainPushes
  <1>2. /\ UNCHANGED <<submitted, stored, taken, data>>
        /\ UNCHANGED <<main, todo, uncopied, worker, handled, heap>>
    BY DEF MainPushes, PushCommit, Kept, history, poolVars
  <1>3. pc'[Destroyer] = l
    BY <1>1 DEF MovesTo
  <1>4. \A w \in Consumers : (Unhandled(w)' <=> Unhandled(w)) /\ (Carries(w)' <=> Carries(w))
    BY <1>1, <1>2, OthersCarry, PoolThreads
  <1>5. main' \in {"destroy", "exit"} => todo = {}
    BY <1>2 DEF JobsInv, Accounted
  <1> QED BY <1>1, <1>2, <1>3, <1>4, <1>5, JobsFrame

LEMMA JobsPop ==
    ASSUME PoolTypeOK, Places, JobsInv, NEW t \in Consumers, WorkerPops(t), ~PopTake(t),
           UNCHANGED poolVars
    PROVE  JobsInv'
  <1>1. PICK l : /\ MovesTo(t, l) /\ worker[t] = "pop"
                 /\ l \in {"pop_recount", "pop_commit", "pop_return", "ok"}
                       <=> pc[t] \in {"pop_recount", "pop_commit", "pop_return", "ok"}
    <2>0. worker[t] = "pop"
      BY DEF WorkerPops
    <2>1. CASE pc[t] = "pop_commit" /\ MovesTo(t, "pop_return")
      BY <2>0, <2>1
    <2>2. ASSUME NEW l, MovesTo(t, l), PopEdge(pc[t], l)
          PROVE  l \in {"pop_recount", "pop_commit", "pop_return", "ok"}
                       <=> pc[t] \in {"pop_recount", "pop_commit", "pop_return", "ok"}
      BY <2>2 DEF PopEdge
    <2> QED BY <2>0, <2>1, <2>2 DEF WorkerPops
  <1>2. /\ UNCHANGED <<submitted, stored, taken, data>>
        /\ UNCHANGED <<main, todo, uncopied, worker, handled, heap>>
    BY DEF WorkerPops, PopCommit, Kept, history, poolVars
  <1>3. pc'[t] = l
    BY <1>1 DEF MovesTo
  <1>4. (Unhandled(t)' <=> Unhandled(t)) /\ (Carries(t)' <=> Carries(t))
    BY <1>1, <1>2, <1>3 DEF Unhandled, Carries
  <1>5. \A w \in Consumers : (Unhandled(w)' <=> Unhandled(w)) /\ (Carries(w)' <=> Carries(w))
    BY <1>1, <1>2, <1>4, OthersCarry, PoolThreads
  <1>6. pc'[Destroyer] \in Offering <=> pc[Destroyer] \in Offering
    <2>1. Destroyer \in Threads \ {t}
      BY PoolThreads
    <2> QED BY <1>1, <2>1 DEF MovesTo, Offering
  <1>7. main' \in {"destroy", "exit"} => todo = {}
    BY <1>2 DEF JobsInv, Accounted
  <1> QED BY <1>2, <1>5, <1>6, <1>7, JobsFrame

LEMMA JobsDestroy ==
    ASSUME PoolTypeOK, Places, JobsInv, MainDestroys, UNCHANGED poolVars
    PROVE  JobsInv'
  <1>1. PICK l : MovesTo(Destroyer, l) /\ l \in Closing \cup Draining \cup Teardown \cup {"ok"}
    BY DEF MainDestroys, Draining
  <1>2. /\ UNCHANGED <<submitted, stored, taken, data>>
        /\ UNCHANGED <<main, todo, uncopied, worker, handled, heap>>
    BY DEF MainDestroys, DestroyMark, Kept, history, poolVars
  <1>3. pc'[Destroyer] \notin Offering /\ pc[Destroyer] \notin Offering
    BY <1>1 DEF MovesTo, MainDestroys, Places, MainAt, Offering, Closing, Draining, Teardown
  <1>4. \A w \in Consumers : (Unhandled(w)' <=> Unhandled(w)) /\ (Carries(w)' <=> Carries(w))
    BY <1>1, <1>2, OthersCarry, PoolThreads
  <1>5. main' \in {"destroy", "exit"} => todo = {}
    BY <1>2 DEF JobsInv, Accounted
  <1> QED BY <1>2, <1>3, <1>4, <1>5, JobsFrame

\* The job main was offering becomes the last one stored.
LEMMA JobsStore ==
    ASSUME PoolTypeOK, Places, JobsInv, QueueInv, PushStore(Destroyer),
           MovesTo(Destroyer, "push_recount"), UNCHANGED poolVars
    PROVE  JobsInv'
  <1> DEFINE d == data[Destroyer]
             n == Len(stored)
  <1>1. /\ pc[Destroyer] = "push_store" /\ stored' = Append(stored, d)
        /\ UNCHANGED <<submitted, taken, data>>
        /\ UNCHANGED <<main, todo, uncopied, worker, handled, heap>>
    BY DEF PushStore, poolVars
  <1>2. /\ n \in Nat /\ Len(taken) \in Nat /\ Len(taken) <= n /\ Len(stored') = n + 1
        /\ \A i \in 1..n : stored'[i] = stored[i]
        /\ stored'[n + 1] = d
    BY <1>1 DEF PoolTypeOK, TypeOK, QueueInv, Fifo
  <1>3. d \in Jobs /\ pc[Destroyer] \in Offering /\ pc'[Destroyer] \notin Offering
    BY <1>1 DEF JobsInv, Accounted, Offering, MovesTo
  <1>4. \A w \in Consumers : (Unhandled(w)' <=> Unhandled(w)) /\ (Carries(w)' <=> Carries(w))
    BY <1>1, OthersCarry, PoolThreads
  <1>5. \A f : /\ Stored(f)' <=> Stored(f) \/ f = d
               /\ Queued(f)' <=> Queued(f) \/ f = d
               /\ ~Offered(f)' /\ (Offered(f) <=> f = d)
    <2>1. \A f : Stored(f)' <=> Stored(f) \/ f = d
      BY <1>2 DEF Stored
    <2>2. \A f : Queued(f)' <=> Queued(f) \/ f = d
      BY <1>1, <1>2 DEF Queued
    <2> QED BY <1>3, <2>1, <2>2 DEF Offered
  <1>6. \A f : (Taken(f)' <=> Taken(f)) /\ (Carried(f)' <=> Carried(f)) /\ (Held(f)' <=> Held(f))
    BY <1>1, <1>4 DEF Taken, Carried, Held
  <1>7. Accounted'
    <2>1. \A f \in Jobs : /\ f \in submitted' <=> Stored(f)' \/ Offered(f)'
                          /\ ~(Stored(f)' /\ Offered(f)')
      BY <1>1, <1>5 DEF JobsInv, Accounted
    <2>2. \A i \in 1..Len(stored') : stored'[i] \in Jobs
      BY <1>2, <1>3 DEF JobsInv, Accounted
    <2>3. ~Stored(d)
      BY <1>3, <1>5 DEF JobsInv, Accounted
    <2>4. \A i, j \in 1..Len(stored') : stored'[i] = stored'[j] => i = j
      BY <1>2, <2>3 DEF JobsInv, Accounted, Stored
    <2> QED BY <1>1, <1>3, <2>1, <2>2, <2>4 DEF JobsInv, Accounted
  <1>8. CarriedOnce'
    BY <1>1, <1>4, <1>6 DEF JobsInv, CarriedOnce
  <1>9. HeapExact'
    BY <1>1, <1>5, <1>6 DEF JobsInv, HeapExact
  <1>10. HandledExact'
    BY <1>1, <1>6 DEF JobsInv, HandledExact
  <1> QED BY <1>7, <1>8, <1>9, <1>10 DEF JobsInv

\* A pop of an intact queue reads the oldest job not yet read.
LEMMA TakeReads ==
    ASSUME TypeOK, Intact, IntactInv, NEW t \in Threads, PopTake(t)
    PROVE  /\ Len(taken) < Len(stored)
           /\ buffer[front] = stored[Len(taken) + 1]
           /\ taken' = Append(taken, stored[Len(taken) + 1])
           /\ data' = [data EXCEPT ![t] = stored[Len(taken) + 1]]
  <1>1. pc[t] = "pop_take"
    BY DEF PopTake
  <1>2. ~Taking
    BY <1>1 DEF IntactInv, LocksExclusive, Taking, PopHeld
  <1>3. Len(stored) \in Nat /\ Len(taken) \in Nat
    BY DEF TypeOK
  <1>4. count > 0 /\ count \in 0..Capacity
    BY <1>1 DEF IntactInv, QueueInv, CountExact, ChecksStillHold
  <1>5. Len(taken) < Len(stored) /\ front = Slot(Len(taken))
    <2>1. /\ count = Len(stored) - Len(taken) - (IF Storing THEN 1 ELSE 0) + 0
          /\ front = Slot(Len(taken))
      BY <1>2 DEF IntactInv, QueueInv, CountExact
    <2> QED BY <2>1, <1>3, <1>4, CapacityAssumption
  <1>6. buffer[front] = stored[Len(taken) + 1]
    <2>1. Len(taken) + 1 \in Len(taken)+1..Len(stored) /\ (Len(taken) + 1) - 1 = Len(taken)
      BY <1>3, <1>5
    <2> QED BY <2>1, <1>5 DEF IntactInv, QueueInv, SlotsKept
  <1> QED BY <1>5, <1>6 DEF PopTake, Intact

\* The oldest job in the queue becomes the one its popper carries.
LEMMA JobsTake ==
    ASSUME PoolTypeOK, Places, JobsInv, Intact, IntactInv, NEW t \in Consumers, PopTake(t),
           MovesTo(t, "pop_recount"), UNCHANGED poolVars
    PROVE  JobsInv'
  <1> DEFINE n == Len(taken)
             d == stored[n + 1]
  <1>t. t \in Threads /\ TypeOK
    BY PoolThreads DEF PoolTypeOK
  <1>1. /\ n < Len(stored) /\ taken' = Append(taken, d) /\ data' = [data EXCEPT ![t] = d]
        /\ UNCHANGED <<submitted, stored>> /\ pc[t] = "pop_take"
        /\ UNCHANGED <<main, todo, uncopied, worker, handled, heap>>
    BY <1>t, TakeReads DEF PopTake, poolVars
  <1>2. /\ n \in Nat /\ Len(stored) \in Nat /\ Len(taken') = n + 1
        /\ \A i \in 1..n : taken'[i] = taken[i]
        /\ taken'[n + 1] = d
    <2>1. taken \in Seq(Jobs \cup {NoJob}) /\ stored \in Seq(Jobs \cup {NoJob})
      BY DEF PoolTypeOK, TypeOK
    <2>2. d \in Jobs \cup {NoJob}
      BY <1>1, <2>1
    <2> QED BY <1>1, <2>1, <2>2
  <1>3. \A i \in 1..n : taken[i] = stored[i]
    BY DEF IntactInv, QueueInv, Fifo
  <1>4. d \in Jobs /\ Queued(d)
    BY <1>1, <1>2 DEF JobsInv, Accounted, Queued
  <1>5. /\ ~Taken(d) /\ \A f : Taken(f)' <=> Taken(f) \/ f = d
    <2>1. ~Taken(d)
      BY <1>1, <1>2, <1>3 DEF JobsInv, Accounted, Taken
    <2>2. \A f : Taken(f)' <=> Taken(f) \/ f = d
      BY <1>2 DEF Taken
    <2> QED BY <2>1, <2>2
  <1>6. \A f : Queued(f) <=> Queued(f)' \/ f = d
    BY <1>1, <1>2 DEF Queued
  <1>8. data'[t] = d /\ \A u \in Threads \ {t} : data'[u] = data[u]
    BY <1>1, <1>t DEF TypeOK
  <1>9. /\ ~Carries(t) /\ ~Unhandled(t) /\ Carries(t)' /\ Unhandled(t)'
        /\ \A w \in Consumers \ {t} :
              (Unhandled(w)' <=> Unhandled(w)) /\ (Carries(w)' <=> Carries(w))
    <2>1. ~Carries(t) /\ ~Unhandled(t)
      BY <1>1 DEF Carries, Unhandled, Places, WorkersAt
    <2>2. Carries(t)' /\ Unhandled(t)'
      BY DEF Carries, Unhandled, MovesTo
    <2> QED BY <1>t, <1>1, <2>1, <2>2, OthersCarry
  <1>10. \A f : /\ Carried(f)' <=> Carried(f) \/ f = d
                /\ Held(f)' <=> Held(f) \/ f = d
    BY <1>8, <1>9, PoolThreads DEF Carried, Held
  <1>11. Destroyer \in Threads \ {t}
    BY PoolThreads
  <1>12. \A f : (Stored(f)' <=> Stored(f)) /\ (Offered(f)' <=> Offered(f))
    BY <1>1, <1>8, <1>11 DEF Stored, Offered, MovesTo, Offering
  <1>13. Accounted'
    <2>1. pc'[Destroyer] \in Offering => data'[Destroyer] \in Jobs
      BY <1>8, <1>11 DEF MovesTo, Offering, JobsInv, Accounted
    <2> QED BY <1>1, <1>12, <2>1 DEF JobsInv, Accounted
  <1>14. CarriedOnce'
    <2> SUFFICES ASSUME NEW w \in Consumers, Carries(w)'
                 PROVE  /\ Taken(data[w])'
                        /\ \A v \in Consumers \ {w} : Carries(v)' => data'[v] # data'[w]
      BY DEF CarriedOnce
    <2>1. CASE w = t
      BY <2>1, <1>5, <1>8, <1>9, PoolThreads DEF JobsInv, CarriedOnce
    <2>2. CASE w # t
      BY <2>2, <1>5, <1>8, <1>9, PoolThreads DEF JobsInv, CarriedOnce
    <2> QED BY <2>1, <2>2
  <1>15. HeapExact'
    BY <1>1, <1>4, <1>6, <1>10, <1>12 DEF JobsInv, HeapExact
  <1>16. HandledExact'
    <2>1. \A f : (Taken(f)' /\ ~Held(f)') <=> (Taken(f) /\ ~Held(f))
      BY <1>5, <1>10
    <2> QED BY <1>1, <2>1 DEF JobsInv, HandledExact
  <1> QED BY <1>13, <1>14, <1>15, <1>16 DEF JobsInv

\* A file not yet submitted is nowhere in the queue.
LEMMA Absent ==
    ASSUME PoolTypeOK, JobsInv, QueueInv, NEW f \in Jobs, f \notin submitted
    PROVE  ~Stored(f) /\ ~Offered(f) /\ ~Queued(f) /\ ~Taken(f) /\ ~Carried(f)
  <1>1. ~Stored(f) /\ ~Offered(f)
    BY DEF JobsInv, Accounted
  <1>2. Len(stored) \in Nat /\ Len(taken) \in Nat
    BY DEF PoolTypeOK, TypeOK
  <1>3. ~Queued(f) /\ ~Taken(f)
    BY <1>1, <1>2 DEF Stored, Queued, Taken, QueueInv, Fifo
  <1> QED BY <1>1, <1>3 DEF JobsInv, CarriedOnce, Carried

\* main allocates the path of a file it meets and offers it; without memory it
\* offers NULL, or skips the file.
LEMMA JobsWalk ==
    ASSUME PoolTypeOK, Places, JobsInv, QueueInv, NEW f \in Jobs,
           WalkPush(f) \/ WalkPushNull(f) \/ WalkSkip(f)
    PROVE  JobsInv'
  <1>0. pc \in [Threads -> PCs] /\ data \in [Threads -> Jobs \cup {NoJob}]
    BY DEF PoolTypeOK, TypeOK
  <1>1. CASE WalkPush(f) \/ WalkPushNull(f)
    <2>1. /\ f \in todo /\ f \notin submitted /\ submitted' = submitted \cup {f}
          /\ pc[Destroyer] \in Outside /\ main = "walk" /\ main' = main
          /\ todo' = todo \ {f}
          /\ \/ heap' = heap \cup {f} /\ uncopied' = uncopied
             \/ heap' = heap /\ uncopied' = uncopied \cup {f}
          /\ UNCHANGED <<stored, taken, worker, handled>>
      BY <1>1 DEF WalkPush, WalkPushNull, PushCall, Meets
    <2>2. /\ data'[Destroyer] = f /\ pc'[Destroyer] = "push_lock"
          /\ \A w \in Consumers : data'[w] = data[w] /\ pc'[w] = pc[w]
      BY <1>0, <1>1, PoolThreads DEF WalkPush, WalkPushNull, PushCall, Goto
    <2>3. \A w \in Consumers : (Unhandled(w)' <=> Unhandled(w)) /\ (Carries(w)' <=> Carries(w))
      BY <2>1, <2>2 DEF Unhandled, Carries
    <2>4. \A g : /\ (Stored(g)' <=> Stored(g)) /\ (Taken(g)' <=> Taken(g))
                 /\ (Queued(g)' <=> Queued(g))
      BY <2>1 DEF Stored, Taken, Queued
    <2>5. \A g : (Carried(g)' <=> Carried(g)) /\ (Held(g)' <=> Held(g))
      BY <2>2, <2>3 DEF Carried, Held
    <2>6. \A g : ~Offered(g) /\ (Offered(g)' <=> g = f)
      BY <2>1, <2>2 DEF Offered, Offering, Outside
    <2>7. Accounted'
      BY <2>1, <2>2, <2>4, <2>6 DEF JobsInv, Accounted, Offering
    <2>8. CarriedOnce'
      BY <2>2, <2>3, <2>4 DEF JobsInv, CarriedOnce
    <2>9. ~Stored(f) /\ ~Queued(f) /\ ~Carried(f) /\ ~Taken(f) /\ f \notin uncopied
      BY <2>1, Absent DEF JobsInv, Accounted
    <2>10. HeapExact'
      BY <2>1, <2>4, <2>5, <2>6, <2>9 DEF JobsInv, HeapExact
    <2>11. HandledExact'
      BY <2>1, <2>4, <2>5, <2>9 DEF JobsInv, HandledExact
    <2> QED BY <2>7, <2>8, <2>10, <2>11 DEF JobsInv
  <1>2. CASE WalkSkip(f)
    <2>1. /\ f \in todo /\ todo' = todo \ {f} /\ uncopied' = uncopied \cup {f}
          /\ main = "walk" /\ main' = main
          /\ UNCHANGED <<pc, data, submitted, stored, taken, worker, handled, heap>>
      BY <1>2 DEF WalkSkip, Meets, vars, history
    <2>2. \A w \in Consumers : (Unhandled(w)' <=> Unhandled(w)) /\ (Carries(w)' <=> Carries(w))
      BY <2>1 DEF Unhandled, Carries
    <2>3. \A g : /\ (Stored(g)' <=> Stored(g)) /\ (Taken(g)' <=> Taken(g))
                 /\ (Queued(g)' <=> Queued(g)) /\ (Offered(g)' <=> Offered(g))
                 /\ (Carried(g)' <=> Carried(g)) /\ (Held(g)' <=> Held(g))
      BY <2>1, <2>2 DEF Stored, Taken, Queued, Offered, Carried, Held
    <2>4. Accounted'
      BY <2>1, <2>3 DEF JobsInv, Accounted
    <2>5. ~Stored(f) /\ ~Queued(f) /\ ~Carried(f) /\ ~Taken(f) /\ ~Offered(f)
      BY <2>1, Absent DEF JobsInv, Accounted
    <2>6. CarriedOnce' /\ HeapExact' /\ HandledExact'
      BY <2>1, <2>2, <2>3, <2>5 DEF JobsInv, CarriedOnce, HeapExact, HandledExact
    <2> QED BY <2>4, <2>6 DEF JobsInv
  <1> QED BY <1>1, <1>2

\* The other steps of main change nothing about the jobs.
LEMMA JobsMain ==
    ASSUME PoolTypeOK, Places, JobsInv,
           \/ \E w \in Consumers, s \in {"loop", "missing"} : Created(w, s)
           \/ WalkEnds \/ JoinAndExit \/ JoinCrashes \/ CreateFails
    PROVE  JobsInv'
  <1>0. /\ pc \in [Threads -> PCs]
        /\ worker \in [Consumers -> {"unborn", "loop", "pop", "free", "exited", "missing"}]
    BY DEF PoolTypeOK, TypeOK
  <1>1. UNCHANGED <<data, submitted, stored, taken, todo, uncopied, handled, heap>>
    BY DEF Created, WalkEnds, JoinAndExit, JoinCrashes, CreateFails, DestroyCall, vars, history
  <1>2. pc'[Destroyer] \notin Offering /\ pc[Destroyer] \notin Offering
    BY <1>0, PoolThreads DEF Created, WalkEnds, JoinAndExit, JoinCrashes, CreateFails,
       DestroyCall, Goto, vars, Places, MainAt, Offering, Outside
  <1>3. \A w \in Consumers : (Unhandled(w)' <=> Unhandled(w)) /\ (Carries(w)' <=> Carries(w))
    <2>1. CASE \E w \in Consumers, s \in {"loop", "missing"} : Created(w, s)
      BY <1>0, <2>1 DEF Created, vars, Unhandled, Carries
    <2>2. CASE WalkEnds
      BY <1>0, <2>2, PoolThreads DEF WalkEnds, DestroyCall, Goto, vars, Unhandled, Carries
    <2>3. CASE JoinAndExit \/ JoinCrashes \/ CreateFails
      BY <2>3 DEF JoinAndExit, JoinCrashes, CreateFails, vars, Unhandled, Carries
    <2> QED BY <2>1, <2>2, <2>3
  <1>4. main' \in {"destroy", "exit"} => todo = {}
    BY DEF Created, WalkEnds, JoinAndExit, JoinCrashes, CreateFails, JobsInv, Accounted
  <1> QED BY <1>1, <1>2, <1>3, <1>4, JobsFrame

\* A step that at most ends the process.
LEMMA JobsStill ==
    ASSUME JobsInv, UNCHANGED <<vars, main, todo, uncopied, worker, handled, heap>>
    PROVE  JobsInv'
  <1>1. UNCHANGED <<pc, data, submitted, stored, taken>>
    BY DEF vars, history
  <1>2. \A w \in Consumers : (Unhandled(w)' <=> Unhandled(w)) /\ (Carries(w)' <=> Carries(w))
    BY <1>1 DEF Unhandled, Carries
  <1>3. main' \in {"destroy", "exit"} => todo = {}
    BY DEF JobsInv, Accounted
  <1> QED BY <1>1, <1>2, <1>3, JobsFrame

LEMMA JobsWorker ==
    ASSUME PoolTypeOK, Places, JobsInv, QueueInv, NEW t \in Consumers, WorkerStep(t)
    PROVE  JobsInv'
  <1>0. /\ pc \in [Threads -> PCs] /\ handled \in [Jobs -> Nat]
        /\ worker \in [Consumers -> {"unborn", "loop", "pop", "free", "exited", "missing"}]
    BY DEF PoolTypeOK, TypeOK
  <1>1. CASE WorkerPop(t) \/ WorkerExit(t)
    <2>1. UNCHANGED <<data, submitted, stored, taken, main, todo, uncopied, handled, heap>>
      BY <1>1 DEF WorkerPop, WorkerExit, PopCall, vars, history
    <2>2. pc'[Destroyer] = pc[Destroyer]
      BY <1>0, <1>1, PoolThreads DEF WorkerPop, WorkerExit, PopCall, Goto, vars
    <2>3. \A w \in Consumers : (Unhandled(w)' <=> Unhandled(w)) /\ (Carries(w)' <=> Carries(w))
      BY <1>0, <1>1, PoolThreads DEF WorkerPop, WorkerExit, PopCall, Goto, vars, Unhandled, Carries,
         Outside
    <2>4. main' \in {"destroy", "exit"} => todo = {}
      BY <2>1 DEF JobsInv, Accounted
    <2> QED BY <2>1, <2>2, <2>3, <2>4, JobsFrame
  <1> DEFINE d == data[t]
  <1>2. ASSUME Carries(t) PROVE d \in Jobs /\ Taken(d)
    BY <1>2 DEF JobsInv, CarriedOnce, Accounted, Taken, QueueInv, Fifo, PoolTypeOK, TypeOK
  <1>3. CASE WorkerHandle(t) \/ WorkerPassesNull(t)
    <2>1. /\ UNCHANGED <<pc, data, submitted, stored, taken, main, todo, uncopied, heap>>
          /\ worker' = [worker EXCEPT ![t] = "free"]
          /\ handled' = [handled EXCEPT ![d] = IF d \in uncopied THEN @ ELSE @ + 1]
          /\ worker[t] = "pop" /\ pc[t] = "ok"
      BY <1>0, <1>3 DEF WorkerHandle, WorkerPassesNull, Popped, vars, history
    <2>2. /\ Unhandled(t) /\ Carries(t) /\ ~Unhandled(t)' /\ Carries(t)'
          /\ \A w \in Consumers \ {t} :
                (Unhandled(w)' <=> Unhandled(w)) /\ (Carries(w)' <=> Carries(w))
      BY <1>0, <2>1 DEF Unhandled, Carries
    <2>3. \A f : /\ (Stored(f)' <=> Stored(f)) /\ (Taken(f)' <=> Taken(f))
                 /\ (Queued(f)' <=> Queued(f)) /\ (Offered(f)' <=> Offered(f))
      BY <2>1 DEF Stored, Taken, Queued, Offered
    <2>4. \A f : Carried(f)' <=> Carried(f)
      BY <2>1, <2>2 DEF Carried
    <2>5. Held(d) /\ \A f : Held(f)' <=> Held(f) /\ f # d
      <3>1. Held(d)
        BY <2>2 DEF Held
      <3>2. \A w \in Consumers \ {t} : Unhandled(w) => data[w] # d
        BY <2>2 DEF JobsInv, CarriedOnce, Carries
      <3> QED BY <2>1, <2>2, <3>1, <3>2 DEF Held
    <2>6. Accounted' /\ HeapExact'
      BY <2>1, <2>3, <2>4 DEF JobsInv, Accounted, HeapExact
    <2>7. CarriedOnce'
      BY <2>1, <2>2, <2>3 DEF JobsInv, CarriedOnce
    <2>8. HandledExact'
      <3>1. d \in Jobs /\ Taken(d)
        BY <1>2, <2>2
      <3>2. handled'[d] = IF d \in uncopied THEN 0 ELSE 1
        BY <1>0, <2>1, <2>5, <3>1 DEF JobsInv, HandledExact
      <3>3. \A f \in Jobs \ {d} : handled'[f] = handled[f]
        BY <1>0, <2>1
      <3>4. ASSUME NEW f \in Jobs \ {d}
            PROVE  handled'[f] = IF Taken(f)' /\ ~Held(f)' /\ f \notin uncopied THEN 1 ELSE 0
        <4>1. (Taken(f)' /\ ~Held(f)') <=> (Taken(f) /\ ~Held(f))
          BY <2>3, <2>5
        <4> QED BY <3>3, <4>1 DEF JobsInv, HandledExact
      <3>5. ASSUME NEW f, f = d
            PROVE  handled'[f] = IF Taken(f)' /\ ~Held(f)' /\ f \notin uncopied THEN 1 ELSE 0
        <4>1. Taken(f)' /\ ~Held(f)'
          BY <2>3, <2>5, <3>1, <3>5
        <4> QED BY <3>2, <3>5, <4>1
      <3> QED BY <2>1, <3>4, <3>5 DEF HandledExact
    <2> QED BY <2>6, <2>7, <2>8 DEF JobsInv
  <1>4. CASE WorkerFree(t)
    <2>1. /\ UNCHANGED <<pc, data, submitted, stored, taken, main, todo, uncopied, handled>>
          /\ heap' = heap \ {d} /\ worker' = [worker EXCEPT ![t] = "loop"]
          /\ worker[t] = "free" /\ pc[t] = "ok"
      BY <1>4 DEF WorkerFree, vars, history, Places, WorkersAt
    <2>2. /\ ~Unhandled(t) /\ Carries(t) /\ ~Unhandled(t)' /\ ~Carries(t)'
          /\ \A w \in Consumers \ {t} :
                (Unhandled(w)' <=> Unhandled(w)) /\ (Carries(w)' <=> Carries(w))
      BY <1>0, <2>1 DEF Unhandled, Carries
    <2>3. \A f : /\ (Stored(f)' <=> Stored(f)) /\ (Taken(f)' <=> Taken(f))
                 /\ (Queued(f)' <=> Queued(f)) /\ (Offered(f)' <=> Offered(f))
      BY <2>1 DEF Stored, Taken, Queued, Offered
    <2>4. \A f : Held(f)' <=> Held(f)
      BY <2>1, <2>2 DEF Held
    <2>5. \A f : Carried(f)' <=> Carried(f) /\ f # d
      <3>1. \A w \in Consumers \ {t} : Carries(w) => data[w] # d
        BY <2>2 DEF JobsInv, CarriedOnce
      <3> QED BY <2>1, <2>2, <3>1 DEF Carried
    <2>6. ~Offered(d) /\ ~Queued(d)
      <3>1. d \in Jobs /\ Taken(d)
        BY <1>2, <2>2
      <3>2. stored \in Seq(Jobs \cup {NoJob}) /\ Len(stored) \in Nat /\ Len(taken) \in Nat
        BY DEF PoolTypeOK, TypeOK
      <3>3. PICK i \in 1..Len(taken) : stored[i] = d
        BY <3>1 DEF Taken, QueueInv, Fifo
      <3>4. i \in 1..Len(stored) /\ Stored(d)
        BY <3>2, <3>3 DEF QueueInv, Fifo, Stored
      <3>5. ~Queued(d)
        BY <3>2, <3>3, <3>4 DEF Queued, JobsInv, Accounted
      <3> QED BY <3>1, <3>4, <3>5 DEF JobsInv, Accounted
    <2>7. Accounted'
      BY <2>1, <2>3 DEF JobsInv, Accounted
    <2>8. CarriedOnce'
      BY <2>1, <2>2, <2>3 DEF JobsInv, CarriedOnce
    <2>9. HeapExact'
      BY <2>1, <2>3, <2>5, <2>6 DEF JobsInv, HeapExact
    <2>10. HandledExact'
      BY <2>1, <2>3, <2>4 DEF JobsInv, HandledExact
    <2> QED BY <2>7, <2>8, <2>9, <2>10 DEF JobsInv
  <1>5. CASE WorkerCrashes(t)
    BY <1>5, JobsStill DEF WorkerCrashes
  <1> QED BY <1>1, <1>3, <1>4, <1>5 DEF WorkerStep

LEMMA JobsStep ==
    ASSUME PoolTypeOK, Places, Intact => IntactInv, QueueInv, TeardownSafe, JobsInv,
           [PoolNext]_allVars
    PROVE  JobsInv'
  <1>1. ASSUME MainPushes, UNCHANGED poolVars PROVE JobsInv'
    BY <1>1, JobsPush, JobsStore, GotoMovesTo, PoolThreads DEF PushStore, PoolTypeOK
  <1>2. ASSUME NEW w \in Consumers, WorkerPops(w), UNCHANGED poolVars PROVE JobsInv'
    <2>1. CASE PopTake(w)
      <3>1. pc[w] = "pop_take" /\ MovesTo(w, "pop_recount")
        BY <2>1, GotoMovesTo, PoolThreads DEF PopTake, PoolTypeOK
      <3>2. Intact
        BY <3>1 DEF TeardownSafe, Drained
      <3> QED BY <1>2, <2>1, <3>1, <3>2, JobsTake
    <2> QED BY <1>2, <2>1, JobsPop
  <1>3. ASSUME NEW t \in Threads, QueueStep(t) \/ (SpuriousWake(t) /\ UNCHANGED poolVars)
        PROVE  JobsInv'
    BY <1>1, <1>2, <1>3, QueueKinds, JobsDestroy DEF QueueStep, Places
  <1>4. CASE UNCHANGED allVars
    BY <1>4, JobsStill DEF allVars, poolVars
  <1> QED BY <1>3, <1>4, JobsWalk, JobsMain, JobsWorker DEF PoolNext, MainStep, CreateWorker,
         CreateIgnored, Terminated

-----------------------------------------------------------------------------
(* The invariant holds                                                     *)

LEMMA PoolInvInit == PoolInit => PoolInv
  <1> SUFFICES ASSUME PoolInit PROVE PoolInv
    OBVIOUS
  <1>1. PoolTypeOK /\ IntactInv /\ QueueInv
    BY PoolInitType, InitIntact DEF PoolInit, IntactInv
  <1>2. \A t \in Threads : pc[t] = "idle"
    BY DEF PoolInit, Init
  <1>3. MainAt /\ WorkersAt
    BY <1>2, PoolThreads DEF PoolInit, Init, MainAt, WorkersAt
  <1>4. TeardownSafe
    BY DEF PoolInit, Init, TeardownSafe, TornDown, Intact
  <1>5. \A f : ~Stored(f) /\ ~Taken(f) /\ ~Queued(f) /\ ~Offered(f)
    BY <1>2, PoolThreads DEF PoolInit, Init, Stored, Taken, Queued, Offered, Offering
  <1>6. \A w \in Consumers : ~Carries(w) /\ ~Unhandled(w)
    BY <1>2, PoolThreads DEF PoolInit, Carries, Unhandled
  <1>7. Accounted
    BY <1>2, <1>5, PoolThreads DEF PoolInit, Init, Accounted, Offering
  <1>8. CarriedOnce /\ HeapExact /\ HandledExact
    BY <1>5, <1>6 DEF PoolInit, CarriedOnce, HeapExact, HandledExact, Carried, Held
  <1> QED BY <1>1, <1>3, <1>4, <1>7, <1>8 DEF PoolInv, JobsInv

LEMMA PoolInvStep == PoolInv /\ [PoolNext]_allVars => PoolInv'
  <1> SUFFICES ASSUME PoolInv, [PoolNext]_allVars PROVE PoolInv'
    OBVIOUS
  <1>1. /\ PoolTypeOK /\ Places /\ (Intact => IntactInv) /\ QueueInv /\ TeardownSafe /\ JobsInv
    BY DEF PoolInv, Places
  <1>2. PoolTypeOK' /\ Places'
    BY <1>1, PoolStepType, PlacesStep
  <1>3. (Intact => IntactInv)' /\ QueueInv' /\ TeardownSafe'
    BY <1>1, QueueInvStep
  <1>4. JobsInv'
    BY <1>1, JobsStep
  <1> QED BY <1>2, <1>3, <1>4 DEF PoolInv, Places

LEMMA PoolInvAlways == PoolSpec => []PoolInv
  BY PoolInvInit, PoolInvStep, PTL DEF PoolSpec

\* Every reachable state of the programs is well-typed.
THEOREM PoolTypeCorrect == PoolSpec => []PoolTypeOK
  <1>1. PoolInv => PoolTypeOK
    BY DEF PoolInv
  <1> QED BY <1>1, PoolInvAlways, PTL

\* Where main alone pushes and destroys, the queue is sound at all times, its
\* teardown included: jobs leave in order, none is lost or read twice, no
\* unread slot is overwritten, and count, front and rear agree.
THEOREM PoolQueueCorrect == PoolSpec => []QueueInv
  <1>1. PoolInv => QueueInv
    BY DEF PoolInv
  <1> QED BY <1>1, PoolInvAlways, PTL

\* job_queue_destroy takes nothing down before every job was popped.
THEOREM DestroyWaits == PoolSpec => []DestroyDrains
  <1>1. PoolInv => DestroyDrains
    <2>1. PoolInv /\ pc[Destroyer] \in Teardown => main = "destroy"
      BY Roles DEF PoolInv
    <2> QED BY <2>1 DEF PoolInv, DestroyDrains, TeardownSafe, TornDown, Drained
  <1> QED BY <1>1, PoolInvAlways, PTL

\* No worker handles or frees a path that was freed or that another worker
\* holds, for any number of workers and files.
THEOREM NoDoubleFree == PoolSpec => []JobsOwned
  <1>1. PoolInv => JobsOwned
    <2> SUFFICES ASSUME PoolInv PROVE JobsOwned
      OBVIOUS
    <2>1. ASSUME NEW w \in Consumers, Carries(w) PROVE data[w] \in heap \cup uncopied
      <3>1. data[w] \in Jobs
        BY <2>1 DEF PoolInv, JobsInv, CarriedOnce, Accounted, Taken, QueueInv, Fifo,
           PoolTypeOK, TypeOK
      <3> QED BY <2>1, <3>1 DEF PoolInv, JobsInv, HeapExact, Carried
    <2>2. \A w \in Consumers, v \in Consumers :
             v # w /\ Carries(w) /\ Carries(v) => data[v] # data[w]
      BY DEF PoolInv, JobsInv, CarriedOnce
    <2>3. \A w \in Consumers :
             (worker[w] = "pop" /\ pc[w] = "ok") \/ worker[w] = "free" => Carries(w)
      BY DEF Carries, Unhandled
    <2> QED BY <2>1, <2>2, <2>3 DEF JobsOwned
  <1> QED BY <1>1, PoolInvAlways, PTL

\* A program that exits has handled every file it could copy exactly once
\* and freed every path, whatever the interleaving.
THEOREM EveryJobHandled == PoolSpec => []ExitComplete
  <1>1. PoolInv => ExitComplete
    <2> SUFFICES ASSUME PoolInv, main = "exit"
                 PROVE  /\ \A f \in Jobs : handled[f] = IF f \in uncopied THEN 0 ELSE 1
                        /\ heap = {}
      BY DEF ExitComplete
    <2>1. \A w \in Consumers : worker[w] # "pop" /\ worker[w] # "free" /\ pc[w] \in {"failed", "idle"}
      BY DEF PoolInv, WorkersAt
    <2>2. \A f : ~Held(f) /\ ~Carried(f)
      BY <2>1 DEF Held, Carried, Carries, Unhandled
    <2>3. pc[Destroyer] = "ok" /\ taken = stored /\ todo = {}
      BY DEF PoolInv, MainAt, TeardownSafe, TornDown, Drained, JobsInv, Accounted
    <2>4. \A f : ~Offered(f)
      BY <2>3 DEF Offered, Offering
    <2>5. \A f : Taken(f) <=> Stored(f)
      BY <2>3 DEF Taken, Stored
    <2>6. \A f : ~Queued(f)
      <3>1. Len(stored) \in Nat
        BY DEF PoolInv, PoolTypeOK, TypeOK
      <3> QED BY <2>3, <3>1 DEF Queued
    <2>7. heap = {}
      <3>1. heap \in SUBSET Jobs
        BY DEF PoolInv, PoolTypeOK
      <3> QED BY <2>2, <2>4, <2>6, <3>1 DEF PoolInv, JobsInv, HeapExact
    <2>8. \A f \in Jobs : Taken(f) \/ f \in uncopied
      BY <2>3, <2>4, <2>5 DEF PoolInv, JobsInv, Accounted
    <2>9. ASSUME NEW f \in Jobs PROVE handled[f] = IF f \in uncopied THEN 0 ELSE 1
      BY <2>2, <2>8 DEF PoolInv, JobsInv, HandledExact
    <2> QED BY <2>7, <2>9
  <1> QED BY <1>1, PoolInvAlways, PTL

-----------------------------------------------------------------------------
(* The queue implements BoundedFifo                                        *)

\* Walking k slots on from a slot, around the buffer.
LEMMA SlotAdd == \A n, k \in Nat : Slot(Slot(n) + k) = Slot(n + k)
  <1> SUFFICES ASSUME NEW n \in Nat, NEW k \in Nat
               PROVE  ((n % Capacity) + k) % Capacity = (n + k) % Capacity
    BY DEF Slot
  <1> DEFINE q == n \div Capacity
             r == n % Capacity
             p == (r + k) \div Capacity
             s == (r + k) % Capacity
             u == (n + k) \div Capacity
             v == (n + k) % Capacity
  <1> HIDE DEF q, r, p, s, u, v
  <1>1. q \in Int /\ r \in 0..Capacity-1 /\ n = Capacity * q + r
    BY DivMod DEF q, r
  <1>2. r + k \in Nat
    BY <1>1, CapacityAssumption
  <1>3. p \in Int /\ s \in 0..Capacity-1 /\ r + k = Capacity * p + s
    BY <1>2, DivMod DEF p, s
  <1>4. u \in Int /\ v \in 0..Capacity-1 /\ n + k = Capacity * u + v
    BY DivMod DEF u, v
  <1>5. Capacity * (q + p) = Capacity * q + Capacity * p
    BY <1>1, <1>3, CapacityAssumption
  <1>6. Capacity * q \in Int /\ Capacity * p \in Int /\ Capacity * u \in Int
    BY <1>1, <1>3, <1>4, CapacityAssumption
  <1>7. Capacity * (q + p) + s = Capacity * u + v
    BY <1>1, <1>3, <1>4, <1>5, <1>6, CapacityAssumption
  <1>8. s = v
    BY <1>1, <1>3, <1>4, <1>7, DivModUnique
  <1> QED BY <1>8 DEF r, s, v

\* The circular buffer holds the jobs stored and not yet taken.
After(s, n) == [i \in 1..(Len(s) - n) |-> s[n + i]]
Rest == After(stored, Len(taken))

LEMMA AfterType ==
    ASSUME NEW S, NEW s \in Seq(S), NEW n \in Nat, n <= Len(s)
    PROVE  /\ After(s, n) \in Seq(S) /\ Len(After(s, n)) = Len(s) - n
           /\ \A i \in 1..(Len(s) - n) : After(s, n)[i] = s[n + i]
  <1>1. Len(s) - n \in Nat /\ \A i \in 1..(Len(s) - n) : n + i \in 1..Len(s)
    OBVIOUS
  <1>2. \A i \in 1..(Len(s) - n) : s[n + i] \in S
    BY <1>1
  <1> QED BY <1>1, <1>2 DEF After

LEMMA AfterAppend ==
    ASSUME NEW S, NEW s \in Seq(S), NEW n \in Nat, n <= Len(s), NEW d \in S
    PROVE  After(Append(s, d), n) = Append(After(s, n), d)
  <1> DEFINE a == After(Append(s, d), n)
             b == Append(After(s, n), d)
             m == Len(s) - n
  <1>1. /\ Append(s, d) \in Seq(S) /\ Len(Append(s, d)) = Len(s) + 1
        /\ Append(s, d)[Len(s) + 1] = d
        /\ \A i \in 1..Len(s) : Append(s, d)[i] = s[i]
    OBVIOUS
  <1>2. /\ m \in Nat /\ Len(s) \in Nat /\ n <= Len(s) + 1
        /\ (Len(s) + 1) - n = m + 1 /\ n + (m + 1) = Len(s) + 1
        /\ \A i \in 1..m : n + i \in 1..Len(s)
    OBVIOUS
  <1>3. a \in Seq(S) /\ Len(a) = m + 1 /\ \A i \in 1..(m + 1) : a[i] = Append(s, d)[n + i]
    <2>1. n <= Len(Append(s, d)) /\ Len(Append(s, d)) - n = m + 1
      BY <1>1, <1>2
    <2>2. /\ a \in Seq(S) /\ Len(a) = Len(Append(s, d)) - n
          /\ \A i \in 1..(Len(Append(s, d)) - n) : a[i] = Append(s, d)[n + i]
      BY <1>1, <2>1, AfterType, Zenon
    <2> QED BY <2>1, <2>2
  <1>4. After(s, n) \in Seq(S) /\ Len(After(s, n)) = m /\ \A i \in 1..m : After(s, n)[i] = s[n + i]
    BY AfterType
  <1>5. b \in Seq(S) /\ Len(b) = m + 1 /\ b[m + 1] = d /\ \A i \in 1..m : b[i] = s[n + i]
    BY <1>2, <1>4
  <1>6. a[m + 1] = d
    <2>1. m + 1 \in 1..(m + 1)
      BY <1>2
    <2> QED BY <1>1, <1>2, <1>3, <2>1
  <1>7. \A i \in 1..m : a[i] = s[n + i]
    <2>1. \A i \in 1..m : i \in 1..(m + 1)
      BY <1>2
    <2> QED BY <1>1, <1>2, <1>3, <2>1
  <1> HIDE DEF a, b, m
  <1>8. ASSUME NEW i \in 1..Len(a) PROVE a[i] = b[i]
    <2>1. i \in 1..m \/ i = m + 1
      BY <1>2, <1>3
    <2>2. CASE i \in 1..m
      BY <2>2, <1>5, <1>7
    <2>3. CASE i = m + 1
      BY <2>3, <1>5, <1>6
    <2> QED BY <2>1, <2>2, <2>3
  <1>9. a = b
    BY <1>3, <1>5, <1>8, SeqEqual
  <1> QED BY <1>9 DEF a, b

LEMMA AfterTail ==
    ASSUME NEW S, NEW s \in Seq(S), NEW n \in Nat, n < Len(s)
    PROVE  /\ After(s, n) # << >> /\ Head(After(s, n)) = s[n + 1]
           /\ After(s, n + 1) = Tail(After(s, n))
  <1> DEFINE a == After(s, n)
             b == After(s, n + 1)
             m == Len(s) - n
  <1>1. a \in Seq(S) /\ Len(a) = m /\ \A i \in 1..m : a[i] = s[n + i]
    BY AfterType
  <1>2. b \in Seq(S) /\ Len(b) = m - 1 /\ \A i \in 1..(m - 1) : b[i] = s[n + 1 + i]
    <2>1. n + 1 \in Nat /\ n + 1 <= Len(s) /\ Len(s) - (n + 1) = m - 1
      OBVIOUS
    <2>2. /\ b \in Seq(S) /\ Len(b) = Len(s) - (n + 1)
          /\ \A i \in 1..(Len(s) - (n + 1)) : b[i] = s[n + 1 + i]
      BY <2>1, AfterType, Zenon
    <2> QED BY <2>1, <2>2
  <1>3. m \in Nat /\ m > 0
    OBVIOUS
  <1> HIDE DEF a, b, m
  <1>4. a # << >> /\ Head(a) = s[n + 1]
    BY <1>1, <1>3
  <1>5. /\ Tail(a) \in Seq(S) /\ Len(Tail(a)) = m - 1
        /\ \A i \in 1..(m - 1) : Tail(a)[i] = a[i + 1]
    BY <1>1, <1>3, <1>4, HeadTailProperties
  <1>6. \A i \in 1..(m - 1) : i + 1 \in 1..m /\ n + 1 + i = n + (i + 1)
    BY <1>3
  <1>7. \A i \in 1..(m - 1) : Tail(a)[i] = b[i]
    BY <1>1, <1>2, <1>5, <1>6
  <1>8. b = Tail(a)
    BY <1>2, <1>5, <1>7, SeqEqual
  <1> QED BY <1>4, <1>8 DEF a, b

LEMMA ContentsRest == PoolTypeOK /\ QueueInv => Contents = Rest
  <1> SUFFICES ASSUME PoolTypeOK, QueueInv PROVE Contents = Rest
    OBVIOUS
  <1>1. Len(stored) \in Nat /\ Len(taken) \in Nat /\ Len(taken) <= Len(stored)
    BY DEF PoolTypeOK, TypeOK, QueueInv, Fifo
  <1>2. Occupied = Len(stored) - Len(taken) /\ front = Slot(Len(taken))
    <2>1. CASE Storing /\ Taking
      BY <1>1, <2>1 DEF QueueInv, CountExact, Occupied
    <2>2. CASE Storing /\ ~Taking
      BY <1>1, <2>2 DEF QueueInv, CountExact, Occupied
    <2>3. CASE ~Storing /\ Taking
      BY <1>1, <2>3 DEF QueueInv, CountExact, Occupied
    <2>4. CASE ~Storing /\ ~Taking
      BY <1>1, <2>4 DEF QueueInv, CountExact, Occupied
    <2> QED BY <2>1, <2>2, <2>3, <2>4
  <1>3. ASSUME NEW i \in 1..(Len(stored) - Len(taken))
        PROVE  buffer[Slot(front + i - 1)] = stored[Len(taken) + i]
    <2>1. i - 1 \in Nat /\ front + i - 1 = Slot(Len(taken)) + (i - 1)
      BY <1>1, <1>2, SlotType, CapacityAssumption
    <2>2. Slot(front + i - 1) = Slot(Len(taken) + (i - 1))
      BY <1>1, <2>1, SlotAdd
    <2>3. Len(taken) + i \in Len(taken)+1..Len(stored) /\ Len(taken) + (i - 1) = (Len(taken) + i) - 1
      BY <1>1
    <2> QED BY <2>2, <2>3 DEF QueueInv, SlotsKept
  <1> QED BY <1>2, <1>3 DEF Contents, Rest, After

LEMMA ContentsRestPrime == PoolTypeOK' /\ QueueInv' => Contents' = Rest'
  <1>1. (PoolTypeOK /\ QueueInv => Contents = Rest)'
    BY ContentsRest, PTL
  <1> QED BY <1>1

AbsPhase == [t \in Threads |-> Phase(pc[t])]

LEMMA PhaseValues ==
    /\ \A l \in Outside : Phase(l) = l
    /\ \A l \in Offering : Phase(l) = "pushing"
    /\ \A l \in {"push_recount", "push_commit", "push_return"} : Phase(l) = "done"
    /\ \A l \in {"pop_lock", "pop_count", "pop_check", "pop_sleep", "pop_asleep",
                 "pop_relock", "pop_take"} : Phase(l) = "popping"
    /\ \A l \in {"pop_recount", "pop_commit", "pop_return"} : Phase(l) = "done"
    /\ Phase("push_dead") = "rejected" /\ Phase("pop_dead") = "rejected"
    /\ \A l \in Closing : Phase(l) = "closing"
    /\ \A l \in Draining : Phase(l) = "draining"
    /\ \A l \in Teardown : Phase(l) = "done"
  BY DEF Phase, Outside, Offering, Teardown, Closing, Draining

LEMMA PhaseMoves ==
    ASSUME NEW t \in Threads, NEW l, MovesTo(t, l)
    PROVE  AbsPhase' = [AbsPhase EXCEPT ![t] = Phase(l)]
  <1>1. \A u \in Threads \ {t} : Phase(pc'[u]) = Phase(pc[u])
    BY PhaseValues DEF MovesTo, Offering
  <1> QED BY <1>1 DEF AbsPhase, MovesTo

LEMMA AbsStutter ==
    ASSUME Contents' = Contents, destroyed' = destroyed, data' = data, AbsPhase' = AbsPhase
    PROVE  UNCHANGED Abstract!vars
  BY DEF Abstract!vars, AbsPhase

\* A step that moves one thread and leaves the contents alone is a stutter if
\* the thread's phase stays, and a return if the call ends.
LEMMA AbsMove ==
    ASSUME NEW t \in Threads, NEW l, MovesTo(t, l), Contents' = Contents,
           destroyed' = destroyed, data' = data,
           \/ Phase(pc[t]) = Phase(l)
           \/ Phase(pc[t]) = "done" /\ l = "ok"
           \/ Phase(pc[t]) = "rejected" /\ l = "failed"
    PROVE  Abstract!Next \/ UNCHANGED Abstract!vars
  <1>1. AbsPhase' = [AbsPhase EXCEPT ![t] = Phase(l)]
    BY PhaseMoves
  <1>2. CASE Phase(pc[t]) = Phase(l)
    <2>1. AbsPhase' = AbsPhase
      BY <1>1, <1>2 DEF AbsPhase
    <2> QED BY <2>1, AbsStutter
  <1>3. CASE \/ Phase(pc[t]) = "done" /\ l = "ok"
             \/ Phase(pc[t]) = "rejected" /\ l = "failed"
    <2>1. Phase(l) = l
      BY <1>3, PhaseValues DEF Outside
    <2>2. Abstract!Return(t)
      BY <1>1, <1>3, <2>1 DEF Abstract!Return, Abstract!Become, AbsPhase
    <2> QED BY <2>2 DEF Abstract!Next
  <1> QED BY <1>2, <1>3

\* The two sides of a step of the program, for the mapping.
Sound == PoolTypeOK /\ Places /\ QueueInv /\ TeardownSafe /\ (Intact => IntactInv)

LEMMA SameContents ==
    ASSUME PoolTypeOK, QueueInv, PoolTypeOK', QueueInv', UNCHANGED <<stored, taken>>
    PROVE  Contents' = Contents
  BY ContentsRest, ContentsRestPrime DEF Rest, After

LEMMA RefinesPush ==
    ASSUME Sound, PoolTypeOK', QueueInv', MainPushes
    PROVE  Abstract!Next \/ UNCHANGED Abstract!vars
  <1> USE PoolThreads
  <1>0. TypeOK /\ Len(stored) \in Nat /\ Len(taken) \in Nat /\ Len(taken) <= Len(stored)
    BY DEF Sound, PoolTypeOK, TypeOK, QueueInv, Fifo
  <1>1. CASE /\ PushStore(Destroyer) /\ pc[Destroyer] = "push_store"
             /\ MovesTo(Destroyer, "push_recount")
    <2>1. ~TornDown /\ Intact /\ IntactInv
      BY DEF MainPushes, TornDown, Sound, TeardownSafe
    <2>2. Len(stored) < Len(taken) + Capacity
      <3>1. ~Storing
        BY <1>1, <2>1 DEF IntactInv, LocksExclusive, Storing, PushHeld
      <3>2. count < Capacity
        BY <1>1, <2>1 DEF IntactInv, ChecksStillHold
      <3>3. count = Len(stored) - Len(taken) - 0 + (IF Taking THEN 1 ELSE 0)
        BY <2>1, <3>1 DEF IntactInv, QueueInv, CountExact
      <3> QED BY <1>0, <3>2, <3>3, CapacityAssumption
    <2>3. Rest' = Append(Rest, data[Destroyer])
      BY <1>0, <1>1, AfterAppend DEF PushStore, TypeOK, Rest
    <2>4. Contents' = Append(Contents, data[Destroyer]) /\ Len(Contents) < Capacity
      <3>1. Contents = Rest /\ Contents' = Rest'
        BY ContentsRest, ContentsRestPrime DEF Sound
      <3>2. Len(Rest) = Len(stored) - Len(taken)
        BY <1>0, AfterType DEF Rest, TypeOK
      <3> QED BY <1>0, <2>2, <2>3, <3>1, <3>2, CapacityAssumption
    <2>5. /\ Phase(pc[Destroyer]) = "pushing"
          /\ AbsPhase' = [AbsPhase EXCEPT ![Destroyer] = "done"]
      BY <1>1, PhaseMoves, PhaseValues DEF Offering
    <2>6. Abstract!Enqueue(Destroyer)
      BY <1>1, <2>4, <2>5 DEF MainPushes, PushStore, Abstract!Enqueue, Abstract!Become, AbsPhase
    <2> QED BY <2>6 DEF Abstract!Next
  <1>2. CASE /\ PushCommit(Destroyer) /\ pc[Destroyer] = "push_commit"
             /\ MovesTo(Destroyer, "push_return")
    <2>1. UNCHANGED <<stored, taken, destroyed, data>>
      BY <1>2 DEF PushCommit, history
    <2>2. Phase(pc[Destroyer]) = Phase("push_return")
      BY <1>2, PhaseValues
    <2> QED BY <1>2, <2>1, <2>2, SameContents, AbsMove DEF Sound
  <1>3. ASSUME NEW l \in PushPCs \cup {"ok"}, Kept, MovesTo(Destroyer, l),
               PushEdge(pc[Destroyer], l)
        PROVE  Abstract!Next \/ UNCHANGED Abstract!vars
    <2>1. \/ Phase(pc[Destroyer]) = Phase(l)
          \/ Phase(pc[Destroyer]) = "done" /\ l = "ok"
      BY <1>3, PhaseValues DEF PushEdge, PushPCs, Offering
    <2> QED BY <1>3, <2>1, SameContents, AbsMove DEF Sound, Kept
  <1> QED BY <1>1, <1>2, <1>3 DEF MainPushes

\* An empty buffer is an empty queue.
LEMMA EmptyContents ==
    ASSUME PoolTypeOK, QueueInv, count = 0, ~Storing, ~Taking
    PROVE  Contents = << >>
  <1>1. Occupied = 0
    BY DEF Occupied
  <1>2. \A i : i \notin 1..Occupied
    BY <1>1
  <1>3. Contents = [i \in {} |-> buffer[Slot(front + i - 1)]]
    BY <1>2 DEF Contents
  <1> QED BY <1>3

LEMMA RefinesPop ==
    ASSUME Sound, PoolTypeOK', QueueInv', NEW w \in Consumers, WorkerPops(w)
    PROVE  Abstract!Next \/ UNCHANGED Abstract!vars
  <1> USE PoolThreads
  <1>0. /\ TypeOK /\ Len(stored) \in Nat /\ Len(taken) \in Nat /\ w \in Threads
        /\ stored \in Seq(Jobs \cup {NoJob}) /\ taken \in Seq(Jobs \cup {NoJob})
    BY DEF Sound, PoolTypeOK, TypeOK
  <1>1. CASE PopTake(w) /\ pc[w] = "pop_take" /\ MovesTo(w, "pop_recount")
    <2>1. Intact /\ IntactInv
      BY <1>1 DEF Sound, TeardownSafe, Drained
    <2>2. /\ Len(taken) < Len(stored)
          /\ taken' = Append(taken, stored[Len(taken) + 1]) /\ stored' = stored
          /\ data' = [data EXCEPT ![w] = stored[Len(taken) + 1]] /\ destroyed' = destroyed
      BY <1>0, <1>1, <2>1, TakeReads DEF PopTake
    <2>3. Len(taken') = Len(taken) + 1
      <3>1. stored[Len(taken) + 1] \in Jobs \cup {NoJob}
        BY <1>0, <2>2
      <3> QED BY <1>0, <2>2, <3>1
    <2>4. /\ Rest # << >> /\ Head(Rest) = stored[Len(taken) + 1] /\ Rest' = Tail(Rest)
      BY <1>0, <2>2, <2>3, AfterTail DEF Rest
    <2>5. Contents = Rest /\ Contents' = Rest'
      BY ContentsRest, ContentsRestPrime DEF Sound
    <2>6. /\ Phase(pc[w]) = "popping"
          /\ AbsPhase' = [AbsPhase EXCEPT ![w] = "done"]
      BY <1>1, PhaseMoves, PhaseValues
    <2>7. Abstract!Dequeue(w)
      BY <2>2, <2>4, <2>5, <2>6 DEF Abstract!Dequeue, Abstract!Become, AbsPhase
    <2> QED BY <2>7 DEF Abstract!Next
  <1>2. CASE PopCommit(w) /\ pc[w] = "pop_commit" /\ MovesTo(w, "pop_return")
    <2>1. UNCHANGED <<stored, taken, destroyed, data>>
      BY <1>2 DEF PopCommit, history
    <2>2. Phase(pc[w]) = Phase("pop_return")
      BY <1>2, PhaseValues
    <2> QED BY <1>2, <2>1, <2>2, SameContents, AbsMove DEF Sound
  <1>3. ASSUME NEW l, Kept, MovesTo(w, l), PopEdge(pc[w], l)
        PROVE  Abstract!Next \/ UNCHANGED Abstract!vars
    <2>1. Contents' = Contents /\ destroyed' = destroyed /\ data' = data
      BY <1>3, SameContents DEF Sound, Kept
    <2>2. CASE pc[w] = "pop_check" /\ l = "pop_dead"
      <3>1. count = 0 /\ destroyed
        BY <1>3, <2>2 DEF PopEdge
      <3>2. ~Storing
        <4>1. main # "walk"
          BY <3>1 DEF Sound, Places, MainAt
        <4> QED BY <4>1, Roles DEF Sound, Places, Storing, PushPCs
      <3>3. ~Taking
        <4>1. CASE TornDown
          BY <4>1, NoGap DEF Sound, TeardownSafe
        <4>2. CASE ~TornDown
          BY <4>2, <3>1 DEF Sound, TeardownSafe, IntactInv, ChecksStillHold, Taking
        <4> QED BY <4>1, <4>2
      <3>4. Contents = << >>
        BY <3>1, <3>2, <3>3, EmptyContents DEF Sound
      <3>5. /\ Phase(pc[w]) = "popping"
            /\ AbsPhase' = [AbsPhase EXCEPT ![w] = "rejected"]
        BY <1>3, <2>2, PhaseMoves, PhaseValues
      <3>6. Abstract!PopFails(w)
        BY <2>1, <3>1, <3>4, <3>5 DEF Abstract!PopFails, Abstract!Become, AbsPhase
      <3> QED BY <3>6 DEF Abstract!Next
    <2>3. CASE ~(pc[w] = "pop_check" /\ l = "pop_dead")
      <3>1. \/ Phase(pc[w]) = Phase(l)
            \/ Phase(pc[w]) = "done" /\ l = "ok"
            \/ Phase(pc[w]) = "rejected" /\ l = "failed"
        BY <1>3, <2>3, PhaseValues DEF PopEdge
      <3> QED BY <1>3, <2>1, <3>1, AbsMove
    <2> QED BY <2>2, <2>3
  <1> QED BY <1>1, <1>2, <1>3 DEF WorkerPops

LEMMA RefinesDestroy ==
    ASSUME Sound, PoolTypeOK', QueueInv', MainDestroys
    PROVE  Abstract!Next \/ UNCHANGED Abstract!vars
  <1> USE PoolThreads
  <1>1. CASE /\ DestroyMark(Destroyer) /\ pc[Destroyer] = "mark"
             /\ MovesTo(Destroyer, "drain_lock")
    <2>1. UNCHANGED <<stored, taken, data>> /\ destroyed' = TRUE
      BY <1>1 DEF DestroyMark, history
    <2>2. /\ Phase(pc[Destroyer]) = "closing"
          /\ AbsPhase' = [AbsPhase EXCEPT ![Destroyer] = "draining"]
      BY <1>1, PhaseMoves, PhaseValues DEF Closing, Draining
    <2>3. Contents' = Contents
      BY <2>1, SameContents DEF Sound
    <2>4. Abstract!Close(Destroyer)
      BY <2>1, <2>2, <2>3 DEF Abstract!Close, Abstract!Become, AbsPhase
    <2> QED BY <2>4 DEF Abstract!Next
  <1>2. ASSUME NEW l, Kept, MovesTo(Destroyer, l), DestroyEdge(pc[Destroyer], l)
        PROVE  Abstract!Next \/ UNCHANGED Abstract!vars
    <2>1. Contents' = Contents /\ destroyed' = destroyed /\ data' = data
      BY <1>2, SameContents DEF Sound, Kept
    <2>2. CASE pc[Destroyer] = "drain_check" /\ l = "kill_push_lock"
      <3>1. count = 0 /\ ~TornDown
        BY <1>2, <2>2 DEF DestroyEdge, TornDown, Teardown, Sound, Places, MainAt
      <3>2. ~Storing
        BY <2>2, Roles DEF Sound, Places, Storing, PushPCs
      <3>3. ~Taking
        BY <3>1 DEF Sound, TeardownSafe, IntactInv, ChecksStillHold, Taking
      <3>4. Contents = << >>
        BY <3>1, <3>2, <3>3, EmptyContents DEF Sound
      <3>5. /\ Phase(pc[Destroyer]) = "draining"
            /\ AbsPhase' = [AbsPhase EXCEPT ![Destroyer] = "done"]
        BY <1>2, <2>2, PhaseMoves, PhaseValues DEF Draining, Teardown
      <3>6. Abstract!Drained(Destroyer)
        BY <2>1, <3>4, <3>5 DEF Abstract!Drained, Abstract!Become, AbsPhase
      <3> QED BY <3>6 DEF Abstract!Next
    <2>3. CASE ~(pc[Destroyer] = "drain_check" /\ l = "kill_push_lock")
      <3>1. \/ Phase(pc[Destroyer]) = Phase(l)
            \/ Phase(pc[Destroyer]) = "done" /\ l = "ok"
        BY <1>2, <2>3, PhaseValues DEF DestroyEdge, Closing, Draining, Teardown
      <3> QED BY <1>2, <2>1, <3>1, AbsMove
    <2> QED BY <2>2, <2>3
  <1> QED BY <1>1, <1>2 DEF MainDestroys

LEMMA RefinesOutside ==
    ASSUME Sound, PoolTypeOK', QueueInv',
           MainStep \/ (\E w \in Consumers : WorkerStep(w)) \/ UNCHANGED allVars
    PROVE  Abstract!Next \/ UNCHANGED Abstract!vars
  <1> USE PoolThreads
  <1>0. TypeOK
    BY DEF Sound, PoolTypeOK
  <1>1. CASE UNCHANGED vars
    <2>1. UNCHANGED <<stored, taken, destroyed, data, pc>>
      BY <1>1 DEF vars, structVars, history
    <2>2. AbsPhase' = AbsPhase
      BY <2>1 DEF AbsPhase
    <2> QED BY <2>1, <2>2, SameContents, AbsStutter DEF Sound
  <1>2. ASSUME NEW f \in Jobs, PushCall(Destroyer, f)
        PROVE  Abstract!Next
    <2>1. /\ UNCHANGED <<stored, taken, destroyed>> /\ pc[Destroyer] \in Outside
          /\ data' = [data EXCEPT ![Destroyer] = f] /\ MovesTo(Destroyer, "push_lock")
      BY <1>0, <1>2, GotoMovesTo DEF PushCall, structVars
    <2>2. /\ Phase(pc[Destroyer]) \in {"idle", "ok", "failed"}
          /\ AbsPhase' = [AbsPhase EXCEPT ![Destroyer] = "pushing"]
      BY <2>1, PhaseMoves, PhaseValues DEF Offering, Outside
    <2>3. Contents' = Contents
      BY <2>1, SameContents DEF Sound
    <2>4. Abstract!PushCall(Destroyer, f)
      BY <2>1, <2>2, <2>3 DEF Abstract!PushCall, Abstract!Become, Abstract!Returned, AbsPhase
    <2> QED BY <2>4 DEF Abstract!Next
  <1>3. ASSUME NEW w \in Consumers, PopCall(w)
        PROVE  Abstract!Next
    <2>1. UNCHANGED <<stored, taken, destroyed, data>> /\ pc[w] \in Outside /\ MovesTo(w, "pop_lock")
      BY <1>0, <1>3, GotoMovesTo DEF PopCall, structVars, history
    <2>2. /\ Phase(pc[w]) \in {"idle", "ok", "failed"}
          /\ AbsPhase' = [AbsPhase EXCEPT ![w] = "popping"]
      BY <2>1, PhaseMoves, PhaseValues DEF Outside
    <2>3. Contents' = Contents
      BY <2>1, SameContents DEF Sound
    <2>4. Abstract!PopCall(w)
      BY <2>1, <2>2, <2>3 DEF Abstract!PopCall, Abstract!Become, Abstract!Returned, AbsPhase
    <2> QED BY <2>4 DEF Abstract!Next
  <1>4. ASSUME DestroyCall(Destroyer)
        PROVE  Abstract!Next
    <2>1. /\ UNCHANGED <<stored, taken, destroyed, data>> /\ pc[Destroyer] \in Outside
          /\ MovesTo(Destroyer, "mark_lock")
      BY <1>0, <1>4, GotoMovesTo DEF DestroyCall, structVars, history
    <2>2. /\ Phase(pc[Destroyer]) \in {"idle", "ok", "failed"}
          /\ AbsPhase' = [AbsPhase EXCEPT ![Destroyer] = "closing"]
      BY <2>1, PhaseMoves, PhaseValues DEF Closing, Outside
    <2>3. Contents' = Contents
      BY <2>1, SameContents DEF Sound
    <2>4. Abstract!DestroyCall(Destroyer)
      BY <2>1, <2>2, <2>3 DEF Abstract!DestroyCall, Abstract!Become, Abstract!Returned, AbsPhase
    <2> QED BY <2>4 DEF Abstract!Next
  <1> QED BY <1>1, <1>2, <1>3, <1>4 DEF MainStep, CreateWorker, CreateIgnored, Created, CreateFails, WalkPush,
         WalkPushNull, WalkSkip, WalkEnds, JoinAndExit, JoinCrashes, WorkerStep, WorkerPop, WorkerHandle, WorkerFree, WorkerExit,
         WorkerPassesNull, WorkerCrashes, allVars

LEMMA RefinesInit == PoolInit => Abstract!Init
  <1> SUFFICES ASSUME PoolInit PROVE Abstract!Init
    OBVIOUS
  <1>1. \A t \in Threads : pc[t] = "idle"
    BY DEF PoolInit, Init
  <1>2. ~Storing /\ ~Taking
    BY <1>1 DEF Storing, Taking
  <1>3. Contents = << >>
    BY <1>2, PoolInvInit, EmptyContents DEF PoolInit, Init, PoolInv
  <1>4. AbsPhase = [t \in Threads |-> "idle"]
    BY <1>1, PhaseValues DEF AbsPhase, Outside
  <1> QED BY <1>3, <1>4 DEF PoolInit, Init, Abstract!Init, AbsPhase

LEMMA RefinesStep ==
    ASSUME PoolInv, PoolInv', [PoolNext]_allVars
    PROVE  [Abstract!Next]_(Abstract!vars)
  <1>1. Sound /\ PoolTypeOK' /\ QueueInv'
    BY DEF PoolInv, Sound, Places
  <1>2. ASSUME NEW t \in Threads, QueueStep(t) \/ (SpuriousWake(t) /\ UNCHANGED poolVars)
        PROVE  Abstract!Next \/ UNCHANGED Abstract!vars
    BY <1>1, <1>2, QueueKinds, RefinesPush, RefinesPop, RefinesDestroy DEF QueueStep, Sound, Places
  <1> QED BY <1>1, <1>2, RefinesOutside DEF PoolNext, Terminated

\* In the programs the queue, teardown and all, is the bounded FIFO queue
\* that job_queue.h describes: every call takes effect at one instant.
THEOREM QueueImplementsFifo == PoolSpec => ImplementsFifo
  <1>1. PoolInv /\ PoolInv' /\ [PoolNext]_allVars => [Abstract!Next]_(Abstract!vars)
    BY RefinesStep
  <1> QED BY <1>1, RefinesInit, PoolInvAlways, PTL DEF PoolSpec, ImplementsFifo, Abstract!Spec
=============================================================================
