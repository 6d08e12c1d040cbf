----------------------------- MODULE WorkerPool -----------------------------
(***************************************************************************)
(* The programs built on the job queue: fauxgrep-mt, fhistogram-mt, fibs.  *)
(* main starts the workers, pushes a strdup'd job for every file (or line) *)
(* it reads, destroys the queue, joins the workers and exits; a worker     *)
(* pops, handles and frees jobs until pop fails.  main is the only pusher  *)
(* and the destroyer.  The three differ in what follows a strdup or a      *)
(* pthread_create that fails: `programs' holds those of them the run so    *)
(* far can be a run of, all three until such a step tells them apart.      *)
(***************************************************************************)
EXTENDS JobQueue

CONSTANT MaxFaults  \* bound on the failing calls of strdup and pthread_create

ASSUME PoolAssumption ==
    /\ Producers = {Destroyer} /\ Destroyer \notin Consumers
    /\ MaxFaults \in Nat

VARIABLES
    main,     \* where main is: "create", "walk", "destroy", "exit"
    todo,     \* files the tree walk has not reached yet
    uncopied, \* files whose strdup returned NULL
    worker,   \* each worker: "unborn", "loop", "pop", "free", "exited"; or
              \* "missing", if its pthread_create failed
    handled,  \* how many times each file was searched or counted
    heap,     \* paths strdup'd and not yet freed
    programs, \* the programs this may be a run of
    running   \* FALSE once err() or a crash has ended the process

poolVars == <<main, todo, uncopied, worker, handled, heap, programs, running>>
allVars  == <<vars, poolVars>>

AllPrograms == {"fauxgrep-mt", "fhistogram-mt", "fibs"}

PoolInit ==
    /\ Init
    /\ main = "create" /\ todo = Jobs /\ uncopied = {}
    /\ worker = [w \in Consumers |-> "unborn"]
    /\ handled = [f \in Jobs |-> 0]
    /\ heap = {}
    /\ programs = AllPrograms /\ running = TRUE

\* A step that only the programs in P take.
OnlyIn(P) ==
    /\ programs \cap P # {}
    /\ programs' = programs \cap P

\* Whether one more call may fail.
MayFail ==
    Cardinality(uncopied) + Cardinality({w \in Consumers : worker[w] = "missing"}) < MaxFaults

-----------------------------------------------------------------------------
(* main                                                                    *)

\* One turn of the pthread_create loop leaves worker w in state s.
Created(w, s) ==
    /\ running /\ main = "create"
    /\ worker[w] = "unborn"
    /\ worker' = [worker EXCEPT ![w] = s]
    /\ main' = IF \A v \in Consumers : worker'[v] # "unborn" THEN "walk" ELSE main
    /\ UNCHANGED <<vars, todo, uncopied, handled, heap, running>>

CreateWorker(w) == Created(w, "loop") /\ UNCHANGED programs

\* pthread_create fails: fauxgrep-mt does not look.
CreateIgnored(w) == MayFail /\ OnlyIn({"fauxgrep-mt"}) /\ Created(w, "missing")

\* The other two end in err().
CreateFails ==
    /\ running /\ main = "create"
    /\ MayFail /\ OnlyIn({"fhistogram-mt", "fibs"})
    /\ running' = FALSE
    /\ UNCHANGED <<vars, main, todo, uncopied, worker, handled, heap>>

\* The walk comes to file f.  The files differ in nothing else, so one order
\* of the walk stands for all.
Meets(f) == f \in todo /\ f = CHOOSE g \in todo : TRUE

\* The walk meets a regular file and pushes a copy of its path; the result of
\* job_queue_push is ignored.
WalkPush(f) ==
    /\ running /\ main = "walk"
    /\ Meets(f)
    /\ PushCall(Destroyer, f)
    /\ todo' = todo \ {f}
    /\ heap' = heap \cup {f}
    /\ UNCHANGED <<main, uncopied, worker, handled, programs, running>>

\* strdup returns NULL, which fhistogram-mt and fibs push as a job.
WalkPushNull(f) ==
    /\ running /\ main = "walk"
    /\ Meets(f)
    /\ MayFail /\ OnlyIn({"fhistogram-mt", "fibs"})
    /\ PushCall(Destroyer, f)
    /\ todo' = todo \ {f}
    /\ uncopied' = uncopied \cup {f}
    /\ UNCHANGED <<main, worker, handled, heap, running>>

\* strdup returns NULL: fauxgrep-mt goes on to the next file.
WalkSkip(f) ==
    /\ running /\ main = "walk" /\ pc[Destroyer] \in Outside
    /\ Meets(f)
    /\ MayFail /\ OnlyIn({"fauxgrep-mt"})
    /\ todo' = todo \ {f}
    /\ uncopied' = uncopied \cup {f}
    /\ UNCHANGED <<vars, main, worker, handled, heap, running>>

WalkEnds ==
    /\ running /\ main = "walk" /\ todo = {}
    /\ DestroyCall(Destroyer)
    /\ main' = "destroy"
    /\ UNCHANGED <<todo, uncopied, worker, handled, heap, programs, running>>

\* The joins return once every worker has; main returns and the process ends.
\* fauxgrep-mt joins a thread that was not created through an uninitialised
\* pthread_t: that call fails or crashes.
JoinAndExit ==
    /\ running /\ main = "destroy" /\ pc[Destroyer] = "ok"
    /\ \A w \in Consumers : worker[w] \in {"exited", "missing"}
    /\ main' = "exit"
    /\ UNCHANGED <<vars, todo, uncopied, worker, handled, heap, programs, running>>

JoinCrashes ==
    /\ running /\ main = "destroy" /\ pc[Destroyer] = "ok"
    /\ \E w \in Consumers : worker[w] = "missing"
    /\ running' = FALSE
    /\ UNCHANGED <<vars, main, todo, uncopied, worker, handled, heap, programs>>

-----------------------------------------------------------------------------
(* worker                                                                  *)

WorkerPop(w) ==
    /\ running /\ worker[w] = "loop"
    /\ PopCall(w)
    /\ worker' = [worker EXCEPT ![w] = "pop"]
    /\ UNCHANGED <<main, todo, uncopied, handled, heap, programs, running>>

Popped(w) == running /\ worker[w] = "pop" /\ pc[w] = "ok"

\* pop returned 0: search, count or compute the job.
WorkerHandle(w) ==
    /\ Popped(w) /\ data[w] \notin uncopied
    /\ handled' = [handled EXCEPT ![data[w]] = @ + 1]
    /\ worker' = [worker EXCEPT ![w] = "free"]
    /\ UNCHANGED <<vars, main, todo, uncopied, heap, programs, running>>

\* The job is NULL: fopen fails in fhistogram-mt, which goes on to free it;
\* atoi crashes in fibs.
WorkerPassesNull(w) ==
    /\ Popped(w) /\ data[w] \in uncopied
    /\ OnlyIn({"fhistogram-mt"})
    /\ worker' = [worker EXCEPT ![w] = "free"]
    /\ UNCHANGED <<vars, main, todo, uncopied, handled, heap, running>>

WorkerCrashes(w) ==
    /\ Popped(w) /\ data[w] \in uncopied
    /\ OnlyIn({"fibs"})
    /\ running' = FALSE
    /\ UNCHANGED <<vars, main, todo, uncopied, worker, handled, heap>>

\* Mutant of WorkerFree: the path is not freed.
WorkerFreeLeaks(w) ==
    /\ running /\ worker[w] = "free"
    /\ worker' = [worker EXCEPT ![w] = "loop"]
    /\ UNCHANGED <<vars, main, todo, uncopied, handled, heap, programs, running>>

\* free(NULL) does nothing.
WorkerFree(w) ==
    /\ running /\ worker[w] = "free"
    /\ heap' = heap \ {data[w]}
    /\ worker' = [worker EXCEPT ![w] = "loop"]
    /\ UNCHANGED <<vars, main, todo, uncopied, handled, programs, running>>

WorkerExit(w) ==
    /\ running /\ worker[w] = "pop" /\ pc[w] = "failed"
    /\ worker' = [worker EXCEPT ![w] = "exited"]
    /\ UNCHANGED <<vars, main, todo, uncopied, handled, heap, programs, running>>

-----------------------------------------------------------------------------
MainStep ==
    \/ \E w \in Consumers : CreateWorker(w) \/ CreateIgnored(w)
    \/ CreateFails
    \/ \E f \in Jobs : WalkPush(f) \/ WalkPushNull(f) \/ WalkSkip(f)
    \/ WalkEnds
    \/ JoinAndExit
    \/ JoinCrashes

WorkerStep(w) ==
    \/ WorkerPop(w) \/ WorkerHandle(w) \/ WorkerFree(w) \/ WorkerExit(w)
    \/ WorkerPassesNull(w) \/ WorkerCrashes(w)

QueueStep(t) == running /\ Step(t) /\ UNCHANGED poolVars

Terminated == (main = "exit" \/ ~running) /\ UNCHANGED allVars

PoolNext ==
    \/ MainStep
    \/ \E w \in Consumers : WorkerStep(w)
    \/ \E t \in Threads : QueueStep(t) \/ (running /\ SpuriousWake(t) /\ UNCHANGED poolVars)
    \/ Terminated

\* Every thread keeps running, and one that waits for a mutex gets it if the
\* mutex is free again and again.  Nothing is assumed of spurious wakeups.
PoolFairness ==
    /\ WF_allVars(MainStep)
    /\ \A w \in Consumers : WF_allVars(WorkerStep(w))
    /\ \A t \in Threads : SF_allVars(QueueStep(t))

PoolSpec == PoolInit /\ [][PoolNext]_allVars /\ PoolFairness

-----------------------------------------------------------------------------
(* Properties                                                              *)

\* Type correctness of main's and the workers' state, the queue's included.
PoolTypeOK ==
    /\ TypeOK
    /\ main \in {"create", "walk", "destroy", "exit"}
    /\ todo \in SUBSET Jobs /\ uncopied \in SUBSET Jobs /\ heap \in SUBSET Jobs
    /\ worker \in [Consumers -> {"unborn", "loop", "pop", "free", "exited", "missing"}]
    /\ handled \in [Jobs -> Nat]
    /\ programs \in (SUBSET AllPrograms) \ {{}} /\ running \in BOOLEAN

\* A job a worker is about to handle or free is a path that is still
\* allocated (or the NULL of a failed strdup) and that no other worker holds:
\* no double free, no use after free, although job_queue_destroy may already
\* be tearing the queue down.
JobsOwned ==
    LET Holds(w) == \/ worker[w] = "pop" /\ pc[w] = "ok"
                    \/ worker[w] = "free"
    IN  \A w \in Consumers : Holds(w) =>
           /\ data[w] \in heap \cup uncopied
           /\ \A v \in Consumers \ {w} : Holds(v) => data[v] # data[w]

\* job_queue_destroy passes its wait only when every pushed job was popped.
DestroyDrains == pc[Destroyer] \in Teardown => taken = stored

\* When the program exits every file found was handled exactly once, except
\* those dropped for want of memory, and every path was freed.
ExitComplete ==
    main = "exit" =>
       /\ \A f \in Jobs : handled[f] = IF f \in uncopied THEN 0 ELSE 1
       /\ heap = {}

\* A thread asleep on a condition, or main held up in pthread_cond_destroy
\* by one, or locked out of a mutex destroyed under it.
Asleep == \E t \in Threads : pc[t] \in {"push_asleep", "pop_asleep"}
LockedOut == \E t \in stranded, m \in dead : pc[t] \in LockPCs(m) /\ owner[m] # NoThread

\* No worker was created, so nothing ever empties the queue.
Unserved == \A w \in Consumers : worker[w] = "missing"

\* The process ends, or a thread stays asleep or locked out, or there is no
\* worker: the drain loop, the three locks and the joins do not hang it in
\* any other way.
ExitsOrSleeps ==
    \/ <>(main = "exit" \/ ~running)
    \/ <>[]Asleep \/ <>[]LockedOut \/ <>[]Unserved

\* The program exits (job_queue.h: a pop that had blocked returns -1 once
\* job_queue_destroy is called; fibs.c: "Wait for all threads to finish").
Exits == <>(main = "exit")

\* When the synchronisation primitives are destroyed nobody uses them any
\* longer (job_queue.c, comment after job_queue_destroy).
PrimitivesUnused ==
    pc[Destroyer] \in Teardown => \A w \in Consumers : pc[w] \in Outside
=============================================================================
