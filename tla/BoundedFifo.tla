---------------------------- MODULE BoundedFifo -----------------------------
(***************************************************************************)
(* What job_queue.h promises its callers: a bounded first-in first-out     *)
(* queue of jobs.  push blocks while the queue is full, pop blocks while   *)
(* it is empty; once destroy was called push fails, pop fails as soon as   *)
(* the queue is empty, and destroy itself returns only then.  Every call   *)
(* takes effect at one instant between its call and its return.            *)
(***************************************************************************)
EXTENDS Naturals, Sequences

CONSTANTS Threads, Capacity, Jobs, NoJob

VARIABLES
    queue,   \* the jobs in the queue, oldest first
    closed,  \* job_queue_destroy was called
    phase,   \* what each thread's call has come to
    job      \* each thread's job: the argument of push, the result of pop

vars == <<queue, closed, phase, job>>

Returned == {"idle", "ok", "failed"}
Become(t, p) == phase' = [phase EXCEPT ![t] = p]

Init ==
    /\ queue = <<>> /\ closed = FALSE
    /\ phase = [t \in Threads |-> "idle"]
    /\ job = [t \in Threads |-> NoJob]

PushCall(t, d) ==
    /\ phase[t] \in Returned
    /\ job' = [job EXCEPT ![t] = d]
    /\ Become(t, "pushing")
    /\ UNCHANGED <<queue, closed>>

Enqueue(t) ==
    /\ phase[t] = "pushing"
    /\ ~closed /\ Len(queue) < Capacity
    /\ queue' = Append(queue, job[t])
    /\ Become(t, "done")
    /\ UNCHANGED <<closed, job>>

PushFails(t) ==
    /\ phase[t] = "pushing"
    /\ closed
    /\ Become(t, "rejected")
    /\ UNCHANGED <<queue, closed, job>>

PopCall(t) ==
    /\ phase[t] \in Returned
    /\ Become(t, "popping")
    /\ UNCHANGED <<queue, closed, job>>

Dequeue(t) ==
    /\ phase[t] = "popping"
    /\ queue # <<>>
    /\ job' = [job EXCEPT ![t] = Head(queue)]
    /\ queue' = Tail(queue)
    /\ Become(t, "done")
    /\ UNCHANGED closed

PopFails(t) ==
    /\ phase[t] = "popping"
    /\ closed /\ queue = <<>>
    /\ Become(t, "rejected")
    /\ UNCHANGED <<queue, closed, job>>

DestroyCall(t) ==
    /\ phase[t] \in Returned
    /\ Become(t, "closing")
    /\ UNCHANGED <<queue, closed, job>>

Close(t) ==
    /\ phase[t] = "closing"
    /\ closed' = TRUE
    /\ Become(t, "draining")
    /\ UNCHANGED <<queue, job>>

Drained(t) ==
    /\ phase[t] = "draining"
    /\ queue = <<>>
    /\ Become(t, "done")
    /\ UNCHANGED <<queue, closed, job>>

Return(t) ==
    /\ \/ phase[t] = "done" /\ Become(t, "ok")
       \/ phase[t] = "rejected" /\ Become(t, "failed")
    /\ UNCHANGED <<queue, closed, job>>

Next ==
    \E t \in Threads :
       \/ \E d \in Jobs : PushCall(t, d)
       \/ Enqueue(t) \/ PushFails(t)
       \/ PopCall(t) \/ Dequeue(t) \/ PopFails(t)
       \/ DestroyCall(t) \/ Close(t) \/ Drained(t)
       \/ Return(t)

Spec == Init /\ [][Next]_vars
=============================================================================
