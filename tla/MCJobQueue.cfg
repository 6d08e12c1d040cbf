\* Two pushers and two poppers; one pusher destroys the queue while the other
\* may be anywhere in job_queue_push.
CONSTANTS
    Producers = {p1, p2}
    Consumers = {c1, c2}
    Destroyer = p1
    Capacity = 2
    Jobs = {j1, j2, j3}
    NoJob = NoJob
    NoThread = NoThread
SPECIFICATION Spec
SYMMETRY Symmetry
CHECK_DEADLOCK FALSE
INVARIANTS TypeOK IntactQueue IntactLocks IntactChecks
