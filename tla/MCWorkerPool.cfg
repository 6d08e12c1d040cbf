\* main and two workers under fairness; three files through a queue of two
\* slots; up to two failing calls, so that both workers may be missing.
CONSTANTS
    Producers = {m}
    Consumers = {w1, w2}
    Destroyer = m
    Capacity = 2
    Jobs = {f1, f2, f3}
    NoJob = NoJob
    NoThread = NoThread
    MaxFaults = 2
SPECIFICATION PoolSpec
CHECK_DEADLOCK FALSE
INVARIANTS PoolTypeOK QueueInv JobsOwned DestroyDrains ExitComplete
PROPERTIES ImplementsFifo ExitsOrSleeps
