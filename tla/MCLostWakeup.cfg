\* One worker and one file are enough to lose a wakeup.
CONSTANTS
    Producers = {m}
    Consumers = {w1}
    Destroyer = m
    Capacity = 1
    Jobs = {f1}
    NoJob = NoJob
    NoThread = NoThread
    MaxFaults = 0
SPECIFICATION PoolSpec
CHECK_DEADLOCK FALSE
PROPERTY Exits
