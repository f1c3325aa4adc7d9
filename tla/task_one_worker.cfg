\* One gateway process: the queue is the bounded retry life cycle.
CONSTANTS
    t1 = t1
    t2 = t2
    w1 = w1
    Tasks = {t1, t2}
    Workers = {w1}
    MaxRetries = 3
    BatchLimit = 1
    MaxAborts = 2
SPECIFICATION FairSpec
INVARIANTS TypeOK AttemptsBounded
PROPERTIES ImplementsLifecycle QueuedEventuallyEnds
CHECK_DEADLOCK FALSE
