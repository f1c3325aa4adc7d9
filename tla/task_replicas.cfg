\* Two gateway processes share the table.
CONSTANTS
    t1 = t1
    t2 = t2
    w1 = w1
    w2 = w2
    Tasks = {t1, t2}
    Workers = {w1, w2}
    MaxRetries = 2
    BatchLimit = 2
    MaxAborts = 1
SPECIFICATION Spec
SYMMETRY Symmetry
INVARIANTS RetryOvershootBounded OvershootAccounted 
CHECK_DEADLOCK FALSE
