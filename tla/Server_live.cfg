SPECIFICATION Spec
CONSTANTS
    t1 = t1
    t2 = t2
    r1 = r1
    r2 = r2
    r3 = r3
    w1 = w1
    w2 = w2
    Threads <- TwoThreads
    Runs <- TwoRuns
    Workers <- TwoWorkers
    Capacity = 1
    MaxFaults = 0
    MaxRestarts = 0
PROPERTIES RequestedEnds StreamEnds
CHECK_DEADLOCK FALSE
