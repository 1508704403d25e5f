SPECIFICATION Spec
CONSTANTS
    t1 = t1
    t2 = t2
    r1 = r1
    r2 = r2
    r3 = r3
    w1 = w1
    w2 = w2
    Threads <- OneThread
    Runs <- ThreeRuns
    Workers <- TwoWorkers
    Capacity = 1
    MaxFaults = 1
    MaxRestarts = 1
SYMMETRY Sym
INVARIANTS TypeOK  CancelSticks RunsHeld DiskCurrent
CHECK_DEADLOCK FALSE
