SPECIFICATION Spec
CONSTANTS
    t1 = t1
    t2 = t2
    Absent = Absent
    Marker <- MCMarker
    Threads <- MCThreads
    Readers = {"r"}
    Updates <- MCUpdates
    Backends = {"sqlite", "postgres", "indexeddb"}
    Disciplined = TRUE
    MaxId = 3
    MaxRuns = 1
    MaxWalks = 1
    MaxDeletes = 1
INVARIANTS TypeOK ReadExact
 
SYMMETRY MCSymmetry
CHECK_DEADLOCK FALSE
