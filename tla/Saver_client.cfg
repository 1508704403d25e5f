SPECIFICATION ClientSpec
CONSTANTS
    t1 = t1
    t2 = t2
    v = v
    w = w
    Absent = Absent
    Threads <- MCThreads
    Channels = {"c"}
    MaxId = 3
    Vals <- MCVals
    Written <- MCWritten
    Slots <- MCSlots
    MaxWrites = 2
PROPERTIES ReadingStable StoredKept CopyFaithful
CHECK_DEADLOCK FALSE
