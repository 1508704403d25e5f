SPECIFICATION Spec
CONSTANTS
    a = a
    b = b
    t = t
    Absent = Absent
    Threads = {t}
    T = t
    Nodes = {"n", "m"}
    Channels = {"eph", "messages", "status"}
    MaxId = 5
    Tokens <- MCTokens
    SnapshotFrequency = 2
    MaxSupersteps = 3
    Updates <- UpdatesOne
    Plans <- PlansOne
    StartTasks <- StartOne
    Resumes = {FALSE}
    RecursionLimit = 1
    Retain = FALSE
    MaxOps = 3
INVARIANTS CancelDurable
CHECK_DEADLOCK FALSE
