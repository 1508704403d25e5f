SPECIFICATION Spec
CONSTANTS
    a = a
    b = b
    t = t
    Absent = Absent
    Threads = {t}
    T = t
    Nodes = {"n", "m"}
    Channels = {"eph", "messages", "status"}
    MaxId = 4
    Tokens <- MCTokens
    SnapshotFrequency = 2
    MaxSupersteps = 3
    Updates <- UpdatesCore
    Plans <- PlansOne
    StartTasks <- StartOne
    Resumes = {FALSE}
    RecursionLimit = 1
    Retain = TRUE
    MaxOps = 3
INVARIANTS TypeOK RestoreExact SessionAtLatest SessionTransparent
PROPERTIES HistoryImmutable
CHECK_DEADLOCK FALSE
