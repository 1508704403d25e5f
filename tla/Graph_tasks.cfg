SPECIFICATION SpecBranch
CONSTANTS
    a = a
    b = b
    t = t
    Absent = Absent
    Threads = {t}
    T = t
    Nodes = {"n", "m"}
    Channels = {"eph", "messages", "status"}
    MaxId = 4
    Tokens <- MCTokens
    SnapshotFrequency = 2
    MaxSupersteps = 3
    Updates <- UpdatesPair
    Plans <- PlansTwo
    StartTasks <- StartTwo
    Resumes = {FALSE, TRUE}
    RecursionLimit = 2
    Retain = TRUE
    MaxOps = 2
INVARIANTS  CounterChain 
PROPERTIES InvocationEnds
CHECK_DEADLOCK FALSE
