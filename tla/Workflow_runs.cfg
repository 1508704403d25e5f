SPECIFICATION Spec
CONSTANTS
    MaxRuns = 2
    MaxActive = 1
    MaxFresh = 1
    MaxFaults = 1
    Scripts <- MCScripts
    Sites = {1, 2, 3, 4}
    Null = Null
    Thrown = Thrown
    MaxConcurrency = 1
    MaxAgents = 3
    Budget = 3
INVARIANTS ReplayPrefix  AccountsExact
PROPERTIES RunSettles
CHECK_DEADLOCK FALSE
