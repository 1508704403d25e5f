SPECIFICATION Spec
CONSTANTS
    Jobs = {1, 2}
    Schedules <- SchedulesLate
    Repeats = {0, 1}
    Enables = {FALSE}
    MaxJobs = 2
    MaxDuePerTick = 1
    MaxCompleted = 9
    MaxTime = 5
    MaxEvents = 1
INVARIANTS TypeOK IntervalOnce 
 
CHECK_DEADLOCK FALSE
