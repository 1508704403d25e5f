SPECIFICATION Spec
CONSTANTS
    Kinds <- MCKinds
    MaxCalls = 3
    MaxBatch = 2
    MaxPrompts = 2
    MaxFaults = 1
INVARIANTS ModelHistory BatchSound
PROPERTIES ResultsKept BatchEnds
CHECK_DEADLOCK FALSE
