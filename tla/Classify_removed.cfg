SPECIFICATION Spec
CONSTANTS
    Sources = {s1}
    Sweeps = {r}
    Callers = {s1, r}
    Columns = 1
    MaxFaults = 1
    MaxEdits = 1
INVARIANTS RemovedClean
CHECK_DEADLOCK FALSE
