SPECIFICATION Spec
CONSTANTS
    Sources = {s1}
    Sweeps = {r}
    Callers = {s1, r}
    Columns = 2
    MaxFaults = 1
    MaxEdits = 1
INVARIANTS OneWorker AnswerFresh RuleApplied
PROPERTIES LoopsEnd
CHECK_DEADLOCK FALSE
