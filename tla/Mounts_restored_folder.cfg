SPECIFICATION Spec
CONSTANTS
    Sources = {s1, s2}
    Kinds = {"folder"}
    Restored = {"folder"}
    Files = 2
    Books = {1}
    MaxReopens = 1
    Overlap = FALSE
    Providers = {}
INVARIANTS SourceIntact
CHECK_DEADLOCK FALSE
