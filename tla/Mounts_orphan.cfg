SPECIFICATION Spec
CONSTANTS
    Sources = {s1, s2}
    Kinds = {"book", "s3"}
    Restored = {}
    Files = 2
    Books = {1}
    MaxReopens = 1
    Overlap = FALSE
    Providers = {}
INVARIANTS NoOrphanedRelation
CHECK_DEADLOCK FALSE
