SPECIFICATION Spec
CONSTANTS
    Sources = {s1}
    Kinds = {"folder"}
    Restored = {"folder"}
    Files = 2
    Books = {}
    MaxReopens = 1
    Overlap = FALSE
    Providers = {}
INVARIANTS IdentityKept
CHECK_DEADLOCK FALSE
