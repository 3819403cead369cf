SPECIFICATION Spec
CONSTANTS
    Sources = {s1, s2}
    Kinds = {"iceberg"}
    Restored = {"iceberg"}
    Files = 1
    Books = {}
    MaxReopens = 1
    Overlap = FALSE
    Providers = {{s1, s2}}
PROPERTIES TargetOwnedCleanup
CHECK_DEADLOCK FALSE
