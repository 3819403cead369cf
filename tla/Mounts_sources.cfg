SPECIFICATION Spec
CONSTANTS
    Sources = {s1, s2}
    Kinds = {"file", "url", "folder", "book", "s3", "catalog", "iceberg"}
    Restored = {"url", "s3", "catalog", "iceberg"}
    Files = 2
    Books = {1}
    MaxReopens = 2
    Overlap = FALSE
    Providers = {}
INVARIANTS SourceIntact NothingLeft NamesReserved
CHECK_DEADLOCK FALSE
