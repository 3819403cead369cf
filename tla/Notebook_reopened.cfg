\* A brush in a notebook that was opened with snapshots.
SPECIFICATION Spec
CONSTANTS
  None = None
  Cells = {"a", "b", "p"}
  Codes <- SmallCodes
  RefsOf <- SmallRefs
  Crossed = {"sieve", "sifted"}
  Direct = {"show"}
  Unknown = {"macro"}
  Empty = {"blank"}
  Notebooks <- SavedNotebook
  Edits <- ReaderEdits
  Wishes = {"brush", "run"}
  MaxJobs = 6
  MaxBatches = 2
  MaxActs = 3
INVARIANTS
  BrushFindsViews
CHECK_DEADLOCK FALSE
