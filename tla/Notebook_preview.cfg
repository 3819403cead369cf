\* A language run is cancelled while it registers its result.
SPECIFICATION Spec
CONSTANTS
  None = None
  Cells = {"a", "b", "p"}
  Codes <- SmallCodes
  RefsOf <- SmallRefs
  Crossed = {"sieve", "sifted"}
  Direct = {"show"}
  Unknown = {"macro"}
  Empty = {"blank"}
  Notebooks <- TwoNotebooks
  Edits <- ReaderEdits
  Wishes = {"run", "language", "escape"}
  MaxJobs = 6
  MaxBatches = 2
  MaxActs = 4
INVARIANTS
  PreviewHasTable
CHECK_DEADLOCK FALSE
