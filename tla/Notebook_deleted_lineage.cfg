\* A cell is deleted while its lineage is being recorded.
SPECIFICATION Spec
CONSTANTS
  None = None
  Cells = {"a", "b", "p"}
  Codes <- SmallCodes
  RefsOf <- SmallRefs
  Crossed = {"sieve", "sifted"}
  Direct = {"show"}
  Unknown = {"macro"}
  Empty = {"blank"}
  Notebooks <- TwoNotebooks
  Edits <- ReaderEdits
  Wishes <- AllWishes
  MaxJobs = 6
  MaxBatches = 2
  MaxActs = 3
INVARIANTS
  LineageOfDoc
CHECK_DEADLOCK FALSE
