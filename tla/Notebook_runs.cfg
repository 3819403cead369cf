\* A query above the cell it reads, and a Python cell.
SPECIFICATION Spec
CONSTANTS
  None = None
  Cells = {"a", "b", "p"}
  Codes <- SmallCodes
  RefsOf <- SmallRefs
  Crossed = {"sieve", "sifted"}
  Direct = {"show"}
  Unknown = {"macro"}
  Empty = {"blank"}
  Notebooks <- TwoNotebooks
  Edits <- ReaderEdits
  Wishes <- AllWishes
  MaxJobs = 6
  MaxBatches = 2
  MaxActs = 3
INVARIANTS
  RelationOfRows
  Cancellable
  NoOrphanRelation
  BatchCurrent
  LineageOfRows
CHECK_DEADLOCK FALSE
PROPERTIES
  RunsEnd
