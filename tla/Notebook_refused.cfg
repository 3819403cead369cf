\* A refused code while an older run is in flight.
SPECIFICATION Spec
CONSTANTS
  None = None
  Cells = {"a", "b", "p"}
  Codes <- SmallCodes
  RefsOf <- SmallRefs
  Crossed = {"sieve", "sifted"}
  Direct = {"show"}
  Unknown = {"macro"}
  Empty = {"blank"}
  Notebooks <- TwoNotebooks
  Edits <- ReaderEdits
  Wishes = {"type", "run"}
  MaxJobs = 6
  MaxBatches = 2
  MaxActs = 3
PROPERTIES
  RefusalStands
CHECK_DEADLOCK FALSE
