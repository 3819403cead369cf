SPECIFICATION FairSpec
CONSTANTS
  None = None
  s1 = s1
  s2 = s2
  c1 = c1
  c2 = c2
  Sources = {s1, s2}
  Cells = {c1, c2}
  Inputs <- ChainInputs
  CellOrder <- ChainOrder
  NewCells = {}
  Baselined = {s1, s2}
  Applies = {a1}
  Switches = TRUE
  MaxVersion = 2
INVARIANTS
  NoSilentStale
  PublishedMounted
PROPERTIES
  RefreshEnds
CHECK_DEADLOCK FALSE
