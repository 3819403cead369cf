SPECIFICATION Spec
CONSTANTS
  None = None
  s1 = s1
  s2 = s2
  c1 = c1
  c2 = c2
  Sources = {s1}
  Cells = {c1}
  Inputs <- OneInput
  CellOrder <- OneOrder
  NewCells = {}
  Baselined = {}
  Applies = {a1}
  Switches = FALSE
  MaxVersion = 2
INVARIANTS
  NoSilentStale
CHECK_DEADLOCK FALSE
