SPECIFICATION Spec
CONSTANTS
  None = None
  s1 = s1
  s2 = s2
  c1 = c1
  c2 = c2
  Sources = {s1}
  Cells = {c1}
  Inputs <- OneInput
  CellOrder <- OneOrder
  NewCells = {}
  Baselined = {s1}
  Applies = {a1}
  Switches = TRUE
  MaxVersion = 2
INVARIANTS
  NoForeignRelations
CHECK_DEADLOCK FALSE
