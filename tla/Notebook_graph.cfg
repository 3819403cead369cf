\* Every notebook of up to three cells.
SPECIFICATION GraphSpec
CONSTANTS
  MaxCells = 3
  NewCells <- SmallCells
INVARIANTS
  IssueFound
  RunAllOrdered
  BrushCovers
  ReportCovers
CHECK_DEADLOCK FALSE
