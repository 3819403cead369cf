SPECIFICATION Spec
CONSTANTS
  None = None
  SessionIds = {s1, s2}
  StartSessions = {s1, s2}
  Handlers = {h1}
  Savers = {a1}
  Ops = {"edit", "delete", "fresh"}
  MaxRev = 1
  MaxUnloads = 1
INVARIANTS
  DeletedLeavesNothing
  StartFreshIsClean
CHECK_DEADLOCK FALSE
