SPECIFICATION Spec
CONSTANTS
  None = None
  SessionIds = {s1, s2}
  StartSessions = {s1}
  Handlers = {h1}
  Savers = {a1}
  Ops = {"edit", "new"}
  MaxRev = 1
  MaxUnloads = 0
INVARIANTS
  ActiveSessionListed
  StoresSaved
CHECK_DEADLOCK FALSE
