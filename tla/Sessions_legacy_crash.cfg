SPECIFICATION Spec
CONSTANTS
  None = None
  SessionIds = {s1, s2}
  StartSessions = {}
  Handlers = {h1}
  Savers = {a1}
  Ops = {"unload"}
  MaxRev = 1
  MaxUnloads = 1
INVARIANTS
  NoOrphanSnapshot
CHECK_DEADLOCK FALSE
