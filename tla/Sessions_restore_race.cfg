SPECIFICATION Spec
CONSTANTS
  None = None
  SessionIds = {s1, s2}
  StartSessions = {s1, s2}
  Handlers = {h1}
  Savers = {a1}
  Ops = {"switch"}
  MaxRev = 1
  MaxUnloads = 0
INVARIANTS
  RestoreNotRaced
CHECK_DEADLOCK FALSE
