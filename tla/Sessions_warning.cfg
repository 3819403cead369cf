SPECIFICATION Spec
CONSTANTS
  None = None
  SessionIds = {s1, s2}
  StartSessions = {s1}
  Handlers = {h1}
  Savers = {a1, a2}
  Ops = {"edit", "open", "hide", "fail"}
  MaxRev = 2
  MaxUnloads = 1
INVARIANTS
  DurableWhenQuiet
CHECK_DEADLOCK FALSE
