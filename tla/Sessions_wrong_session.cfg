SPECIFICATION Spec
CONSTANTS
  None = None
  SessionIds = {s1, s2}
  StartSessions = {s1, s2}
  Handlers = {h1}
  Savers = {a1}
  Ops = {"edit", "switch"}
  MaxRev = 1
  MaxUnloads = 0
INVARIANTS
  OwnSnapshotOnly
CHECK_DEADLOCK FALSE
