SPECIFICATION Spec
CONSTANTS
  None = None
  SessionIds = {s1, s2}
  StartSessions = {s1}
  Handlers = {h1, h2}
  Savers = {a1}
  Ops = {"early", "edit", "new"}
  MaxRev = 1
  MaxUnloads = 0
INVARIANTS
  DurableWhenQuiet
  OwnSnapshotOnly
CHECK_DEADLOCK FALSE
