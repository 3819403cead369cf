SPECIFICATION Spec
CONSTANTS
  None = None
  SessionIds = {s1, s2}
  StartSessions = {}
  Handlers = {h1}
  Savers = {a1}
  Ops = {"early", "edit", "new", "switch", "delete", "fresh", "rename", "unload", "fail"}
  MaxRev = 1
  MaxUnloads = 1
INVARIANTS
  IndexConsistent
  OutgoingFlushed
CHECK_DEADLOCK FALSE
SYMMETRY AnySession
CONSTRAINT BootAfterCrash
