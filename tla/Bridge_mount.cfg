\* Two tables mounted through the bridge, one poll per loop.
SPECIFICATION Spec
CONSTANTS
  Picks = {1, 2}
  MaxPolls = 1
  MayStall = FALSE
INVARIANTS NoOrphan MountedSucceeded
PROPERTIES RequestEnds MountEnds ReadsRemotely
