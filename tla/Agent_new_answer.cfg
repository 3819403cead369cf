SPECIFICATION Spec
CONSTANTS
  Calls = {q1}
  ActivityLimit = 1
  MaxEpoch = 1
INVARIANTS
  NoCrossWorkspaceAnswer
