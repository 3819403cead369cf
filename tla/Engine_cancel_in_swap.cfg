SPECIFICATION Spec
CONSTANTS
  None = None
  t1 = t1
  t2 = t2
  t3 = t3
  Runs = {r1}
  Swaps = {w1}
  MaxConns = 2
  Replacements <- TwoTargets
  Removals <- NoRemoval
  MayCancel = TRUE
  MayFail = FALSE
  ConnectMayFail = FALSE
INVARIANTS
  AllOrNothing
CHECK_DEADLOCK FALSE
