SPECIFICATION FairSpec
CONSTANTS
  None = None
  t1 = t1
  t2 = t2
  t3 = t3
  Runs = {r1, r2}
  Swaps = {w1, w2}
  MaxConns = 3
  Replacements <- OneTarget
  Removals <- OneRemoval
  MayCancel = TRUE
  MayFail = TRUE
  ConnectMayFail = TRUE
INVARIANTS
  OneOpenConnection
  EngineUsable
  NoTransactionLeft
  SwapAtomic
PROPERTIES
  EngineComesBack
CHECK_DEADLOCK FALSE
