SPECIFICATION FairSpec
CONSTANTS
  Calls = {q1, q2}
  ActivityLimit = 1
  MaxEpoch = 1
INVARIANTS
  NoUngrantedWork
  NoLateProposal
  AnswerOfWorkspace
  GrantsOfWorkspace
PROPERTIES
  RequestsEnd
