\* A client that gives up while the statement is being submitted.
SPECIFICATION Spec
CONSTANTS
  Picks = {1}
  MaxPolls = 1
  MayStall = FALSE
INVARIANTS CancelledIsTerminal
