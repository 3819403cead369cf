\* By hand: the body of a vendor answer that never arrives.
SPECIFICATION Spec
CONSTANTS
  Picks = {1}
  MaxPolls = 1
  MayStall = TRUE
PROPERTIES RequestEnds
