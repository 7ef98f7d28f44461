CONSTANTS
  Candidates <- MCCandidates
  OtherOperators = {"OTHER"}
  PreconditionIds = {p1}
  NoList = nolist
  NoTarget = notarget
  NoIR = noir
  MaxSteps = 4
  MaxCost = 2
  Capacity = 2
SPECIFICATION Spec
INVARIANTS TypeOK NeverUnsound ConservativeOnlyOutside
CHECK_DEADLOCK FALSE
