SPECIFICATION Spec
CONSTANTS
  x1 = x1
  x2 = x2
  Case = {x1, x2}
  Batch <- Repairs
  route <- TrackOf
  Process = {p1}
  MaxCases = 8
  MaxRounds = 8
  budget <- Budget
  automatic = {"skill", "model"}
  equipped = {"skill", "model"}
  StopOnQuarantine = TRUE
CHECK_DEADLOCK FALSE
INVARIANT RepairTicketsAreWithinBudget
