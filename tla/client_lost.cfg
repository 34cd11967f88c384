SPECIFICATION Spec
CONSTANTS
  MaxFaults = 1
  MaxBurst = 0
  MaxChanges = 1
INVARIANTS
  SurvivesConnectionLoss
CHECK_DEADLOCK FALSE
