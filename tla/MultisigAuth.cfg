CONSTANTS
  NumKeys = 9
  Threshold = 2
  MaxSigs = 3
SPECIFICATION Spec
INVARIANTS TypeOK PositionsSurvive AcceptedIfAscending
CHECK_DEADLOCK FALSE
