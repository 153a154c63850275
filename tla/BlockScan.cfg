CONSTANTS
  Start = Start
  End = End
  Target = Target
  First = 1
  MaxPolls = 2
  MaxHeight = 3
  MaxRound = 5
SPECIFICATION Spec
INVARIANTS MissExplained TimeoutsCounted
CHECK_DEADLOCK FALSE
