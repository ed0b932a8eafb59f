CONSTANTS
  a = a
  b = b
  Size = 3
  Reqs = {a, b}
  Exit = Exit
  Work <- OneOrTwo
  Overlap = TRUE
  Late = FALSE
  HighWater = 5
SPECIFICATION MCSpec
CHECK_DEADLOCK FALSE
INVARIANTS
  RanksTogether
PROPERTIES
  SameIterations
  RanksGoOn
