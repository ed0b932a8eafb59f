CONSTANTS
  r1 = r1
  r2 = r2
SYMMETRY Symmetry
SPECIFICATION Spec
CHECK_DEADLOCK FALSE
INVARIANTS
  MisreadOnlyIfLate
  BatchmatesKeptApart
