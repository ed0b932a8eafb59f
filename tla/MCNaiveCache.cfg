CONSTANTS
  r1 = r1
  r2 = r2
  r3 = r3
  r4 = r4
  Req = {r1, r2, r3, r4}
  NumPages = 5
  Args <- RunArgs
SPECIFICATION Spec
INVARIANTS
  NeverEvicts
  PagePartition
