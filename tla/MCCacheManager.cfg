CONSTANTS
  r1 = r1
  r2 = r2
  r3 = r3
  Req = {r1, r2, r3}
  Token = {1, 2}
  Prompt <- PromptPaged
  MaxNew = 1
  NumPages = 4
  PageSize = 2
SPECIFICATION Spec
INVARIANTS
  RefCounts
  HandlesHeld
  TreeShape
  EvictionSound
  PagePartition
  TreeContent
