CONSTANTS
  r1 = r1
  r2 = r2
  r3 = r3
  r4 = r4
  r5 = r5
  Req = {r1, r2, r3}
  Token = {1, 2}
  Eos = 2
  Prompt <- PromptSame
  MaxTokens <- TwoTokens
  IgnoreEos = {r1}
  Priority <- TwoTokens
  NumPages = 6
  MaxSeqLen = 8
  MaxRunning = 2
  Budget = 2
  Strategy = "fcfs"
  Overlap = FALSE
  AbortInFlight = TRUE
  PageSize = 1
SPECIFICATION Spec
INVARIANTS
  PagesUnoccupied
