CONSTANTS
  r1 = r1
  r2 = r2
  r3 = r3
  r4 = r4
  r5 = r5
  Req = {r1, r2, r3, r4, r5}
  Token = {1, 2}
  Eos = 2
  Prompt <- PromptMixed
  MaxTokens <- MixedTokens
  IgnoreEos = {r1}
  Priority <- TwoTokens
  NumPages = 3
  MaxSeqLen = 8
  MaxRunning = 2
  Budget = 2
  Strategy = "fcfs"
  Overlap = FALSE
  AbortInFlight = TRUE
  PageSize = 2
SPECIFICATION FairSpec
PROPERTIES
  Served
