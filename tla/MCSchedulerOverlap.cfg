CONSTANTS
  r1 = r1
  r2 = r2
  r3 = r3
  r4 = r4
  r5 = r5
  Req = {r1, r2, r3, r4}
  Token = {1, 2}
  Eos = 2
  Prompt <- PromptMixed
  MaxTokens <- MixedTokens
  IgnoreEos = {r1}
  Priority <- TwoTokens
  NumPages = 6
  MaxSeqLen = 8
  MaxRunning = 2
  Budget = 2
  Strategy = "fcfs"
  Overlap = TRUE
  AbortInFlight = FALSE
  PageSize = 1
SPECIFICATION FairSpec
INVARIANTS
  HostKnows
  OneFinalReply
  SlotsExclusive
  ReservationCovers
  IdleIntegrity
PROPERTIES
  UsesCacheManager
  Served
