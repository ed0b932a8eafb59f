------------------------------- MODULE MCBatch -------------------------------
(***************************************************************************)
(* Small instances of TokenPool and BatchForward for TLC, in one state     *)
(* space: part says which of them a behaviour is of, and the variables of  *)
(* the other module stay as they were at first.  The two share no state.   *)
(***************************************************************************)
EXTENDS Naturals, TLC

CONSTANTS r1, r2

VARIABLES part,
          pending, reqs, running, free_slots, last, turn, scheduler_stream,
          engine_stream, token_pool, over, late, misread,
          batch_reqs, page_table, kv, capture, result, born

Rows == {r1, r2}
Symmetry == Permutations(Rows)

-----------------------------------------------------------------------------
(* Four requests on two rows: long and short prompts, chunks, a cached token, *)
(* and one that asks for no token.                                            *)
Arrival == << 1, 2, 3, 4 >>
PromptLen == << 1, 4, 2, 3 >>
OutputLen == << 3, 2, 2, 0 >>

TokensOverlap ==
  INSTANCE TokenPool WITH Overlap <- TRUE, NumRows <- 2, Width <- 6,
                          PrefillBudget <- 3, MaxCached <- 1
TokensNormal ==
  INSTANCE TokenPool WITH Overlap <- FALSE, NumRows <- 2, Width <- 6,
                          PrefillBudget <- 3, MaxCached <- 1

(* Pages of two tokens with graphs for one and three requests, pages of one  *)
(* with a graph for two, and pages of four in rows that end inside a page.   *)
FlashAttention ==
  INSTANCE BatchForward WITH Backend <- "fa", PageSize <- 2, NumPages <- 4, GraphSizes <- {1, 3},
                             MaxSeqLen <- 3, Align <- 2, MaxRequests <- 3, reqs <- batch_reqs
FlashInfer ==
  INSTANCE BatchForward WITH Backend <- "fi", PageSize <- 1, NumPages <- 5, GraphSizes <- {2},
                             MaxSeqLen <- 3, Align <- 2, MaxRequests <- 3, reqs <- batch_reqs
WidePages ==
  INSTANCE BatchForward WITH Backend <- "fa", PageSize <- 4, NumPages <- 2, GraphSizes <- {2},
                             MaxSeqLen <- 6, Align <- 4, MaxRequests <- 2, reqs <- batch_reqs

ASSUME TokenPools == TokensOverlap!TokenPoolAssumption /\ TokensNormal!TokenPoolAssumption
ASSUME BatchForwards ==
  /\ FlashAttention!BatchForwardAssumption /\ FlashInfer!BatchForwardAssumption
  /\ WidePages!BatchForwardAssumption

-----------------------------------------------------------------------------
tokenVars == << pending, reqs, running, free_slots, last, turn, scheduler_stream,
                engine_stream, token_pool, over, late, misread >>
batchVars == << batch_reqs, page_table, kv, capture, result, born >>

Init ==
  \/ part = "overlap" /\ TokensOverlap!Init /\ FlashAttention!Init
  \/ part = "normal" /\ TokensNormal!Init /\ FlashAttention!Init
  \/ part = "fa" /\ TokensNormal!Init /\ FlashAttention!Init
  \/ part = "fi" /\ TokensNormal!Init /\ FlashInfer!Init
  \/ part = "wide" /\ TokensNormal!Init /\ WidePages!Init

TokenStep ==
  /\ \/ part = "overlap" /\ TokensOverlap!Next
     \/ part = "normal" /\ TokensNormal!Next
  /\ UNCHANGED batchVars

BatchStep ==
  /\ \/ part = "fa" /\ FlashAttention!Next
     \/ part = "fi" /\ FlashInfer!Next
     \/ part = "wide" /\ WidePages!Next
  /\ UNCHANGED tokenVars

Next == (TokenStep \/ BatchStep) /\ UNCHANGED part

Spec == Init /\ [][Next]_<< part, tokenVars, batchVars >>

-----------------------------------------------------------------------------
\* A request is fed its own tokens from the token pool, in both loops, and the rows
\* of the pool have one owner at a time (TokenPool).
MisreadOnlyIfLate ==
  /\ part = "overlap" => TokensOverlap!MisreadOnlyIfLate /\ TokensOverlap!RowsHaveOneOwner
  /\ part = "normal" => TokensNormal!MisreadOnlyIfLate /\ TokensNormal!RowsHaveOneOwner

\* What a request gets from a forward pass is its own, with both backends: its
\* tokens attend to their own past, its logits are those of its last token, the
\* padding stays in the dummy page, and its pages are within its row (BatchForward).
BatchmatesKeptApart ==
  /\ part = "fa" => /\ FlashAttention!AttendsToOwnPast /\ FlashAttention!LogitsOfLastToken
                    /\ FlashAttention!DummyPageOnly
  /\ part = "fi" => /\ FlashInfer!AttendsToOwnPast /\ FlashInfer!LogitsOfLastToken
                    /\ FlashInfer!DummyPageOnly
  /\ part = "wide" => WidePages!RowsAreWideEnough
=============================================================================
