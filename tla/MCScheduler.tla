----------------------------- MODULE MCScheduler -----------------------------
(* Small instances of Scheduler for TLC. *)
EXTENDS Scheduler

CONSTANTS r1, r2, r3, r4, r5

\* r1 and r2 share their first two tokens, r3 only the first.
PromptShared == r1 :> << 1, 1, 1 >> @@ r2 :> << 1, 1, 2 >> @@ r3 :> << 1, 2 >>

\* r1 and r2 are the same prompt.
PromptSame == r1 :> << 1, 1 >> @@ r2 :> << 1, 1 >> @@ r3 :> << 2 >>

\* Two equal prompts, one that extends them, and others apart.
PromptMixed ==
  [r \in Req |-> CASE r = r1 -> << 1, 1, 1 >>
                   [] r \in {r2, r3} -> << 1, 1 >>
                   [] r \in {r4, r5} -> << 2 >>]

\* Page size 4: prompts of five tokens, that take two pages each.
PromptWide == [r \in Req |-> << 1, 1, 1, 1, 1 >>]

OneToken == [r \in Req |-> 1]

TwoTokens == [r \in Req |-> 2]

\* The API takes no token and fewer, too.
MixedTokens ==
  [r \in Req |-> CASE r = r1 -> 3
                   [] r \in {r2, r4} -> 2
                   [] r = r3 -> 0
                   [] r = r5 -> -1]

\* r3 is the most urgent.
Priorities == r1 :> 0 @@ r2 :> 1 @@ r3 :> 2
=============================================================================
