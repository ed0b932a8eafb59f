---------------------------- MODULE MCCacheManager ----------------------------
(* Small instances of CacheManager for TLC. *)
EXTENDS CacheManager

CONSTANTS r1, r2, r3

\* Page size 2: the prompts share one full page and differ in the second; the
\* third fills one page and a half.
PromptPaged == r1 :> << 1, 1, 1, 1, 1 >> @@ r2 :> << 1, 1, 2, 1 >> @@ r3 :> << 1, 1, 1 >>
=============================================================================
