----------------------------- MODULE MCNaiveCache -----------------------------
(***************************************************************************)
(* A small instance of NaiveCache for TLC, with pages of four tokens and   *)
(* with pages of one.                                                      *)
(***************************************************************************)
EXTENDS NaiveCache, TLC

CONSTANTS r1, r2, r3, r4

\* r1 and r2 may grow over a page, the others take one token each
PagesOfFour ==
  [page_size |-> 4,
   input |-> r1 :> 4 @@ r2 :> 4 @@ r3 :> 1 @@ r4 :> 1,
   output |-> r1 :> 2 @@ r2 :> 2 @@ r3 :> 1 @@ r4 :> 1]

\* r1 has to be chunked to leave room for r2; r3 fits only when another has ended;
\* r4 asks for no token
PagesOfOne ==
  [page_size |-> 1,
   input |-> r1 :> 3 @@ r2 :> 1 @@ r3 :> 2 @@ r4 :> 1,
   output |-> r1 :> 2 @@ r2 :> 3 @@ r3 :> 2 @@ r4 :> 0]

RunArgs == {PagesOfFour, PagesOfOne}
=============================================================================
