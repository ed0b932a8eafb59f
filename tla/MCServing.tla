------------------------------ MODULE MCServing ------------------------------
(* A small instance of Serving for TLC. *)
EXTENDS Serving

CONSTANTS t1

\* Two requests in overlap_loop; the same with three replies to the one that is
\* not too long; two requests in normal_loop, a worker taking two messages.
RunArgs ==
  {[local_bs |-> 1, overlap |-> TRUE, too_long |-> {}, replies |-> 2],
   [local_bs |-> 1, overlap |-> TRUE, too_long |-> {1}, replies |-> 3],
   [local_bs |-> 2, overlap |-> FALSE, too_long |-> {}, replies |-> 2]}
=============================================================================
