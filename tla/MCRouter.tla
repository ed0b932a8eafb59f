------------------------------ MODULE MCRouter ------------------------------
(***************************************************************************)
(* Small instances of Router for TLC, in one state space: part says which  *)
(* of them a behaviour is of.  They differ in what may happen: workers     *)
(* that overload and fail; users at their limits; a worker list under the  *)
(* health checks.  And the judgement of workers, WorkerSlo, on a grid of   *)
(* metrics at and beside every threshold.                                  *)
(***************************************************************************)
EXTENDS Router

CONSTANTS u1, u2, w1, w2

VARIABLE part

TwoWorkers == << w1, w2 >>

\* A worker reports under its URL.  Overloaded: banned.
OneReports == w1 :> w1
AtFirst == [ttft |-> 500, tpot |-> 40, prefill |-> 0, decode |-> 0, wait |-> 0, kv |-> 32,
            gpu |-> 180]
Overloaded == [AtFirst EXCEPT !.ttft = 5000, !.wait = 64]
Idle == [AtFirst EXCEPT !.tpot = 20]

\* Users, workers and limits are those of the configuration in every part.
Routing ==
  INSTANCE Router WITH
    Reports <- {Overloaded, Idle}, Unreliable <- {w1}, Cooldown <- 1, MaxTime <- 1, MaxCalls <- 2
Checking ==
  INSTANCE Router WITH
    Unreliable <- {w1, w2}, Blacklist <- {u1}, MaxTime <- 0, MaxCalls <- 1

ASSUME Routers == RouterAssumption /\ Routing!RouterAssumption /\ Checking!RouterAssumption

-----------------------------------------------------------------------------
\* The values at and beside the thresholds, from good to bad
Scale == [ttft |-> << 500, 1999, 2000, 4000, 9000 >>,
          tpot |-> << 39, 40, 99, 100, 300 >>,
          prefill |-> << 0, 64 >>,
          decode |-> << 0, 63, 64, 127, 300 >>,
          wait |-> << 0, 31, 32, 64, 300 >>,
          kv |-> << 80, 7, 6, 3, 0 >>,
          gpu |-> << 400, 180, 0 >>]

Levels ==
  {level \in [DOMAIN Scale -> 1..5] : \A k \in DOMAIN Scale : level[k] <= Len(Scale[k])}
At(level) == [k \in DOMAIN Scale |-> Scale[k][level[k]]]
Rank(m) == Severity[SloState(m)]

\* A score is between 0 and 1, whatever the worker reports (calc_node_score), and
\* the load test of the rejector, at 0.9, cannot fire for a worker the SLO filter
\* lets through: no such worker scores even 0.6.
ASSUME ScoresBounded ==
  \A level \in Levels :
    /\ Score(At(level)) \in 0..One
    /\ Rank(At(level)) <= 1 => Score(At(level)) < 600000

\* A worker whose metrics get worse is never judged better: neither its SLO state
\* nor its score improves, so the router does not turn to it.
ASSUME NeverJudgedBetter ==
  \A level \in Levels : \A k \in DOMAIN Scale : level[k] < Len(Scale[k]) =>
    LET worse == [level EXCEPT ![k] = @ + 1]
    IN  Rank(At(worse)) >= Rank(At(level)) /\ Score(At(worse)) >= Score(At(level))

-----------------------------------------------------------------------------
mcInit ==
  \/ part = "routing" /\ Routing!Init
  \/ part = "limiting" /\ Init
  \/ part = "checking" /\ Checking!Init

mcNext ==
  /\ \/ part = "routing" /\ Routing!Next
     \/ part = "limiting" /\ Next
     \/ part = "checking" /\ Checking!Next
  /\ UNCHANGED part

mcVars == << part, vars >>

\* The health loop never ends: a GET is answered, refused or times out.
mcSpec ==
  /\ mcInit /\ [][mcNext]_mcVars
  /\ WF_mcVars(part = "checking" /\ Checking!Loop /\ UNCHANGED part)

-----------------------------------------------------------------------------
\* The healthy list comes to follow the workers that stay up or dead (Router).
HealthFollows == part = "checking" => DeadLeaves /\ AliveReturns
=============================================================================
