------------------------------- MODULE MCRanks -------------------------------
(***************************************************************************)
(* A small instance of RankBroadcast for TLC, in overlap_loop and in       *)
(* normal_loop: part says which loop the ranks of a behaviour are in.      *)
(***************************************************************************)
EXTENDS RankBroadcast, TLC

CONSTANTS a, b

OneOrTwo == a :> 1 @@ b :> 2

VARIABLE part

Normal == INSTANCE RankBroadcast WITH Overlap <- FALSE

MCInit == Init /\ part \in {"overlap", "normal"}

MCNext ==
  /\ \/ part = "overlap" /\ Next
     \/ part = "normal" /\ Normal!Next
  /\ UNCHANGED part

mcVars == << part, vars >>

StepOf(r) ==
  /\ \/ part = "overlap" /\ Step(r)
     \/ part = "normal" /\ Normal!Step(r)
  /\ UNCHANGED part

\* Every rank keeps running, and a shutdown of all of them ends
MCSpec ==
  /\ MCInit /\ [][MCNext]_mcVars
  /\ WF_mcVars(Step0 /\ UNCHANGED part) /\ WF_mcVars(Shutdown /\ UNCHANGED part)
  /\ \A r \in Ranks : WF_mcVars(StepOf(r))
  /\ \A r \in Others : WF_mcVars(Step1(r) /\ UNCHANGED part)
=============================================================================
