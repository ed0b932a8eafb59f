-------------------------------- MODULE MCBoot --------------------------------
(***************************************************************************)
(* A small instance of Boot and of Cluster for TLC, in one state space:    *)
(* part says what a behaviour is of, a server with a process for each      *)
(* direction of tokenizing, one with a process for both, or the launcher   *)
(* of a cluster.  The variables of the others stay as they were at first.  *)
(***************************************************************************)
EXTENDS Boot, Cluster

CONSTANTS w1, w2, router

TwoWorkers == << w1, w2 >>

VARIABLES part,
          shared_pc             \* pc of the server with one process for both directions

OneProcess == INSTANCE Startup WITH NumTokenizers <- 0, pc <- shared_pc

MCInit ==
  /\ part \in {"apart", "shared", "cluster"}
  /\ BootInit /\ OneProcess!Init /\ LauncherInit
  /\ part # "apart" => free = [r \in Ranks |-> CHOOSE m \in Memory : TRUE]

ServerStep ==
  /\ \/ part = "apart" /\ BootNext /\ UNCHANGED shared_pc
     \/ part = "shared" /\ OneProcess!Next /\ UNCHANGED << pc, engineVars >>
  /\ UNCHANGED launcherVars

LauncherStep ==
  part = "cluster" /\ LauncherNext /\ UNCHANGED << bootVars, shared_pc >>

MCNext == (ServerStep \/ LauncherStep) /\ UNCHANGED part

mcVars == << part, shared_pc, bootVars, launcherVars >>

\* Every process runs, or waits for the others
MCSpec ==
  /\ MCInit /\ [][MCNext]_mcVars
  /\ WF_mcVars(MainStep /\ MCNext)
  /\ \A r \in Ranks : WF_mcVars((EngineStep(r) \/ EngineFails(r) \/ RankGoesOn(r)) /\ MCNext)
  /\ \A p \in Workers : WF_mcVars(WorkerStep(p) /\ MCNext)
  /\ WF_mcVars(Launcher /\ MCNext)

\* A server whose processes do not crash comes to accept requests, however the
\* memory of its GPUs changes meanwhile, and the launcher of a cluster to its end
\* or to where it waits for its children.  A server that accepts requests has every
\* address connected, and alike GPUs that nobody else uses have room for it.
StartsUp ==
  /\ [](EveryAddressConnected /\ AlikeRanksFit)
  /\ part = "apart" /\ [](\A p \in Children : pc[p] # "crashed") => Serves
  /\ part = "cluster" => LaunchEnds
=============================================================================
