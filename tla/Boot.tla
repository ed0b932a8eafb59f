--------------------------------- MODULE Boot ---------------------------------
(***************************************************************************)
(* The start of a server with the set-up of its engines: a rank of Startup *)
(* joins the others when its engine, which the constructor of Scheduler    *)
(* makes first, is ready in EngineSetup, and its process ends when the     *)
(* engine raises an exception.                                             *)
(***************************************************************************)
EXTENDS Startup, EngineSetup

ASSUME BootAssumption == GroupSize = Size /\ MayCrash

Process(r) == << "scheduler", r >>

bootVars == << vars, engineVars >>

BootInit == Init /\ EngineInit

\* Engine.__init__ in the process of rank r
EngineStep(r) ==
  /\ pc[Process(r)] = "started" /\ RankStep(r)
  /\ UNCHANGED vars

EngineFails(r) ==
  /\ pc[Process(r)] = "started" /\ place[r] \in {"raised", "out of memory"}
  /\ Crash(Process(r))
  /\ UNCHANGED engineVars

\* The rest of Scheduler.__init__ and of _run_scheduler
RankGoesOn(r) ==
  /\ pc[Process(r)] = "started" => place[r] = "ready"
  /\ SchedulerStep(Process(r))
  /\ UNCHANGED engineVars

OthersGoOn ==
  /\ MainStep \/ \E p \in Workers : WorkerStep(p) \/ Crash(p)
  /\ UNCHANGED engineVars

\* External: other programs on the GPUs
OthersTakeMemory == \E r \in Ranks : Disturb(r) /\ UNCHANGED vars

BootNext ==
  \/ \E r \in Ranks : EngineStep(r) \/ EngineFails(r) \/ RankGoesOn(r)
  \/ OthersGoOn \/ OthersTakeMemory

BootSpec == BootInit /\ [][BootNext]_bootVars
=============================================================================
