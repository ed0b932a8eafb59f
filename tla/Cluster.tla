------------------------------- MODULE Cluster -------------------------------
(***************************************************************************)
(* The launcher of a local cluster, cluster/run_cluster.py: one process    *)
(* that starts the workers, waits for each of them, starts the router with *)
(* their addresses, and stops them all on Ctrl+C.  Its children become     *)
(* ready, become slow and end when they like (environment).                *)
(***************************************************************************)
EXTENDS Integers, SequencesExt

CONSTANTS WorkerList,              \* the workers, in their order
          TheRouter,
          MaxWait               \* max_wait, in rounds of wait_for_health

ASSUME ClusterAssumption ==
  /\ WorkerList \in Seq(ToSet(WorkerList)) /\ IsInjective(WorkerList) /\ WorkerList # << >>
  /\ TheRouter \notin ToSet(WorkerList)
  /\ MaxWait \in Nat \ {0}

VARIABLES step,                   \* spawn, wait, serve, stop, reap; done, or died: an exception
          at,                   \* position in the list being walked
          waited,               \* rounds of the current wait
          child,                \* child -> none, starting, up, slow or ended
          procs,                \* the children started
          known,                \* the workers the router parsed
          seen,                 \* history: the children found healthy, or given up on
          told,                 \* history: the children sent SIGTERM
          interrupted           \* history: has there been a Ctrl+C (bound: one)

launcherVars == << step, at, waited, child, procs, known, seen, told, interrupted >>

Worker == ToSet(WorkerList)
LauncherChildren == Worker \cup {TheRouter}

LauncherInit ==
  /\ step = "spawn" /\ at = 1 /\ waited = 0
  /\ child = [c \in LauncherChildren |-> "none"] /\ procs = << >> /\ known = {}
  /\ seen = {} /\ told = {} /\ interrupted = FALSE

Start(c) ==
  /\ child' = [child EXCEPT ![c] = "starting"]
  /\ procs' = Append(procs, c)

SpawnWorker ==
  /\ step = "spawn"
  /\ Start(WorkerList[at])
  /\ IF at < Len(WorkerList) THEN at' = at + 1 /\ UNCHANGED step ELSE at' = 1 /\ step' = "wait"
  /\ UNCHANGED << waited, known, seen, told, interrupted >>

\* The router's argument --workers takes one or more values, and the launcher
\* repeats it for each of its workers: each occurrence replaces the one before
Parsed(urls) == {Last(urls)}

StartRouter ==
  /\ step = "wait" /\ at = Len(WorkerList) + 1 /\ TheRouter \notin ToSet(procs)
  /\ Start(TheRouter)
  /\ known' = Parsed(WorkerList)
  /\ UNCHANGED << step, at, waited, seen, told, interrupted >>

-----------------------------------------------------------------------------
\* wait_for_health of the child at position at of procs

Probing(c) == step = "wait" /\ at \in DOMAIN procs /\ c = procs[at]

WaitOver(c) ==
  /\ seen' = seen \cup {c} /\ waited' = 0
  /\ IF c = TheRouter THEN step' = "serve" /\ at' = 1 ELSE at' = at + 1 /\ UNCHANGED step
  /\ UNCHANGED << child, procs, known, told, interrupted >>

Healthy(c) == Probing(c) /\ waited < MaxWait /\ child[c] = "up" /\ WaitOver(c)

GiveUp(c) == Probing(c) /\ waited >= MaxWait /\ WaitOver(c)

\* Nobody listens: ConnectionError, and another try a second later
Refused(c) ==
  /\ Probing(c) /\ waited < MaxWait /\ child[c] \in {"starting", "ended"}
  /\ waited' = waited + 1
  /\ UNCHANGED << step, at, child, procs, known, seen, told, interrupted >>

\* The call is accepted and not answered in time: ReadTimeout is no
\* ConnectionError, so it leaves wait_for_health and the launcher
TimedOut(c) ==
  /\ Probing(c) /\ waited < MaxWait /\ child[c] = "slow"
  /\ step' = "died"
  /\ UNCHANGED << at, waited, child, procs, known, seen, told, interrupted >>

-----------------------------------------------------------------------------
Ended(c) == child[c] = "ended"

\* proc.wait() of one child after the other
ServeOn ==
  /\ step = "serve" /\ Ended(procs[at])
  /\ IF at < Len(procs) THEN at' = at + 1 /\ UNCHANGED step ELSE step' = "done" /\ UNCHANGED at
  /\ UNCHANGED << waited, child, procs, known, seen, told, interrupted >>

\* Ctrl+C is handled while serving only
Interrupt ==
  /\ ~interrupted /\ step \in {"spawn", "wait", "serve"}
  /\ interrupted' = TRUE
  /\ step' = IF step = "serve" THEN "stop" ELSE "died"
  /\ at' = 1
  /\ UNCHANGED << waited, child, procs, known, seen, told >>

StopInTurn ==                   \* mutant: each child is waited for once it is told
  /\ step = "stop"
  /\ told' = told \cup {procs[at]}
  /\ \/ Ended(procs[at]) /\ at < Len(procs) /\ at' = at + 1 /\ UNCHANGED step
     \/ Ended(procs[at]) /\ at = Len(procs) /\ at' = 1 /\ step' = "reap"
     \/ ~Ended(procs[at]) /\ step' = "died" /\ UNCHANGED at
  /\ UNCHANGED << waited, child, procs, known, seen, interrupted >>

Terminate ==
  /\ step = "stop"
  /\ told' = told \cup {procs[at]}
  /\ IF at < Len(procs) THEN at' = at + 1 /\ UNCHANGED step ELSE at' = 1 /\ step' = "reap"
  /\ UNCHANGED << waited, child, procs, known, seen, interrupted >>

\* proc.wait(timeout=5): TimeoutExpired if the child has not ended by then
Reap ==
  /\ step = "reap"
  /\ \/ Ended(procs[at]) /\ at < Len(procs) /\ at' = at + 1 /\ UNCHANGED step
     \/ Ended(procs[at]) /\ at = Len(procs) /\ step' = "done" /\ UNCHANGED at
     \/ ~Ended(procs[at]) /\ step' = "died" /\ UNCHANGED at
  /\ UNCHANGED << waited, child, procs, known, seen, told, interrupted >>

-----------------------------------------------------------------------------
\* A child gets ready, stops answering in time and recovers, or ends
ChildStep(c) ==
  /\ \/ child[c] \in {"starting", "slow"} /\ child' = [child EXCEPT ![c] = "up"]
     \/ child[c] = "up" /\ child' = [child EXCEPT ![c] = "slow"]
     \/ child[c] \in {"starting", "up", "slow"} /\ child' = [child EXCEPT ![c] = "ended"]
  /\ UNCHANGED << step, at, waited, procs, known, seen, told, interrupted >>

Launcher ==
  \/ SpawnWorker \/ StartRouter \/ ServeOn \/ Terminate \/ Reap
  \/ \E c \in LauncherChildren : Healthy(c) \/ GiveUp(c) \/ Refused(c) \/ TimedOut(c)

LauncherNext == Launcher \/ Interrupt \/ \E c \in LauncherChildren : ChildStep(c)

\* The launcher is a process of its own, and its waits are bounded
LauncherSpec == LauncherInit /\ [][LauncherNext]_launcherVars /\ WF_launcherVars(Launcher)

-----------------------------------------------------------------------------
\* Ctrl+C while serving reaches every child: whichever of them does not end in
\* time, all have been told to, and so they have when the launcher is gone.
EveryChildTold ==
  interrupted /\ seen = LauncherChildren /\ step # "stop" => ToSet(procs) \subseteq told

\* The router starts when each worker has been found healthy or has had a whole
\* wait of its own; workers that end early or never listen do not hold it up for ever.
LaunchEnds == <>(step \in {"serve", "done", "died"})

\* Claimed by the comment on worker_args: the router is given all the workers.
RouterKnowsAll == TheRouter \in ToSet(procs) => known = Worker

\* Claimed by the docstring of wait_for_health: it returns True or False, so a
\* launcher ends early only because of Ctrl+C.
WaitReturns == step = "died" => interrupted
=============================================================================
