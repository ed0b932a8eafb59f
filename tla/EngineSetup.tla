---------------------------- MODULE EngineSetup ----------------------------
(***************************************************************************)
(* How the engines of a tensor-parallel group agree on the number of KV    *)
(* pages (engine.py, Engine.__init__).  Three times every rank gives its   *)
(* free memory to an all-reduce, which completes when all have; between    *)
(* them it loads its shard of the model and allocates its KV pool, while   *)
(* other programs may take and leave memory of its GPU.  Memory is in      *)
(* units; a gigabyte is Giga of them.                                      *)
(***************************************************************************)
EXTENDS Integers, Sequences, FiniteSetsExt

CONSTANTS GroupSize,                 \* tp_info.size
          Memory,               \* the possible free memory of a GPU at first
          Weights,              \* memory of a rank's shard
          PageCost,             \* cache_per_page
          Giga, Percent,        \* memory_ratio in percent
          Override,             \* num_page_override, or 0
          Disturbances          \* bound: changes of free memory by other programs

ASSUME EngineSetupAssumption ==
  /\ GroupSize \in Nat \ {0} /\ Memory \subseteq Nat /\ {Weights, Giga, Override, Disturbances} \subseteq Nat
  /\ PageCost \in Nat \ {0} /\ Percent \in 0..100

Ranks == 0..(GroupSize - 1)

VARIABLES free,                 \* rank -> get_free_memory
          place,                   \* rank -> its place in __init__
          given,                \* rank -> what it gave to the all-reduces, a sequence
          init_free_memory, num_pages,
          start,                \* history: free memory at first
          disturbed             \* the number of disturbances so far

engineVars == << free, place, given, init_free_memory, num_pages, start, disturbed >>

-----------------------------------------------------------------------------
Goto(r, label) == place' = [place EXCEPT ![r] = label]

\* The k-th all-reduce of [free, -free] with MIN
Reduced(k) == \A r \in Ranks : Len(given[r]) >= k
MinFree(k) == Min({given[r][k] : r \in Ranks})
MaxFree(k) == -Min({-given[r][k] : r \in Ranks})

ImbalancedHere(r, k) ==         \* mutant: a rank compares itself with the best one
  MaxFree(k) - given[r][k] > 2 * Giga
Imbalanced(r, k) == MaxFree(k) - MinFree(k) > 2 * Giga

\* What _sync_get_memory()[1] gives rank r
LocalMemory(r, k) == given[r][k]        \* mutant: the rank's own memory
SyncedMemory(r, k) == MaxFree(k)

\* _sync_get_memory: a rank measures, and then waits for the others
Measure(r, k, at, wait) ==
  /\ place[r] = at
  /\ given' = [given EXCEPT ![r] = Append(@, free[r])]
  /\ Goto(r, wait)
  /\ UNCHANGED << free, init_free_memory, num_pages, start, disturbed >>

Raise(r, k, wait) ==
  /\ place[r] = wait /\ Reduced(k) /\ Imbalanced(r, k)
  /\ Goto(r, "raised")
  /\ UNCHANGED << free, given, init_free_memory, num_pages, start, disturbed >>

Passed(r, k, wait) == place[r] = wait /\ Reduced(k) /\ ~Imbalanced(r, k)

\* The first memory, and the model
MeasureFirst(r) == Measure(r, 1, "init", "first")

LoadModel(r) ==
  /\ Passed(r, 1, "first")
  /\ init_free_memory' = [init_free_memory EXCEPT ![r] = SyncedMemory(r, 1)]
  /\ IF free[r] < Weights
     THEN Goto(r, "out of memory") /\ free' = free
     ELSE Goto(r, "loaded") /\ free' = [free EXCEPT ![r] = @ - Weights]
  /\ UNCHANGED << given, num_pages, start, disturbed >>

MeasureSecond(r) == Measure(r, 2, "loaded", "second")

\* _determine_num_pages, for what was free before and is free now
Pages(old, new) ==
  IF Override # 0 THEN Override
  ELSE ((Percent * old) \div 100 - (old - new)) \div PageCost

DetermineNumPages(r) ==
  /\ Passed(r, 2, "second")
  /\ num_pages' = [num_pages EXCEPT ![r] = Pages(init_free_memory[r], SyncedMemory(r, 2))]
  /\ Goto(r, IF num_pages'[r] > 1 THEN "pages" ELSE "raised")
  /\ UNCHANGED << free, given, init_free_memory, start, disturbed >>

\* create_kvcache_pool, with one page more for padding
AllocatePool(r) ==
  /\ place[r] = "pages"
  /\ LET need == (num_pages[r] + 1) * PageCost
     IN  IF need > free[r]
         THEN Goto(r, "out of memory") /\ free' = free
         ELSE Goto(r, "allocated") /\ free' = [free EXCEPT ![r] = @ - need]
  /\ UNCHANGED << given, init_free_memory, num_pages, start, disturbed >>

MeasureThird(r) == Measure(r, 3, "allocated", "third")

Ready(r) ==
  /\ Passed(r, 3, "third")
  /\ Goto(r, "ready")
  /\ UNCHANGED << free, given, init_free_memory, num_pages, start, disturbed >>

RaiseAny(r) == Raise(r, 1, "first") \/ Raise(r, 2, "second") \/ Raise(r, 3, "third")

\* External: a program on the GPU of r
Disturb(r) ==
  /\ disturbed < Disturbances
  /\ \E m \in {free[r] - Giga, free[r] + Giga} \cap Nat : free' = [free EXCEPT ![r] = m]
  /\ disturbed' = disturbed + 1
  /\ UNCHANGED << place, given, init_free_memory, num_pages, start >>

EngineInit ==
  /\ free \in [Ranks -> Memory] /\ start = free
  /\ place = [r \in Ranks |-> "init"] /\ given = [r \in Ranks |-> << >>]
  /\ init_free_memory = [r \in Ranks |-> 0] /\ num_pages = [r \in Ranks |-> 0]
  /\ disturbed = 0

RankStep(r) ==
  \/ MeasureFirst(r) \/ LoadModel(r) \/ MeasureSecond(r) \/ DetermineNumPages(r)
  \/ AllocatePool(r) \/ MeasureThird(r) \/ Ready(r) \/ RaiseAny(r)

EngineNext == \E r \in Ranks : RankStep(r) \/ Disturb(r)

EngineSpec == EngineInit /\ [][EngineNext]_engineVars

-----------------------------------------------------------------------------
Decided(r) == num_pages[r] # 0

\* All ranks of a group have the same number of pages: the schedulers, which hand
\* out page numbers each for itself, never differ, whatever their memories.
PagesAgree == \A r, s \in Ranks : Decided(r) /\ Decided(s) => num_pages[r] = num_pages[s]

\* A rank raises only where every rank will: none is left waiting in the next
\* all-reduce for one that has raised.
RaiseTogether ==
  \A r, s \in Ranks : place[r] = "raised" => Len(given[s]) <= Len(given[r]) /\ place[s] # "ready"

\* Where all GPUs start alike and nobody else uses them, the model and the pool
\* fit, if the rest that the ratio leaves has room for the page of padding.
AlikeRanksFit ==
  \A r \in Ranks :
    /\ disturbed = 0 /\ Override = 0 /\ \A s \in Ranks : start[s] = start[r]
    /\ Weights <= start[r] /\ PageCost <= start[r] - (Percent * start[r]) \div 100
    => place[r] # "out of memory"

\* Model and KV cache of a rank take no more than the ratio of what it had free.
WithinRatio ==
  \A r \in Ranks :
    disturbed = 0 /\ place[r] = "allocated" => 100 * (start[r] - free[r]) <= Percent * start[r]
=============================================================================
