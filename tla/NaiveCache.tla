------------------------------ MODULE NaiveCache ------------------------------
(***************************************************************************)
(* The KV-page manager with --cache-type naive: scheduler/cache.py over    *)
(* kvcache/naive_cache.py, which shares no prefix, holds no page and       *)
(* cannot evict, so every page is free or in the row of one request, and   *)
(* the admission checks of prefill.py must keep _allocate from asking for  *)
(* an eviction.  A batch's allocation is made request by request.          *)
(***************************************************************************)
EXTENDS Naturals, Sequences, FiniteSets, SequencesExt

CONSTANTS Req,                  \* the requests of the run
          NumPages,
          Args                  \* the possible arguments and inputs of a run: tokens of a
                                \* page, tokens of each prompt, tokens to generate (with
                                \* a negative max_tokens the scheduler ends: see Scheduler)

ASSUME NaiveAssumption ==
  /\ IsFiniteSet(Req) /\ NumPages \in Nat
  /\ Args \subseteq [page_size : Nat \ {0}, input : [Req -> Nat \ {0}], output : [Req -> Nat]]

VARIABLES args,                 \* the arguments of this run
          free_slots,           \* free pages, taken from the front
          phase,                \* Req -> waiting, chunked, running or done
          cached_len,           \* Req -> tokens whose KV is in its pages
          row,                  \* Req -> pages of page_table[table_idx]
          raised                \* evict was asked for a page: NotImplementedError

vars == << args, free_slots, phase, cached_len, row, raised >>

InputLen == args.input
OutputLen == args.output
PageSize == args.page_size

Page == 1..NumPages
Live(r) == phase[r] \in {"chunked", "running"}
CeilDiv(a, b) == (a + b - 1) \div b
PagesOf(n) == CeilDiv(n, PageSize)

Init ==
  /\ args \in Args
  /\ free_slots = [i \in Page |-> i]
  /\ phase = [r \in Req |-> "waiting"]
  /\ cached_len = [r \in Req |-> 0]
  /\ row = [r \in Req |-> << >>]
  /\ raised = FALSE

-----------------------------------------------------------------------------
\* It is in running_reqs: its last token, one at least, needs no place
CanDecode(r) == phase[r] = "running" /\ InputLen[r] + OutputLen[r] > cached_len[r] + 1

\* What r may still ask for, as the scheduler counts it: a running request's next
\* token is in device_len already and a page may be begun for it (inflight_tokens),
\* a chunked one is counted first when the next prefill batch is made (_add_one_req)
MayAsk(r) ==
  CASE CanDecode(r) -> InputLen[r] + OutputLen[r] - (cached_len[r] + 1) + PageSize - 1
    [] phase[r] = "chunked" -> InputLen[r] + OutputLen[r] - cached_len[r]
    [] OTHER -> 0

ReservedRunning ==              \* mutant: the chunked request is not counted
  MapThenSumSet(MayAsk, {r \in Req : phase[r] = "running"})
Reserved == MapThenSumSet(MayAsk, Req)

\* available_size: nothing is evictable
Available == Len(free_slots) * PageSize

\* _try_allocate_one: match_prefix finds nothing, the lock is empty
Admit(r) ==
  /\ ~raised /\ phase[r] = "waiting"
  /\ InputLen[r] + OutputLen[r] + Reserved <= Available
  /\ phase' = [phase EXCEPT ![r] = "chunked"]
  /\ UNCHANGED << args, free_slots, cached_len, row, raised >>

\* The lengths a batch can extend r to: a chunk of its prompt, or one new token
Targets(r) ==
  CASE phase[r] = "chunked" -> (cached_len[r] + 1)..InputLen[r]
    [] CanDecode(r) -> {cached_len[r] + 1}
    [] OTHER -> {}

Needed(r, n) == PagesOf(n) - PagesOf(cached_len[r])

\* allocate_paged, the forward pass and, behind the whole prompt, cache_req with
\* finished=False: insert_prefix returns length 0, so nothing is freed
Grow(r, n) ==
  /\ ~raised /\ n \in Targets(r) /\ Needed(r, n) <= Len(free_slots)
  /\ row' = [row EXCEPT ![r] = @ \o SubSeq(free_slots, 1, Needed(r, n))]
  /\ free_slots' = SubSeq(free_slots, Needed(r, n) + 1, Len(free_slots))
  /\ cached_len' = [cached_len EXCEPT ![r] = n]
  /\ phase' = [phase EXCEPT ![r] = IF n >= InputLen[r] THEN "running" ELSE "chunked"]
  /\ UNCHANGED << args, raised >>

\* _allocate with too few free pages: evict raises
Evict(r, n) ==
  /\ ~raised /\ n \in Targets(r) /\ Needed(r, n) > Len(free_slots)
  /\ raised' = TRUE
  /\ UNCHANGED << args, free_slots, phase, cached_len, row >>

\* cache_req(finished=True): the new handle has length 0, so every page is freed
FreedFullPages(r) ==            \* mutant: as the radix cache, whole pages stay
  SubSeq(row[r], cached_len[r] \div PageSize + 1, PagesOf(cached_len[r]))
Freed(r) == SubSeq(row[r], 1, PagesOf(cached_len[r]))

\* The request ends, or is aborted
Finish(r) ==
  /\ ~raised /\ Live(r)
  /\ free_slots' = free_slots \o Freed(r)
  /\ phase' = [phase EXCEPT ![r] = "done"]
  /\ cached_len' = [cached_len EXCEPT ![r] = 0]
  /\ row' = [row EXCEPT ![r] = << >>]
  /\ UNCHANGED << args, raised >>

Step(r) ==
  \/ Admit(r) \/ Finish(r)
  \/ \E n \in Targets(r) : Grow(r, n) \/ Evict(r, n)

\* The run is over when every request is done or too long, or the process has raised
Over ==
  /\ raised \/ \A r \in Req : ~Live(r)
  /\ UNCHANGED vars

Next == (\E r \in Req : Step(r)) \/ Over

Spec == Init /\ [][Next]_vars

-----------------------------------------------------------------------------
\* A row has the pages its request's tokens need, and no others.
Lengths == \A r \in Req : Len(row[r]) = PagesOf(cached_len[r])

\* Every page is in one place: once in free_slots or once in one row.  This is what
\* check_integrity samples when the scheduler is idle.
PagePartition ==
  /\ IsInjective(free_slots) /\ \A r \in Req : IsInjective(row[r])
  /\ \A r \in Req : ToSet(free_slots) \cap ToSet(row[r]) = {}
  /\ \A r, q \in Req : r # q => ToSet(row[r]) \cap ToSet(row[q]) = {}
  /\ ToSet(free_slots) \cup UNION {ToSet(row[r]) : r \in Req} = Page

\* With pages of one token no admitted request ever needs an eviction, which this
\* cache answers with NotImplementedError: the admission check and the lengths
\* reserved for the running and the chunked requests are enough, iterations later.
NeverEvicts == PageSize = 1 => ~raised
=============================================================================
