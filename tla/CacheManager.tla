----------------------------- MODULE CacheManager -----------------------------
(***************************************************************************)
(* The KV-page manager, scheduler/cache.py, over the radix tree, with any  *)
(* set of clients: match_req, lock + row copy on admission, allocate_paged *)
(* and the two forms of cache_req, in every order the interface permits.   *)
(* Scheduler.tla is one such client.  A batch allocation is made request   *)
(* by request: pages are taken from the front of free_slots and evictions  *)
(* are appended to its end, so the pages and the victims are the same.     *)
(***************************************************************************)
EXTENDS RadixPrefixCache

CONSTANTS Req,                  \* the requests of the run
          Token,                \* the vocabulary
          Prompt,               \* Req -> the input_ids of its UserMsg
          MaxNew,               \* bound: tokens a request may generate
          NumPages              \* num_pages

ASSUME ReqAssumption == IsFiniteSet(Req)
ASSUME PromptAssumption == Prompt \in [Req -> Seq(Token) \ {<< >>}]
ASSUME BoundAssumption == MaxNew \in Nat /\ NumPages \in Nat

VARIABLES cache,                \* prefix_cache
          free_slots,           \* free pages, taken from the front
          phase,                \* Req -> waiting, admitted, committed or done
          ids,                  \* Req -> tokens known so far
          cached_len,           \* Req -> tokens whose KV is in its pages
          handle,               \* Req -> node of cache_handle
          row,                  \* Req -> pages of page_table[table_idx]
          kv,                   \* page -> the token prefix it was last written for
          job                   \* the allocate_paged call in progress

vars == << cache, free_slots, phase, ids, cached_len, handle, row, kv, job >>

Page == 1..NumPages
NoJob == [req |-> {}, upto |-> 0]      \* req: the empty set or one request

Live(r) == phase[r] \in {"admitted", "committed"}

CeilDiv(a, b) == (a + b - 1) \div b

Smaller(a, b) == IF a < b THEN a ELSE b

Init ==
  /\ cache = EmptyCache
  /\ free_slots = [i \in Page |-> i]
  /\ phase = [r \in Req |-> "waiting"]
  /\ ids = Prompt
  /\ cached_len = [r \in Req |-> 0]
  /\ handle = [r \in Req |-> Root]
  /\ row = [r \in Req |-> << >>]
  /\ kv = [p \in Page |-> << >>]
  /\ job = NoJob

-----------------------------------------------------------------------------
\* match_req looks up all but the last token, so that one is left to compute
MatchReq(r) == Matched(cache, Blocks(SubSeq(Prompt[r], 1, Len(Prompt[r]) - 1)))

\* _try_allocate_one that ends in a refusal: the tree walk has still happened
Refuse(r) ==
  /\ job = NoJob /\ phase[r] = "waiting"
  /\ cache' = Walk(cache, MatchReq(r))
  /\ UNCHANGED << free_slots, phase, ids, cached_len, handle, row, kv, job >>

\* _try_allocate_one that succeeds: match, lock, copy the matched page entries
Admit(r) ==
  /\ job = NoJob /\ phase[r] = "waiting"
  /\ LET h == MatchReq(r)
     IN /\ cache' = Lock(Walk(cache, h), h)
        /\ handle' = [handle EXCEPT ![r] = h]
        /\ cached_len' = [cached_len EXCEPT ![r] = PageSize * Len(h)]
        /\ row' = [row EXCEPT ![r] = MatchedPages(cache, h)]
  /\ phase' = [phase EXCEPT ![r] = "admitted"]
  /\ UNCHANGED << free_slots, ids, kv, job >>

-----------------------------------------------------------------------------

PagesFor(r, n) == CeilDiv(n, PageSize) - CeilDiv(cached_len[r], PageSize)

\* The lengths a batch can extend r to: a chunk of its prompt, or one new token
Targets(r) ==
  IF cached_len[r] < Len(Prompt[r])
  THEN (cached_len[r] + 1)..Len(Prompt[r])
  ELSE {cached_len[r] + 1} \cap 1..(Len(Prompt[r]) + MaxNew)

\* allocate_paged is called for r to grow to n tokens, of which a generated one
\* has just been sampled; its caller has checked available_size.
StartAlloc(r, n) ==
  /\ job = NoJob /\ Live(r)
  /\ n \in Targets(r)
  /\ PagesFor(r, n) <= Len(free_slots) + cache.evictable
  /\ \/ n <= Len(ids[r]) /\ UNCHANGED ids
     \/ n > Len(ids[r]) /\ \E t \in Token : ids' = [ids EXCEPT ![r] = Append(@, t)]
  /\ job' = [req |-> {r}, upto |-> n]
  /\ UNCHANGED << cache, free_slots, phase, cached_len, handle, row, kv >>

\* _allocate with too few free pages: one turn of prefix_cache.evict's loop
EvictOne(r) ==
  /\ job.req = {r} /\ PagesFor(r, job.upto) > Len(free_slots)
  /\ \E v \in Victims(cache) :
       /\ cache' = EvictLeaf(cache, v)
       /\ free_slots' = free_slots \o EvictedPages(cache, v)
  /\ UNCHANGED << phase, ids, cached_len, handle, row, kv, job >>

\* What the forward pass stores: page i of r's row gets the KV of its tokens
Stored(r, rw, n) ==
  LET first == cached_len[r] \div PageSize + 1
      last == CeilDiv(n, PageSize)
  IN [p \in Page |->
        IF \E i \in first..last : rw[i] = p
        THEN LET i == CHOOSE j \in first..last : rw[j] = p
             IN SubSeq(ids[r], 1, Smaller(i * PageSize, n))
        ELSE kv[p]]

\* _allocate with enough free pages, the page-table write, and the forward pass
\* (complete_one) the batch was prepared for
Take(r) ==
  /\ job.req = {r}
  /\ LET k == PagesFor(r, job.upto)
         rw == row[r] \o SubSeq(free_slots, 1, k)
     IN /\ k <= Len(free_slots)
        /\ row' = [row EXCEPT ![r] = rw]
        /\ free_slots' = SubSeq(free_slots, k + 1, Len(free_slots))
        /\ kv' = Stored(r, rw, job.upto)
  /\ cached_len' = [cached_len EXCEPT ![r] = job.upto]
  /\ job' = NoJob
  /\ UNCHANGED << cache, phase, ids, handle >>

-----------------------------------------------------------------------------
Computed(r) == Blocks(SubSeq(ids[r], 1, cached_len[r]))

\* cache_req(finished=False), once, when the prompt has been computed: insert,
\* unlock the old handle, free the pages the tree already had, lock the new one
Commit(r) ==
  /\ job = NoJob /\ phase[r] = "admitted" /\ cached_len[r] >= Len(Prompt[r])
  /\ LET c == Insert(cache, Computed(r), row[r])
     IN /\ cache' = Lock(Unlock(c, handle[r]), Computed(r))
        /\ free_slots' = free_slots \o SubSeq(row[r], Len(handle[r]) + 1,
                                              Len(Matched(cache, Computed(r))))
  /\ handle' = [handle EXCEPT ![r] = Computed(r)]
  /\ phase' = [phase EXCEPT ![r] = "committed"]
  /\ UNCHANGED << ids, cached_len, row, kv, job >>

\* What cache_req(finished=True) frees: the pages the tree already had, and the
\* last, partly filled page, which the tree cannot hold
FreedNoTail(r) ==               \* mutant: the partly filled page is forgotten
  SubSeq(row[r], Len(handle[r]) + 1, Len(Matched(cache, Computed(r))))

FreedAtFinish(r) ==
  SubSeq(row[r], Len(handle[r]) + 1, Len(Matched(cache, Computed(r))))
    \o SubSeq(row[r], Len(Computed(r)) + 1, Len(row[r]))

\* cache_req(finished=True), when the request ends or is aborted
Finish(r) ==
  /\ job = NoJob /\ Live(r)
  /\ cache' = Unlock(Insert(cache, Computed(r), row[r]), handle[r])
  /\ free_slots' = free_slots \o FreedAtFinish(r)
  /\ phase' = [phase EXCEPT ![r] = "done"]
  /\ ids' = [ids EXCEPT ![r] = Prompt[r]]
  /\ cached_len' = [cached_len EXCEPT ![r] = 0]
  /\ handle' = [handle EXCEPT ![r] = Root]
  /\ row' = [row EXCEPT ![r] = << >>]
  /\ UNCHANGED << kv, job >>

\* The run is over when every request is done
Done == (\A r \in Req : phase[r] = "done") /\ UNCHANGED vars

Next ==
  \/ \E r \in Req : \/ Refuse(r) \/ Admit(r)
                    \/ \E n \in Targets(r) : StartAlloc(r, n)
                    \/ EvictOne(r) \/ Take(r)
                    \/ Commit(r) \/ Finish(r)
  \/ Done

Spec == Init /\ [][Next]_vars

-----------------------------------------------------------------------------
Block == [1..PageSize -> Token]

\* Every variable stays within its type; in particular no ref_count is negative.
TypeOK ==
  /\ CacheType(cache, Block, Page)
  /\ free_slots \in Seq(Page)
  /\ phase \in [Req -> {"waiting", "admitted", "committed", "done"}]
  /\ ids \in [Req -> Seq(Token)]
  /\ cached_len \in [Req -> Nat]
  /\ handle \in [Req -> Seq(Block)]
  /\ row \in [Req -> Seq(Page)]
  /\ kv \in [Page -> Seq(Token)]
  /\ job \in [req : SUBSET Req, upto : Nat]

-----------------------------------------------------------------------------
\* The requests whose handle keeps node n alive
Holders(n) == {r \in Req : Live(r) /\ IsPrefix(n, handle[r])}

\* lock_handle, split_at and evict agree: the ref_count of a node is the number
\* of live requests whose handle lies in its subtree, whatever splits, inserts
\* and evictions happened since they locked it.
RefCounts == \A n \in Nodes(cache) : cache.ref[n] = Cardinality(Holders(n))

\* A locked handle's node is never evicted or lost in a split (radix_cache.py
\* evict, split_at), and the request has computed at least what it holds.
HandlesHeld ==
  \A r \in Req : Live(r) =>
    /\ handle[r] \in Nodes(cache) \cup {Root}
    /\ PageSize * Len(handle[r]) <= cached_len[r]

\* The tree is a compressed trie: stored paths are closed under prefixes, and
\* every stored path lies in the key of exactly one node, so a branch is always
\* at a node (split_at before insert).
TreeShape == Trie(cache)

\* evictable_size and protected_size, kept up incrementally by lock, unlock,
\* insert and evict, are the sizes of the two parts of the tree.
SizeCounters ==
  /\ cache.evictable =
       Cardinality({p \in Paths(cache) : cache.ref[NodeOf(cache, p)] = 0})
  /\ cache.evictable + cache.protected = Cardinality(Paths(cache))

\* The lengths the row arithmetic relies on: a row has the pages its computed
\* tokens need, and an allocation grows a live request within its tokens.
Lengths ==
  /\ \A r \in Req : /\ Len(Prompt[r]) <= Len(ids[r])
                    /\ cached_len[r] <= Len(ids[r])
                    /\ Len(row[r]) = CeilDiv(cached_len[r], PageSize)
  /\ \A r \in job.req : Live(r) /\ cached_len[r] < job.upto /\ job.upto <= Len(ids[r])

\* The entries of rows that the tree does not hold: those of each request beyond
\* its handle
Uncommitted == UNION {{r} \X ((Len(handle[r]) + 1)..Len(row[r])) : r \in Req}

\* Every page is in exactly one place: once in free_slots, once in the tree, or
\* once in the uncommitted part of one live request's row.  This is what
\* check_integrity samples when the scheduler is idle.
PagePartition ==
  \A p \in Page :
    Cardinality({i \in DOMAIN free_slots : free_slots[i] = p})
      + Cardinality({q \in Paths(cache) : cache.page[q] = p})
      + Cardinality({x \in Uncommitted : row[x[1]][x[2]] = p})
    = 1

\* Whoever matches a prefix in the tree gets pages that were last written for
\* exactly that prefix, however they were allocated, committed and reused.
TreeContent ==
  \A p \in Paths(cache) :
    LET t == kv[cache.page[p]] IN Len(t) = PageSize * Len(p) /\ Blocks(t) = p

\* _allocate's heappop never finds the heap empty and its assertion "Eviction did
\* not free enough space" never fails when available_size covered the request:
\* every page counted evictable can be reached by evicting leaves.
EvictionSucceeds ==
  \A r \in job.req :
    PagesFor(r, job.upto) > Len(free_slots) => Victims(cache) # {}

\* The least recently used leaf is unique, so heapq's order among equal
\* timestamps never decides: nodes touched by one walk lie on one path.
LruUnique == Cardinality(Victims(cache)) <= 1

\* What available_size promises, eviction delivers: the counters are right, and the
\* leaves go in an order that is the same on every rank.
EvictionSound == SizeCounters /\ EvictionSucceeds /\ LruUnique
=============================================================================
