------------------------------ MODULE Scheduler ------------------------------
(***************************************************************************)
(* The scheduler loop, scheduler/scheduler.py, with its prefill, decode,   *)
(* table and cache managers: one thread that receives messages, picks a    *)
(* batch, allocates its pages, launches it and processes the results of    *)
(* the batch it has just launched (normal_loop) or of the one before       *)
(* (overlap_loop).  pc says where in the loop the thread is.               *)
(***************************************************************************)
EXTENDS RadixPrefixCache

CONSTANTS Req,                  \* the uids of the run
          Token, Eos,           \* the vocabulary and its end token
          Prompt,               \* Req -> input_ids
          MaxTokens,            \* Req -> sampling_params.max_tokens
          IgnoreEos,            \* the requests with ignore_eos
          Priority,             \* Req -> UserMsg.priority
          NumPages,             \* engine.num_pages
          MaxSeqLen,            \* config.max_seq_len
          MaxRunning,           \* config.max_running_req
          Budget,               \* config.max_extend_tokens
          Strategy,             \* config.schedule_strategy
          Overlap,              \* not ENV.DISABLE_OVERLAP_SCHEDULING
          AbortInFlight         \* may the abort of a request in flight arrive

\* max_tokens is any integer, as the API takes it unchecked; a prompt has a token (an
\* empty one ends the scheduler by the assertion of match_req, cache.py).
ASSUME RequestAssumption ==
  /\ IsFiniteSet(Req) /\ Eos \in Token
  /\ Prompt \in [Req -> Seq(Token) \ {<< >>}]
  /\ MaxTokens \in [Req -> Int]
  /\ IgnoreEos \subseteq Req
  /\ Priority \in [Req -> Nat]

ASSUME ConfigAssumption ==
  /\ {NumPages, MaxSeqLen, MaxRunning, Budget} \subseteq Nat \ {0}
  /\ Strategy \in {"fcfs", "priority"}
  /\ {Overlap, AbortInFlight} \subseteq BOOLEAN

VARIABLES pc,                   \* receive, add, added, allocate, take, process or ended
          cache, free_slots,    \* CacheManager: prefix_cache, free_slots
          kv,                   \* KV pool: page -> the token prefix it was last written for
          table_free,           \* TableManager._free_slots, a stack
          page_table,           \* slot -> the pages written to its row
          pending,              \* PrefillManager.pending_list
          chunked,              \* the pending requests with a chunked_req
          running,              \* DecodeManager.running_reqs
          finished_reqs, newly, \* finished_reqs and new_finished_reqs
          obj,                  \* Req -> the fields of its Req object
          stage,                \* Req -> what became of it (history)
          tokens,               \* Req -> its tokens on the device
          sent,                 \* Req -> the finished flags of its replies
          adder,                \* PrefillAdder: token_budget, reserved_size
          batch, last,          \* the batch of this iteration, and last_data
          at                    \* position in the list being walked

memory == << cache, free_slots, kv, table_free, page_table >>
queues == << pending, chunked, running, finished_reqs, newly >>
loop == << adder, batch, last, at >>
vars == << pc, memory, queues, obj, stage, tokens, sent, loop >>

Page == 1..NumPages
Slot == 1..MaxRunning

NoObject == [slot |-> 0, cached |-> 0, device |-> 0, host |-> 0, handle |-> Root]
NoBatch == [prefill |-> FALSE, items |-> << >>]
NoAdder == [budget |-> 0, reserved |-> 0]

Smaller(a, b) == IF a < b THEN a ELSE b

CeilDiv(a, b) == (a + b - 1) \div b

\* A batch entry: the request, whether it is a ChunkedReq, and the position of
\* the token it is to sample
Entry(r, isChunk, device) == [req |-> r, chunk |-> isChunk, pos |-> device + 1]

InBatch(b) == {b.items[i].req : i \in DOMAIN b.items}

Init ==
  /\ pc = "receive"
  /\ cache = EmptyCache /\ free_slots = [i \in Page |-> i]
  /\ kv = [p \in Page |-> << >>]
  /\ table_free = [s \in Slot |-> s]
  /\ page_table = [s \in Slot |-> << >>]
  /\ pending = << >> /\ chunked = {} /\ running = {}
  /\ finished_reqs = {} /\ newly = {}
  /\ obj = [r \in Req |-> NoObject]
  /\ stage = [r \in Req |-> "unsent"]
  /\ tokens = Prompt
  /\ sent = [r \in Req |-> << >>]
  /\ adder = NoAdder /\ batch = NoBatch /\ last = NoBatch /\ at = 1

-----------------------------------------------------------------------------
InputLen(r) == Len(Prompt[r])
EngineMaxSeqLen == Smaller(MaxSeqLen, NumPages * PageSize)

\* max_tokens, cut to what fits behind the prompt
OutputLen(r) == Smaller(MaxTokens[r], EngineMaxSeqLen - InputLen(r))

\* The replies r can get: there is one even if no token was asked for
ReplyLimit(r) == IF OutputLen(r) > 0 THEN OutputLen(r) ELSE 1

\* Req.remain_len and Req.can_decode of an object that is not a ChunkedReq
RemainLen(r) == InputLen(r) + OutputLen(r) - obj[r].device

CanDecode(r) == RemainLen(r) > 0

AvailableSize == cache.evictable * PageSize + Len(free_slots) * PageSize

NothingInflight == 0            \* mutant: running requests reserve nothing

InflightTokens ==
  MapThenSumSet(RemainLen, running) + (PageSize - 1) * Cardinality(running)

Row(r) == page_table[obj[r].slot]

\* cache_req inserts the computed tokens, as far as the host has them in
\* input_ids[:cached_len]
Computed(r, host) == Blocks(SubSeq(tokens[r], 1, Smaller(obj[r].cached, host)))

\* The pages cache_req frees: those of the blocks the tree already had ...
Duplicates(r, host) ==
  SubSeq(Row(r), Len(obj[r].handle) + 1, Len(Matched(cache, Computed(r, host))))

\* ... and, at the end of the request, the rest of its row
Rest(r, host) == SubSeq(Row(r), Len(Computed(r, host)) + 1, Len(Row(r)))

DuplicatesKept(r, host) ==      \* mutant: the duplicate pages are not freed
  /\ table_free' = Append(table_free, obj[r].slot)
  /\ cache' = Unlock(Insert(cache, Computed(r, host), Row(r)), obj[r].handle)
  /\ free_slots' = free_slots \o Rest(r, host)

\* _free_req_resources: the slot, then cache_req(finished=True)
FreeResources(r, host) ==
  /\ table_free' = Append(table_free, obj[r].slot)
  /\ cache' = Unlock(Insert(cache, Computed(r, host), Row(r)), obj[r].handle)
  /\ free_slots' = free_slots \o (Duplicates(r, host) \o Rest(r, host))

-----------------------------------------------------------------------------
\* _process_one_msg, UserMsg: queue the request, or drop it if it is too long
HandleUser(r) ==
  /\ pc = "receive" /\ stage[r] = "unsent"
  /\ IF EngineMaxSeqLen - InputLen(r) > 0
     THEN pending' = Append(pending, r) /\ stage' = [stage EXCEPT ![r] = "pending"]
     ELSE UNCHANGED pending /\ stage' = [stage EXCEPT ![r] = "gone"]
  /\ UNCHANGED << pc, memory, chunked, running, finished_reqs, newly,
                  obj, tokens, sent, loop >>

\* AbortBackendMsg of a request that waits and holds nothing yet
AbortWaiting(r) ==
  /\ pc = "receive" /\ Contains(pending, r) /\ r \notin chunked
  /\ pending' = RemoveFirst(pending, r)
  /\ stage' = [stage EXCEPT ![r] = "gone"]
  /\ UNCHANGED << pc, memory, chunked, running, finished_reqs, newly,
                  obj, tokens, sent, loop >>

\* AbortBackendMsg of a request whose prefill is under way in chunks
AbortChunked(r) ==
  /\ pc = "receive" /\ Contains(pending, r) /\ r \in chunked
  /\ FreeResources(r, obj[r].host)
  /\ pending' = RemoveFirst(pending, r) /\ chunked' = chunked \ {r}
  /\ stage' = [stage EXCEPT ![r] = "aborted"]
  /\ UNCHANGED << pc, kv, page_table, running, finished_reqs, newly,
                  obj, tokens, sent, loop >>

\* AbortBackendMsg of a running request; nothing checks whether the batch whose
\* results are still to be processed contains it
AbortRunning(r) ==
  /\ pc = "receive" /\ r \in running
  /\ AbortInFlight \/ r \notin InBatch(last)
  /\ FreeResources(r, obj[r].host)
  /\ running' = running \ {r}
  /\ stage' = [stage EXCEPT ![r] = "aborted"]
  /\ UNCHANGED << pc, kv, page_table, pending, chunked, finished_reqs, newly,
                  obj, tokens, sent, loop >>

-----------------------------------------------------------------------------
\* The loop waits for a message when it has nothing to do, after checking that
\* no page is lost (run_when_idle).
Blocking == last = NoBatch /\ pending = << >> /\ running = {}

\* The elements of S from first to last
InOrder(S, Before(_, _)) ==
  CHOOSE s \in SetToSeqs(S) : \A i, j \in DOMAIN s : i < j => Before(s[i], s[j])

\* The priority of a queued request: add_one_req fills a PendingReq with the
\* message's, and appends another one that has the default.
QueuedPriority(r) == 0

\* pending_queue.sort in place: chunked requests, then priority, stable otherwise
\* (arrive_time has its default too)
SortedPending ==
  LET Before(i, j) ==
        LET r == pending[i]  s == pending[j]
        IN \/ r \in chunked /\ s \notin chunked
           \/ /\ r \in chunked <=> s \in chunked
              /\ \/ QueuedPriority(r) > QueuedPriority(s)
                 \/ QueuedPriority(r) = QueuedPriority(s) /\ i < j
      order == InOrder(DOMAIN pending, Before)
  IN [i \in DOMAIN pending |-> pending[order[i]]]

\* _schedule_next_batch with a new PrefillAdder
Schedule ==
  /\ pc = "receive" /\ ~Blocking
  /\ pc' = "add"
  /\ pending' = IF Strategy = "priority" THEN SortedPending ELSE pending
  /\ adder' = [budget |-> Budget, reserved |-> InflightTokens]
  /\ UNCHANGED << memory, chunked, running, finished_reqs, newly,
                  obj, stage, tokens, sent, batch, last, at >>

\* The pending request PrefillManager.schedule_next_batch looks at, if any
Considered == {pending[i] : i \in {Len(batch.items) + 1} \cap DOMAIN pending}

\* _add_one_req: r joins the batch with as many tokens as the budget allows
AddOneReq(r, slot, handle, cached) ==
  LET remain == InputLen(r) - cached
      device == cached + Smaller(adder.budget, remain)
      isChunk == adder.budget < remain
  IN /\ obj' = [obj EXCEPT ![r] = [slot |-> slot, cached |-> cached, device |-> device,
                                   host |-> device, handle |-> handle]]
     /\ chunked' = IF isChunk THEN chunked \cup {r} ELSE chunked \ {r}
     /\ batch' = [prefill |-> TRUE, items |-> Append(batch.items, Entry(r, isChunk, device))]
     /\ adder' = [budget |-> adder.budget - Smaller(adder.budget, remain),
                  reserved |-> adder.reserved + remain + OutputLen(r)]

\* try_add_one on a request that continues after a chunk
AddChunked(r) ==
  /\ pc = "add" /\ r \in Considered /\ adder.budget > 0 /\ r \in chunked
  /\ AddOneReq(r, obj[r].slot, obj[r].handle, obj[r].cached)
  /\ UNCHANGED << pc, memory, pending, running, finished_reqs, newly,
                  stage, tokens, sent, last, at >>

MatchReq(r) == Matched(cache, Blocks(SubSeq(Prompt[r], 1, InputLen(r) - 1)))

FitsStrictly(r, handle) ==      \* mutant: the comparison is >= instead of >
  InputLen(r) - PageSize * Len(handle) + OutputLen(r) + adder.reserved
    < AvailableSize - PageSize * PagesAtRef(Walk(cache, handle), handle, 0)

\* Pages the lock takes out of the evictable part count against the request, in
\* the second of the two checks of _try_allocate_one, which implies the first.
Fits(r, handle) ==
  InputLen(r) - PageSize * Len(handle) + OutputLen(r) + adder.reserved
    <= AvailableSize - PageSize * PagesAtRef(Walk(cache, handle), handle, 0)

\* try_add_one on a waiting request that gets a slot and its pages reserved
AddNew(r) ==
  /\ pc = "add" /\ r \in Considered /\ adder.budget > 0 /\ r \notin chunked
  /\ table_free # << >>
  /\ LET h == MatchReq(r)
         slot == table_free[Len(table_free)]
     IN /\ Fits(r, h) /\ OutputLen(r) >= 0
        /\ cache' = Lock(Walk(cache, h), h)
        /\ table_free' = Front(table_free)
        /\ page_table' = [page_table EXCEPT ![slot] = MatchedPages(cache, h)]
        /\ AddOneReq(r, slot, h, PageSize * Len(h))
  /\ stage' = [stage EXCEPT ![r] = "admitted"]
  /\ UNCHANGED << pc, free_slots, kv, pending, running, finished_reqs, newly,
                  tokens, sent, last, at >>

\* try_add_one on a waiting request there is no memory for; it ends the list
RefuseNew(r) ==
  /\ pc = "add" /\ r \in Considered /\ adder.budget > 0 /\ r \notin chunked
  /\ table_free # << >> /\ ~Fits(r, MatchReq(r))
  /\ cache' = Walk(cache, MatchReq(r))
  /\ pc' = "added"
  /\ UNCHANGED << free_slots, kv, table_free, page_table, queues,
                  obj, stage, tokens, sent, loop >>

\* A negative max_tokens puts max_device_len below device_len: the assertion of Req
\* fails, and no exception is caught before the process ends.
AddFails(r) ==
  /\ pc = "add" /\ r \in Considered /\ adder.budget > 0 /\ r \notin chunked
  /\ table_free # << >> /\ Fits(r, MatchReq(r)) /\ OutputLen(r) < 0
  /\ pc' = "ended"
  /\ UNCHANGED << memory, queues, obj, stage, tokens, sent, loop >>

\* The list is exhausted, or try_add_one fails before it looks at the cache
StopAdding ==
  /\ pc = "add"
  /\ \A r \in Considered : \/ adder.budget <= 0
                           \/ r \notin chunked /\ table_free = << >>
  /\ pc' = "added"
  /\ UNCHANGED << memory, queues, obj, stage, tokens, sent, loop >>

\* schedule_next_batch returns the prefill batch: what is left of the list is the
\* requests still in chunks, and those not reached
PrefillBatch ==
  /\ pc = "added" /\ batch # NoBatch
  /\ LET n == Len(batch.items)
         kept == InOrder({i \in 1..n : pending[i] \in chunked}, <)
     IN pending' = [k \in DOMAIN kept |-> pending[kept[k]]]
                     \o SubSeq(pending, n + 1, Len(pending))
  /\ pc' = "allocate"
  /\ adder' = NoAdder
  /\ UNCHANGED << memory, chunked, running, finished_reqs, newly,
                  obj, stage, tokens, sent, batch, last, at >>

\* Otherwise all running requests form a decode batch, in the order of the set
DecodeBatch ==
  /\ pc = "added" /\ batch = NoBatch /\ running # {}
  /\ \E s \in SetToSeqs(running) :
       batch' = [prefill |-> FALSE,
                 items |-> [i \in DOMAIN s |-> Entry(s[i], FALSE, obj[s[i]].device)]]
  /\ pc' = "allocate"
  /\ adder' = NoAdder
  /\ UNCHANGED << memory, queues, obj, stage, tokens, sent, last, at >>

NothingToRun ==
  /\ pc = "added" /\ batch = NoBatch /\ running = {}
  /\ pc' = "process"
  /\ adder' = NoAdder
  /\ UNCHANGED << memory, queues, obj, stage, tokens, sent, batch, last, at >>

-----------------------------------------------------------------------------
\* allocate_paged: the pages entry i of the batch needs (a batch allocation is
\* made entry by entry: pages come off the front of free_slots and evictions go
\* to its end, so the pages and the victims are the same)
NeededPages(r) == CeilDiv(obj[r].device, PageSize) - CeilDiv(obj[r].cached, PageSize)

Current == {batch.items[i].req : i \in {at} \cap DOMAIN batch.items}

StartAlloc(r) ==
  /\ pc = "allocate" /\ r \in Current
  /\ pc' = "take"
  /\ UNCHANGED << memory, queues, obj, stage, tokens, sent, loop >>

EvictOne(r) ==
  /\ pc = "take" /\ r \in Current
  /\ NeededPages(r) > Len(free_slots)
  /\ \E v \in Victims(cache) :
       /\ cache' = EvictLeaf(cache, v)
       /\ free_slots' = free_slots \o EvictedPages(cache, v)
  /\ UNCHANGED << pc, kv, table_free, page_table, queues,
                  obj, stage, tokens, sent, loop >>

\* The forward pass of the batch stores the KV of the entry's tokens ...
Stored(r, row) ==
  LET first == obj[r].cached \div PageSize + 1
      end == CeilDiv(obj[r].device, PageSize)
  IN [p \in Page |->
        IF \E i \in first..end : row[i] = p
        THEN LET i == CHOOSE j \in first..end : row[j] = p
             IN SubSeq(tokens[r], 1, Smaller(i * PageSize, obj[r].device))
        ELSE kv[p]]

\* ... and complete_one advances its lengths
Take(r) ==
  /\ pc = "take" /\ r \in Current
  /\ LET k == NeededPages(r)
         row == Row(r) \o SubSeq(free_slots, 1, k)
     IN /\ k <= Len(free_slots)
        /\ page_table' = [page_table EXCEPT ![obj[r].slot] = row]
        /\ free_slots' = SubSeq(free_slots, k + 1, Len(free_slots))
        /\ kv' = Stored(r, row)
  /\ obj' = [obj EXCEPT ![r].cached = obj[r].device, ![r].device = @ + 1]
  /\ at' = at + 1
  /\ pc' = "allocate"
  /\ UNCHANGED << cache, table_free, queues, stage, tokens, sent, adder, batch, last >>

\* The batch is on its way: sampled tokens go to the token pool, and
\* filter_reqs makes the requests that can decode running.
Launch ==
  /\ pc = "allocate" /\ at > Len(batch.items)
  /\ LET whole == {i \in DOMAIN batch.items : ~batch.items[i].chunk}
         joined == {batch.items[i].req : i \in whole}
     IN /\ \E t \in [joined -> Token] :
             tokens' = [r \in Req |-> IF r \in joined THEN Append(tokens[r], t[r])
                                                      ELSE tokens[r]]
        /\ running' = {r \in running \cup joined : CanDecode(r)}
  /\ pc' = "process" /\ at' = 1
  /\ UNCHANGED << memory, pending, chunked, finished_reqs, newly,
                  obj, stage, sent, adder, batch, last >>

-----------------------------------------------------------------------------
\* _process_last_data: of the batch just launched, or of the one before
Results == IF Overlap THEN last ELSE batch

Answered == {Results.items[i] : i \in {at} \cap DOMAIN Results.items}

EosAlways(e) ==                 \* mutant: ignore_eos is not looked at
  ~CanDecode(e.req) \/ tokens[e.req][e.pos] = Eos

Finished(e) ==
  ~CanDecode(e.req) \/ (e.req \notin IgnoreEos /\ tokens[e.req][e.pos] = Eos)

\* append_host: the length of input_ids once the sampled token is known
NotAppended(r) == obj[r].host   \* mutant: append_host is forgotten

Appended(r) == obj[r].host + 1

\* The request ends now: its resources have not been freed for the batch before
OverAgain(e) == Finished(e)     \* mutant: finished_reqs is not looked at

Over(e) == Finished(e) /\ e.req \notin finished_reqs

\* Every turn but a chunk's appends the token and a reply for send_result
Answer(e) ==
  /\ pc = "process" /\ e \in Answered /\ ~e.chunk
  /\ at' = at + 1
  /\ sent' = [sent EXCEPT ![e.req] = Append(@, Finished(e))]

SkipChunk(e) ==
  /\ pc = "process" /\ e \in Answered /\ e.chunk
  /\ at' = at + 1
  /\ UNCHANGED << pc, memory, queues, obj, stage, tokens, sent, adder, batch, last >>

\* The end of a request: it leaves the running set and gives everything back
FinishReq(e) ==
  /\ Answer(e) /\ Over(e)
  /\ obj' = [obj EXCEPT ![e.req].host = Appended(e.req)]
  /\ FreeResources(e.req, Appended(e.req))
  /\ running' = running \ {e.req}
  /\ newly' = newly \cup {e.req}
  /\ stage' = [stage EXCEPT ![e.req] = "finished"]
  /\ UNCHANGED << pc, kv, page_table, pending, chunked, finished_reqs,
                  tokens, adder, batch, last >>

\* Its prompt has been computed: cache_req(finished=False) hands it to the tree
CommitReq(e) ==
  /\ Answer(e) /\ ~Over(e) /\ Results.prefill
  /\ LET r == e.req
         host == Appended(r)
         c == Insert(cache, Computed(r, host), Row(r))
     IN /\ cache' = Lock(Unlock(c, obj[r].handle), Computed(r, host))
        /\ free_slots' = free_slots \o Duplicates(r, host)
        /\ obj' = [obj EXCEPT ![r].host = host, ![r].handle = Computed(r, host)]
  /\ stage' = [stage EXCEPT ![e.req] = "committed"]
  /\ UNCHANGED << pc, kv, table_free, page_table, queues, tokens, adder, batch, last >>

\* One more token
ReplyOnly(e) ==
  /\ Answer(e) /\ ~Over(e) /\ ~Results.prefill
  /\ obj' = [obj EXCEPT ![e.req].host = Appended(e.req)]
  /\ UNCHANGED << pc, memory, queues, stage, tokens, adder, batch, last >>

\* The loop comes round.  Objects of requests that are over and in no batch any
\* more are garbage.
EndLoop ==
  /\ pc = "process" /\ at > Len(Results.items)
  /\ finished_reqs' = IF Results = NoBatch THEN finished_reqs ELSE newly
  /\ newly' = {}
  /\ last' = IF Overlap THEN batch ELSE NoBatch
  /\ batch' = NoBatch
  /\ obj' = [r \in Req |-> IF stage[r] \in {"finished", "aborted"} /\ r \notin InBatch(last')
                           THEN NoObject ELSE obj[r]]
  /\ at' = 1 /\ pc' = "receive"
  /\ UNCHANGED << memory, pending, chunked, running, stage, tokens, sent, adder >>

\* Blocked until a message comes, and none comes any more; or the process is gone
Stopped == (pc = "receive" /\ Blocking) \/ pc = "ended"

Idle == Stopped /\ UNCHANGED vars

-----------------------------------------------------------------------------
\* What the clients do, and what the loop does
Message(r) == HandleUser(r) \/ AbortWaiting(r) \/ AbortChunked(r) \/ AbortRunning(r)

Step ==
  \/ Schedule
  \/ \E r \in Req : AddChunked(r) \/ AddNew(r) \/ RefuseNew(r) \/ AddFails(r)
  \/ StopAdding \/ PrefillBatch \/ DecodeBatch \/ NothingToRun
  \/ \E r \in Req : StartAlloc(r) \/ EvictOne(r) \/ Take(r)
  \/ Launch
  \/ \E e \in Answered : SkipChunk(e) \/ FinishReq(e) \/ CommitReq(e) \/ ReplyOnly(e)
  \/ EndLoop

Next == (\E r \in Req : Message(r)) \/ Step \/ Idle

Spec == Init /\ [][Next]_vars

\* The thread of the scheduler keeps running: WF_vars(Step), with ENABLED Step
\* written out, the thread waiting only for a message as long as it lives
Fairness == []<>Stopped \/ []<><<Step>>_vars

FairSpec == Spec /\ Fairness

-----------------------------------------------------------------------------
Live(r) == stage[r] \in {"admitted", "committed"}

\* The scheduler as a client of the cache manager: what the interface speaks of, in
\* the state of the loop
ClientPhase ==
  [r \in Req |-> IF Live(r) THEN stage[r]
                ELSE IF stage[r] \in {"finished", "aborted"} THEN "done" ELSE "waiting"]

ClientIds ==
  [r \in Req |->
     LET n == IF pc = "take" /\ r \in Current THEN obj[r].device ELSE obj[r].cached
     IN IF Live(r) /\ n > InputLen(r) THEN SubSeq(tokens[r], 1, n) ELSE Prompt[r]]

ClientLen == [r \in Req |-> IF Live(r) THEN obj[r].cached ELSE 0]
ClientHandle == [r \in Req |-> IF Live(r) THEN obj[r].handle ELSE Root]
ClientRow == [r \in Req |-> IF Live(r) THEN Row(r) ELSE << >>]

ClientJob ==
  IF pc = "take" THEN [req |-> Current, upto |-> obj[CHOOSE r \in Current : TRUE].device]
                 ELSE [req |-> {}, upto |-> 0]

CM == INSTANCE CacheManager WITH
        MaxNew <- MaxSeqLen, phase <- ClientPhase, ids <- ClientIds, cached_len <- ClientLen,
        handle <- ClientHandle, row <- ClientRow, job <- ClientJob

\* Whatever order messages arrive in, the loop uses the cache manager as its
\* interface permits: every step is a step of CacheManager, or none of its state.
UsesCacheManager == CM!Spec

\* A page-table row belongs to one request: every slot is free once, or held by
\* one live request.
SlotsExclusive ==
  \A s \in Slot :
    Cardinality({i \in DOMAIN table_free : table_free[i] = s})
      + Cardinality({r \in Req : Live(r) /\ obj[r].slot = s}) = 1

\* The pages r may still ask for, the last token of its output never being stored
FuturePages(r) ==
  CeilDiv(InputLen(r) + ReplyLimit(r) - 1, PageSize) - CeilDiv(obj[r].cached, PageSize)

\* Admission reserves enough: what all admitted requests may still ask for is
\* free or can be evicted, so that no batch finds the pool exhausted.
ReservationCovers ==
  MapThenSumSet(FuturePages, {r \in Req : Live(r)}) <= Len(free_slots) + cache.evictable

\* cache_req cuts input_ids, kept by the host, at the length the device has
\* computed: the host has those tokens whenever it may be called.
HostKnows ==
  \A r \in Req : Live(r) =>
    LET answers == {e \in Answered : pc = "process" /\ e.req = r /\ ~e.chunk}
    IN (pc = "receive" /\ r \in chunked \cup running) \/ answers # {} =>
         obj[r].cached <= obj[r].host + Cardinality(answers)

\* check_integrity holds, and nothing is locked.
PagesAccounted ==
  /\ Len(free_slots) + cache.evictable + cache.protected = NumPages
  /\ cache.protected = 0

\* Every slot is free and nobody is waiting for an answer.
NobodyLeft ==
  /\ Len(table_free) = MaxRunning
  /\ \A r \in Req : stage[r] \in {"unsent", "gone", "finished", "aborted"}

\* An idle scheduler has lost neither pages nor slots nor requests.
IdleIntegrity == pc = "receive" /\ Blocking => PagesAccounted /\ NobodyLeft

\* The batches overlap_loop has launched behind the one whose results it processes
Lag == IF Overlap THEN 1 ELSE 0

\* The end of a request is told for a reason, its limit or its end token, and in
\* time: by its last reply in normal_loop.  overlap_loop sees the limit one reply
\* early, and sends one more reply behind the final one, but no second.
OneFinalReply ==
  \A r \in Req : stage[r] = "finished" =>
    \E n \in DOMAIN sent[r] :
      /\ sent[r][n] /\ \A i \in 1..(n - 1) : ~ sent[r][i]
      /\ Len(sent[r]) <= n + Lag
      /\ \/ n \in (ReplyLimit(r) - Lag)..ReplyLimit(r)
         \/ r \notin IgnoreEos /\ tokens[r][InputLen(r) + n] = Eos

\* Every request that was queued is answered to its end, or aborted, unless the
\* max_tokens of some request ends the scheduler.
Served ==
  \A r \in Req :
    stage[r] = "pending" ~> stage[r] \in {"gone", "finished", "aborted"} \/ pc = "ended"

-----------------------------------------------------------------------------
(* What the repository's comments and assertions say, and the code does not do *)

\* "Allocate KV pages that are not in use" (scheduler.py, _prepare_batch): a page
\* handed to a request is in no row of another live request.
PagesUnoccupied ==
  \A r \in Current, s \in Req : pc = "take" /\ s # r /\ Live(s) =>
    \A i \in 1..Smaller(NeededPages(r), Len(free_slots)) : ~Contains(Row(s), free_slots[i])

\* `assert node.ref_count >= 0` (radix_cache.py, lock_handle)
RefCountsAsserted == \A n \in Nodes(cache) : cache.ref[n] >= 0

\* inflight_tokens "controls concurrency and prevents OOM" (decode.py): a batch
\* finds its pages free or evictable, as _allocate asserts.
AllocationFits ==
  \A r \in Current : pc = "take" => NeededPages(r) <= Len(free_slots) + cache.evictable

\* "If the request has not ended ... append the token" (llm.py,
\* offline_send_result): no reply follows the one that ends a request.
NothingAfterEnd ==
  \A r \in Req : \A i \in DOMAIN sent[r] : sent[r][i] => i = Len(sent[r])

\* "Weights: chunked requests > priority > arrival" (scheduler.py,
\* _schedule_next_batch): the list is in that order when a batch is put together.
PriorityOrder ==
  Strategy = "priority" /\ pc = "add" /\ batch = NoBatch =>
    \A i, j \in DOMAIN pending :
      i < j /\ pending[i] \notin chunked => Priority[pending[i]] >= Priority[pending[j]]
=============================================================================
