# A TLA+ verification of dino-llm

dino-llm is an inference server for large language models: clients talk HTTP to
a frontend, tokenizer and detokenizer processes translate between text and
tokens, and one scheduler process per GPU batches the requests, manages the
paged KV cache with its radix tree of shared prefixes, and runs the model. A
router can be put in front of several servers.

This directory models the server from the HTTP handlers to the metadata of the
attention kernels, the start of its processes, the group of ranks, and the
router with its launcher. Source paths are relative to `src/dino/dinollm/`.

| files | what they model |
|---|---|
| `RadixPrefixCache`, `CacheManager` | the radix tree, and the KV-page manager over it |
| `NaiveCache` | the same manager over the cache that shares nothing |
| `Scheduler` | the scheduler loop with its managers; implements `CacheManager` |
| `TokenPool` | the token pool between the scheduler's and the engine's stream |
| `BatchForward` | a batch as tensors: padding, page tables, graphs, attention metadata |
| `Sampler` | the sampling parameters of a batch |
| `RankLog`, `RankBroadcast` | what the ranks of a group agree on, and how; the second implements the first |
| `EngineSetup` | how the ranks agree on the number of KV pages |
| `TensorParallel` | how a checkpoint is cut to ranks, and what they compute together |
| `Frontend` | the frontend's event loop, every await a step |
| `RequestService`, `Serving` | what a client is promised, and the four kinds of processes that keep it |
| `Lists` | the filtering list comprehension |
| `Messages` | the messages between processes and their encoding |
| `Detokenizer` | incremental text of tokens that split characters |
| `Startup` | processes, sockets and acknowledgements at start |
| `Boot` | a start with the set-up of the engines in it |
| `WorkerSlo`, `Router` | the judgement of a worker by its metrics, and the router |
| `Cluster` | the launcher of workers and router |
| `*Proofs` | theorems about the module of that name, checked by TLAPS (`BootProofs`: about `EngineSetup`, `Startup` and `Cluster`) |
| `MC*.tla`, `MC*.cfg` | small instances for TLC |
| `PROJECT.json` | components, runs, mutants, source map, findings, hazards, theorems |

## 1. Inventory

### Components, their state and their operations

**Radix prefix cache** (`kvcache/radix_cache.py`). State: a tree of nodes, each
with a key of tokens, their KV pages, a `ref_count` and a timestamp; two size
counters. Operations: match, insert, lock and unlock a handle, evict. Correct
if counts are exactly the holders, nothing held is evicted, the counters are the
sizes, and the pages found under a prefix hold the KV of that prefix.

**Cache manager** (`scheduler/cache.py`), over that tree or the **naive cache**
(`kvcache/naive_cache.py`). State: `free_slots`, the tree, the page table it
writes. Operations: `match_req`, `lock`, `unlock`, `allocate_paged` (with
eviction), `cache_req` unfinished or finished, `check_integrity`. Correct if
every page is in exactly one place, and an allocation that was checked
beforehand succeeds.

**Prefill, decode and table managers** (`scheduler/prefill.py`, `decode.py`,
`table.py`). State: the waiting list, each entry perhaps with the
`ChunkedReq` of its last chunk; the set of running requests; a stack of rows of
page table and token pool. Operations: queue, admit under a token budget and a
memory estimate, chunk, abort; join, leave. Correct if reservations cover what
admitted requests will still allocate, a row has one owner and its own tokens,
and nobody waits for ever.

**Scheduler loop** (`scheduler/scheduler.py`, `core/forward.py`). State:
`finished_reqs`, the batch in flight, each `Req`'s lengths. `normal_loop`
processes a batch's results at once; `overlap_loop` launches the next batch
first. Correct if every request is answered, once to its end, and all its
resources come back exactly once.

**Engine, graphs, attention backends** (`engine/`, `attention/`, `kvcache/mha_pool.py`).
State: page count, page table, KV pool, buffers of captured graphs. Correct if
the ranks agree on their pages, and every query reads its own request's past
and nothing else. **Sampler** (`engine/sample.py`): correct if each request is
sampled by its own parameters.

**Rank IO** (`scheduler/io.py`): rank 0 pulls messages, broadcasts their number
over the process group and their bytes over publish/subscribe. Correct if all
ranks handle the same messages in the same iteration. **Layers and weights**
(`layers/`, `models/`): correct if the ranks together compute the model that
was not cut.

**Frontend** (`core/api.py`). State per uid: a list of replies and an event;
coroutines for listening, streaming and aborting. Correct if no reply and no
wake-up is lost and only lost clients are aborted. **Tokenizer and detokenizer
workers** (`tokenizer/`): per uid a decoding state. **Messages, queues**
(`message/`, `utils/mp.py`). **Startup** (`core/startup.py`, `args.py`): which
process creates which socket, and when the server begins to accept requests.

**Router** (`cluster/`). State: healthy workers and their cycle, sticky
bindings, SLO states with bans, limits per second and per user, metrics by
gRPC. Correct if limits hold, bans end, and dead workers leave. **Launcher**
(`cluster/run_cluster.py`): the children and what they were told.

**Offline LLM** (`llm/llm.py`), **clients and dashboards** (`benchmark/`,
`load_test/`, `tools/`, `monitoring/`), **generated code** (`proto/`): section 6.

### How they interact

    client -> frontend -> tokenizer -> scheduler rank 0 -> other ranks
    client <- frontend <- detokenizer <- scheduler rank 0
    scheduler: prefill / decode / table manager -> cache manager -> cache
    scheduler -> engine -> graph or eager forward -> attention backend -> KV pool
    launcher -> workers, router;  router -> frontends;  schedulers -> router (metrics)

Processes exchange messages over queues. Inside a scheduler everything is calls
on one thread; what runs beside it is the GPU, on two streams, and its results
come back one batch later in `overlap_loop`. Frontend and router are event
loops: between two awaits nothing else runs.

### What is hard

- Requests come, end and are aborted at any time between batches, while the
  batch in flight still refers to them.
- The tree is split, extended and evicted under the handles requests hold.
- Memory is promised by an estimate at admission and taken many iterations
  later; tokens are promised, pages are taken.
- The host learns tokens one batch after the device, and rows of the token pool
  change owners in between.
- Aborts and replies of one uid travel through several processes.
- Ranks must take every decision alike, from messages on two channels.
- Buffers keep what larger batches left; padding must reach nobody's memory.
- Health, limits and metrics of the router change between its awaits.

`PROJECT.json` lists the hazards line by line, each with the properties that
cover it; a hazard that is covered in part has a note.

## 2. Which module rests on which

    RequestService <- Serving                Serving EXTENDS Frontend
    CacheManager   <- Scheduler              both use RadixPrefixCache
    RankLog        <- RankBroadcast
    Boot EXTENDS Startup, EngineSetup        Router EXTENDS WorkerSlo

A `<-` is an implementation, checked as a property with a refinement mapping:
`ImplementsService`, `UsesCacheManager`, `SameIterations`. Each of the other
modules takes one aspect of the same program: `Scheduler` has requests,
memory and replies and lets any token be sampled; `TokenPool` has only the rows
and the streams; `BatchForward` has one batch after another and their tensors;
`RankBroadcast` has many schedulers of which only messages and batches are left.

An MC module gives the constants of one module their values, or it joins
several small instances in one state space: its variable `part` says which of
them a behaviour is of, and the variables of the others keep their first values.
The instances are explored side by side and never interact; a property of such
a run says for each part what holds there.

`Lists` has the one list operator that several of them need, the filtering
comprehension, written so that it can be reasoned about.

Still to do: a proof of `MisreadOnlyIfLate` of `TokenPool`. Its admission is a fold
over the pending list, so it needs induction over that list.

## 3. The models

### RadixPrefixCache

All matching is aligned down to `PageSize` tokens, so the tree is a tree of
blocks of `PageSize` tokens, one page each. A node is named by the path from the
root to its end; a split keeps the object as the lower half, so handles, which
are nodes in the code, are paths here and survive. `page` maps each stored path
to its page, `ref` and `age` are the fields of the nodes. Timestamps are
replaced by ranks, since only their order is used.

| operator | code |
|---|---|
| `Blocks` | `_get_key_fn`, `align_down` |
| `Matched`, `Walk` | `_tree_walk` with `split_at` |
| `Lock`, `Unlock` | `lock_handle` |
| `Insert`, `NewLeaf` | `insert_prefix` |
| `Victims`, `EvictLeaf`, `EvictedPages` | one turn of `evict`'s loop |
| `MatchedPages` | `get_matched_indices` |

### CacheManager and NaiveCache

`CacheManager` is the manager with its most general client. `Refuse` and `Admit`
are the two ends of `_try_allocate_one`, `StartAlloc`, `EvictOne` and `Take` are
`allocate_paged`, `Commit` and `Finish` are `cache_req`. A request may grow by a
chunk of its prompt or by a sampled token, be committed when its prompt is
computed, and finish at any time. `kv` is history: the prefix each page was last
*written* for. It says nothing of what a row that still points at a page
reads: see the finding `duplicate_prefix`.

A batch allocation is made request by request. Pages come off the front of
`free_slots` and evictions are appended to its end, and both the batch and the
sequence stop evicting at the first victim that suffices, so pages and victims
are the same.

`NaiveCache` is the manager with `--cache-type naive`. There a page is free or
in one row, `insert_prefix` takes over none, and `evict` raises, which is
`Evict`: what must never happen. A request may ask for no token at all.

### Scheduler

One thread; `pc` says where in the loop it is.

| `pc` | actions | code |
|---|---|---|
| `receive` | `HandleUser`, `AbortWaiting`, `AbortChunked`, `AbortRunning`, `Schedule`, `Idle` | `_process_one_msg`, `_schedule_next_batch` |
| `add` | `AddChunked`, `AddNew`, `RefuseNew`, `AddFails`, `StopAdding` | `PrefillAdder`, `PrefillManager.schedule_next_batch` |
| `added` | `PrefillBatch`, `DecodeBatch`, `NothingToRun` | the choice of the batch |
| `allocate`, `take` | `StartAlloc`, `EvictOne`, `Take`, `Launch` | `_prepare_batch`, `_forward` |
| `process` | `SkipChunk`, `FinishReq`, `CommitReq`, `ReplyOnly`, `EndLoop` | `_process_last_data` |

Messages are taken only at `receive`, as `receive_msg` does. Sampled tokens are
arbitrary. `MaxTokens` is any integer, as `api.py` takes `max_tokens` unchecked: with
0 a request is prefilled and gets one reply (`ReplyLimit`), and a negative one fails
the assertion of `Req.__post_init__` (`forward.py:44`) when the request is admitted.
Nothing catches it: `AddFails` takes the process to `ended`, where it answers nobody
any more. `Overlap` chooses the loop. `stage` and `sent` are history. Objects
of requests that have ended and are in no batch are reset, so that garbage does
not multiply states; the code's objects are unreachable then.

`CM == INSTANCE CacheManager WITH ...` maps the loop's state to the interface;
`CM!Spec`, as the property `UsesCacheManager`, says that the loop never uses it
in a way `CacheManager` does not permit.

### TokenPool

The two CUDA streams as sequences of work: copies of prompts on the scheduler's
stream, loads and writes of batches on the engine's, and `WaitFor` where
`wait_stream` orders them. The host goes on at once and stops only where
`copy_done` is synchronized. Token `<< r, p >>` is the token of request `r` at
position `p`, so a load shows whose tokens it got. `Prefill`, `Decode` and
`Process` are the two halves of an iteration.

### BatchForward and Sampler

`Forward` is `_prepare_batch` and `forward_batch` for one batch: padding to a
captured size, allocation and the page table, locations, the metadata of
FlashAttention or FlashInfer, and, when a graph can be used, what it reads from
the buffers it was captured with. A location of the KV pool holds whose token
was stored there; `result` says which locations each query read. The dummy
request and the dummy page are there. `Prefill` and `Decode` choose any batch
the scheduler could; pages and rows come back at `Release`.

`Sampler` compares what `Sampler.prepare` makes of a batch with what it makes of
each request alone. The kernels are external: they may return any token that
top-k and top-p leave.

### EngineSetup and TensorParallel

`EngineSetup` follows `Engine.__init__` on each rank: three all-reduces of free
memory, each of which completes when all ranks have given theirs, and the loads
and allocations between them. `Disturb` lets another program take or free memory.

`TensorParallel` lets each rank read the checkpoint in any order, cut, merge and
load it. Tensors are sequences of named rows or columns, so that "the same
computation" is a statement about names: which gate meets which up and which
down column, which query head meets which key head. `Embedding`, `Logits` and
the others then compare all ranks together with the checkpoint. Vocabularies that
do not divide by the ranks are among the models: `weight.py:47` cuts a short last
shard (`ShortShard`), and `Load` fails on that rank, as `base.py:45` compares the
shapes.

### RankLog and RankBroadcast

`RankLog` is a log of batches of messages which every rank applies in order at
its own pace. `RankBroadcast` is `io.py`: `Wait0`, `NoWait0`, `Poll`, `Broadcast` and `Publish` are
`_recv_msg_multi_rank0`, `Wait1`, `NoWait1`, `TakeCount` and `TakeMsg` are
`_recv_msg_multi_rank1`. `sub` is the rank's SUB socket, `counts` the broadcasts
of the process group. An iteration is reduced to what ranks must agree on. A
forward pass needs all ranks, so one that is behind holds up the others.

### Frontend, RequestService, Serving, Messages, Detokenizer

`task[u]` is the await at which the handler of `u` is suspended, `aborting[u]`
that of its `abort_user` task. Every action is the code from one await to the
next. `CancelWaiting`, `CancelSending` and `CancelStarting` are the ASGI server's
cancellation of a lost client's task, which is external and can be switched off
(`TaskCancelled`). Only the first sends an abort: a generator that is left while a
chunk is sent is closed with `GeneratorExit`, which `api.py:236` does not catch, and
before the stream begins nobody catches anything. `Frontend` has the clients and the event loop; whoever
answers it is left to the module that extends it.

`Serving` puts tokenizers, scheduler and detokenizer behind it, with a FIFO pipe
per pair of processes. Its scheduler keeps only which requests run and which
were freed with a batch in flight (`late`). An abort may find its request in the
batch in flight of `overlap_loop`; when the results of that batch free it a second
time (`FreedTwice`), the variable `scheduler` becomes `corrupt`, and `SchedulerEnds`
is the assertion of `lock_handle` that then fails, at once or for a later holder of
the same path. An ended scheduler takes and answers nothing. `args` is chosen at the start and never
changes: the loop, `local_bs`, the requests that are too long, and the bound on
replies. `RequestService` is what a client sees: a request is opened, answered
in order, and closed by the final reply or left; `ImplementsService` is the
refinement.

`Messages` takes the contents of the same messages: Python values encoded to
dictionaries and back, decoded with the classes of one file. `Detokenizer` takes
the text: tokens are sequences of parts of characters, and a text that ends
inside one has the replacement character there.

### Startup and Boot

A process is at a place of its start-up code; opening its sockets, joining the
group, the barrier and its acknowledgement are steps. `Sockets(p)` lists the
addresses a process creates or connects to, by the rules of `args.py`. `Crash`
may end any child before it is ready.

In `Boot` a rank joins the group when its engine is ready, in `EngineSetup`, and
its process ends when the engine raises.

### WorkerSlo, Router, Cluster

`WorkerSlo` has the SLO state and the load score as operators. In `Router` a
call goes through `Chat` or `Generate` up to its first await, and ends in
`Answered`, `BadStatus`, `Fail` or `FailUnhandled`. `Fail` is any error the handler
catches, which marks the worker unhealthy, be it down or alive (an answer that is not
JSON is one). The health loop checks one
worker at a time and then cleans. `log` is history: for each call what the
router knew when it chose. `Cluster` is the launcher at each of its blocking
calls, with children that get ready, slow or end when they like.

## 4. What the runs check

| run | instance | shows |
|---|---|---|
| `cache` | 3 requests, pages of 2 tokens, 4 pages; prompts that share one page, fork in the second, or end inside one | counts are the holders, handles stay, the tree is a trie, eviction is sound and least recent first, every page once, pages keep what they were written for |
| `naive_cache` | 4 requests, 5 pages; pages of 4 tokens and of 1 | every page once; with pages of one token admission never lets an allocation need an eviction |
| `scheduler_overlap` | 4 requests, one with `max_tokens` 0, 2 slots, budget of 2 tokens, 6 pages of one token, `overlap_loop`, no abort of a request in flight, fairness | the host knows the tokens it commits; a final reply in time, with one more behind it at most; results one batch late free and commit everything once; slots, reservations, integrity when idle; the loop implements `CacheManager`; every queued request is served |
| `scheduler_normal` | these and one with a negative `max_tokens`, 3 pages of two tokens, `normal_loop`, aborts at any time, fairness | every queued request is served, unless the negative one ends the scheduler |
| `serving` | 2 clients, 1 tokenizer; `overlap_loop`, the same with one request too long and 3 replies, `normal_loop` with two messages per turn; fairness | cancellations are clean, order and aborts, nothing done in vain, the refinement of `RequestService`, every request ends as long as nothing is freed twice |
| `ranks` | 3 ranks, 2 requests, an exit, both loops, fairness | the ranks implement `RankLog`, compute the same batches, and go on to the end |
| `boot` | 2 ranks with 1 tokenizer and memory that others take, or one process for both directions, with crashes; a cluster of 2 workers; fairness | one creator per address, ranks agree or raise together, serves only when ready, comes to serve; every child of the launcher is told |
| `batch` | token pool of 2 rows for 4 requests, both loops; 3 requests with FlashAttention and graphs of sizes 1 and 3, with FlashInfer and a graph of size 2; pages of 4 tokens | a wrong token only after taking over a row with a write on its way; queries read their own past, padding stays on its page, rows are wide enough |
| `data` | 11 models and groups of 1 to 4 ranks; 2 requests with parameters at and beyond every limit; every message of 2 requests; texts of 3 Latin and 6 Chinese tokens | the ranks are the whole model, batchmates do not matter, messages arrive whole, text is told once |
| `router` | 2 users and 2 workers: one worker fails and reports; the users at their limits; both workers fail, with fairness; metrics around every threshold | bans, sticky bindings, limits, dead workers leave and living ones return; judgement is bounded and monotonic |
| `duplicate_prefix`, `abort_in_flight` | 3 requests, 2 slots, 6 pages | the disagreements below |

The bounds are chosen for the events. The three prompts of `cache` do not fit
with their outputs, so eviction, splits of held nodes and duplicate commits all
happen. Two slots for four or five requests force waiting, a budget of two tokens for
prompts of three forces chunks, six pages of one token or three of two force
refusals and evictions. Two rows for four requests make every row change hands
while a write may be on its way. Requests of 0 tokens, and of a negative number in
`scheduler_normal`, are the limits of what clients may ask. With graphs for one and three a batch of two
is padded and a batch of one is not, so buffers keep what a larger batch left.
Two clients are enough for a listener turn that files for one while the other
is at an await; two messages per turn make batches. Three ranks let two of them
differ while the third decides. The memory sizes of `boot` are within and
beyond the tolerated difference. Two workers are the fewest for which the
router chooses, and one of them alone is the case in which it does not. Each
property of a passing run has a mutant of the code in `PROJECT.json` that breaks
it, which is how we know the instances are large enough for it to matter.

The bounds are named: `MaxNew`, `MaxReplies` and `replies`, `Disturbances`,
`MaxWait`, `MaxCached`, `MaxRequests`, `MaxBatch`, `MaxTokens`, `MaxTime` and
`MaxCalls`; the rest is how many requests, users, ranks and workers there are.

Deadlock is checked in the runs of the caches and the scheduler; these may stop
only in states that are named (`Done`, `Idle`). The other modules end when
their bounded requests, tokens, calls or children are used up, when ranks have
stopped, or where the code waits for ever, as the main process does after a
crash; their configurations switch the check off.

### Fairness

`scheduler_overlap`, `scheduler_normal`: the thread keeps running. It is an endless loop whose every
call returns, and it waits only in a blocking receive. That is weak fairness of
`Step`; `Fairness` writes `ENABLED Step` out as "neither blocked nor ended", because TLC
evaluates that much faster. A state where the loop were stuck elsewhere would be
a deadlock, which these runs exclude. A process that an exception has ended owes
nothing: `Served` promises an answer only while `pc` is not `ended`.

`serving`: an event loop runs every task that is ready, the workers are endless
loops, and the scheduler comes to every request it holds, which is what `Served`
shows of either loop, without aborts in flight for `overlap_loop`. With such an abort
the fairness of the scheduler is not justified any more once it has freed a request
twice, so `RequestsEnd` promises nothing from then on: in the run, as in the code, the
scheduler may end and every other client wait for ever. `normal_loop` has no such
abort, and there
the promise stands. A negative `max_tokens` would end the scheduler in either loop:
`Serving` has requests without one. `ranks`: every rank's process keeps running, and a
shutdown of all of them ends. `boot`: a process that has not crashed goes on
with its code, and so does the launcher; its children owe it nothing. `router`:
the health loop goes on, since each of its requests is answered, refused or
times out. Clients, failures, recoveries and other programs get no fairness
anywhere.

### Disagreements between code and text

Two are runs that TLC ends with a counterexample, and `PROJECT.json` quotes the
text of both.

| run | what happens |
|---|---|
| `duplicate_prefix` | Two equal prompts are computed side by side. The second commit frees its duplicate pages, its row keeps pointing at them, and the next allocation hands them to another request, though allocation is to take pages "not occupied" (`scheduler.py:294`). |
| `abort_in_flight` | In `overlap_loop` an abort frees a request whose last batch is in flight; processing that batch frees it again, and `assert node.ref_count >= 0` (`radix_cache.py:163`) fails. |

The others have no configuration of their own. Each is a formula of the modules
that TLC refutes on an instance of a passing run with the change named here.

| what happens | formula | instance |
|---|---|---|
| In `overlap_loop` a request gets a reply after its final one (`llm.py:108` takes it that there is none). | `NothingAfterEnd` | `scheduler_overlap` |
| With pages of four tokens the estimate admits more requests than there are pages, and `cache.py:126` fails. | `AllocationFits` | `scheduler_overlap` with `normal_loop`, r1 to r3, `PageSize = 4`, `Prompt <- PromptWide`, `MaxTokens <- OneToken`, `Budget = 16`, `NumPages = 3` |
| The queued object does not carry the message's priority (`prefill.py:172`), so sorting by priority does nothing (`scheduler.py:321`). | `PriorityOrder` | `scheduler_overlap` with r1 to r3, `Strategy = "priority"`, `Prompt <- PromptShared`, `MaxTokens <- TwoTokens`, `Priority <- Priorities` |
| In `overlap_loop` the last write for a row's former owner may replace a prompt token of the new one (`scheduler.py:338`). | `misread = {}` | `batch` |
| A message published before a rank's subscription has arrived is lost to it (`io.py:140`). | `RanksTogether` | `ranks` with `Late = TRUE` |
| A burst longer than the socket's high-water mark loses messages whose number was broadcast (`io.py:160`). | `RanksTogether` | `ranks` with `HighWater = 1` |
| The decode batch is in the order of a set of objects, which differs between ranks (`decode.py:49`, `README.md:19`). | `SameRows` | `ranks` |
| Pages follow the largest free memory, so a rank with less uses more than the ratio (`engine/config.py:38`). | `WithinRatio` | `boot` |
| With two tokenizers an abort may overtake its request, which then runs to its end (`api.py:229`). | `NothingUnwanted` | `serving` with two values in `Tokenizer` |
| After a Chinese character that was shown early, one of another kind makes the text be sent twice (`detokenize.py:25`). | `TextIsTold` | `data`, the tokens of `Chinese` with a character that is not Chinese, split between tokens |
| With one healthy worker neither SLO filter nor limits are asked (`router.py:463`). | `LimitsOnEveryPath` | `router`, `Limiting` with `Unreliable <- {w1}` |
| A restricted worker loses the users bound to it (`slo_enforcer.py:14`). | `RestrictedServesItsUsers` | `router`, `Routing` with a report of `kv` 3 |
| Workers report under a name the router does not know (`router_grpc.py:36`). | `ReportsStored` | `router`, `Routing` with `ReportId <- w1 :> "node-0"` |
| A chat stream that fails is outside the handler's `try` (`router.py:68`). | `ErrorsCounted` | `router`, `Routing` |
| Cleaning leaves the token counts of users who are gone (`router.py:380`). | `CleanForgets` | `router`, `Limiting` with `MaxTime <- 4`, `MaxCalls <- 1` |
| Repeated `--workers` replace each other (`run_cluster.py:103`). | `RouterKnowsAll` | `boot` |
| A read timeout ends the launcher (`run_cluster.py:33`). | `WaitReturns` | `boot` |

These shape the runs that pass. `scheduler_overlap` sets `AbortInFlight = FALSE`:
an abort reaches a running request only when it is not in the batch being
processed; `normal_loop` needs no such restriction. `ReservationCovers` holds
with pages of one token, where estimate and pages agree. `serving` has one
tokenizer. `ranks` has all ranks subscribed before the first message and a
high-water mark above the number of messages, and compares batches as sets. The
Latin and Chinese parts of `data` do not mix the two. In `router` workers report
under their URL.

More limits of the code are in the models and are not counted as
disagreements, since no text of the repository says otherwise. A request that is
too long gets no reply, so its client waits until it leaves: `RequestsEnd`
excludes it. A negative `max_tokens` ends the scheduler for everybody (`AddFails`),
and one of 0 gets a reply. In `overlap_loop` `can_decode` is read after the next batch
has been launched, so the final flag is set one reply before the limit, which is what
`OneFinalReply` says with its `Lag`. A vocabulary that does not divide by the ranks
cannot be loaded, although `embedding.py:27` computes a short range for the last
rank: the rank with the short shard raises at `base.py:45`, the others load and wait
for it in their next collective. `ModelIsWhole` therefore says that the ranks with a
short shard, and no others, fail on their own (`FailTogether`); that all fail
together is true only without one. And with a page size that does not divide 32, such as 64, a row of
the page table can be too short for the last page of the longest request:
`RowsAreWideEnough` is checked with an alignment that the page size divides.

## 5. What is proved

All theorems hold for every value of the constants that satisfies the `ASSUME`s
of the module they are about; TLC evaluates these on every run.

| module | theorem | says, for every reachable state |
|---|---|---|
| `CacheManagerProofs` | `TypeCorrect` | `TypeOK` |
| | `CountsAreHolders` | `RefCounts` |
| | `HandlesStayHeld` | `HandlesHeld` |
| | `TreeIsTrie` | `TreeShape` |
| | `EveryPageInOnePlace` | `PagePartition` |
| | `TreePagesHoldTheirPrefix` | `TreeContent` |
| | `EvictionIsSound` | `EvictionSound` |
| | `NothingIsLost` | without live requests all pages are free or evictable |
| `NaiveCacheProofs` | `EveryPageOnce`, `RowsFit`, `AdmissionSuffices` | `PagePartition`, `Lengths`, `NeverEvicts` |
| `SchedulerProofs` | `SlotsAreExclusive` | `SlotsExclusive` |
| | `HostCatchesUp` | `HostKnows` |
| | `IdleSchedulerIsEmpty` | a blocked loop has all its slots and nobody unanswered |
| | `OneReplyEnds` | `OneFinalReply`, in both loops and for any integer `max_tokens` |
| | `LoopUsesCacheManager` | `UsesCacheManager`, of every step |
| | `IdleLosesNothing` | `IdleIntegrity` |
| | `ReservationIsEnough` | `ReservationCovers`, with pages of one token |
| | `AllocationsSucceed` | `AllocationFits`, `UsesCacheManager` and `IdleIntegrity`, with pages of one token |
| `RankBroadcastProofs` | `RanksFollowOneLog` | `SameIterations`, of every step |
| | `RanksStayTogether` | `RanksTogether` |
| | `FewMessagesFit` | no socket is ever full |
| `BootProofs` | `AllPagesAgree`, `AllRaiseTogether` | `PagesAgree`, `RaiseTogether` |
| | `NoAddressTwice`, `OnlyWhenReady` | `OneCreator`, `ServesOnlyWhenReady` |
| | `EveryChildIsTold` | `EveryChildTold` |
| `ServingProofs` | `CancelsAreClean` | `CancelsCleanly`, that is `MapsTogether` and `OnlyLostAborted` |
| | `RepliesAreInOrder` | `RepliesInOrder` |
| | `NobodyIsWorkedForInVain` | `NothingUnwanted`, with one tokenizer |
| | `ServingImplementsService` | `ImplementsService`, of every step |
| `RouterProofs` | `OnlyFitWorkersGetCalls` | `ChosenAreFit` |
| | `BindingsAreSticky` | `StickyKept`, of every step |
| | `LimitsAreKept` | `LimitsKept` |
| | `LoadTestNeverFires` | no call is refused for the load of its worker |
| | `WorseIsNeverBetter` | worse metrics improve neither the SLO state nor the score |

Each proof has an inductive invariant, `IInv` in most modules, one lemma for `Init`, one per
action, and a last step that puts them together.

**CacheManager.** None of the four is inductive alone. That a count stays a
natural number when it is decremented needs `RefCounts`: the request that
unlocks is one of those counted. That an evicted leaf is nobody's handle needs
it too: a victim has count 0, so no holder. That a split gives the upper half
the right count needs the trie: whoever holds a path holds the node whose key
contains it. And allocation stays within a row and its tokens only with
`Lengths`. So `IInv == TypeOK /\ Lengths /\ TreeShape /\ HandlesHeld /\ RefCounts`.
`RadixPrefixCacheProofs` has the facts about operators: that `Matched` is the
longest stored prefix, what `Walk`, `NewLeaf`, `Counted` and `EvictLeaf` do to
types, trie and counts.

**Pages of CacheManager.** `PagePartition` counts; the proof has instead
`EachOnce`: the map from the places (an index of `free_slots`, a path of the
tree, an index of a row beyond its handle) to the pages in them is a bijection
onto `Page`. Every operation is then a map `f` from the old places to the new
ones that keeps the page and leaves no new place over (`Move`): `EvictOne` takes
the tail of a path (`KeyIsTail`) to the end of `free_slots`, `Take` its front to
the end of a row, and `cache_req` sends the entries of one row to three places,
up to the matched length to `free_slots`, up to the computed length into the tree,
the rest staying or, at the end, going to `free_slots` (`RowGoes`). That the
handle ends before the matched length needs `HandlesFit`: a live request's
handle is a prefix of its computed blocks. For `TreeContent`, `RowContent`
says the same of the uncommitted pages of rows. `Take` writes only pages that
are nobody else's (`EachOnce`) and does not write a full page a second time;
`cache_req` gives the tree pages whose tokens are the path it stores them under
(`BlocksSegment`).

**Eviction of CacheManager.** `EvictInv` has three parts. `Sized`: the two
counters are the sizes of the unlocked part and of the whole tree, which a lemma
shows of each operation of the tree (`WalkSized`, `LockSized`, `UnlockSized`,
`InsertSized`, `EvictSized`); to unlock needs `RefCounts` again, for a count that
goes down must have been above 0. `AgesOrdered`: nodes touched at the same time
lie on one path, so no two leaves are of one age. `Covered`: what
`available_size` promised at the start of an allocation stays free or evictable
to its end. Then a page that is counted evictable lies in a node nobody holds, a
leaf below it is held by nobody either (`UnlockedExists`), and there is a victim.

`NothingIsLost` puts these together for the moment when no request is live: no
row then has a place of its own, so the bijection of `EachOnce` leaves only
`free_slots` and the tree, and with nobody holding a node all counts are 0
(`RefCounts`), so all of the tree is evictable (`Sized`).

**Scheduler.** `IInv` (`SchedulerInvariant`) says where a request may be. `Queue`:
the pending list holds each request once, and those the batch has taken over are
its front. `ThisBatch` and `LastBatch`: who is in the batch being put together
and in the one whose results are still to come, and that nobody of the latter has
been freed before. `Slots`: a row is free or one live request's. `LengthsOf`: a live request's
lengths are those of a part of its prompt about to be computed (`Extending`), of
the time between two parts (`BetweenChunks`) or of decoding (`Decoding`), where
the host is behind the device by just the batches without an answer
(`Unanswered`). `Decoders`: the running requests are those that can decode, from
the launch of their last part on. None of these holds by itself:
that a request is not freed twice needs to know who is in which batch, which
needs who decodes, which needs the lengths. The theorems assume `SafeAborts`, that
no request is aborted while the overlap loop has it in flight; without it the
finding `abort_in_flight` is a counterexample.

`OneReplyEnds` has `ReplyInv` beside it. `Replying`: a live request has been told no
end, and its replies are the tokens the host has beyond the prompt. `ToldOnce`: a
finished one has been told its end once, for its end token or at its limit, and the
replies it has and those of its batches without an answer (`Unanswered`) are no more
than that reply and `Lag`, which is the one batch `overlap_loop` is ahead. That the
answer to a batch meets the right token needs `Positions` and `LastPositions`: an
entry of a batch names the position of the token it samples, which is where the
device is, less what has been asked for since. When the limit is seen needs that the
device is ahead of the host by just that.

`LoopUsesCacheManager` is the refinement: `InitClient` maps the initial states,
and each action of `Next` has a lemma that it is an action of `CacheManager` or a
stutter. That admission fits the manager's `Admit` needs `Queue` (who is
admitted is not live yet), that a commit is of computed tokens needs
`HostKnows`, and that two requests never share a row needs `Slots`. It assumes
`[]AllocationFits`, as `allocate_paged` asserts: with pages of more than one token
the estimate does let the assertion fail (above), and the loop ends there. With it
everything proved of `CacheManager` is true of the pages and the tree of both
loops: `CMP` is `CacheManagerProofs` with the loop's variables for those of the
manager, `SameSpec` takes a behaviour of one instance to the other, and every
theorem of `CMP` can then be cited. `IdleLosesNothing` cites `CMP!NothingIsLost`: in
a blocked loop no request has anything allocated (`IdleSchedulerIsEmpty`), so
all pages are free or in the tree, which is `check_integrity`. The theorem
keeps the hypothesis `[]AllocationFits`, which pages of one token do not need.

For these, `ReservationIsEnough` counts. The claim of a live request is what it
has yet to compute, its last token excepted; `Covered` says that all claims
together (`ClaimSum`) are no more than what is free or evictable. An admission keeps this,
because the adder has then reserved all claims there are (`AdderCovers`), but
for two kinds of request. One that has ended its last batch and waits for the
answer is not in the running set, and claims nothing (`Decoders`). One between
two chunks claims its rest and is not counted either; `OneInChunks` says that
there is at most one, that it is first in the list, and that a batch with it
has no budget left for anybody new, so no admission happens before it is counted. A commit,
the end of a request and an eviction lose no page: `FinishGives`, `CommitGives` and
`EvictGives` of `CacheManagerProofs` say so of the pages the tree already
had. `CoverInv` has the invariants of both modules in it, since a step of the
loop is one of the manager only while the pages suffice. `AllocationsSucceed`
then drops the hypothesis of the two theorems above. With larger pages the claim is in tokens and
the need in pages, and the finding is a counterexample.

**RankBroadcast.** Ranks have no state in common, so the invariant speaks of one:
there is a sequence `h`, an entry per iteration, with the work left and the
requests launched after it, its batch, and how many messages had been handled
(`upto`). `Good(h)` says that this is the history of the group. `History`: the
entries of `log` are the messages between one `upto` and the next, and each entry
follows from the one before by what `Handle` and `Compute` do. `Follows`,
`Computes`: every rank, at its own iteration, is in the state `h` has there.
`Stream`: what a rank has pulled, what is in its socket and what rank 0 has yet to
publish are consecutive parts of the messages in order of arrival (`Slice`). `Leads`
and `Obeys`: rank 0 is at the end of the log or about to extend it, and the counts
in the group's queue are the differences of `upto`, less the message a rank has
already taken by blocking. Only rank 0 extends `h`; for the others a step is
to the next entry. The refinement of `RankLog` follows, since
`log` and the iterations handled are its state. `RanksTogether` adds that nothing
is handled twice and that replies and work left are at most what a request came
with (`RInv`). `FlattenSeq` is recursive: that it grows by what is appended
is proved by a smallest counterexample (`SmallestNat`).

The theorems assume what the two findings about messages deny: `~Late`, all ranks
have subscribed before the first message, and `[]RoomLeft`, no socket is at its
high-water mark. `FewMessagesFit` shows that the second follows from there being
fewer messages than the mark, as in the run `ranks`.

**NaiveCache.** `IInv == TypeOK /\ Lengths /\ PagePartition`. That `Finish`
returns the whole row needs `Lengths`, and that `Grow` gives a page to one row
only needs that `free_slots` has no page twice, which is part of the partition.
`NeverEvicts` (pages of one token) is the half of `ReservedIsFree == Reserved <=
Len(free_slots) /\ ~raised` that a run shows. `Admit` reserves all a request may
ever take; a step of `r` changes the sum of `MayAsk` by what it changes at `r`
alone (`TotalChanges`), and takes no more pages than it takes from `MayAsk(r)`.
That `MayAsk(r)` is never negative is `Bounded`. A sum is a recursive function
over finite sets: that it exists and that no order matters (`SumsExists`,
`SumsAny`) is proved by a smallest set that would be wrong.

**EngineSetup.** `IInv` ties each rank's place in the code to the all-reduces it
has given to (`Lengths`), to those completed and found acceptable (`Gates`), and
says that every decision and every exception is a function of completed ones
(`Decisions`, `Raises`). What has been given does not change, so any two ranks
that decide, decide alike.

**Startup.** `Creators` says who has bound what; that no two processes list the
same address as theirs is a lemma about `Sockets`. For `ServesOnlyWhenReady` the
acknowledgements in the queue and taken are exactly the processes that are ready
(`Counted`), their number is that of all processes that acknowledge only if all
have, and rank 0 is ready only behind a barrier (`Together`).

**Serving.** Of all processes only the frontend changes the maps, and the others
do not put messages into its pipes: a tokenizer takes some from the front, which
keeps what is said of all of them (`FramedHolds`, `TokenizeHolds`). `abort_user` runs only for handlers that were cancelled, which
have lost their client (`AbortsAreOfLost`), and so do the abort messages on
their way (`MessagesAreOfLost`); uids are new (`FreshUids`), so an entry that is
deleted is not another request's.

`Flow` says where messages and replies are. `At` names the place of a message, in
a pipe to a worker or in a batch behind it, and `Once` that it has one place: a
request is sent once (`AskedFor`), so nothing is issued for it before its message
is taken and it is not run a second time. `RepliesInOrder` is an equation of
concatenations; each step moves a part of it from one list into the next.
That `Listen` and `Detokenize` keep it needs that the filtered list of a
concatenation is the concatenation of the filtered lists (`OfConcat`, `OfFlattened`),
that a batch holds one reply for each of its requests needs their order to be a
permutation (`BatchOf`, by counting), and that a handler that has left a list
behind unread is not streaming any more needs `HeldNow`. `Ends`, `NormalEnds` and
`Handled` tie the final reply to running requests and to the detokenizer's
statuses. `Within` and `FlattenSeq` are recursive functions; what is needed of
them is proved by a smallest counterexample.

`NothingUnwanted` needs also that an abort stays behind its request, from the pipe
through the batches the worker makes of it to the scheduler (`AbortsBehind`); then
one that is handled finds its request running, ended or never begun, and nothing
of it comes later (`AbortWorks`). That a worker keeps them apart, requests first, is
`TokenizeMoves`: the place of every message after its turn. The theorem assumes
`OneTokenizer`, for with two the abort may go through the other process and
overtake, and `AbortedNotRunning` is false (section 4).

For `ImplementsService`, every action is an action of `RequestService` or a stutter:
`Deliver` shows just the next reply of `issued` (`NextDelivered`), and a reply is made
only for a request that has been sent.

**Cluster.** While it terminates its children the launcher has told all those
before its position (`Stopping`), and nothing is interrupted before it serves
(`BeforeServing`).

**Router.** `IInv == TypeOK /\ LogIsPast /\ CycleIsHealthy /\ BannedAvoided`,
the last two of which are `ChosenAreFit`: a call that has not ended was served,
and none is of a time to come. That the filtered lists (`Within`) have only
healthy workers that passed the filter, and that filtering for what is there
changes nothing, which `MarkUnhealthy` relies on, is proved by a smallest
counterexample, and so is that `Best` is in the list. For the limits, `Granted`
adds to `QpsWithinLimits` that what was granted in the second that runs is at
most what the trackers have counted in it. They may have counted more: the
global tracker counts a call that the user's limit then turns away. `Recent`
keeps the count of this second, and when the next one begins nothing was granted
in it (`LogIsPast`). `Paid` says that `token_used` is the sum of what was
granted. The sums of `MapThenSumSet` choose an order of the set; that it does
not matter is proved by a smallest set for which it would (`SumsAny`).
`LoadTestNeverFires` bounds each part of the score below the limits of
`SLOConfig` and below its warnings: a worker that passes the SLO filter is
beyond no limit and beyond two warnings at most (`ValidScore`).
`WorseIsNeverBetter` is for all metrics what `MCRouter` evaluates on its grid
(`NeverJudgedBetter`): what is beyond a threshold stays beyond it (`StaysBeyond`),
so breaches only grow, and with none of them warnings do (`MoreBreaches`); a part of
the score keeps its order through the rounding and the cap (`WorseScore`).

Only model-checked: everything about `TokenPool`, `BatchForward`,
`TensorParallel`, `Sampler` and `Detokenizer`. Liveness under fairness and `ENABLED`
are outside the prover's reach, and so are induction over data and recursive
operators. `Messages` encodes nested values with a recursive operator and is for
TLC only.

## 6. What is not modelled

- **Offline LLM.** It cannot be constructed: `Scheduler.__init__` reads
  `config.server_host` (`scheduler.py:142`), which the `SchedulerConfig` built in
  `llm.py` does not have, so it raises `AttributeError` before its first step.
- **Experts.** `models/register.py` names `Qwen3MoeForCausalLM`, whose module
  `models/qwen3_moe.py` is not in the repository; the stacking of experts in
  `load_weight` and `layers/moe.py` are left out.
- **Numbers.** A token is a value of a small set, a page a number, a tensor the
  sequence of its rows' names. Kernels are modelled by what they read and write,
  not by their arithmetic: attention, norms, rotary positions, activations,
  sampling probabilities beyond top-k and top-p, and the build of the kernels.
- **Faults outside the models**, seen while reading; no property depends on them.
  `engine.py:13` imports `dinollm.moe`, a package that is not in the repository, so the
  engine is modelled as if it were there. An empty prompt fails the assertion of
  `cache.py:42` and ends the scheduler; the models have prompts of at least one token.
  `run_cluster.py:71` gives the workers successive ports, while a worker's process
  group meets at its own port plus one (`args.py:66`), which is the HTTP port of the
  next worker: `Startup` has one server, `Cluster` no ports. The `/generate` of the
  router forwards `max_new_tokens` (`router.py:422`), but a worker requires
  `max_tokens` (`api.py:74`) and answers 422; in `Router` an answer may be of any kind.
- **What keeps no state or is not called.** Logging, metrics output, the health,
  model-list and stats pages, parsing of the command line; the router's
  `get_worker_for_user` and the policies other than the sticky one.
- **Generated code** (`proto/`), and **clients around the system**
  (`benchmark/`, `load_test/`, `tools/`, `monitoring/`).
- Capturing of CUDA graphs and the choice of their sizes, PyNCCL, and
  the shutdown of a single rank other than by an exit message.
