---------------------------- MODULE BatchForward ----------------------------
(***************************************************************************)
(* How one batch of the scheduler becomes tensors: padding, pages, input   *)
(* and output locations, the metadata of the two attention backends, and   *)
(* the buffers a CUDA graph was captured with, which keep what an earlier  *)
(* batch left in them (scheduler.py, engine.py, graph.py, attention/).     *)
(* The KV pool holds, instead of vectors, whose token was stored there.    *)
(* Positions, pages and locations count from 0, as in the code.            *)
(***************************************************************************)
EXTENDS Integers, SequencesExt, FiniteSetsExt

CONSTANTS Rows,                 \* the rows of the page table, but the dummy's
          PageSize, NumPages,
          Backend,              \* "fa" or "fi"
          GraphSizes,           \* graph_bs_list, as a set
          MaxSeqLen,            \* config.max_seq_len
          Align,                \* 32 in _align_up_32
          MaxRequests           \* bound: the requests of a run

BatchForwardAssumption ==
  /\ {PageSize, NumPages, MaxSeqLen, Align} \subseteq Nat \ {0}
  /\ GraphSizes \subseteq Nat \ {0} /\ MaxRequests \in Nat
  /\ Backend \in {"fa", "fi"}

DivCeil(a, b) == (a + b - 1) \div b

NumTokens == NumPages * PageSize
SeqLimit == IF MaxSeqLen < NumTokens THEN MaxSeqLen ELSE NumTokens

Width == DivCeil(SeqLimit, Align) * Align

Dummy == "dummy"                \* the row of dummy_req
MaxGraph == IF GraphSizes = {} THEN 0 ELSE Max(GraphSizes)

VARIABLES reqs,                 \* row -> request, a partial function
          page_table, kv,       \* row -> locations; location -> the token stored there
          capture,              \* the buffers of the graphs
          result,               \* history: what the last batch read, and its logits
          born                  \* the number of requests so far

vars == << reqs, page_table, kv, capture, result, born >>

-----------------------------------------------------------------------------
(* A batch is a sequence of requests [row, uid, cached, device]. *)

dummy_req == [row |-> Dummy, uid |-> 0, cached |-> 0, device |-> 1]

ExtendLen(req) == req.device - req.cached

CanUseGraph(batch, phase) == phase = "decode" /\ Len(batch) <= MaxGraph

GraphSize(batch, phase) ==
  IF CanUseGraph(batch, phase) THEN Min({b \in GraphSizes : b >= Len(batch)}) ELSE Len(batch)

\* pad_batch
Padded(batch, phase) ==
  batch \o [i \in 1..(GraphSize(batch, phase) - Len(batch)) |-> dummy_req]

\* The pages of the live requests, and the others in order
Held == {page_table[r][p * PageSize] \div PageSize :
           << r, p >> \in {<< r, p >> \in (DOMAIN reqs) \X (0..NumPages) :
                             p < DivCeil(reqs[r].cached, PageSize)}}
FreePages == SetToSortSeq((0..(NumPages - 1)) \ Held, <)

FirstPage(req) == DivCeil(req.cached, PageSize)
LastPage(req) == DivCeil(req.device, PageSize)

NeededPages(batch) == MapThenSumSet(LAMBDA i : LastPage(batch[i]) - FirstPage(batch[i]),
                                    DOMAIN batch)

\* allocate_paged: the page table with the new pages of the batch
Allocated(batch) ==
  LET Row(i) ==
        LET before == NeededPages(SubSeq(batch, 1, i - 1))
            first == FirstPage(batch[i])
        IN  [p \in 0..(Width - 1) |->
               IF p \div PageSize \in first..(LastPage(batch[i]) - 1)
               THEN FreePages[before + p \div PageSize - first + 1] * PageSize + (p % PageSize)
               ELSE page_table[batch[i].row][p]]
  IN  [r \in DOMAIN page_table |->
         IF \E i \in DOMAIN batch : batch[i].row = r
         THEN Row(CHOOSE i \in DOMAIN batch : batch[i].row = r) ELSE page_table[r]]

\* _make_positions and _make_input_tuple: the tokens of the batch in a row
TokensOf(padded) ==
  FlattenSeq([i \in DOMAIN padded |->
    [k \in 1..ExtendLen(padded[i]) |->
       [row |-> padded[i].row, uid |-> padded[i].uid, pos |-> padded[i].cached + k - 1]]])

CumSum(s) == [i \in 1..(Len(s) + 1) |-> FoldLeft(LAMBDA a, b : a + b, 0, SubSeq(s, 1, i - 1))]

\* cu_seqlens_q: decode, prefill without a cache hit, and prefill with one
CuQueries(padded) ==
  IF \A i \in DOMAIN padded : ExtendLen(padded[i]) = 1
  THEN [i \in 1..(Len(padded) + 1) |-> i - 1]
  ELSE IF \A i \in DOMAIN padded : padded[i].cached = 0
  THEN CumSum([i \in DOMAIN padded |-> padded[i].device])
  ELSE CumSum([i \in DOMAIN padded |-> ExtendLen(padded[i])])

Keys(padded) == [i \in DOMAIN padded |-> padded[i].device]

\* FlashAttention: every page of a row, for the longest request
FaPages(padded, table) ==
  LET longest == Max({padded[i].device : i \in DOMAIN padded})
  IN  [i \in DOMAIN padded |-> [c \in 1..DivCeil(longest, PageSize) |->
                                 table[padded[i].row][(c - 1) * PageSize] \div PageSize]]

\* FlashInfer: the locations of all requests one after the other
FiIndices(padded, table) ==
  FlattenSeq([i \in DOMAIN padded |->
                [p \in 1..padded[i].device |-> table[padded[i].row][p - 1]]])

Metadata(padded, table) ==
  [cu_q |-> CuQueries(padded), cu_k |-> CumSum(Keys(padded)), seq_lens |-> Keys(padded),
   pages |-> IF Backend = "fa" THEN FaPages(padded, table) ELSE << >>,
   indices |-> IF Backend = "fi" THEN FiIndices(padded, table) ELSE << >>]

\* The buffers a graph is captured with
Blank ==
  [cu_q |-> [i \in 1..(MaxGraph + 1) |-> i - 1],
   cu_k |-> [i \in 1..(MaxGraph + 1) |-> i - 1],
   seq_lens |-> [i \in 1..MaxGraph |-> 1],
   pages |-> IF Backend = "fi" THEN << >>
             ELSE [i \in 1..MaxGraph |-> [c \in 1..(Width \div PageSize) |-> 0]],
   indices |-> IF Backend = "fa" THEN << >>
               ELSE [i \in 1..(MaxGraph * Width) |-> IF i <= MaxGraph THEN NumTokens ELSE 0]]

\* new, with old where new is shorter
Over(new, old) == [i \in DOMAIN old |-> IF i <= Len(new) THEN new[i] ELSE old[i]]

CopiedWithoutLens(metadata) ==  \* mutant: lengths and indices are those of an earlier batch
  [capture EXCEPT
     !.cu_k = Over(metadata.cu_k, @),
     !.pages = [i \in DOMAIN @ |->
                  IF i <= Len(metadata.pages) THEN Over(metadata.pages[i], @[i]) ELSE @[i]]]

\* prepare_for_replay: the buffers of the graph with the metadata copied over
Copied(metadata) ==
  [capture EXCEPT
     !.cu_k = Over(metadata.cu_k, @), !.seq_lens = Over(metadata.seq_lens, @),
     !.indices = Over(metadata.indices, @),
     !.pages = [i \in DOMAIN @ |->
                  IF i <= Len(metadata.pages) THEN Over(metadata.pages[i], @[i]) ELSE @[i]]]

-----------------------------------------------------------------------------
\* The locations a kernel is given as the keys of the i-th request
FaKeys(md, i) ==
  [k \in 1..md.seq_lens[i] |->
     md.pages[i][(k - 1) \div PageSize + 1] * PageSize + ((k - 1) % PageSize)]
FiKeys(md, i) == SubSeq(md.indices, md.cu_k[i] + 1, md.cu_k[i + 1])

\* External: the j-th query of a request reads the keys up to its own place,
\* counted from the end.
Reads(md, i, j, store) ==
  LET queries == md.cu_q[i + 1] - md.cu_q[i]
      keys == IF Backend = "fa" THEN FaKeys(md, i) ELSE FiKeys(md, i)
  IN  [k \in 1..(Len(keys) - queries + j) |-> store[keys[k]]]

\* store_kv
Stored(tokens, out_loc) ==
  [loc \in DOMAIN kv |->
     IF \E t \in DOMAIN tokens : out_loc[t] = loc
     THEN LET t == CHOOSE t \in DOMAIN tokens : out_loc[t] = loc
          IN  << tokens[t].uid, tokens[t].pos >>
     ELSE kv[loc]]

\* The row of the hidden states that the LM head takes for the i-th request
LogitRow(md, phase, i) == IF phase = "prefill" THEN md.cu_q[i + 1] ELSE i

\* complete_one, of every request of the batch but not of the padding
Completed(batch) ==
  [r \in DOMAIN reqs |->
     IF \E i \in DOMAIN batch : batch[i].row = r
     THEN LET i == CHOOSE i \in DOMAIN batch : batch[i].row = r
          IN  [reqs[r] EXCEPT !.cached = batch[i].device]
     ELSE reqs[r]]

\* _prepare_batch and forward_batch
Forward(batch, phase) ==
  LET padded == Padded(batch, phase)
      table == Allocated(batch)
      tokens == TokensOf(padded)
      out_loc == [t \in DOMAIN tokens |-> table[tokens[t].row][tokens[t].pos]]
      store == Stored(tokens, out_loc)
      metadata == Metadata(padded, table)
      graph == CanUseGraph(batch, phase)
      used == IF graph THEN Copied(metadata) ELSE metadata
      Token(t) == << tokens[t].uid, tokens[t].pos >>
  IN  /\ NeededPages(batch) <= Len(FreePages)
      /\ page_table' = table
      /\ kv' = store
      /\ capture' = IF graph THEN used ELSE capture
      /\ result' =
           [reads |-> UNION {{<< Token(used.cu_q[i] + j), Reads(used, i, j, store) >> :
                                j \in 1..(used.cu_q[i + 1] - used.cu_q[i])} :
                               i \in DOMAIN padded},
            logits |-> [i \in DOMAIN batch |-> << batch[i], Token(LogitRow(used, phase, i)) >>]]
      /\ reqs' = Completed(batch)
      /\ UNCHANGED born

Scheduled(r, device) == [row |-> r, uid |-> reqs[r].uid, cached |-> reqs[r].cached,
                         device |-> device]

\* The requests whose prompts are not done, in any order and in any chunks
Prefill ==
  \E S \in SUBSET {r \in DOMAIN reqs : reqs[r].cached < reqs[r].prompt} \ {{}} :
    \E order \in SetToSeqs(S), device \in [S -> 1..SeqLimit] :
      /\ \A r \in S : device[r] \in (reqs[r].cached + 1)..reqs[r].prompt
      /\ Forward([i \in DOMAIN order |-> Scheduled(order[i], device[order[i]])], "prefill")

Running == {r \in DOMAIN reqs : reqs[r].cached >= reqs[r].prompt /\ reqs[r].cached + 1 < reqs[r].max}

\* All running requests, in the order of a set
Decode ==
  /\ Running # {}
  /\ \E order \in SetToSeqs(Running) :
       Forward([i \in DOMAIN order |-> Scheduled(order[i], reqs[order[i]].cached + 1)], "decode")

\* A request gets a row that another one has left
Add(r) ==
  /\ born < MaxRequests /\ r \notin DOMAIN reqs
  /\ \E prompt \in 1..(SeqLimit - 1) :
       reqs' = [x \in DOMAIN reqs \cup {r} |->
                  IF x = r THEN [uid |-> born + 1, cached |-> 0, prompt |-> prompt,
                                 max |-> SeqLimit] ELSE reqs[x]]
  /\ born' = born + 1
  /\ UNCHANGED << page_table, kv, capture, result >>

\* Finished or aborted: its pages are free
Release(r) ==
  /\ r \in DOMAIN reqs
  /\ reqs' = [x \in DOMAIN reqs \ {r} |-> reqs[x]]
  /\ UNCHANGED << page_table, kv, capture, result, born >>

DummyRow == [p \in 0..(Width - 1) |-> NumTokens]

Init ==
  /\ reqs = << >> /\ born = 0
  /\ page_table = [r \in Rows \cup {Dummy} |->
                     IF r = Dummy THEN DummyRow ELSE [p \in 0..(Width - 1) |-> 0]]
  /\ kv = [loc \in 0..(NumTokens + PageSize - 1) |-> << >>]
  /\ capture = Blank
  /\ result = [reads |-> {}, logits |-> << >>]

Next == Prefill \/ Decode \/ \E r \in Rows : Add(r) \/ Release(r)

Spec == Init /\ [][Next]_vars

-----------------------------------------------------------------------------
\* Every token attends to the tokens of its own request up to itself, each of
\* them once and in order: never to what an earlier request left in the row, in
\* the pages or in the buffers of a graph, and never to the padding.
AttendsToOwnPast ==
  \A x \in result.reads :
    x[1][1] # 0 => x[2] = [k \in 1..(x[1][2] + 1) |-> << x[1][1], k - 1 >>]

\* The logits of a request are those of its last token, whatever the padding.
LogitsOfLastToken ==
  \A i \in DOMAIN result.logits :
    LET req == result.logits[i][1] IN result.logits[i][2] = << req.uid, req.device - 1 >>

\* The padding writes to the dummy page only, and nothing else does.
DummyPageOnly ==
  \A loc \in DOMAIN kv :
    kv[loc] # << >> => (kv[loc][1] = 0 <=> loc >= NumTokens)

\* The last page of every request lies within its row, and within the page table
\* a graph was captured with.
RowsAreWideEnough ==
  \A r \in DOMAIN reqs :
    LET pages == DivCeil(reqs[r].cached, PageSize)
    IN  pages * PageSize <= Width /\ pages <= Width \div PageSize
=============================================================================
