-------------------------- MODULE CacheManagerProofs --------------------------
(***************************************************************************)
(* Proofs about CacheManager, for every set of requests, prompts, page     *)
(* size and number of pages: its types and the agreement of the reference  *)
(* counts with the live requests, then where every page is and what the    *)
(* pages of the tree and of the rows hold, and what an eviction may take.  *)
(***************************************************************************)
EXTENDS CacheManager, RadixPrefixCacheProofs

\* The inductive invariant.  The counts can only be shown to be right together
\* with the shape of the tree (a split must know which node it cuts), and the
\* types only together with the counts (a count never goes below 0).
IInv == TypeOK /\ Lengths /\ TreeShape /\ HandlesHeld /\ RefCounts

-----------------------------------------------------------------------------
(* Arithmetic of lengths and pages. *)

LEMMA CeilDivFacts ==
  ASSUME NEW a \in Nat, NEW b \in Nat \ {0}
  PROVE  /\ CeilDiv(a, b) \in Nat
         /\ a \div b <= CeilDiv(a, b)
         /\ \A c \in Nat : a <= c => CeilDiv(a, b) <= CeilDiv(c, b)
         /\ CeilDiv(b * a, b) = a
BY RoundedUp DEF CeilDiv

LEMMA BlocksType ==
  ASSUME NEW s \in Seq(Token)
  PROVE  Blocks(s) \in Seq(Block) /\ Len(Blocks(s)) = Len(s) \div PageSize
BY BlocksTyped DEF Block

-----------------------------------------------------------------------------
(* Holders of a path. *)

LEMMA HoldersFinite ==
  ASSUME NEW n
  PROVE  Holders(n) \in SUBSET Req /\ IsFiniteSet(Holders(n))
<1>1. Holders(n) \in SUBSET Req
  BY DEF Holders
<1> QED
  BY <1>1, ReqAssumption, FS_Subset

\* A stored path is held exactly by the requests that hold its node, and a path
\* that is not stored is held by nobody.
LEMMA HoldersOfPath ==
  ASSUME TypeOK, TreeShape, HandlesHeld, NEW p \in Seq(Block) \ {Root}
  PROVE  /\ p \in Paths(cache) => Holders(p) = Holders(NodeOf(cache, p))
         /\ p \notin Paths(cache) => Holders(p) = {}
<1>1. /\ CacheType(cache, Block, Page) /\ Trie(cache)
      /\ Nodes(cache) \subseteq Paths(cache) /\ Paths(cache) \subseteq Seq(Block)
  BY DEF TypeOK, CacheType, TreeShape
<1>2. ASSUME NEW r \in Holders(p)
      PROVE  r \in Req /\ Live(r) /\ handle[r] \in Nodes(cache) /\ IsPrefix(p, handle[r])
  <2>1. r \in Req /\ Live(r) /\ IsPrefix(p, handle[r])
    BY DEF Holders
  <2>2. handle[r] # Root
    BY <2>1, PrefixRoot
  <2> QED
    BY <2>1, <2>2 DEF HandlesHeld
<1>3. ASSUME p \in Paths(cache) PROVE Holders(p) = Holders(NodeOf(cache, p))
  <2> DEFINE n == NodeOf(cache, p)
  <2>1. IsNodeOf(cache, p, n)
    BY <1>1, <1>3, NodeOfPath
  <2> HIDE DEF n
  <2>2. n \in Nodes(cache) /\ n \in Seq(Block) /\ IsPrefix(p, n)
    BY <1>1, <2>1 DEF IsNodeOf
  <2>3. Holders(p) \subseteq Holders(n)
    BY <1>2, <2>1 DEF IsNodeOf, Holders
  <2>4. ASSUME NEW r \in Holders(n) PROVE r \in Holders(p)
    <3>1. r \in Req /\ Live(r) /\ IsPrefix(n, handle[r]) /\ handle[r] \in Seq(Block)
      BY <2>4 DEF Holders, TypeOK
    <3> QED
      BY <2>2, <3>1, PrefixTransitive DEF Holders
  <2> QED
    BY <2>3, <2>4 DEF n
<1>4. ASSUME p \notin Paths(cache) PROVE Holders(p) = {}
  <2> SUFFICES ASSUME NEW r \in Holders(p) PROVE FALSE
    OBVIOUS
  <2>1. handle[r] \in Nodes(cache) /\ handle[r] \in Seq(Block) /\ IsPrefix(p, handle[r])
    BY <1>1, <1>2
  <2>2. p = SubSeq(handle[r], 1, Len(p)) /\ Len(p) \in 0..Len(handle[r])
    BY <2>1, PrefixIsSegment
  <2>3. Len(p) # 0
    BY DEF Root
  <2>4. Len(p) \in 1..Len(handle[r]) /\ handle[r] \in Paths(cache)
    BY <1>1, <2>1, <2>2, <2>3
  <2>5. SubSeq(handle[r], 1, Len(p)) \in Paths(cache)
    BY <1>1, <2>4 DEF Trie
  <2> QED
    BY <1>4, <2>2, <2>5
<1> QED
  BY <1>3, <1>4

-----------------------------------------------------------------------------
(* The initial state and the steps. *)

LEMMA InitIInv ==
  ASSUME Init PROVE IInv
<1>1. /\ Paths(cache) = {} /\ Nodes(cache) = {}
      /\ cache = [page |-> [p \in {} |-> 0], ref |-> [n \in {} |-> 0],
                  age |-> [n \in {} |-> 0], evictable |-> 0, protected |-> 0]
  BY DEF Init, EmptyCache, Paths, Nodes
<1>2. CacheType(cache, Block, Page)
  <2>1. IsFiniteSet({})
    BY FS_EmptySet
  <2> QED
    BY <1>1, <2>1 DEF CacheType
<1>3. TreeShape /\ RefCounts
  BY <1>1 DEF TreeShape, Trie, RefCounts
<1>4. HandlesHeld
  BY DEF Init, HandlesHeld, Live
<1>5. /\ PageSize \in Nat \ {0} /\ Prompt \in [Req -> Seq(Token) \ {<< >>}]
      /\ NumPages \in Nat
  BY PageSizeAssumption, PromptAssumption, BoundAssumption
<1>6. Lengths
  <2>1. CeilDiv(0, PageSize) = 0
    <3>1. CeilDiv(PageSize * 0, PageSize) = 0 /\ PageSize * 0 = 0
      BY <1>5, CeilDivFacts
    <3> QED
      BY <3>1
  <2> QED
    BY <1>5, <2>1 DEF Init, Lengths, NoJob
<1>7. TypeOK
  <2>1. free_slots \in Seq(Page)
    BY <1>5 DEF Init, Page
  <2>2. Root \in Seq(Block) /\ << >> \in Seq(Page) /\ << >> \in Seq(Token)
    BY DEF Root
  <2> QED
    BY <1>2, <1>5, <2>1, <2>2 DEF Init, TypeOK, NoJob
<1> QED
  BY <1>3, <1>4, <1>6, <1>7 DEF IInv

\* match_req returns a stored path (or the root) no longer than the prompt's
\* full blocks.
LEMMA MatchReqType ==
  ASSUME TypeOK, NEW r \in Req
  PROVE  /\ MatchReq(r) \in {Root} \cup Paths(cache)
         /\ MatchReq(r) \in Seq(Block)
         /\ PageSize * Len(MatchReq(r)) <= Len(Prompt[r])
<1> DEFINE s == SubSeq(Prompt[r], 1, Len(Prompt[r]) - 1)
<1>1. Prompt[r] \in Seq(Token) /\ Len(Prompt[r]) \in Nat \ {0}
  BY PromptAssumption
<1>2. s \in Seq(Token) /\ Len(s) = Len(Prompt[r]) - 1
  BY <1>1
<1> HIDE DEF s
<1>3. Blocks(s) \in Seq(Block) /\ Len(Blocks(s)) = Len(s) \div PageSize
  BY <1>2, BlocksType
<1>4. CacheType(cache, Block, Page)
  BY DEF TypeOK
<1>5. /\ Matched(cache, Blocks(s)) \in {Root} \cup Paths(cache)
      /\ Matched(cache, Blocks(s)) \in Seq(Block)
      /\ IsPrefix(Matched(cache, Blocks(s)), Blocks(s))
  BY <1>3, <1>4, MatchedLongest
<1>6. Len(Matched(cache, Blocks(s))) <= Len(s) \div PageSize
  BY <1>3, <1>5, PrefixPointwise
<1>7. PageSize * Len(Matched(cache, Blocks(s))) <= Len(Prompt[r])
  <2> DEFINE k == Len(Matched(cache, Blocks(s)))
  <2>1. PageSize \in Nat \ {0} /\ Len(s) \in Nat /\ k \in Nat
    BY <1>2, <1>5, PageSizeAssumption
  <2>2. Len(s) <= Len(Prompt[r])
    BY <1>1, <1>2
  <2>3. k <= Len(s) \div PageSize
    BY <1>6
  <2> HIDE DEF k
  <2>4. PageSize * k \in Nat /\ PageSize * k <= Len(s)
    BY <2>1, <2>3, DivBelow
  <2> QED
    BY <1>1, <2>1, <2>2, <2>4 DEF k
<1> QED
  BY <1>5, <1>7 DEF MatchReq, s

\* After a walk to p the counts are still those of the holders.
LEMMA WalkCounts ==
  ASSUME IInv, NEW p \in {Root} \cup Paths(cache)
  PROVE  \A n \in Nodes(Walk(cache, p)) :
           Walk(cache, p).ref[n] = Cardinality(Holders(n))
<1>1. CacheType(cache, Block, Page) /\ Trie(cache)
  BY DEF IInv, TypeOK, TreeShape
<1>2. /\ Nodes(Walk(cache, p)) = Nodes(cache) \cup ({p} \ {Root})
      /\ \A n \in Nodes(cache) : Walk(cache, p).ref[n] = cache.ref[n]
      /\ \A n \in Nodes(Walk(cache, p)) \ Nodes(cache) :
           n = p /\ Walk(cache, p).ref[n] = cache.ref[NodeOf(cache, p)]
  BY <1>1, WalkNodes
<1>3. ASSUME NEW n \in Nodes(Walk(cache, p)) \ Nodes(cache)
      PROVE  Walk(cache, p).ref[n] = Cardinality(Holders(n))
  <2>1. n = p /\ p \in Paths(cache) /\ p \in Seq(Block) \ {Root}
    BY <1>1, <1>2, <1>3 DEF CacheType
  <2>2. Holders(p) = Holders(NodeOf(cache, p))
    BY <2>1, HoldersOfPath DEF IInv
  <2>3. NodeOf(cache, p) \in Nodes(cache)
    BY <1>1, <2>1, NodeOfPath DEF IsNodeOf
  <2> QED
    BY <1>2, <2>1, <2>2, <2>3 DEF IInv, RefCounts
<1> QED
  BY <1>2, <1>3 DEF IInv, RefCounts

LEMMA RefuseStep ==
  ASSUME IInv, NEW r \in Req, Refuse(r) PROVE IInv'
<1> DEFINE h == MatchReq(r)
<1>1. CacheType(cache, Block, Page) /\ Trie(cache)
  BY DEF IInv, TypeOK, TreeShape
<1>2. h \in {Root} \cup Paths(cache)
  BY MatchReqType DEF IInv
<1>3. /\ cache' = Walk(cache, h)
      /\ UNCHANGED << free_slots, phase, ids, cached_len, handle, row, kv, job >>
  BY DEF Refuse
<1> HIDE DEF h
<1>4. /\ CacheType(cache', Block, Page) /\ Trie(cache')
      /\ Nodes(cache') = Nodes(cache) \cup ({h} \ {Root})
  BY <1>1, <1>2, <1>3, WalkNodes, WalkTrie
<1>5. TypeOK'
  BY <1>3, <1>4 DEF IInv, TypeOK
<1>6. Lengths' /\ TreeShape'
  BY <1>3, <1>4 DEF IInv, Lengths, TreeShape, Live
<1>7. HandlesHeld'
  BY <1>3, <1>4 DEF IInv, HandlesHeld, Live
<1>8. RefCounts'
  <2>1. \A n : Holders(n)' = Holders(n)
    BY <1>3 DEF Holders, Live
  <2> QED
    BY <1>2, <1>3, <2>1, WalkCounts DEF RefCounts
<1> QED
  BY <1>5, <1>6, <1>7, <1>8 DEF IInv

LEMMA AdmitStep ==
  ASSUME IInv, NEW r \in Req, Admit(r) PROVE IInv'
<1> DEFINE h == MatchReq(r)
           w == Walk(cache, h)
<1>1. CacheType(cache, Block, Page) /\ Trie(cache)
  BY DEF IInv, TypeOK, TreeShape
<1>2. /\ h \in {Root} \cup Paths(cache) /\ h \in Seq(Block)
      /\ PageSize * Len(h) <= Len(Prompt[r])
  BY MatchReqType DEF IInv
<1>3. /\ phase[r] = "waiting" /\ cache' = Lock(w, h)
      /\ handle' = [handle EXCEPT ![r] = h]
      /\ cached_len' = [cached_len EXCEPT ![r] = PageSize * Len(h)]
      /\ row' = [row EXCEPT ![r] = MatchedPages(cache, h)]
      /\ phase' = [phase EXCEPT ![r] = "admitted"]
      /\ job = NoJob /\ UNCHANGED << free_slots, ids, kv, job >>
  BY DEF Admit
<1> HIDE DEF h
<1>4. /\ CacheType(w, Block, Page) /\ Trie(w)
      /\ Nodes(w) = Nodes(cache) \cup ({h} \ {Root})
      /\ \A n \in Nodes(w) : w.ref[n] = Cardinality(Holders(n))
  BY <1>1, <1>2, WalkNodes, WalkTrie, WalkCounts
<1> HIDE DEF w
<1>5. /\ CacheType(cache', Block, Page) /\ Trie(cache') /\ Nodes(cache') = Nodes(w)
      /\ \A n \in Nodes(w) :
           cache'.ref[n] = IF IsPrefix(n, h) THEN w.ref[n] + 1 ELSE w.ref[n]
  BY <1>3, <1>4, LockNodes
<1>6. MatchedPages(cache, h) \in Seq(Page) /\ Len(MatchedPages(cache, h)) = Len(h)
  <2>1. ASSUME NEW i \in 1..Len(h) PROVE cache.page[SubSeq(h, 1, i)] \in Page
    <3>1. h \in Paths(cache)
      BY <1>2 DEF Root
    <3>2. SubSeq(h, 1, i) \in Paths(cache)
      BY <1>1, <3>1 DEF Trie
    <3> QED
      BY <1>1, <3>2 DEF CacheType
  <2>2. Len(h) \in Nat
    BY <1>2
  <2> QED
    BY <2>1, <2>2 DEF MatchedPages
<1>7. PageSize \in Nat \ {0} /\ Len(h) \in Nat /\ PageSize * Len(h) \in Nat
  BY <1>2, PageSizeAssumption
<1>8. TypeOK'
  BY <1>2, <1>3, <1>5, <1>6, <1>7 DEF IInv, TypeOK
<1>9. Lengths'
  <2>1. CeilDiv(PageSize * Len(h), PageSize) = Len(h)
    BY <1>7, CeilDivFacts
  <2>2. Len(Prompt[r]) <= Len(ids[r]) /\ Len(ids[r]) \in Nat /\ Len(Prompt[r]) \in Nat
    BY PromptAssumption DEF IInv, Lengths, TypeOK
  <2>3. PageSize * Len(h) <= Len(ids[r])
    BY <1>2, <1>7, <2>2
  <2>4. \A s \in Req : s # r => cached_len'[s] = cached_len[s] /\ row'[s] = row[s]
    BY <1>3 DEF IInv, TypeOK
  <2>5. cached_len'[r] = PageSize * Len(h) /\ Len(row'[r]) = Len(h)
    BY <1>3, <1>6 DEF IInv, TypeOK
  <2> QED
    BY <1>3, <2>1, <2>3, <2>4, <2>5 DEF IInv, Lengths, NoJob
<1>10. TreeShape'
  BY <1>5 DEF TreeShape
<1>11. \A s \in Req : s # r => handle'[s] = handle[s] /\ phase'[s] = phase[s]
  BY <1>3 DEF IInv, TypeOK
<1>12. handle'[r] = h /\ phase'[r] = "admitted" /\ ~ Live(r)
  BY <1>3 DEF IInv, TypeOK, Live
<1>13. HandlesHeld'
  <2>1. cached_len'[r] = PageSize * Len(h)
    BY <1>3 DEF IInv, TypeOK
  <2>2. PageSize * Len(h) <= PageSize * Len(h)
    BY <1>7
  <2>3. ASSUME NEW s \in Req, s # r, Live(s)'
        PROVE  /\ handle'[s] \in Nodes(cache') \cup {Root}
               /\ PageSize * Len(handle'[s]) <= cached_len'[s]
    <3>1. cached_len'[s] = cached_len[s] /\ Live(s)
      BY <1>3, <1>11, <2>3 DEF IInv, TypeOK, Live
    <3> QED
      BY <1>4, <1>5, <1>11, <2>3, <3>1 DEF IInv, HandlesHeld
  <2> QED
    BY <1>4, <1>5, <1>12, <2>1, <2>2, <2>3 DEF HandlesHeld
<1>14. RefCounts'
  <2> SUFFICES ASSUME NEW n \in Nodes(w) PROVE cache'.ref[n] = Cardinality(Holders(n)')
    BY <1>5 DEF RefCounts
  <2>1. IsFiniteSet(Holders(n)) /\ r \notin Holders(n)
    BY <1>12, HoldersFinite DEF Holders
  <2>2. Holders(n)' = IF IsPrefix(n, h) THEN Holders(n) \cup {r} ELSE Holders(n)
    BY <1>11, <1>12 DEF Holders, Live
  <2>3. Cardinality(Holders(n) \cup {r}) = Cardinality(Holders(n)) + 1
    BY <2>1, FS_AddElement
  <2> QED
    BY <1>4, <1>5, <2>2, <2>3
<1> QED
  BY <1>8, <1>9, <1>10, <1>13, <1>14 DEF IInv

LEMMA StartAllocStep ==
  ASSUME IInv, NEW r \in Req, NEW n \in Targets(r), StartAlloc(r, n) PROVE IInv'
<1>1. /\ Live(r) /\ job' = [req |-> {r}, upto |-> n]
      /\ UNCHANGED << cache, free_slots, phase, cached_len, handle, row, kv >>
  BY DEF StartAlloc
<1>2. /\ cached_len[r] \in Nat /\ Len(Prompt[r]) \in Nat /\ MaxNew \in Nat
      /\ ids[r] \in Seq(Token) /\ Len(Prompt[r]) <= Len(ids[r])
      /\ cached_len[r] <= Len(ids[r])
  BY PromptAssumption, BoundAssumption DEF IInv, TypeOK, Lengths
<1>3. n \in Nat /\ cached_len[r] < n /\ n <= Len(ids[r]) + 1
  BY <1>2 DEF Targets
<1>4. /\ ids' \in [Req -> Seq(Token)] /\ n <= Len(ids'[r])
      /\ \A s \in Req : Len(ids[s]) <= Len(ids'[s])
  <2>1. CASE n <= Len(ids[r]) /\ UNCHANGED ids
    <3>1. \A s \in Req : Len(ids[s]) \in Nat
      BY DEF IInv, TypeOK
    <3> QED
      BY <2>1, <3>1 DEF IInv, TypeOK
  <2>2. CASE n > Len(ids[r]) /\ \E t \in Token : ids' = [ids EXCEPT ![r] = Append(@, t)]
    <3>1. PICK t \in Token : ids' = [ids EXCEPT ![r] = Append(@, t)]
      BY <2>2
    <3>2. Append(ids[r], t) \in Seq(Token) /\ Len(Append(ids[r], t)) = Len(ids[r]) + 1
      BY <1>2, AppendProperties
    <3>3. \A s \in Req : ids'[s] = IF s = r THEN Append(ids[r], t) ELSE ids[s]
      BY <3>1 DEF IInv, TypeOK
    <3>4. \A s \in Req : Len(ids[s]) \in Nat
      BY DEF IInv, TypeOK
    <3>5. ids' \in [Req -> Seq(Token)]
      BY <3>1, <3>2 DEF IInv, TypeOK
    <3> QED
      BY <1>2, <1>3, <3>2, <3>3, <3>4, <3>5
  <2> QED
    BY <2>1, <2>2 DEF StartAlloc
<1>5. TypeOK'
  BY <1>1, <1>3, <1>4 DEF IInv, TypeOK
<1>6. Lengths'
  <2>1. ASSUME NEW s \in Req
        PROVE  Len(Prompt[s]) <= Len(ids'[s]) /\ cached_len[s] <= Len(ids'[s])
    <3>1. /\ Len(Prompt[s]) \in Nat /\ cached_len[s] \in Nat
          /\ Len(ids[s]) \in Nat /\ Len(ids'[s]) \in Nat
      BY <1>4, PromptAssumption DEF IInv, TypeOK
    <3>2. /\ Len(Prompt[s]) <= Len(ids[s]) /\ cached_len[s] <= Len(ids[s])
          /\ Len(ids[s]) <= Len(ids'[s])
      BY <1>4 DEF IInv, Lengths
    <3> QED
      BY <3>1, <3>2
  <2> QED
    BY <1>1, <1>3, <1>4, <2>1 DEF IInv, Lengths, Live
<1>7. TreeShape' /\ HandlesHeld'
  BY <1>1 DEF IInv, TreeShape, HandlesHeld, Live
<1>8. RefCounts'
  BY <1>1 DEF IInv, RefCounts, Holders, Live
<1> QED
  BY <1>5, <1>6, <1>7, <1>8 DEF IInv

LEMMA EvictOneStep ==
  ASSUME IInv, NEW r \in Req, EvictOne(r) PROVE IInv'
<1>1. PICK v \in Victims(cache) :
         /\ cache' = EvictLeaf(cache, v)
         /\ free_slots' = free_slots \o EvictedPages(cache, v)
  BY DEF EvictOne
<1>2. UNCHANGED << phase, ids, cached_len, handle, row, kv, job >>
  BY DEF EvictOne
<1>3. CacheType(cache, Block, Page) /\ Trie(cache)
  BY DEF IInv, TypeOK, TreeShape
<1>4. v \in Leaves(cache) /\ v \in Nodes(cache) /\ cache.ref[v] = 0 /\ v \in Seq(Block)
  BY <1>3 DEF Victims, Unlocked, Leaves, CacheType
<1>5. /\ Nodes(cache') = Nodes(cache) \ {v}
      /\ \A n \in Nodes(cache') : cache'.ref[n] = cache.ref[n]
      /\ CacheType(cache', Block, Page) /\ Trie(cache')
  BY <1>1, <1>3, <1>4, EvictNodes
<1>6. free_slots' \in Seq(Page)
  <2>1. EvictedPages(cache, v) \in Seq(Page) /\ free_slots \in Seq(Page)
    BY <1>3, <1>4, EvictedType DEF IInv, TypeOK
  <2> QED
    BY <1>1, <2>1, ConcatProperties
<1>7. TypeOK'
  BY <1>2, <1>5, <1>6 DEF IInv, TypeOK
<1>8. Lengths' /\ TreeShape'
  BY <1>2, <1>5 DEF IInv, Lengths, TreeShape, Live
<1>9. \A s \in Req : Live(s) => handle[s] # v
  <2> SUFFICES ASSUME NEW s \in Req, Live(s), handle[s] = v PROVE FALSE
    OBVIOUS
  <2>1. s \in Holders(v)
    BY <1>4, PrefixReflexive DEF Holders
  <2>2. Cardinality(Holders(v)) = 0 /\ IsFiniteSet(Holders(v))
    BY <1>4, HoldersFinite DEF IInv, RefCounts
  <2> QED
    BY <2>1, <2>2, FS_EmptySet
<1>10. HandlesHeld'
  BY <1>2, <1>5, <1>9 DEF IInv, HandlesHeld, Live
<1>11. RefCounts'
  BY <1>2, <1>5 DEF IInv, RefCounts, Holders, Live
<1> QED
  BY <1>7, <1>8, <1>10, <1>11 DEF IInv

LEMMA TakeStep ==
  ASSUME IInv, NEW r \in Req, Take(r) PROVE IInv'
<1> DEFINE n == job.upto
           k == PagesFor(r, n)
           rw == row[r] \o SubSeq(free_slots, 1, k)
<1>1. /\ job.req = {r} /\ k <= Len(free_slots)
      /\ row' = [row EXCEPT ![r] = rw]
      /\ free_slots' = SubSeq(free_slots, k + 1, Len(free_slots))
      /\ kv' = Stored(r, rw, n)
      /\ cached_len' = [cached_len EXCEPT ![r] = n]
      /\ job' = NoJob /\ UNCHANGED << cache, phase, ids, handle >>
  BY DEF Take
<1>2. /\ Live(r) /\ cached_len[r] < n /\ n <= Len(ids[r]) /\ n \in Nat
      /\ cached_len[r] \in Nat /\ ids[r] \in Seq(Token) /\ row[r] \in Seq(Page)
      /\ free_slots \in Seq(Page) /\ PageSize \in Nat \ {0}
      /\ Len(row[r]) = CeilDiv(cached_len[r], PageSize)
  BY <1>1, PageSizeAssumption DEF IInv, TypeOK, Lengths
<1>3. /\ CeilDiv(n, PageSize) \in Nat /\ CeilDiv(cached_len[r], PageSize) \in Nat
      /\ CeilDiv(cached_len[r], PageSize) <= CeilDiv(n, PageSize)
  <2> DEFINE m == cached_len[r]
  <2>1. m \in Nat /\ n \in Nat /\ m <= n /\ PageSize \in Nat \ {0}
    BY <1>2
  <2> HIDE DEF m, n
  <2>2. CeilDiv(n, PageSize) \in Nat /\ CeilDiv(m, PageSize) \in Nat
    BY <2>1, CeilDivFacts
  <2>3. CeilDiv(m, PageSize) <= CeilDiv(n, PageSize)
    BY <2>1, CeilDivFacts
  <2> QED
    BY <2>2, <2>3 DEF m
<1>4. k \in Nat /\ k = CeilDiv(n, PageSize) - CeilDiv(cached_len[r], PageSize)
  BY <1>3 DEF PagesFor
<1> HIDE DEF n, k
<1>5. rw \in Seq(Page) /\ Len(rw) = CeilDiv(n, PageSize)
  <2>1. SubSeq(free_slots, 1, k) \in Seq(Page) /\ Len(SubSeq(free_slots, 1, k)) = k
    BY <1>1, <1>2, <1>4
  <2>2. rw \in Seq(Page) /\ Len(rw) = Len(row[r]) + k
    BY <1>2, <2>1, ConcatProperties
  <2> QED
    BY <1>2, <1>3, <1>4, <2>2
<1> HIDE DEF rw
<1>6. kv' \in [Page -> Seq(Token)]
  <2>1. ASSUME NEW j \in Int, cached_len[r] \div PageSize + 1 <= j
        PROVE  SubSeq(ids[r], 1, Smaller(j * PageSize, n)) \in Seq(Token)
    <3>1. cached_len[r] \div PageSize \in Nat
      BY <1>2, DivBounds
    <3>2. j \in Nat /\ j * PageSize \in Nat
      BY <1>2, <2>1, <3>1
    <3>3. Smaller(j * PageSize, n) \in Nat /\ Smaller(j * PageSize, n) <= n
      BY <1>2, <3>2 DEF Smaller
    <3>4. Smaller(j * PageSize, n) <= Len(ids[r])
      BY <1>2, <3>3
    <3> QED
      BY <1>2, <3>3, <3>4
  <2> DEFINE first == cached_len[r] \div PageSize + 1
             last == CeilDiv(n, PageSize)
             at(p) == CHOOSE j \in first..last : rw[j] = p
             new(p) == IF \E i \in first..last : rw[i] = p
                       THEN SubSeq(ids[r], 1, Smaller(at(p) * PageSize, n))
                       ELSE kv[p]
  <2>2. Stored(r, rw, n) = [p \in Page |-> new(p)]
    BY DEF Stored
  <2>3. ASSUME NEW p \in Page PROVE new(p) \in Seq(Token)
    <3>1. CASE \E i \in first..last : rw[i] = p
      <4>1. at(p) \in first..last
        BY <3>1
      <4>2. first \in Int /\ last \in Int
        BY <1>2, <1>3, DivBounds
      <4> HIDE DEF at, first, last
      <4>3. at(p) \in Int /\ first <= at(p)
        BY <4>1, <4>2
      <4> QED
        BY <2>1, <3>1, <4>3 DEF first
    <3>2. CASE ~ \E i \in first..last : rw[i] = p
      BY <3>2 DEF IInv, TypeOK
    <3> QED
      BY <3>1, <3>2
  <2> HIDE DEF new
  <2> QED
    BY <1>1, <2>2, <2>3
<1>7. free_slots' \in Seq(Page)
  BY <1>1, <1>2, <1>4
<1>8. TypeOK'
  BY <1>1, <1>2, <1>5, <1>6, <1>7 DEF IInv, TypeOK, NoJob
<1>9. \A s \in Req : s # r => cached_len'[s] = cached_len[s] /\ row'[s] = row[s]
  BY <1>1 DEF IInv, TypeOK
<1>10. cached_len'[r] = n /\ row'[r] = rw
  BY <1>1 DEF IInv, TypeOK
<1>11. Lengths'
  BY <1>1, <1>2, <1>5, <1>9, <1>10 DEF IInv, Lengths, NoJob
<1>12. HandlesHeld'
  <2>1. PageSize * Len(handle[r]) <= n
    <3>1. PageSize * Len(handle[r]) <= cached_len[r] /\ Len(handle[r]) \in Nat
      BY <1>2 DEF IInv, HandlesHeld, TypeOK
    <3>2. PageSize * Len(handle[r]) \in Nat
      BY <1>2, <3>1
    <3> QED
      BY <1>2, <3>1, <3>2
  <2> QED
    BY <1>1, <1>9, <1>10, <2>1 DEF IInv, HandlesHeld, Live
<1>13. TreeShape' /\ RefCounts'
  BY <1>1 DEF IInv, TreeShape, RefCounts, Holders, Live
<1> QED
  BY <1>8, <1>11, <1>12, <1>13 DEF IInv

\* The common part of both forms of cache_req: r's computed blocks are inserted
\* and its old handle is unlocked, which leaves the counts of the other holders.
LEMMA CacheReq ==
  ASSUME IInv, NEW r \in Req, Live(r)
  PROVE  LET u == Unlock(Insert(cache, Computed(r), row[r]), handle[r])
         IN /\ CacheType(u, Block, Page) /\ Trie(u)
            /\ Nodes(cache) \subseteq Nodes(u)
            /\ \A n \in Nodes(u) : u.ref[n] = Cardinality(Holders(n) \ {r})
            /\ Computed(r) \in Nodes(u) \cup {Root} /\ Computed(r) \in Seq(Block)
            /\ PageSize * Len(Computed(r)) <= cached_len[r]
            /\ Len(Computed(r)) <= Len(row[r])
            /\ Len(Matched(cache, Computed(r))) \in 0..Len(row[r])
<1> DEFINE s == SubSeq(ids[r], 1, cached_len[r])
           c == Insert(cache, Computed(r), row[r])
           u == Unlock(c, handle[r])
<1>1. CacheType(cache, Block, Page) /\ Trie(cache)
  BY DEF IInv, TypeOK, TreeShape
<1>2. /\ cached_len[r] \in Nat /\ cached_len[r] <= Len(ids[r]) /\ ids[r] \in Seq(Token)
      /\ row[r] \in Seq(Page) /\ PageSize \in Nat \ {0}
      /\ Len(row[r]) = CeilDiv(cached_len[r], PageSize)
  BY PageSizeAssumption DEF IInv, TypeOK, Lengths
<1>3. s \in Seq(Token) /\ Len(s) = cached_len[r]
  BY <1>2
<1>4. /\ Computed(r) \in Seq(Block)
      /\ Len(Computed(r)) = cached_len[r] \div PageSize
  <2>1. Computed(r) = Blocks(s)
    BY DEF Computed
  <2> HIDE DEF s
  <2> QED
    BY <1>3, <2>1, BlocksType
<1>5. /\ Len(Computed(r)) <= Len(row[r])
      /\ PageSize * Len(Computed(r)) <= cached_len[r]
  BY <1>2, <1>4, DivBounds, CeilDivFacts
<1>6. /\ Nodes(cache) \subseteq Nodes(c) /\ Computed(r) \in Nodes(c) \cup {Root}
      /\ \A n \in Nodes(cache) : c.ref[n] = cache.ref[n]
      /\ \A n \in Nodes(c) \ Nodes(cache) :
           \/ n \in Paths(cache) /\ c.ref[n] = cache.ref[NodeOf(cache, n)]
           \/ n \notin Paths(cache) /\ c.ref[n] = 0
      /\ CacheType(c, Block, Page) /\ Trie(c)
  BY <1>1, <1>2, <1>4, <1>5, InsertNodes
<1> HIDE DEF c
<1>7. ASSUME NEW n \in Nodes(c) PROVE c.ref[n] = Cardinality(Holders(n))
  <2>1. CASE n \in Nodes(cache)
    BY <1>6, <2>1 DEF IInv, RefCounts
  <2>2. CASE n \notin Nodes(cache)
    <3>1. n \in Seq(Block) \ {Root}
      BY <1>6 DEF CacheType
    <3>2. CASE n \in Paths(cache) /\ c.ref[n] = cache.ref[NodeOf(cache, n)]
      <4>1. Holders(n) = Holders(NodeOf(cache, n))
        BY <3>1, <3>2, HoldersOfPath DEF IInv
      <4>2. NodeOf(cache, n) \in Nodes(cache)
        BY <1>1, <3>2, NodeOfPath DEF IsNodeOf
      <4> QED
        BY <3>2, <4>1, <4>2 DEF IInv, RefCounts
    <3>3. CASE n \notin Paths(cache) /\ c.ref[n] = 0
      <4>1. Holders(n) = {}
        BY <3>1, <3>3, HoldersOfPath DEF IInv
      <4> QED
        BY <3>3, <4>1, FS_EmptySet
    <3> QED
      BY <1>6, <2>2, <3>2, <3>3
  <2> QED
    BY <2>1, <2>2
<1>8. ASSUME NEW n \in Nodes(c)
      PROVE  /\ IsPrefix(n, handle[r]) => c.ref[n] > 0
             /\ Cardinality(Holders(n) \ {r}) =
                  IF IsPrefix(n, handle[r]) THEN c.ref[n] - 1 ELSE c.ref[n]
  <2>1. IsFiniteSet(Holders(n)) /\ (r \in Holders(n) <=> IsPrefix(n, handle[r]))
    BY HoldersFinite DEF Holders
  <2>2. Cardinality(Holders(n) \ {r}) =
          IF r \in Holders(n) THEN Cardinality(Holders(n)) - 1 ELSE Cardinality(Holders(n))
    BY <2>1, FS_RemoveElement
  <2>3. Cardinality(Holders(n)) \in Nat
    BY <2>1, FS_CardinalityType
  <2>4. r \in Holders(n) => Cardinality(Holders(n)) # 0
    BY <2>1, FS_EmptySet
  <2> QED
    BY <1>7, <2>1, <2>2, <2>3, <2>4
<1>9. /\ Nodes(u) = Nodes(c) /\ CacheType(u, Block, Page) /\ Trie(u)
      /\ \A n \in Nodes(c) :
           u.ref[n] = IF IsPrefix(n, handle[r]) THEN c.ref[n] - 1 ELSE c.ref[n]
  <2>1. \A n \in Nodes(c) : IsPrefix(n, handle[r]) => c.ref[n] > 0
    BY <1>8
  <2> QED
    BY <1>6, <2>1, UnlockNodes
<1>10. Len(Matched(cache, Computed(r))) \in 0..Len(row[r])
  <2>1. /\ Matched(cache, Computed(r)) \in Seq(Block)
        /\ IsPrefix(Matched(cache, Computed(r)), Computed(r))
    BY <1>1, <1>4, MatchedLongest
  <2>2. Len(Matched(cache, Computed(r))) \in 0..Len(Computed(r))
    BY <1>4, <2>1, PrefixIsSegment
  <2>3. Len(Computed(r)) \in Nat /\ Len(row[r]) \in Nat
    BY <1>2, <1>4
  <2> QED
    BY <1>5, <2>2, <2>3
<1> HIDE DEF u
<1>11. \A n \in Nodes(u) : u.ref[n] = Cardinality(Holders(n) \ {r})
  BY <1>8, <1>9
<1> QED
  BY <1>4, <1>5, <1>6, <1>9, <1>10, <1>11 DEF u, c

LEMMA CommitStep ==
  ASSUME IInv, NEW r \in Req, Commit(r) PROVE IInv'
<1> DEFINE u == Unlock(Insert(cache, Computed(r), row[r]), handle[r])
           b == Computed(r)
           m == Len(Matched(cache, b))
<1>1. /\ phase[r] = "admitted" /\ Live(r)
      /\ cache' = Lock(u, b)
      /\ free_slots' = free_slots \o SubSeq(row[r], Len(handle[r]) + 1, m)
      /\ handle' = [handle EXCEPT ![r] = b]
      /\ phase' = [phase EXCEPT ![r] = "committed"]
      /\ UNCHANGED << ids, cached_len, row, kv, job >>
  BY DEF Commit, Live
<1>2. /\ CacheType(u, Block, Page) /\ Trie(u) /\ Nodes(cache) \subseteq Nodes(u)
      /\ \A n \in Nodes(u) : u.ref[n] = Cardinality(Holders(n) \ {r})
      /\ b \in Nodes(u) \cup {Root} /\ b \in Seq(Block)
      /\ PageSize * Len(b) <= cached_len[r] /\ m \in 0..Len(row[r])
  BY <1>1, CacheReq
<1> HIDE DEF u, b, m
<1>3. /\ Nodes(cache') = Nodes(u)
      /\ \A n \in Nodes(u) :
           cache'.ref[n] = IF IsPrefix(n, b) THEN u.ref[n] + 1 ELSE u.ref[n]
      /\ CacheType(cache', Block, Page) /\ Trie(cache')
  BY <1>1, <1>2, LockNodes
<1>4. free_slots' \in Seq(Page)
  <2>1. /\ free_slots \in Seq(Page) /\ row[r] \in Seq(Page) /\ Len(handle[r]) \in Nat
    BY DEF IInv, TypeOK
  <2>2. \A i \in (Len(handle[r]) + 1)..m : row[r][i] \in Page
    BY <1>2, <2>1
  <2>3. SubSeq(row[r], Len(handle[r]) + 1, m) \in Seq(Page)
    BY <1>2, <2>1, <2>2, SubSeqProperties
  <2> QED
    BY <1>1, <2>1, <2>3, ConcatProperties
<1>5. TypeOK'
  BY <1>1, <1>2, <1>3, <1>4 DEF IInv, TypeOK
<1>6. \A s \in Req : s # r => handle'[s] = handle[s] /\ phase'[s] = phase[s]
  BY <1>1 DEF IInv, TypeOK
<1>7. handle'[r] = b /\ phase'[r] = "committed"
  BY <1>1 DEF IInv, TypeOK
<1>8. \A s \in Req : Live(s)' <=> Live(s)
  BY <1>1, <1>6, <1>7 DEF Live
<1>9. Lengths' /\ TreeShape'
  <2>1. \A s \in job.req : Live(s)'
    BY <1>8 DEF IInv, Lengths, TypeOK
  <2> QED
    BY <1>1, <1>3, <2>1 DEF IInv, Lengths, TreeShape
<1>10. HandlesHeld'
  BY <1>1, <1>2, <1>3, <1>6, <1>7, <1>8 DEF IInv, HandlesHeld
<1>11. RefCounts'
  <2> SUFFICES ASSUME NEW n \in Nodes(u) PROVE cache'.ref[n] = Cardinality(Holders(n)')
    BY <1>3 DEF RefCounts
  <2>1. Holders(n)' = IF IsPrefix(n, b) THEN (Holders(n) \ {r}) \cup {r} ELSE Holders(n) \ {r}
    BY <1>1, <1>6, <1>7, <1>8 DEF Holders
  <2>2. IsFiniteSet(Holders(n) \ {r}) /\ r \notin Holders(n) \ {r}
    BY HoldersFinite, FS_RemoveElement
  <2>3. Cardinality((Holders(n) \ {r}) \cup {r}) = Cardinality(Holders(n) \ {r}) + 1
    BY <2>2, FS_AddElement
  <2> QED
    BY <1>2, <1>3, <2>1, <2>3
<1> QED
  BY <1>5, <1>9, <1>10, <1>11 DEF IInv

LEMMA FinishStep ==
  ASSUME IInv, NEW r \in Req, Finish(r) PROVE IInv'
<1> DEFINE u == Unlock(Insert(cache, Computed(r), row[r]), handle[r])
<1>1. /\ Live(r) /\ cache' = u
      /\ free_slots' = free_slots \o FreedAtFinish(r)
      /\ phase' = [phase EXCEPT ![r] = "done"]
      /\ ids' = [ids EXCEPT ![r] = Prompt[r]]
      /\ cached_len' = [cached_len EXCEPT ![r] = 0]
      /\ handle' = [handle EXCEPT ![r] = Root]
      /\ row' = [row EXCEPT ![r] = << >>]
      /\ job = NoJob /\ UNCHANGED << kv, job >>
  BY DEF Finish
<1>2. /\ CacheType(u, Block, Page) /\ Trie(u) /\ Nodes(cache) \subseteq Nodes(u)
      /\ \A n \in Nodes(u) : u.ref[n] = Cardinality(Holders(n) \ {r})
      /\ Computed(r) \in Seq(Block)
      /\ Len(Matched(cache, Computed(r))) \in 0..Len(row[r])
  BY <1>1, CacheReq
<1> HIDE DEF u
<1>3. free_slots' \in Seq(Page)
  <2> DEFINE h == Len(handle[r])
             m == Len(Matched(cache, Computed(r)))
             b == Len(Computed(r))
             rw == row[r]
  <2>1. free_slots \in Seq(Page) /\ rw \in Seq(Page) /\ h \in Nat
    BY DEF IInv, TypeOK
  <2>2. b \in Nat /\ m \in 0..Len(rw)
    BY <1>2
  <2>3. FreedAtFinish(r) = SubSeq(rw, h + 1, m) \o SubSeq(rw, b + 1, Len(rw))
    BY DEF FreedAtFinish
  <2> HIDE DEF h, m, b, rw
  <2>4. SubSeq(rw, h + 1, m) \in Seq(Page) /\ SubSeq(rw, b + 1, Len(rw)) \in Seq(Page)
    <3>1. /\ \A i \in (h + 1)..m : rw[i] \in Page
          /\ \A i \in (b + 1)..Len(rw) : rw[i] \in Page
      BY <2>1, <2>2
    <3> QED
      BY <2>1, <2>2, <3>1, SubSeqProperties
  <2> QED
    BY <1>1, <2>1, <2>3, <2>4, ConcatProperties
<1>4. Prompt[r] \in Seq(Token) /\ Root \in Seq(Block) /\ << >> \in Seq(Page)
  BY PromptAssumption DEF Root
<1>5. TypeOK'
  BY <1>1, <1>2, <1>3, <1>4 DEF IInv, TypeOK
<1>6. \A s \in Req : s # r => /\ handle'[s] = handle[s] /\ phase'[s] = phase[s]
                              /\ ids'[s] = ids[s] /\ row'[s] = row[s]
                              /\ cached_len'[s] = cached_len[s]
  BY <1>1 DEF IInv, TypeOK
<1>7. /\ handle'[r] = Root /\ phase'[r] = "done" /\ ids'[r] = Prompt[r]
      /\ row'[r] = << >> /\ cached_len'[r] = 0
  BY <1>1 DEF IInv, TypeOK
<1>8. Lengths'
  <2>1. CeilDiv(0, PageSize) = 0
    <3>1. CeilDiv(PageSize * 0, PageSize) = 0 /\ PageSize * 0 = 0
      BY PageSizeAssumption, CeilDivFacts
    <3> QED
      BY <3>1
  <2>2. Len(Prompt[r]) \in Nat
    BY <1>4
  <2> QED
    BY <1>1, <1>6, <1>7, <2>1, <2>2 DEF IInv, Lengths, NoJob
<1>9. TreeShape'
  BY <1>1, <1>2 DEF TreeShape
<1>10. HandlesHeld'
  <2>1. \A s \in Req : Live(s)' => s # r /\ Live(s)
    BY <1>6, <1>7 DEF Live
  <2> QED
    BY <1>1, <1>2, <1>6, <2>1 DEF IInv, HandlesHeld
<1>11. RefCounts'
  <2>1. \A n : Holders(n)' = Holders(n) \ {r}
    BY <1>6, <1>7 DEF Holders, Live
  <2> QED
    BY <1>1, <1>2, <2>1 DEF RefCounts
<1> QED
  BY <1>5, <1>8, <1>9, <1>10, <1>11 DEF IInv

LEMMA StutterStep ==
  ASSUME IInv, UNCHANGED vars PROVE IInv'
BY DEF IInv, vars, TypeOK, Lengths, TreeShape, HandlesHeld, RefCounts, Holders, Live

LEMMA StepIInv ==
  ASSUME IInv, [Next]_vars PROVE IInv'
<1>1. ASSUME NEW r \in Req, Refuse(r) PROVE IInv'
  BY <1>1, RefuseStep
<1>2. ASSUME NEW r \in Req, Admit(r) PROVE IInv'
  BY <1>2, AdmitStep
<1>3. ASSUME NEW r \in Req, NEW n \in Targets(r), StartAlloc(r, n) PROVE IInv'
  BY <1>3, StartAllocStep
<1>4. ASSUME NEW r \in Req, EvictOne(r) PROVE IInv'
  BY <1>4, EvictOneStep
<1>5. ASSUME NEW r \in Req, Take(r) PROVE IInv'
  BY <1>5, TakeStep
<1>6. ASSUME NEW r \in Req, Commit(r) PROVE IInv'
  BY <1>6, CommitStep
<1>7. ASSUME NEW r \in Req, Finish(r) PROVE IInv'
  BY <1>7, FinishStep
<1>8. CASE Done \/ UNCHANGED vars
  BY <1>8, StutterStep DEF Done
<1> QED
  BY <1>1, <1>2, <1>3, <1>4, <1>5, <1>6, <1>7, <1>8 DEF Next

-----------------------------------------------------------------------------
\* IInv holds in every reachable state of the page manager.
THEOREM Invariance == Spec => []IInv
<1>1. Init => IInv
  BY InitIInv
<1>2. IInv /\ [Next]_vars => IInv'
  BY StepIInv
<1> QED
  BY <1>1, <1>2, PTL DEF Spec

\* Type correctness, which includes the code's assertion that no ref_count ever
\* becomes negative (radix_cache.py:163).
THEOREM TypeCorrect == Spec => []TypeOK
BY Invariance, PTL DEF IInv

\* The ref_count of every tree node is the number of live requests below it, for
\* any interleaving of admissions, splits, inserts, evictions and ends.
THEOREM CountsAreHolders == Spec => []RefCounts
BY Invariance, PTL DEF IInv

\* No handle a live request holds ever points at an evicted or lost node.
THEOREM HandlesStayHeld == Spec => []HandlesHeld
BY Invariance, PTL DEF IInv

\* The radix tree is always a compressed trie.
THEOREM TreeIsTrie == Spec => []TreeShape
BY Invariance, PTL DEF IInv

-----------------------------------------------------------------------------
(* The places a page can be in, and which page is where. *)

Entries(hd, rw) == UNION {{r} \X ((Len(hd[r]) + 1)..Len(rw[r])) : r \in Req}

Places(fs, c, hd, rw) ==
  ({"free"} \X DOMAIN fs) \cup ({"tree"} \X Paths(c)) \cup ({"row"} \X Entries(hd, rw))

PageAt(fs, c, rw, x) ==
  CASE x[1] = "free" -> fs[x[2]]
    [] x[1] = "tree" -> c.page[x[2]]
    [] OTHER -> rw[x[2][1]][x[2][2]]

Located(fs, c, hd, rw) == [x \in Places(fs, c, hd, rw) |-> PageAt(fs, c, rw, x)]

\* Every page is in one place
EachOnce(fs, c, hd, rw) == Located(fs, c, hd, rw) \in Bijection(Places(fs, c, hd, rw), Page)

\* X is the set of places
AllPlaces(X, fs, c, hd, rw) ==
  /\ \A i \in DOMAIN fs : << "free", i >> \in X
  /\ \A q \in Paths(c) : << "tree", q >> \in X
  /\ \A r \in Req : \A i \in (Len(hd[r]) + 1)..Len(rw[r]) : << "row", << r, i >> >> \in X
  /\ \A x \in X :
       \/ \E i \in DOMAIN fs : x = << "free", i >>
       \/ \E q \in Paths(c) : x = << "tree", q >>
       \/ \E r \in Req : \E i \in (Len(hd[r]) + 1)..Len(rw[r]) : x = << "row", << r, i >> >>

LEMMA PlaceKinds ==
  ASSUME NEW fs, NEW c, NEW hd, NEW rw
  PROVE  AllPlaces(Places(fs, c, hd, rw), fs, c, hd, rw)
<1>1. \A r \in Req : \A i \in (Len(hd[r]) + 1)..Len(rw[r]) : << r, i >> \in Entries(hd, rw)
  BY DEF Entries
<1>2. \A y \in Entries(hd, rw) :
        \E r \in Req : \E i \in (Len(hd[r]) + 1)..Len(rw[r]) : y = << r, i >>
  BY DEF Entries
<1> QED
  BY <1>1, <1>2 DEF Places, AllPlaces

LEMMA PagesThere ==
  ASSUME NEW fs, NEW c, NEW rw
  PROVE  /\ \A i : PageAt(fs, c, rw, << "free", i >>) = fs[i]
         /\ \A q : PageAt(fs, c, rw, << "tree", q >>) = c.page[q]
         /\ \A r, i : PageAt(fs, c, rw, << "row", << r, i >> >>) = rw[r][i]
BY DEF PageAt

LEMMA OnePlace ==
  ASSUME NEW fs, NEW c, NEW hd, NEW rw, EachOnce(fs, c, hd, rw)
  PROVE  /\ \A x \in Places(fs, c, hd, rw) : PageAt(fs, c, rw, x) \in Page
         /\ \A x, y \in Places(fs, c, hd, rw) :
              PageAt(fs, c, rw, x) = PageAt(fs, c, rw, y) => x = y
         /\ \A p \in Page : \E x \in Places(fs, c, hd, rw) : PageAt(fs, c, rw, x) = p
BY DEF EachOnce, Located, Bijection, Injection, Surjection, IsInjective

LEMMA SumOfOne ==
  ASSUME NEW A, NEW B, NEW C, NEW x,
         \/ A = {x} /\ B = {} /\ C = {}
         \/ A = {} /\ B = {x} /\ C = {}
         \/ A = {} /\ B = {} /\ C = {x}
  PROVE  Cardinality(A) + Cardinality(B) + Cardinality(C) = 1
<1>1. Cardinality({x}) = 1 /\ \A S : S = {} => Cardinality(S) = 0
  BY FS_Singleton, FS_EmptySet
<1> QED
  BY <1>1

LEMMA OncePartition ==
  ASSUME EachOnce(free_slots, cache, handle, row) PROVE PagePartition
<1> SUFFICES ASSUME NEW p \in Page
             PROVE  Cardinality({i \in DOMAIN free_slots : free_slots[i] = p})
                      + Cardinality({q \in Paths(cache) : cache.page[q] = p})
                      + Cardinality({x \in Uncommitted : row[x[1]][x[2]] = p}) = 1
  BY DEF PagePartition
<1> DEFINE places == Places(free_slots, cache, handle, row)
           at(x) == PageAt(free_slots, cache, row, x)
           F == {i \in DOMAIN free_slots : free_slots[i] = p}
           T == {q \in Paths(cache) : cache.page[q] = p}
           R == {x \in Uncommitted : row[x[1]][x[2]] = p}
<1>1. /\ \A i : at(<< "free", i >>) = free_slots[i]
      /\ \A q : at(<< "tree", q >>) = cache.page[q]
      /\ \A r, i : at(<< "row", << r, i >> >>) = row[r][i]
  BY PagesThere
<1>2. AllPlaces(places, free_slots, cache, handle, row)
  BY PlaceKinds
<1>3. PICK x \in places : at(x) = p /\ \A y \in places : at(y) = p => y = x
  <2>1. PICK x \in places : at(x) = p
    BY OnePlace
  <2> QED
    BY <2>1, OnePlace
<1> HIDE DEF places, at
<1>4. \A i \in F : << "free", i >> = x
  BY <1>1, <1>2, <1>3 DEF AllPlaces
<1>5. \A q \in T : << "tree", q >> = x
  BY <1>1, <1>2, <1>3 DEF AllPlaces
<1>6. \A y \in Uncommitted :
        \E r \in Req : \E i \in (Len(handle[r]) + 1)..Len(row[r]) : y = << r, i >>
  BY DEF Uncommitted
<1>7. \A y \in R : << "row", y >> = x
  <2> SUFFICES ASSUME NEW y \in R PROVE << "row", y >> = x
    OBVIOUS
  <2>1. PICK r \in Req : \E i \in (Len(handle[r]) + 1)..Len(row[r]) : y = << r, i >>
    BY <1>6
  <2>2. PICK i \in (Len(handle[r]) + 1)..Len(row[r]) : y = << r, i >>
    BY <2>1
  <2>3. row[r][i] = p
    BY <2>2
  <2> QED
    BY <1>1, <1>2, <1>3, <2>2, <2>3 DEF AllPlaces
<1>8. PICK z : \/ F = {z} /\ T = {} /\ R = {}
               \/ F = {} /\ T = {z} /\ R = {}
               \/ F = {} /\ T = {} /\ R = {z}
  <2>1. CASE \E i \in DOMAIN free_slots : x = << "free", i >>
    <3>1. PICK i \in DOMAIN free_slots : x = << "free", i >>
      BY <2>1
    <3>2. i \in F
      BY <1>1, <1>3, <3>1
    <3>3. F = {i} /\ T = {} /\ R = {}
      BY <1>4, <1>5, <1>7, <3>1, <3>2
    <3> QED
      BY <3>3
  <2>2. CASE \E q \in Paths(cache) : x = << "tree", q >>
    <3>1. PICK q \in Paths(cache) : x = << "tree", q >>
      BY <2>2
    <3>2. q \in T
      BY <1>1, <1>3, <3>1
    <3>3. F = {} /\ T = {q} /\ R = {}
      BY <1>4, <1>5, <1>7, <3>1, <3>2
    <3> QED
      BY <3>3
  <2>3. CASE \E r \in Req : \E i \in (Len(handle[r]) + 1)..Len(row[r]) : x = << "row", << r, i >> >>
    <3>1. PICK r \in Req : \E i \in (Len(handle[r]) + 1)..Len(row[r]) : x = << "row", << r, i >> >>
      BY <2>3
    <3>2. PICK i \in (Len(handle[r]) + 1)..Len(row[r]) : x = << "row", << r, i >> >>
      BY <3>1
    <3>3. << r, i >> \in R
      <4>1. << r, i >> \in Uncommitted
        BY DEF Uncommitted
      <4>2. row[r][i] = p
        BY <1>1, <1>3, <3>2
      <4> QED
        BY <4>1, <4>2
    <3>4. F = {} /\ T = {} /\ R = {<< r, i >>}
      BY <1>4, <1>5, <1>7, <3>2, <3>3
    <3> QED
      BY <3>4
  <2> QED
    BY <1>2, <1>3, <2>1, <2>2, <2>3 DEF AllPlaces
<1> HIDE DEF F, T, R
<1>9. Cardinality(F) + Cardinality(T) + Cardinality(R) = 1
  BY <1>8, SumOfOne
<1> QED
  BY <1>9 DEF F, T, R

\* If every place goes to one with the same page, and no new place is left over,
\* every page is still in one place.
LEMMA Move ==
  ASSUME NEW fs, NEW c, NEW hd, NEW rw, EachOnce(fs, c, hd, rw),
         NEW fs2, NEW c2, NEW hd2, NEW rw2,
         NEW f \in [Places(fs, c, hd, rw) -> Places(fs2, c2, hd2, rw2)],
         \A x \in Places(fs, c, hd, rw) : PageAt(fs2, c2, rw2, f[x]) = PageAt(fs, c, rw, x),
         \A y \in Places(fs2, c2, hd2, rw2) : \E x \in Places(fs, c, hd, rw) : f[x] = y
  PROVE  EachOnce(fs2, c2, hd2, rw2)
<1> DEFINE X == Places(fs, c, hd, rw)
           Y == Places(fs2, c2, hd2, rw2)
           A(x) == PageAt(fs, c, rw, x)
           B(y) == PageAt(fs2, c2, rw2, y)
<1>1. /\ \A x \in X : A(x) \in Page
      /\ \A x, y \in X : A(x) = A(y) => x = y
      /\ \A p \in Page : \E x \in X : A(x) = p
  BY OnePlace
<1>2. \A x \in X : f[x] \in Y /\ B(f[x]) = A(x)
  OBVIOUS
<1>3. \A y \in Y : \E x \in X : f[x] = y
  OBVIOUS
<1> HIDE DEF X, Y, A, B
<1>4. \A y \in Y : B(y) \in Page
  BY <1>1, <1>2, <1>3
<1>5. \A y, z \in Y : B(y) = B(z) => y = z
  BY <1>1, <1>2, <1>3
<1>6. \A p \in Page : \E y \in Y : B(y) = p
  BY <1>1, <1>2
<1>7. [y \in Y |-> B(y)] \in Bijection(Y, Page)
  BY <1>4, <1>5, <1>6 DEF Bijection, Injection, Surjection, IsInjective
<1> QED
  BY <1>7 DEF EachOnce, Located, Y, B

-----------------------------------------------------------------------------
(* What a request that is not running holds, and that the handle of one that *)
(* is stands for the beginning of its tokens.                                *)

HandlesFit ==
  \A r \in Req :
    /\ ~Live(r) => handle[r] = Root /\ cached_len[r] = 0
    /\ phase[r] = "waiting" => ids[r] = Prompt[r]
    /\ Live(r) => IsPrefix(handle[r], Computed(r))

LEMMA SegmentOfSegment ==
  ASSUME NEW S, NEW s \in Seq(S), NEW n \in 0..Len(s), NEW a \in Nat \ {0}, NEW b \in 0..n
  PROVE  SubSeq(SubSeq(s, 1, n), a, b) = SubSeq(s, a, b)
<1>1. SubSeq(s, 1, n) \in Seq(S) /\ Len(SubSeq(s, 1, n)) = n
  OBVIOUS
<1>2. \A i \in 1..n : SubSeq(s, 1, n)[i] = s[i]
  OBVIOUS
<1> DEFINE u == SubSeq(s, 1, n)
<1> HIDE DEF u
<1>3. SubSeq(u, a, b) = SubSeq(s, a, b)
  BY <1>1, <1>2 DEF u
<1> QED
  BY <1>3 DEF u

LEMMA BlocksPrefix ==
  ASSUME NEW s \in Seq(Token), NEW n \in 0..Len(s), NEW m \in 0..n
  PROVE  IsPrefix(Blocks(SubSeq(s, 1, m)), Blocks(SubSeq(s, 1, n)))
<1> DEFINE u == SubSeq(s, 1, m)
           w == SubSeq(s, 1, n)
<1>1. u \in Seq(Token) /\ Len(u) = m /\ w \in Seq(Token) /\ Len(w) = n
  OBVIOUS
<1>2. m \in Nat /\ n \in Nat /\ m <= n /\ PageSize \in Nat \ {0}
  BY PageSizeAssumption
<1> HIDE DEF u, w
<1>3. /\ Blocks(u) \in Seq(Block) /\ Len(Blocks(u)) = m \div PageSize
      /\ Blocks(w) \in Seq(Block) /\ Len(Blocks(w)) = n \div PageSize
  BY <1>1, BlocksType
<1>4. m \div PageSize \in Nat /\ m \div PageSize <= n \div PageSize
  BY <1>2, DivBounds, DivMonotone
<1>5. ASSUME NEW i \in 1..(m \div PageSize) PROVE Blocks(u)[i] = Blocks(w)[i]
  <2> DEFINE a == (i - 1) * PageSize + 1
             b == i * PageSize
  <2>1. Blocks(u)[i] = SubSeq(u, a, b) /\ Blocks(w)[i] = SubSeq(w, a, b)
    <3>1. m \div PageSize \in Nat /\ n \div PageSize \in Nat
      BY <1>2, DivBounds
    <3>2. i \in 1..(n \div PageSize)
      BY <1>4, <3>1
    <3>3. i \in 1..(Len(u) \div PageSize) /\ i \in 1..(Len(w) \div PageSize)
      BY <1>1, <3>2
    <3> QED
      BY <3>3 DEF Blocks
  <2>2. a \in Nat \ {0} /\ b \in Nat /\ b <= m
    <3>1. PageSize * i \in Nat /\ PageSize * i <= m
      BY <1>2, <1>4, DivBelow
    <3>2. i - 1 \in Nat /\ (i - 1) * PageSize \in Nat
      BY <1>2, <1>4
    <3> QED
      BY <1>2, <3>1, <3>2
  <2> HIDE DEF a, b
  <2>3. SubSeq(u, a, b) = SubSeq(s, a, b)
    BY <1>2, <2>2, SegmentOfSegment DEF u
  <2>4. SubSeq(w, a, b) = SubSeq(s, a, b)
    BY <1>2, <2>2, SegmentOfSegment DEF w
  <2> QED
    BY <2>1, <2>3, <2>4
<1>6. IsPrefix(Blocks(u), Blocks(w))
  BY <1>3, <1>4, <1>5, PrefixPointwise
<1> QED
  BY <1>6 DEF u, w

LEMMA ComputedType ==
  ASSUME IInv, NEW r \in Req
  PROVE  /\ SubSeq(ids[r], 1, cached_len[r]) \in Seq(Token)
         /\ Computed(r) \in Seq(Block)
         /\ Len(Computed(r)) = cached_len[r] \div PageSize
         /\ Len(Computed(r)) <= Len(row[r])
<1> DEFINE s == SubSeq(ids[r], 1, cached_len[r])
<1>1. /\ cached_len[r] \in Nat /\ cached_len[r] <= Len(ids[r]) /\ ids[r] \in Seq(Token)
      /\ Len(row[r]) = CeilDiv(cached_len[r], PageSize) /\ PageSize \in Nat \ {0}
  BY PageSizeAssumption DEF IInv, TypeOK, Lengths
<1>2. s \in Seq(Token) /\ Len(s) = cached_len[r]
  BY <1>1
<1>3. Computed(r) = Blocks(s)
  BY DEF Computed
<1> HIDE DEF s
<1>4. Computed(r) \in Seq(Block) /\ Len(Computed(r)) = cached_len[r] \div PageSize
  BY <1>2, <1>3, BlocksType
<1>5. Len(Computed(r)) <= Len(row[r])
  BY <1>1, <1>4, CeilDivFacts
<1> QED
  BY <1>2, <1>4, <1>5 DEF s

LEMMA InitFits == ASSUME Init PROVE HandlesFit
BY DEF Init, HandlesFit, Live

LEMMA AdmitFits ==
  ASSUME IInv, HandlesFit, NEW r \in Req, Admit(r) PROVE HandlesFit'
<1> DEFINE h == MatchReq(r)
           P == Prompt[r]
           k == Len(h)
<1>1. /\ phase[r] = "waiting" /\ handle' = [handle EXCEPT ![r] = h]
      /\ cached_len' = [cached_len EXCEPT ![r] = PageSize * k]
      /\ phase' = [phase EXCEPT ![r] = "admitted"] /\ ids' = ids
  BY DEF Admit
<1>2. /\ handle'[r] = h /\ cached_len'[r] = PageSize * k /\ ids'[r] = P
      /\ \A s \in Req \ {r} : /\ handle'[s] = handle[s] /\ cached_len'[s] = cached_len[s]
                              /\ phase'[s] = phase[s] /\ ids'[s] = ids[s]
      /\ phase'[r] = "admitted"
  BY <1>1 DEF IInv, TypeOK, HandlesFit
<1>3. P \in Seq(Token) /\ Len(P) \in Nat \ {0} /\ PageSize \in Nat \ {0}
  BY PromptAssumption, PageSizeAssumption
<1> DEFINE n == Len(P) - 1
           w == SubSeq(P, 1, n)
<1>4. n \in 0..Len(P) /\ w \in Seq(Token) /\ Len(w) = n
  BY <1>3
<1>5. h = Matched(cache, Blocks(w))
  BY DEF MatchReq
<1> HIDE DEF h, w, n, P
<1>6. Blocks(w) \in Seq(Block) /\ Len(Blocks(w)) = n \div PageSize
  BY <1>4, BlocksType
<1>7. h \in Seq(Block) /\ IsPrefix(h, Blocks(w))
  BY <1>5, <1>6, MatchedLongest DEF IInv, TypeOK
<1>8. k \in Nat /\ k <= n \div PageSize
  BY <1>6, <1>7, PrefixIsSegment
<1> HIDE DEF k
<1>9. PageSize * k \in 0..n
  BY <1>3, <1>4, <1>8, DivBelow
<1> DEFINE c == Blocks(SubSeq(P, 1, PageSize * k))
<1>10. IsPrefix(c, Blocks(w))
  BY <1>3, <1>4, <1>9, BlocksPrefix DEF w
<1>11. c \in Seq(Block) /\ Len(c) = k
  <2>1. PageSize * k \in 0..Len(P)
    BY <1>3, <1>4, <1>9
  <2>2. SubSeq(P, 1, PageSize * k) \in Seq(Token) /\ Len(SubSeq(P, 1, PageSize * k)) = PageSize * k
    BY <1>3, <2>1
  <2>3. (PageSize * k) \div PageSize = k
    <3> DEFINE m == PageSize * k
    <3>1. m \in Nat
      BY <1>9, <1>4
    <3> HIDE DEF m
    <3>2. PageSize * k <= m /\ m < PageSize * k + PageSize
      BY <1>3, <3>1 DEF m
    <3>3. m \div PageSize = k
      BY <1>3, <1>8, <3>1, <3>2, DivUnique
    <3> QED
      BY <3>3 DEF m
  <2> QED
    BY <2>2, <2>3, BlocksType
<1> HIDE DEF c
<1>12. IsPrefix(h, c)
  BY <1>6, <1>7, <1>10, <1>11, PrefixChain DEF k
<1>13. Computed(r)' = c
  BY <1>2 DEF Computed, c
<1>14. \A s \in Req \ {r} : Computed(s)' = Computed(s) /\ (Live(s)' <=> Live(s))
  BY <1>2 DEF Computed, Live
<1> QED
  BY <1>2, <1>12, <1>13, <1>14 DEF HandlesFit, Live

LEMMA StartAllocFits ==
  ASSUME IInv, HandlesFit, NEW r \in Req, NEW n \in Targets(r), StartAlloc(r, n)
  PROVE  HandlesFit'
<1>1. /\ Live(r) /\ UNCHANGED << phase, cached_len, handle >>
      /\ \/ ids' = ids
         \/ \E t \in Token : ids' = [ids EXCEPT ![r] = Append(@, t)]
  BY DEF StartAlloc
<1>2. ASSUME NEW s \in Req PROVE Computed(s)' = Computed(s)
  <2>1. ids[s] \in Seq(Token) /\ cached_len[s] \in 0..Len(ids[s])
    BY DEF IInv, TypeOK, Lengths
  <2>2. SubSeq(ids'[s], 1, cached_len[s]) = SubSeq(ids[s], 1, cached_len[s])
    <3>1. CASE ids'[s] = ids[s]
      BY <3>1
    <3>2. CASE \E t \in Token : ids'[s] = Append(ids[s], t)
      <4>1. PICK t \in Token : ids'[s] = Append(ids[s], t)
        BY <3>2
      <4> QED
        BY <2>1, <4>1
    <3> QED
      BY <1>1, <3>1, <3>2 DEF IInv, TypeOK
  <2> QED
    BY <1>1, <2>2 DEF Computed
<1>3. ASSUME NEW s \in Req, phase[s] = "waiting" PROVE ids'[s] = ids[s]
  <2>1. s # r
    BY <1>1, <1>3 DEF Live
  <2> QED
    BY <1>1, <2>1 DEF IInv, TypeOK
<1> QED
  BY <1>1, <1>2, <1>3 DEF HandlesFit, Live

LEMMA TakeFits ==
  ASSUME IInv, HandlesFit, NEW r \in Req, Take(r) PROVE HandlesFit'
<1> DEFINE n == job.upto
           m == cached_len[r]
<1>1. /\ job.req = {r} /\ cached_len' = [cached_len EXCEPT ![r] = n]
      /\ UNCHANGED << phase, ids, handle >>
  BY DEF Take
<1>2. /\ Live(r) /\ m \in Nat /\ n \in Nat /\ m < n /\ n <= Len(ids[r]) /\ ids[r] \in Seq(Token)
  BY <1>1 DEF IInv, TypeOK, Lengths
<1>3. /\ cached_len'[r] = n
      /\ \A s \in Req \ {r} : cached_len'[s] = cached_len[s]
  BY <1>1 DEF IInv, TypeOK
<1>4. Computed(r) = Blocks(SubSeq(ids[r], 1, m)) /\ Computed(r)' = Blocks(SubSeq(ids[r], 1, n))
  BY <1>1, <1>3 DEF Computed
<1> HIDE DEF n, m
<1>5. IsPrefix(Computed(r), Computed(r)')
  BY <1>2, <1>4, BlocksPrefix
<1>6. Computed(r) \in Seq(Block) /\ Computed(r)' \in Seq(Block) /\ handle[r] \in Seq(Block)
  <2>1. SubSeq(ids[r], 1, n) \in Seq(Token)
    BY <1>2
  <2> QED
    BY <1>4, <2>1, BlocksType, ComputedType DEF IInv, TypeOK
<1>7. IsPrefix(handle[r], Computed(r)')
  BY <1>2, <1>5, <1>6, PrefixTransitive DEF HandlesFit
<1>8. \A s \in Req \ {r} : Computed(s)' = Computed(s)
  BY <1>1, <1>3 DEF Computed
<1> QED
  BY <1>1, <1>2, <1>3, <1>7, <1>8 DEF HandlesFit, Live

LEMMA CommitFits ==
  ASSUME IInv, HandlesFit, NEW r \in Req, Commit(r) PROVE HandlesFit'
<1>1. /\ Live(r) /\ handle' = [handle EXCEPT ![r] = Computed(r)]
      /\ phase' = [phase EXCEPT ![r] = "committed"]
      /\ UNCHANGED << ids, cached_len >>
  BY DEF Commit, Live
<1>2. /\ handle'[r] = Computed(r) /\ phase'[r] = "committed"
      /\ \A s \in Req \ {r} : handle'[s] = handle[s] /\ phase'[s] = phase[s]
  BY <1>1 DEF IInv, TypeOK
<1>3. \A s \in Req : Computed(s)' = Computed(s)
  BY <1>1 DEF Computed
<1>4. IsPrefix(Computed(r), Computed(r))
  BY ComputedType, PrefixReflexive
<1> QED
  BY <1>1, <1>2, <1>3, <1>4 DEF HandlesFit, Live

LEMMA FinishFits ==
  ASSUME IInv, HandlesFit, NEW r \in Req, Finish(r) PROVE HandlesFit'
<1>1. /\ handle'[r] = Root /\ phase'[r] = "done" /\ cached_len'[r] = 0
      /\ \A s \in Req \ {r} : /\ handle'[s] = handle[s] /\ phase'[s] = phase[s]
                              /\ ids'[s] = ids[s] /\ cached_len'[s] = cached_len[s]
  BY DEF Finish, IInv, TypeOK
<1>2. \A s \in Req \ {r} : Computed(s)' = Computed(s)
  BY <1>1 DEF Computed
<1> QED
  BY <1>1, <1>2 DEF HandlesFit, Live

-----------------------------------------------------------------------------
(* Each operation moves pages from one place to another. *)

LEMMA EvictMoves ==
  ASSUME IInv, NEW r \in Req, EvictOne(r), EachOnce(free_slots, cache, handle, row)
  PROVE  EachOnce(free_slots, cache, handle, row)'
<1> DEFINE X == Places(free_slots, cache, handle, row)
           Y == Places(free_slots', cache', handle, row)
           at(x) == PageAt(free_slots, cache, row, x)
           new(x) == PageAt(free_slots', cache', row, x)
<1>a. /\ \A i : at(<< "free", i >>) = free_slots[i]
      /\ \A q : at(<< "tree", q >>) = cache.page[q]
      /\ \A s, i : at(<< "row", << s, i >> >>) = row[s][i]
  BY DEF PageAt
<1>b. /\ \A i : new(<< "free", i >>) = free_slots'[i]
      /\ \A q : new(<< "tree", q >>) = cache'.page[q]
      /\ \A s, i : new(<< "row", << s, i >> >>) = row[s][i]
  BY DEF PageAt
<1>c. /\ AllPlaces(X, free_slots, cache, handle, row)
      /\ AllPlaces(Y, free_slots', cache', handle, row)
  BY PlaceKinds DEF AllPlaces
<1> HIDE DEF X, Y, at, new
<1>1. PICK v \in Victims(cache) :
         /\ cache' = EvictLeaf(cache, v)
         /\ free_slots' = free_slots \o EvictedPages(cache, v)
         /\ UNCHANGED << handle, row >>
  BY DEF EvictOne
<1>2. CacheType(cache, Block, Page) /\ Trie(cache) /\ free_slots \in Seq(Page)
  BY DEF IInv, TypeOK, TreeShape
<1>3. v \in Leaves(cache) /\ v \in Nodes(cache)
  BY DEF Victims, Unlocked, Leaves
<1> DEFINE k == Cardinality(Key(cache, v))
           a == Len(v) - k
           n == Len(free_slots)
           key == Key(cache, v)
<1>4. v \in Seq(Block) /\ Len(v) \in Nat
  BY <1>2, <1>3 DEF CacheType
<1>5. k \in 0..Len(v) /\ key = {SubSeq(v, 1, j) : j \in (a + 1)..Len(v)}
  BY <1>2, <1>3, KeyIsTail
<1>6. EvictedPages(cache, v) = [i \in 1..k |-> cache.page[SubSeq(v, 1, a + i)]]
  BY DEF EvictedPages
<1>7. /\ Paths(cache') = Paths(cache) \ key
      /\ \A q \in Paths(cache') : cache'.page[q] = cache.page[q]
  BY <1>1, <1>2, <1>3, EvictNodes
<1>8. EvictedPages(cache, v) \in Seq(Page) /\ Len(EvictedPages(cache, v)) = k
  <2>1. EvictedPages(cache, v) \in Seq(Page)
    BY <1>2, <1>3, EvictedType
  <2> HIDE DEF k, a
  <2> QED
    BY <1>5, <1>6, <2>1
<1> HIDE DEF k, key
<1>9. a \in Nat /\ a + k = Len(v) /\ k \in Nat /\ n \in Nat
  BY <1>2, <1>4, <1>5
<1> HIDE DEF a, n
<1>10. /\ DOMAIN free_slots = 1..n /\ DOMAIN free_slots' = 1..(n + k)
       /\ \A i \in 1..n : free_slots'[i] = free_slots[i]
       /\ \A i \in 1..k : free_slots'[n + i] = cache.page[SubSeq(v, 1, a + i)]
  <2>1. Len(free_slots') = n + k
    BY <1>1, <1>2, <1>8, ConcatProperties DEF n
  <2>2. free_slots' \in Seq(Page)
    BY <1>1, <1>2, <1>8, ConcatProperties
  <2>3. \A i \in 1..n : free_slots'[i] = free_slots[i]
    BY <1>1, <1>2, <1>8, ConcatProperties DEF n
  <2>4. \A i \in 1..k : free_slots'[n + i] = EvictedPages(cache, v)[i]
    <3> SUFFICES ASSUME NEW i \in 1..k PROVE free_slots'[n + i] = EvictedPages(cache, v)[i]
      OBVIOUS
    <3>1. n + i \in 1..(n + k) /\ n + i > n /\ (n + i) - n = i
      BY <1>9
    <3> QED
      BY <1>1, <1>2, <1>8, <2>1, <3>1, ConcatProperties DEF n
  <2> QED
    BY <1>2, <1>6, <2>1, <2>2, <2>3, <2>4 DEF n
<1>11. ASSUME NEW q \in key
       PROVE  /\ Len(q) - a \in 1..k
              /\ SubSeq(v, 1, a + (Len(q) - a)) = q
  <2>1. PICK j \in (a + 1)..Len(v) : q = SubSeq(v, 1, j)
    BY <1>5
  <2>2. Len(q) = j
    BY <1>4, <1>9, <2>1, PrefixSegment
  <2> QED
    BY <1>9, <2>1, <2>2
<1>12. ASSUME NEW i \in 1..k
       PROVE  SubSeq(v, 1, a + i) \in key /\ Len(SubSeq(v, 1, a + i)) = a + i
  <2>1. a + i \in (a + 1)..Len(v) /\ a + i \in 0..Len(v)
    BY <1>9
  <2>2. SubSeq(v, 1, a + i) \in key
    BY <1>5, <2>1
  <2> QED
    BY <1>4, <2>1, <2>2, PrefixSegment
<1>13. key \subseteq Paths(cache)
  BY DEF Key, key
<1> DEFINE f == [x \in X |-> IF x[1] = "tree" /\ x[2] \in key
                            THEN << "free", n + (Len(x[2]) - a) >> ELSE x]
<1>14. ASSUME NEW x \in X
       PROVE  f[x] \in Y /\ new(f[x]) = at(x)
  <2>1. CASE \E i \in DOMAIN free_slots : x = << "free", i >>
    <3>1. PICK i \in DOMAIN free_slots : x = << "free", i >>
      BY <2>1
    <3>2. f[x] = x
      BY <3>1
    <3>3. i \in DOMAIN free_slots' /\ free_slots'[i] = free_slots[i]
      BY <1>9, <1>10
    <3> HIDE DEF f
    <3> QED
      BY <3>1, <3>2, <3>3, <1>a, <1>b, <1>c DEF AllPlaces
  <2>2. CASE \E q \in Paths(cache) : x = << "tree", q >>
    <3>1. PICK q \in Paths(cache) : x = << "tree", q >>
      BY <2>2
    <3>2. CASE q \in key
      <4>1. f[x] = << "free", n + (Len(q) - a) >>
        BY <3>1, <3>2
      <4>2. n + (Len(q) - a) \in DOMAIN free_slots'
        BY <1>9, <1>10, <1>11, <3>2
      <4>3. free_slots'[n + (Len(q) - a)] = cache.page[q]
        BY <1>10, <1>11, <3>2
      <4> HIDE DEF f
      <4> QED
        BY <3>1, <4>1, <4>2, <4>3, <1>a, <1>b, <1>c DEF AllPlaces
    <3>3. CASE q \notin key
      <4>1. f[x] = x
        BY <3>1, <3>3
      <4>2. q \in Paths(cache') /\ cache'.page[q] = cache.page[q]
        BY <1>7, <3>3
      <4> HIDE DEF f
      <4> QED
        BY <3>1, <4>1, <4>2, <1>a, <1>b, <1>c DEF AllPlaces
    <3> QED
      BY <3>2, <3>3
  <2>3. CASE \E s \in Req : \E i \in (Len(handle[s]) + 1)..Len(row[s]) : x = << "row", << s, i >> >>
    <3>1. PICK s \in Req :
            \E i \in (Len(handle[s]) + 1)..Len(row[s]) : x = << "row", << s, i >> >>
      BY <2>3
    <3>2. PICK i \in (Len(handle[s]) + 1)..Len(row[s]) : x = << "row", << s, i >> >>
      BY <3>1
    <3>3. f[x] = x
      BY <3>2
    <3> HIDE DEF f
    <3> QED
      BY <3>2, <3>3, <1>a, <1>b, <1>c DEF AllPlaces
  <2> QED
    BY <2>1, <2>2, <2>3, <1>c DEF AllPlaces
<1>15. ASSUME NEW y \in Y
       PROVE  \E x \in X : f[x] = y
  <2>1. CASE \E i \in DOMAIN free_slots' : y = << "free", i >>
    <3>1. PICK i \in DOMAIN free_slots' : y = << "free", i >>
      BY <2>1
    <3>2. CASE i \in 1..n
      <4>1. y \in X
        BY <1>10, <3>1, <3>2, <1>c DEF AllPlaces
      <4> QED
        BY <3>1, <4>1
    <3>3. CASE i \notin 1..n
      <4> DEFINE q == SubSeq(v, 1, a + (i - n))
      <4>1. i - n \in 1..k /\ n + (i - n) = i
        BY <1>9, <1>10, <3>3
      <4>2. q \in key /\ Len(q) = a + (i - n)
        BY <1>12, <4>1
      <4>3. n + (Len(q) - a) = i
        BY <1>9, <4>1, <4>2
      <4> HIDE DEF q
      <4>4. << "tree", q >> \in X
        BY <1>13, <4>2, <1>c DEF AllPlaces
      <4>5. f[<< "tree", q >>] = y
        BY <3>1, <4>2, <4>3, <4>4
      <4> QED
        BY <4>4, <4>5
    <3> QED
      BY <3>2, <3>3
  <2>2. CASE \E q \in Paths(cache') : y = << "tree", q >>
    <3>1. PICK q \in Paths(cache') : y = << "tree", q >>
      BY <2>2
    <3>2. q \in Paths(cache) /\ q \notin key
      BY <1>7
    <3>3. y \in X
      BY <3>1, <3>2, <1>c DEF AllPlaces
    <3> QED
      BY <3>1, <3>2, <3>3
  <2>3. CASE \E s \in Req : \E i \in (Len(handle[s]) + 1)..Len(row[s]) : y = << "row", << s, i >> >>
    <3>1. y \in X /\ y[1] # "tree"
      BY <2>3, <1>c DEF AllPlaces
    <3> QED
      BY <3>1
  <2> QED
    BY <2>1, <2>2, <2>3, <1>c DEF AllPlaces
<1>16. f \in [X -> Y]
  BY <1>14
<1> HIDE DEF f
<1>17. EachOnce(free_slots', cache', handle, row)
  BY <1>14, <1>15, <1>16, Move DEF X, Y, at, new
<1> QED
  BY <1>1, <1>17 DEF EachOnce, Located, Places, PageAt, Entries
LEMMA InitOnce ==
  ASSUME Init PROVE EachOnce(free_slots, cache, handle, row)
<1> DEFINE X == Places(free_slots, cache, handle, row)
           at(x) == PageAt(free_slots, cache, row, x)
<1>a. \A i : at(<< "free", i >>) = free_slots[i]
  BY DEF PageAt
<1>b. AllPlaces(X, free_slots, cache, handle, row)
  BY PlaceKinds
<1> HIDE DEF X, at
<1>1. free_slots = [i \in Page |-> i] /\ Paths(cache) = {}
  BY DEF Init, EmptyCache, Paths
<1>2. \A r \in Req : (Len(handle[r]) + 1)..Len(row[r]) = {}
  <2> SUFFICES ASSUME NEW r \in Req PROVE (Len(handle[r]) + 1)..Len(row[r]) = {}
    OBVIOUS
  <2>1. handle[r] = << >> /\ row[r] = << >>
    BY DEF Init, Root
  <2> QED
    BY <2>1
<1>3. \A x \in X : \E i \in Page : x = << "free", i >>
  BY <1>1, <1>2, <1>b DEF AllPlaces
<1>4. \A i \in Page : << "free", i >> \in X /\ at(<< "free", i >>) = i
  BY <1>1, <1>a, <1>b DEF AllPlaces
<1>5. \A x \in X : at(x) \in Page
  BY <1>3, <1>4
<1>6. \A x, y \in X : at(x) = at(y) => x = y
  BY <1>3, <1>4
<1>7. \A p \in Page : \E x \in X : at(x) = p
  BY <1>4
<1>8. [x \in X |-> at(x)] \in Bijection(X, Page)
  BY <1>5, <1>6, <1>7 DEF Bijection, Injection, Surjection, IsInjective
<1> QED
  BY <1>8 DEF EachOnce, Located, X, at

\* A cache with the same pages, and requests with as many entries beyond their
\* handles: every page is where it was.
LEMMA SamePlaces ==
  ASSUME NEW fs, NEW c, NEW hd, NEW rw, EachOnce(fs, c, hd, rw),
         NEW c2, NEW hd2, NEW rw2, c2.page = c.page,
         \A r \in Req : \/ hd2[r] = hd[r] /\ rw2[r] = rw[r]
                        \/ /\ (Len(hd[r]) + 1)..Len(rw[r]) = {}
                           /\ (Len(hd2[r]) + 1)..Len(rw2[r]) = {}
  PROVE  EachOnce(fs, c2, hd2, rw2)
<1> DEFINE X == Places(fs, c, hd, rw)
           Y == Places(fs, c2, hd2, rw2)
           at(x) == PageAt(fs, c, rw, x)
           new(x) == PageAt(fs, c2, rw2, x)
<1>a. /\ \A i : at(<< "free", i >>) = fs[i]
      /\ \A q : at(<< "tree", q >>) = c.page[q]
      /\ \A s, i : at(<< "row", << s, i >> >>) = rw[s][i]
  BY DEF PageAt
<1>b. /\ \A i : new(<< "free", i >>) = fs[i]
      /\ \A q : new(<< "tree", q >>) = c2.page[q]
      /\ \A s, i : new(<< "row", << s, i >> >>) = rw2[s][i]
  BY DEF PageAt
<1>c. AllPlaces(X, fs, c, hd, rw) /\ AllPlaces(Y, fs, c2, hd2, rw2)
  BY PlaceKinds
<1> HIDE DEF X, Y, at, new
<1>1. Paths(c2) = Paths(c)
  BY DEF Paths
<1>2. ASSUME NEW x \in X PROVE x \in Y /\ new(x) = at(x)
  <2>1. CASE \E i \in DOMAIN fs : x = << "free", i >>
    BY <2>1, <1>a, <1>b, <1>c DEF AllPlaces
  <2>2. CASE \E q \in Paths(c) : x = << "tree", q >>
    BY <2>2, <1>1, <1>a, <1>b, <1>c DEF AllPlaces
  <2>3. CASE \E s \in Req : \E i \in (Len(hd[s]) + 1)..Len(rw[s]) : x = << "row", << s, i >> >>
    <3>1. PICK s \in Req : \E i \in (Len(hd[s]) + 1)..Len(rw[s]) : x = << "row", << s, i >> >>
      BY <2>3
    <3>2. hd2[s] = hd[s] /\ rw2[s] = rw[s]
      BY <3>1
    <3> QED
      BY <3>1, <3>2, <1>a, <1>b, <1>c DEF AllPlaces
  <2> QED
    BY <2>1, <2>2, <2>3, <1>c DEF AllPlaces
<1>3. ASSUME NEW y \in Y PROVE y \in X
  <2>1. CASE \E i \in DOMAIN fs : y = << "free", i >>
    BY <2>1, <1>c DEF AllPlaces
  <2>2. CASE \E q \in Paths(c2) : y = << "tree", q >>
    BY <2>2, <1>1, <1>c DEF AllPlaces
  <2>3. CASE \E s \in Req : \E i \in (Len(hd2[s]) + 1)..Len(rw2[s]) : y = << "row", << s, i >> >>
    <3>1. PICK s \in Req : \E i \in (Len(hd2[s]) + 1)..Len(rw2[s]) : y = << "row", << s, i >> >>
      BY <2>3
    <3>2. hd2[s] = hd[s] /\ rw2[s] = rw[s]
      BY <3>1
    <3> QED
      BY <3>1, <3>2, <1>c DEF AllPlaces
  <2> QED
    BY <2>1, <2>2, <2>3, <1>c DEF AllPlaces
<1> DEFINE f == [x \in X |-> x]
<1>4. f \in [X -> Y] /\ (\A x \in X : new(f[x]) = at(x)) /\ \A y \in Y : \E x \in X : f[x] = y
  BY <1>2, <1>3
<1> HIDE DEF f
<1> QED
  BY <1>4, Move DEF X, Y, at, new

LEMMA RefuseMoves ==
  ASSUME IInv, NEW r \in Req, Refuse(r), EachOnce(free_slots, cache, handle, row)
  PROVE  EachOnce(free_slots, cache, handle, row)'
<1>1. cache'.page = cache.page /\ UNCHANGED << free_slots, handle, row >>
  BY DEF Refuse, Walk
<1>2. EachOnce(free_slots, cache', handle, row)
  BY <1>1, SamePlaces
<1> QED
  BY <1>1, <1>2 DEF EachOnce, Located, Places, PageAt, Entries

LEMMA AdmitMoves ==
  ASSUME IInv, HandlesFit, NEW r \in Req, Admit(r), EachOnce(free_slots, cache, handle, row)
  PROVE  EachOnce(free_slots, cache, handle, row)'
<1> DEFINE h == MatchReq(r)
<1>1. /\ phase[r] = "waiting" /\ cache' = Lock(Walk(cache, h), h)
      /\ handle' = [handle EXCEPT ![r] = h]
      /\ row' = [row EXCEPT ![r] = MatchedPages(cache, h)]
      /\ free_slots' = free_slots
  BY DEF Admit
<1>2. h \in Seq(Block)
  BY MatchReqType DEF IInv
<1> HIDE DEF h
<1>3. cache'.page = cache.page
  BY <1>1 DEF Lock, Walk
<1>4. /\ handle'[r] = h /\ row'[r] = MatchedPages(cache, h)
      /\ \A s \in Req \ {r} : handle'[s] = handle[s] /\ row'[s] = row[s]
  BY <1>1 DEF IInv, TypeOK
<1>5. (Len(handle[r]) + 1)..Len(row[r]) = {}
  <2>1. handle[r] = << >> /\ cached_len[r] = 0
    BY <1>1 DEF HandlesFit, Live, Root
  <2>2. CeilDiv(PageSize * 0, PageSize) = 0
    BY PageSizeAssumption, CeilDivFacts
  <2>3. PageSize * 0 = 0
    BY PageSizeAssumption
  <2>4. Len(row[r]) = 0
    BY <2>1, <2>2, <2>3 DEF IInv, Lengths
  <2> QED
    BY <2>1, <2>4
<1>6. (Len(handle'[r]) + 1)..Len(row'[r]) = {}
  <2>1. Len(MatchedPages(cache, h)) = Len(h) /\ Len(h) \in Nat
    BY <1>2 DEF MatchedPages
  <2> QED
    BY <1>4, <2>1
<1>7. EachOnce(free_slots, cache', handle', row')
  BY <1>3, <1>4, <1>5, <1>6, SamePlaces
<1> QED
  BY <1>1, <1>7 DEF EachOnce, Located, Places, PageAt, Entries
LEMMA HandleInRow ==
  ASSUME IInv, NEW r \in Req, Live(r)
  PROVE  Len(handle[r]) \in Nat /\ Len(row[r]) \in Nat /\ Len(handle[r]) <= Len(row[r])
<1>1. /\ handle[r] \in Seq(Block) /\ row[r] \in Seq(Page) /\ cached_len[r] \in Nat
      /\ PageSize * Len(handle[r]) <= cached_len[r]
      /\ Len(row[r]) = CeilDiv(cached_len[r], PageSize) /\ PageSize \in Nat \ {0}
  BY PageSizeAssumption DEF IInv, TypeOK, HandlesHeld, Lengths
<1>2. Len(handle[r]) \in Nat /\ PageSize * Len(handle[r]) \in Nat
  BY <1>1
<1> DEFINE a == PageSize * Len(handle[r])
<1>3. CeilDiv(a, PageSize) = Len(handle[r])
  BY <1>1, <1>2, CeilDivFacts
<1> HIDE DEF a
<1>4. CeilDiv(a, PageSize) <= CeilDiv(cached_len[r], PageSize)
  BY <1>1, <1>2, CeilDivFacts DEF a
<1> QED
  BY <1>1, <1>2, <1>3, <1>4

LEMMA PagesForType ==
  ASSUME IInv, NEW r \in job.req
  PROVE  PagesFor(r, job.upto) \in Nat
<1> DEFINE u == job.upto
           m == cached_len[r]
<1>1. u \in Nat /\ m \in Nat /\ m <= u /\ PageSize \in Nat \ {0}
  BY PageSizeAssumption DEF IInv, TypeOK, Lengths
<1>2. PagesFor(r, u) = CeilDiv(u, PageSize) - CeilDiv(m, PageSize)
  BY DEF PagesFor
<1> HIDE DEF u, m
<1>3. CeilDiv(u, PageSize) \in Nat
  BY <1>1, CeilDivFacts
<1>4. CeilDiv(m, PageSize) \in Nat /\ CeilDiv(m, PageSize) <= CeilDiv(u, PageSize)
  BY <1>1, CeilDivFacts
<1>5. PagesFor(r, u) \in Nat
  BY <1>2, <1>3, <1>4
<1> QED
  BY <1>5 DEF u

LEMMA TakeMoves ==
  ASSUME IInv, NEW r \in Req, Take(r), EachOnce(free_slots, cache, handle, row)
  PROVE  EachOnce(free_slots, cache, handle, row)'
<1> DEFINE X == Places(free_slots, cache, handle, row)
           Y == Places(free_slots', cache, handle, row')
           at(x) == PageAt(free_slots, cache, row, x)
           new(x) == PageAt(free_slots', cache, row', x)
<1>a. /\ \A i : at(<< "free", i >>) = free_slots[i]
      /\ \A q : at(<< "tree", q >>) = cache.page[q]
      /\ \A s, i : at(<< "row", << s, i >> >>) = row[s][i]
  BY DEF PageAt
<1>b. /\ \A i : new(<< "free", i >>) = free_slots'[i]
      /\ \A q : new(<< "tree", q >>) = cache.page[q]
      /\ \A s, i : new(<< "row", << s, i >> >>) = row'[s][i]
  BY DEF PageAt
<1>c. /\ AllPlaces(X, free_slots, cache, handle, row)
      /\ AllPlaces(Y, free_slots', cache, handle, row')
  BY PlaceKinds DEF AllPlaces
<1> HIDE DEF X, Y, at, new
<1> DEFINE k == PagesFor(r, job.upto)
           n == Len(free_slots)
           len == Len(row[r])
           low == Len(handle[r])
<1>1. /\ job.req = {r} /\ k <= n
      /\ row' = [row EXCEPT ![r] = row[r] \o SubSeq(free_slots, 1, k)]
      /\ free_slots' = SubSeq(free_slots, k + 1, n)
      /\ UNCHANGED << cache, handle >>
  BY DEF Take
<1>2. Live(r) /\ cached_len[r] \in Nat /\ job.upto \in Nat /\ cached_len[r] < job.upto
  BY <1>1 DEF IInv, TypeOK, Lengths
<1>3. k \in Nat
  BY <1>1, PagesForType
<1> HIDE DEF k
<1>4. low \in Nat /\ len \in Nat /\ low <= len
  BY <1>2, HandleInRow
<1>5. free_slots \in Seq(Page) /\ row[r] \in Seq(Page) /\ n \in Nat
  BY DEF IInv, TypeOK
<1>6. /\ DOMAIN free_slots = 1..n /\ DOMAIN free_slots' = 1..(n - k)
      /\ \A i \in 1..(n - k) : free_slots'[i] = free_slots[k + i]
  <2> DEFINE t == SubSeq(free_slots, k + 1, n)
  <2>1. t \in Seq(Page) /\ Len(t) = n - k
    BY <1>1, <1>3, <1>5
  <2>2. \A i \in 1..(n - k) : t[i] = free_slots[k + i]
    BY <1>1, <1>3, <1>5
  <2> HIDE DEF t
  <2>3. DOMAIN t = 1..(n - k)
    BY <2>1
  <2>4. DOMAIN free_slots = 1..n
    BY <1>5
  <2>5. free_slots' = t
    BY <1>1 DEF t
  <2> QED
    BY <2>2, <2>3, <2>4, <2>5
<1>7. /\ Len(row'[r]) = len + k
      /\ \A i \in 1..len : row'[r][i] = row[r][i]
      /\ \A i \in 1..k : row'[r][len + i] = free_slots[i]
  <2> DEFINE t == SubSeq(free_slots, 1, k)
  <2>1. t \in Seq(Page) /\ Len(t) = k /\ \A i \in 1..k : t[i] = free_slots[i]
    BY <1>1, <1>3, <1>5
  <2>2. row'[r] = row[r] \o t
    BY <1>1 DEF IInv, TypeOK
  <2> HIDE DEF t
  <2>3. Len(row'[r]) = len + k
    BY <1>5, <2>1, <2>2, ConcatProperties
  <2>5. ASSUME NEW i \in 1..len PROVE row'[r][i] = row[r][i]
    <3>1. i \in 1..(len + k) /\ i <= len
      BY <1>3, <1>4
    <3> QED
      BY <1>5, <2>1, <2>2, <3>1, ConcatProperties
  <2>4. ASSUME NEW i \in 1..k PROVE row'[r][len + i] = t[i]
    <3>1. len + i \in 1..(len + k) /\ len + i > len /\ (len + i) - len = i
      BY <1>3, <1>4
    <3> QED
      BY <1>5, <2>1, <2>2, <2>3, <3>1, ConcatProperties
  <2> QED
    BY <2>1, <2>3, <2>4, <2>5
<1>8. \A s \in Req \ {r} : row'[s] = row[s]
  BY <1>1 DEF IInv, TypeOK
<1> HIDE DEF n, len, low
<1> DEFINE f == [x \in X |-> IF x[1] # "free" THEN x
                            ELSE IF x[2] <= k THEN << "row", << r, len + x[2] >> >>
                            ELSE << "free", x[2] - k >>]
<1>9. ASSUME NEW i \in DOMAIN free_slots
      PROVE  /\ i <= k => f[<< "free", i >>] = << "row", << r, len + i >> >>
             /\ ~(i <= k) => f[<< "free", i >>] = << "free", i - k >>
  BY <1>c DEF AllPlaces
<1>10. ASSUME NEW x \in X, x[1] # "free" PROVE f[x] = x
  BY <1>10
<1>11. DOMAIN f = X /\ f = [x \in X |-> f[x]]
  OBVIOUS
<1> HIDE DEF f
<1>12. ASSUME NEW x \in X
       PROVE  f[x] \in Y /\ new(f[x]) = at(x)
  <2>1. CASE \E i \in DOMAIN free_slots : x = << "free", i >>
    <3>1. PICK i \in DOMAIN free_slots : x = << "free", i >>
      BY <2>1
    <3>2. CASE i <= k
      <4>1. i \in 1..k /\ len + i \in (low + 1)..(len + k)
        BY <1>3, <1>4, <1>6, <3>2, <1>5
      <4>2. f[x] = << "row", << r, len + i >> >>
        BY <1>9, <3>1, <3>2
      <4>3. f[x] \in Y
        BY <1>7, <4>1, <4>2, <1>c DEF AllPlaces, low
      <4> QED
        BY <1>7, <3>1, <4>1, <4>2, <4>3, <1>a, <1>b
    <3>3. CASE ~(i <= k)
      <4>1. i - k \in 1..(n - k) /\ k + (i - k) = i
        BY <1>3, <1>5, <1>6, <3>3
      <4>2. f[x] = << "free", i - k >>
        BY <1>9, <3>1, <3>3
      <4>3. f[x] \in Y
        BY <1>6, <4>1, <4>2, <1>c DEF AllPlaces
      <4>4. free_slots'[i - k] = free_slots[i]
        BY <1>6, <4>1
      <4> QED
        BY <3>1, <4>2, <4>3, <4>4, <1>a, <1>b
    <3> QED
      BY <3>2, <3>3
  <2>2. CASE \E q \in Paths(cache) : x = << "tree", q >>
    <3>1. PICK q \in Paths(cache) : x = << "tree", q >>
      BY <2>2
    <3>2. f[x] = x
      BY <1>10, <3>1
    <3> QED
      BY <3>1, <3>2, <1>a, <1>b, <1>c DEF AllPlaces
  <2>3. CASE \E s \in Req : \E i \in (Len(handle[s]) + 1)..Len(row[s]) : x = << "row", << s, i >> >>
    <3>1. PICK s \in Req :
            \E i \in (Len(handle[s]) + 1)..Len(row[s]) : x = << "row", << s, i >> >>
      BY <2>3
    <3>2. PICK i \in (Len(handle[s]) + 1)..Len(row[s]) : x = << "row", << s, i >> >>
      BY <3>1
    <3>3. f[x] = x
      BY <1>10, <3>2
    <3>4. i \in (Len(handle[s]) + 1)..Len(row'[s]) /\ row'[s][i] = row[s][i]
      <4>1. CASE s = r
        <5>1. i \in (low + 1)..len
          BY <4>1 DEF low, len
        <5>2. i \in 1..len /\ i \in (low + 1)..(len + k)
          BY <1>3, <1>4, <5>1
        <5> QED
          BY <1>7, <4>1, <5>2 DEF low
      <4>2. CASE s # r
        BY <1>8, <4>2
      <4> QED
        BY <4>1, <4>2
    <3> QED
      BY <3>2, <3>3, <3>4, <1>a, <1>b, <1>c DEF AllPlaces
  <2> QED
    BY <2>1, <2>2, <2>3, <1>c DEF AllPlaces
<1>13. ASSUME NEW y \in Y
       PROVE  \E x \in X : f[x] = y
  <2>1. CASE \E i \in DOMAIN free_slots' : y = << "free", i >>
    <3>1. PICK i \in DOMAIN free_slots' : y = << "free", i >>
      BY <2>1
    <3>2. k + i \in 1..n /\ ~(k + i <= k) /\ (k + i) - k = i
      BY <1>1, <1>3, <1>5, <1>6
    <3>3. << "free", k + i >> \in X /\ f[<< "free", k + i >>] = y
      BY <1>6, <1>9, <3>1, <3>2, <1>c DEF AllPlaces
    <3> QED
      BY <3>3
  <2>2. CASE \E q \in Paths(cache) : y = << "tree", q >>
    <3>1. y \in X /\ y[1] # "free"
      BY <2>2, <1>c DEF AllPlaces
    <3> QED
      BY <1>10, <3>1
  <2>3. CASE \E s \in Req : \E i \in (Len(handle[s]) + 1)..Len(row'[s]) : y = << "row", << s, i >> >>
    <3>1. PICK s \in Req :
            \E i \in (Len(handle[s]) + 1)..Len(row'[s]) : y = << "row", << s, i >> >>
      BY <2>3
    <3>2. PICK i \in (Len(handle[s]) + 1)..Len(row'[s]) : y = << "row", << s, i >> >>
      BY <3>1
    <3>3. CASE s = r /\ i > len
      <4>1. i - len \in 1..k /\ len + (i - len) = i /\ i - len \in 1..n
        <5>1. i \in (low + 1)..(len + k)
          BY <1>7, <3>3 DEF low
        <5> QED
          BY <1>1, <1>3, <1>4, <1>5, <3>3, <5>1
      <4>2. << "free", i - len >> \in X /\ f[<< "free", i - len >>] = y
        BY <1>6, <1>9, <3>2, <3>3, <4>1, <1>c DEF AllPlaces
      <4> QED
        BY <4>2
    <3>4. CASE ~(s = r /\ i > len)
      <4>1. i \in (Len(handle[s]) + 1)..Len(row[s])
        <5>1. CASE s = r
          <6>1. i \in (low + 1)..(len + k)
            BY <1>7, <5>1 DEF low
          <6>2. i \in (low + 1)..len
            BY <1>3, <1>4, <3>4, <5>1, <6>1
          <6> QED
            BY <5>1, <6>2 DEF low, len
        <5>2. CASE s # r
          BY <1>8, <5>2
        <5> QED
          BY <5>1, <5>2
      <4>2. y \in X /\ y[1] # "free"
        BY <3>2, <4>1, <1>c DEF AllPlaces
      <4> QED
        BY <1>10, <4>2
    <3> QED
      BY <3>3, <3>4
  <2> QED
    BY <2>1, <2>2, <2>3, <1>c DEF AllPlaces
<1>14. f \in [X -> Y]
  BY <1>11, <1>12
<1>15. EachOnce(free_slots', cache, handle, row')
  BY <1>12, <1>13, <1>14, Move DEF X, Y, at, new
<1>16. cache' = cache /\ handle' = handle
  BY <1>1
<1> QED
  BY <1>15, <1>16 DEF EachOnce, Located, Places, PageAt, Entries
-----------------------------------------------------------------------------
(* cache_req: where the uncommitted entries of one row go. *)

LEMMA Appended ==
  ASSUME NEW S, NEW s \in Seq(S), NEW t \in Seq(S)
  PROVE  /\ s \o t \in Seq(S) /\ Len(s \o t) = Len(s) + Len(t)
         /\ \A i \in 1..Len(s) : (s \o t)[i] = s[i]
         /\ \A i \in 1..Len(t) : (s \o t)[Len(s) + i] = t[i]
<1>1. Len(s) \in Nat /\ Len(t) \in Nat
  OBVIOUS
<1>2. s \o t \in Seq(S) /\ Len(s \o t) = Len(s) + Len(t)
  BY ConcatProperties
<1>3. ASSUME NEW i \in 1..Len(s) PROVE (s \o t)[i] = s[i]
  <2>1. i \in 1..(Len(s) + Len(t)) /\ i <= Len(s)
    BY <1>1
  <2> QED
    BY <2>1, ConcatProperties
<1>4. ASSUME NEW i \in 1..Len(t) PROVE (s \o t)[Len(s) + i] = t[i]
  <2>1. /\ Len(s) + i \in 1..(Len(s) + Len(t)) /\ ~(Len(s) + i <= Len(s))
        /\ (Len(s) + i) - Len(s) = i
    BY <1>1
  <2> QED
    BY <2>1, ConcatProperties
<1> QED
  BY <1>2, <1>3, <1>4

LEMMA Slice ==
  ASSUME NEW S, NEW s \in Seq(S), NEW a \in Nat, NEW b \in Nat, a <= b, b <= Len(s)
  PROVE  /\ SubSeq(s, a + 1, b) \in Seq(S) /\ Len(SubSeq(s, a + 1, b)) = b - a
         /\ \A i \in 1..(b - a) : SubSeq(s, a + 1, b)[i] = s[a + i]
<1>1. SubSeq(s, a + 1, b) \in Seq(S) /\ Len(SubSeq(s, a + 1, b)) = b - a
  OBVIOUS
<1>2. \A i \in 1..(b - a) : SubSeq(s, a + 1, b)[i] = s[a + i]
  OBVIOUS
<1> QED
  BY <1>1, <1>2

\* Free pages and pages of the tree stay, the entries of r's row beyond its handle
\* go where g says, and nothing else appears.
RowGoes(r, g, fs, c, hd, rw, fs2, c2, hd2, rw2) ==
  LET entries == (Len(hd[r]) + 1)..Len(rw[r])
  IN /\ \A i \in DOMAIN fs : i \in DOMAIN fs2 /\ fs2[i] = fs[i]
     /\ \A q \in Paths(c) : q \in Paths(c2) /\ c2.page[q] = c.page[q]
     /\ \A s \in Req \ {r} : hd2[s] = hd[s] /\ rw2[s] = rw[s]
     /\ \A i \in entries : /\ g[i] \in Places(fs2, c2, hd2, rw2)
                           /\ PageAt(fs2, c2, rw2, g[i]) = rw[r][i]
     /\ \A i \in DOMAIN fs2 \ DOMAIN fs : \E j \in entries : g[j] = << "free", i >>
     /\ \A q \in Paths(c2) \ Paths(c) : \E j \in entries : g[j] = << "tree", q >>
     /\ \A i \in (Len(hd2[r]) + 1)..Len(rw2[r]) :
          \E j \in entries : g[j] = << "row", << r, i >> >>

LEMMA RowMoves ==
  ASSUME NEW fs, NEW c, NEW hd, NEW rw, EachOnce(fs, c, hd, rw), NEW r \in Req,
         NEW fs2, NEW c2, NEW hd2, NEW rw2, NEW g,
         RowGoes(r, g, fs, c, hd, rw, fs2, c2, hd2, rw2)
  PROVE  EachOnce(fs2, c2, hd2, rw2)
<1> DEFINE X == Places(fs, c, hd, rw)
           Y == Places(fs2, c2, hd2, rw2)
           at(x) == PageAt(fs, c, rw, x)
           new(x) == PageAt(fs2, c2, rw2, x)
           J == (Len(hd[r]) + 1)..Len(rw[r])
<1>a. /\ \A i : at(<< "free", i >>) = fs[i]
      /\ \A q : at(<< "tree", q >>) = c.page[q]
      /\ \A s, i : at(<< "row", << s, i >> >>) = rw[s][i]
  BY DEF PageAt
<1>b. /\ \A i : new(<< "free", i >>) = fs2[i]
      /\ \A q : new(<< "tree", q >>) = c2.page[q]
      /\ \A s, i : new(<< "row", << s, i >> >>) = rw2[s][i]
  BY DEF PageAt
<1>c. AllPlaces(X, fs, c, hd, rw) /\ AllPlaces(Y, fs2, c2, hd2, rw2)
  BY PlaceKinds
<1>d. \A j \in J : g[j] \in Y /\ new(g[j]) = rw[r][j]
  BY DEF RowGoes
<1>e. \A j \in J : << "row", << r, j >> >> \in X
  BY <1>c DEF AllPlaces
<1> HIDE DEF X, Y, at, new
<1> DEFINE f == [x \in X |-> IF x[1] = "row" /\ x[2][1] = r THEN g[x[2][2]] ELSE x]
<1>1. \A j \in J : f[<< "row", << r, j >> >>] = g[j]
  BY <1>e
<1>2. \A x \in X : ~(x[1] = "row" /\ x[2][1] = r) => f[x] = x
  OBVIOUS
<1>3. f = [x \in X |-> f[x]]
  OBVIOUS
<1> HIDE DEF f, J
<1>4. ASSUME NEW x \in X PROVE f[x] \in Y /\ new(f[x]) = at(x)
  <2>1. CASE \E i \in DOMAIN fs : x = << "free", i >>
    <3>1. PICK i \in DOMAIN fs : x = << "free", i >>
      BY <2>1
    <3>2. f[x] = x
      BY <1>2, <3>1
    <3>3. i \in DOMAIN fs2 /\ fs2[i] = fs[i]
      BY DEF RowGoes
    <3> QED
      BY <3>1, <3>2, <3>3, <1>a, <1>b, <1>c DEF AllPlaces
  <2>2. CASE \E q \in Paths(c) : x = << "tree", q >>
    <3>1. PICK q \in Paths(c) : x = << "tree", q >>
      BY <2>2
    <3>2. f[x] = x
      BY <1>2, <3>1
    <3>3. q \in Paths(c2) /\ c2.page[q] = c.page[q]
      BY DEF RowGoes
    <3> QED
      BY <3>1, <3>2, <3>3, <1>a, <1>b, <1>c DEF AllPlaces
  <2>3. CASE \E s \in Req : \E i \in (Len(hd[s]) + 1)..Len(rw[s]) : x = << "row", << s, i >> >>
    <3>1. PICK s \in Req : \E i \in (Len(hd[s]) + 1)..Len(rw[s]) : x = << "row", << s, i >> >>
      BY <2>3
    <3>2. PICK i \in (Len(hd[s]) + 1)..Len(rw[s]) : x = << "row", << s, i >> >>
      BY <3>1
    <3>3. CASE s = r
      <4>1. i \in J
        BY <3>3 DEF J
      <4>2. f[x] = g[i] /\ at(x) = rw[r][i]
        BY <1>1, <1>a, <3>2, <3>3, <4>1
      <4> QED
        BY <1>d, <4>1, <4>2
    <3>4. CASE s # r
      <4>1. f[x] = x
        BY <1>2, <3>2, <3>4
      <4>2. hd2[s] = hd[s] /\ rw2[s] = rw[s]
        BY <3>4 DEF RowGoes
      <4> QED
        BY <3>2, <4>1, <4>2, <1>a, <1>b, <1>c DEF AllPlaces
    <3> QED
      BY <3>3, <3>4
  <2> QED
    BY <2>1, <2>2, <2>3, <1>c DEF AllPlaces
<1>5. ASSUME NEW y \in Y PROVE \E x \in X : f[x] = y
  <2>1. CASE \E j \in J : g[j] = y
    BY <1>1, <1>e, <2>1
  <2>2. CASE y \in X /\ ~(y[1] = "row" /\ y[2][1] = r)
    BY <1>2, <2>2
  <2>3. CASE \E i \in DOMAIN fs2 : y = << "free", i >>
    <3>1. PICK i \in DOMAIN fs2 : y = << "free", i >>
      BY <2>3
    <3>2. CASE i \in DOMAIN fs
      <4>1. y \in X /\ y[1] # "row"
        BY <3>1, <3>2, <1>c DEF AllPlaces
      <4> QED
        BY <2>2, <4>1
    <3>3. CASE i \notin DOMAIN fs
      BY <2>1, <3>1, <3>3 DEF J, RowGoes
    <3> QED
      BY <3>2, <3>3
  <2>4. CASE \E q \in Paths(c2) : y = << "tree", q >>
    <3>1. PICK q \in Paths(c2) : y = << "tree", q >>
      BY <2>4
    <3>2. CASE q \in Paths(c)
      <4>1. y \in X /\ y[1] # "row"
        BY <3>1, <3>2, <1>c DEF AllPlaces
      <4> QED
        BY <2>2, <4>1
    <3>3. CASE q \notin Paths(c)
      BY <2>1, <3>1, <3>3 DEF J, RowGoes
    <3> QED
      BY <3>2, <3>3
  <2>5. CASE \E s \in Req : \E i \in (Len(hd2[s]) + 1)..Len(rw2[s]) : y = << "row", << s, i >> >>
    <3>1. PICK s \in Req : \E i \in (Len(hd2[s]) + 1)..Len(rw2[s]) : y = << "row", << s, i >> >>
      BY <2>5
    <3>2. PICK i \in (Len(hd2[s]) + 1)..Len(rw2[s]) : y = << "row", << s, i >> >>
      BY <3>1
    <3>3. CASE s = r
      BY <2>1, <3>2, <3>3 DEF J, RowGoes
    <3>4. CASE s # r
      <4>1. hd2[s] = hd[s] /\ rw2[s] = rw[s]
        BY <3>4 DEF RowGoes
      <4>2. y \in X
        BY <3>2, <4>1, <1>c DEF AllPlaces
      <4>3. y[2][1] = s
        BY <3>2
      <4> QED
        BY <2>2, <3>4, <4>2, <4>3
    <3> QED
      BY <3>3, <3>4
  <2> QED
    BY <2>3, <2>4, <2>5, <1>c DEF AllPlaces
<1>6. f \in [X -> Y]
  BY <1>3, <1>4
<1> QED
  BY <1>4, <1>5, <1>6, Move DEF X, Y, at, new

LEMMA CacheReqPages ==
  ASSUME IInv, HandlesFit, NEW r \in Req, Live(r)
  PROVE  LET d == Insert(cache, Computed(r), row[r])
             h == Len(handle[r])
             m == Len(Matched(cache, Computed(r)))
             b == Len(Computed(r))
         IN /\ h \in Nat /\ m \in Nat /\ b \in Nat /\ h <= m /\ m <= b /\ b <= Len(row[r])
            /\ \A q \in Paths(cache) : q \in Paths(d) /\ d.page[q] = cache.page[q]
            /\ \A i \in (m + 1)..b : /\ SubSeq(Computed(r), 1, i) \in Paths(d)
                                     /\ d.page[SubSeq(Computed(r), 1, i)] = row[r][i]
            /\ \A q \in Paths(d) \ Paths(cache) :
                 \E i \in (m + 1)..b : q = SubSeq(Computed(r), 1, i)
<1> DEFINE B == Computed(r)
           M == Matched(cache, B)
           d == Insert(cache, B, row[r])
<1>1. B \in Seq(Block) /\ Len(B) \in Nat /\ Len(B) <= Len(row[r]) /\ row[r] \in Seq(Page)
  BY ComputedType DEF IInv, TypeOK
<1>2. CacheType(cache, Block, Page) /\ Trie(cache)
  BY DEF IInv, TypeOK, TreeShape
<1>3. handle[r] \in Seq(Block) /\ handle[r] \in Nodes(cache) \cup {Root} /\ IsPrefix(handle[r], B)
  BY DEF IInv, TypeOK, HandlesHeld, HandlesFit
<1> HIDE DEF B
<1>4. /\ M \in Seq(Block) /\ IsPrefix(M, B)
      /\ \A q \in Paths(cache) : IsPrefix(q, B) => IsPrefix(q, M)
  BY <1>1, <1>2, MatchedLongest
<1>5. /\ Paths(d) = Paths(cache) \cup {SubSeq(B, 1, i) : i \in (Len(M) + 1)..Len(B)}
      /\ \A q \in Paths(cache) : d.page[q] = cache.page[q]
      /\ \A i \in (Len(M) + 1)..Len(B) : d.page[SubSeq(B, 1, i)] = row[r][i]
  BY <1>1, <1>2, InsertPages
<1> HIDE DEF M, d
<1>6. IsPrefix(handle[r], M)
  <2>1. CASE handle[r] = Root
    BY <1>4, <2>1, PrefixRoot
  <2>2. CASE handle[r] # Root
    <3>1. handle[r] \in Paths(cache)
      BY <1>2, <1>3, <2>2 DEF CacheType
    <3> QED
      BY <1>3, <1>4, <3>1
  <2> QED
    BY <2>1, <2>2
<1>7. Len(handle[r]) \in 0..Len(M) /\ Len(M) \in 0..Len(B)
  BY <1>1, <1>3, <1>4, <1>6, PrefixIsSegment
<1>8. Len(handle[r]) \in Nat /\ Len(M) \in Nat /\ Len(handle[r]) <= Len(M) /\ Len(M) <= Len(B)
  BY <1>1, <1>4, <1>7
<1>9. /\ \A q \in Paths(cache) : q \in Paths(d) /\ d.page[q] = cache.page[q]
      /\ \A i \in (Len(M) + 1)..Len(B) : /\ SubSeq(B, 1, i) \in Paths(d)
                                         /\ d.page[SubSeq(B, 1, i)] = row[r][i]
      /\ \A q \in Paths(d) \ Paths(cache) :
           \E i \in (Len(M) + 1)..Len(B) : q = SubSeq(B, 1, i)
  BY <1>5
<1> QED
  BY <1>1, <1>8, <1>9 DEF B, M, d
LEMMA CommitMoves ==
  ASSUME IInv, HandlesFit, NEW r \in Req, Commit(r), EachOnce(free_slots, cache, handle, row)
  PROVE  EachOnce(free_slots, cache, handle, row)'
<1> DEFINE B == Computed(r)
           d == Insert(cache, B, row[r])
           h == Len(handle[r])
           m == Len(Matched(cache, B))
           b == Len(B)
           n == Len(row[r])
           F == Len(free_slots)
           back == SubSeq(row[r], h + 1, m)
           Y == Places(free_slots', cache', handle', row)
           new(x) == PageAt(free_slots', cache', row, x)
<1>a. /\ \A i : new(<< "free", i >>) = free_slots'[i]
      /\ \A q : new(<< "tree", q >>) = cache'.page[q]
      /\ \A s, i : new(<< "row", << s, i >> >>) = row[s][i]
  BY DEF PageAt
<1>b. AllPlaces(Y, free_slots', cache', handle', row)
  BY PlaceKinds DEF AllPlaces
<1> HIDE DEF Y, new
<1>1. /\ Live(r) /\ cache' = Lock(Unlock(d, handle[r]), B)
      /\ free_slots' = free_slots \o back
      /\ handle' = [handle EXCEPT ![r] = B]
      /\ row' = row
  BY DEF Commit, Live
<1>2. /\ h \in Nat /\ m \in Nat /\ b \in Nat /\ h <= m /\ m <= b /\ b <= n
      /\ \A q \in Paths(cache) : q \in Paths(d) /\ d.page[q] = cache.page[q]
      /\ \A i \in (m + 1)..b : /\ SubSeq(B, 1, i) \in Paths(d)
                               /\ d.page[SubSeq(B, 1, i)] = row[r][i]
      /\ \A q \in Paths(d) \ Paths(cache) : \E i \in (m + 1)..b : q = SubSeq(B, 1, i)
  BY <1>1, CacheReqPages
<1>3. /\ handle'[r] = B /\ \A s \in Req \ {r} : handle'[s] = handle[s]
      /\ row[r] \in Seq(Page) /\ n \in Nat /\ free_slots \in Seq(Page) /\ F \in Nat
  BY <1>1 DEF IInv, TypeOK
<1>4. cache'.page = d.page /\ Paths(cache') = Paths(d)
  BY <1>1 DEF Lock, Unlock, Paths
<1> HIDE DEF d, B, m
<1>5. /\ back \in Seq(Page) /\ Len(back) = m - h
      /\ \A i \in 1..(m - h) : back[i] = row[r][h + i]
  <2>1. h \in Nat /\ m \in Nat /\ h <= m /\ m <= Len(row[r]) /\ row[r] \in Seq(Page)
    BY <1>2, <1>3
  <2> HIDE DEF h
  <2> QED
    BY <2>1, Slice
<1> HIDE DEF back
<1>6. /\ DOMAIN free_slots = 1..F /\ DOMAIN free_slots' = 1..(F + (m - h))
      /\ \A i \in 1..F : free_slots'[i] = free_slots[i]
      /\ \A i \in 1..(m - h) : free_slots'[F + i] = row[r][h + i]
  <2>1. /\ free_slots' \in Seq(Page) /\ Len(free_slots') = F + (m - h)
        /\ \A i \in 1..F : free_slots'[i] = free_slots[i]
        /\ \A i \in 1..(m - h) : free_slots'[F + i] = back[i]
    BY <1>1, <1>3, <1>5, Appended
  <2>2. DOMAIN free_slots = 1..F
    BY <1>3
  <2> HIDE DEF F, h
  <2>3. DOMAIN free_slots' = 1..(F + (m - h))
    BY <2>1
  <2> QED
    BY <1>5, <2>1, <2>2, <2>3
<1> HIDE DEF h, n, b, F
<1> DEFINE g == [i \in (h + 1)..n |->
                   IF i <= m THEN << "free", F + (i - h) >>
                   ELSE IF i <= b THEN << "tree", SubSeq(B, 1, i) >>
                   ELSE << "row", << r, i >> >>]
<1>7. /\ \A i \in (h + 1)..m : g[i] = << "free", F + (i - h) >>
      /\ \A i \in (m + 1)..b : g[i] = << "tree", SubSeq(B, 1, i) >>
      /\ \A i \in (b + 1)..n : g[i] = << "row", << r, i >> >>
  BY <1>2, <1>3
<1> HIDE DEF g
<1>8. ASSUME NEW i \in (h + 1)..n PROVE g[i] \in Y /\ new(g[i]) = row[r][i]
  <2>1. CASE i <= m
    <3>1. i \in (h + 1)..m /\ i - h \in 1..(m - h) /\ h + (i - h) = i
      BY <1>2, <1>3, <2>1
    <3>2. F + (i - h) \in 1..(F + (m - h))
      BY <1>3, <3>1, <1>2
    <3>3. free_slots'[F + (i - h)] = row[r][i]
      BY <1>6, <3>1
    <3> QED
      BY <1>6, <1>7, <3>1, <3>2, <3>3, <1>a, <1>b DEF AllPlaces
  <2>2. CASE ~(i <= m) /\ i <= b
    <3>1. i \in (m + 1)..b
      BY <1>2, <1>3, <2>2
    <3> QED
      BY <1>2, <1>4, <1>7, <3>1, <1>a, <1>b DEF AllPlaces
  <2>3. CASE ~(i <= b)
    <3>1. i \in (b + 1)..n
      BY <1>2, <1>3, <2>3
    <3>2. i \in (Len(handle'[r]) + 1)..Len(row[r])
      BY <1>3, <3>1 DEF b, n
    <3> QED
      BY <1>7, <3>1, <3>2, <1>a, <1>b DEF AllPlaces
  <2> QED
    BY <2>1, <2>2, <2>3
<1>9. ASSUME NEW i \in DOMAIN free_slots' \ DOMAIN free_slots
      PROVE  \E j \in (h + 1)..n : g[j] = << "free", i >>
  <2> DEFINE j == h + (i - F)
  <2>1. j \in (h + 1)..m /\ j \in (h + 1)..n /\ F + (j - h) = i
    BY <1>2, <1>3, <1>6
  <2> HIDE DEF j
  <2> QED
    BY <1>7, <2>1
<1>10. ASSUME NEW q \in Paths(cache') \ Paths(cache)
       PROVE  \E j \in (h + 1)..n : g[j] = << "tree", q >>
  <2>1. PICK j \in (m + 1)..b : q = SubSeq(B, 1, j)
    BY <1>2, <1>4
  <2>2. j \in (h + 1)..n
    BY <1>2, <1>3
  <2> QED
    BY <1>7, <2>1, <2>2
<1>11. ASSUME NEW i \in (Len(handle'[r]) + 1)..Len(row[r])
       PROVE  \E j \in (h + 1)..n : g[j] = << "row", << r, i >> >>
  <2>1. i \in (b + 1)..n
    BY <1>3 DEF b, n
  <2>2. i \in (h + 1)..n
    BY <1>2, <1>3, <2>1
  <2> QED
    BY <1>7, <2>1, <2>2
<1>12. \A i \in DOMAIN free_slots : i \in DOMAIN free_slots' /\ free_slots'[i] = free_slots[i]
  BY <1>2, <1>3, <1>6
<1>13. \A q \in Paths(cache) : q \in Paths(cache') /\ cache'.page[q] = cache.page[q]
  BY <1>2, <1>4
<1>14. EachOnce(free_slots', cache', handle', row)
  <2>1. \A s \in Req \ {r} : handle'[s] = handle[s] /\ row[s] = row[s]
    BY <1>3
  <2>2. \A i \in (Len(handle[r]) + 1)..Len(row[r]) :
          /\ g[i] \in Places(free_slots', cache', handle', row)
          /\ PageAt(free_slots', cache', row, g[i]) = row[r][i]
    BY <1>8 DEF Y, new, h, n
  <2>3. \A i \in DOMAIN free_slots' \ DOMAIN free_slots :
          \E j \in (Len(handle[r]) + 1)..Len(row[r]) : g[j] = << "free", i >>
    BY <1>9 DEF h, n
  <2>4. \A q \in Paths(cache') \ Paths(cache) :
          \E j \in (Len(handle[r]) + 1)..Len(row[r]) : g[j] = << "tree", q >>
    BY <1>10 DEF h, n
  <2>5. \A i \in (Len(handle'[r]) + 1)..Len(row[r]) :
          \E j \in (Len(handle[r]) + 1)..Len(row[r]) : g[j] = << "row", << r, i >> >>
    BY <1>11 DEF h, n
  <2>6. RowGoes(r, g, free_slots, cache, handle, row, free_slots', cache', handle', row)
    BY <1>12, <1>13, <2>1, <2>2, <2>3, <2>4, <2>5 DEF RowGoes
  <2> QED
    BY <2>6, RowMoves
<1>15. row' = row
  BY <1>1
<1> QED
  BY <1>14, <1>15 DEF EachOnce, Located, Places, PageAt, Entries
LEMMA FinishMoves ==
  ASSUME IInv, HandlesFit, NEW r \in Req, Finish(r), EachOnce(free_slots, cache, handle, row)
  PROVE  EachOnce(free_slots, cache, handle, row)'
<1> DEFINE B == Computed(r)
           d == Insert(cache, B, row[r])
           h == Len(handle[r])
           m == Len(Matched(cache, B))
           b == Len(B)
           n == Len(row[r])
           F == Len(free_slots)
           back == SubSeq(row[r], h + 1, m)
           tail == SubSeq(row[r], b + 1, n)
           Y == Places(free_slots', cache', handle', row')
           new(x) == PageAt(free_slots', cache', row', x)
<1>a. /\ \A i : new(<< "free", i >>) = free_slots'[i]
      /\ \A q : new(<< "tree", q >>) = cache'.page[q]
  BY DEF PageAt
<1>b. AllPlaces(Y, free_slots', cache', handle', row')
  BY PlaceKinds DEF AllPlaces
<1> HIDE DEF Y, new
<1>1. /\ Live(r) /\ cache' = Unlock(d, handle[r])
      /\ free_slots' = free_slots \o (back \o tail)
      /\ handle' = [handle EXCEPT ![r] = Root]
      /\ row' = [row EXCEPT ![r] = << >>]
  BY DEF Finish, FreedAtFinish
<1>2. /\ h \in Nat /\ m \in Nat /\ b \in Nat /\ h <= m /\ m <= b /\ b <= n
      /\ \A q \in Paths(cache) : q \in Paths(d) /\ d.page[q] = cache.page[q]
      /\ \A i \in (m + 1)..b : /\ SubSeq(B, 1, i) \in Paths(d)
                               /\ d.page[SubSeq(B, 1, i)] = row[r][i]
      /\ \A q \in Paths(d) \ Paths(cache) : \E i \in (m + 1)..b : q = SubSeq(B, 1, i)
  BY <1>1, CacheReqPages
<1>3. /\ handle'[r] = Root /\ row'[r] = << >>
      /\ \A s \in Req \ {r} : handle'[s] = handle[s] /\ row'[s] = row[s]
      /\ row[r] \in Seq(Page) /\ n \in Nat /\ free_slots \in Seq(Page) /\ F \in Nat
  BY <1>1 DEF IInv, TypeOK
<1>4. cache'.page = d.page /\ Paths(cache') = Paths(d)
  BY <1>1 DEF Unlock, Paths
<1> HIDE DEF d, B, m
<1>5. /\ back \in Seq(Page) /\ Len(back) = m - h
      /\ \A i \in 1..(m - h) : back[i] = row[r][h + i]
  <2>1. h \in Nat /\ m \in Nat /\ h <= m /\ m <= Len(row[r]) /\ row[r] \in Seq(Page)
    BY <1>2, <1>3
  <2> HIDE DEF h
  <2> QED
    BY <2>1, Slice
<1>6. /\ tail \in Seq(Page) /\ Len(tail) = n - b
      /\ \A i \in 1..(n - b) : tail[i] = row[r][b + i]
  <2>1. b \in Nat /\ n \in Nat /\ b <= n /\ n <= Len(row[r]) /\ row[r] \in Seq(Page)
    BY <1>2, <1>3
  <2> HIDE DEF b, n
  <2> QED
    BY <2>1, Slice
<1> HIDE DEF back, tail, b, n, h
<1>7. /\ DOMAIN free_slots = 1..F /\ DOMAIN free_slots' = 1..(F + (m - h) + (n - b))
      /\ \A i \in 1..F : free_slots'[i] = free_slots[i]
      /\ \A i \in 1..(m - h) : free_slots'[F + i] = row[r][h + i]
      /\ \A i \in 1..(n - b) : free_slots'[F + (m - h) + i] = row[r][b + i]
  <2> DEFINE t == back \o tail
  <2>1. /\ t \in Seq(Page) /\ Len(t) = (m - h) + (n - b)
        /\ \A i \in 1..(m - h) : t[i] = back[i]
        /\ \A i \in 1..(n - b) : t[(m - h) + i] = tail[i]
    <3>1. back \in Seq(Page) /\ tail \in Seq(Page)
      BY <1>5, <1>6
    <3>2. /\ t \in Seq(Page) /\ Len(t) = Len(back) + Len(tail)
          /\ \A i \in 1..Len(back) : t[i] = back[i]
          /\ \A i \in 1..Len(tail) : t[Len(back) + i] = tail[i]
      BY <3>1, Appended
    <3> HIDE DEF t
    <3> QED
      BY <1>5, <1>6, <3>2
  <2>2. free_slots' = free_slots \o t
    BY <1>1
  <2>3. DOMAIN free_slots = 1..F
    BY <1>3
  <2> HIDE DEF t
  <2>4. /\ free_slots' \in Seq(Page) /\ Len(free_slots') = F + Len(t)
        /\ \A i \in 1..F : free_slots'[i] = free_slots[i]
        /\ \A i \in 1..Len(t) : free_slots'[F + i] = t[i]
    <3>1. free_slots \in Seq(Page) /\ t \in Seq(Page)
      BY <1>3, <2>1
    <3> QED
      BY <2>2, <3>1, Appended
  <2> HIDE DEF F
  <2>5. DOMAIN free_slots' = 1..(F + (m - h) + (n - b))
    <3>1. Len(free_slots') = F + (m - h) + (n - b)
      BY <1>2, <1>3, <2>1, <2>4
    <3> QED
      BY <2>4, <3>1
  <2>6. ASSUME NEW i \in 1..(m - h) PROVE free_slots'[F + i] = row[r][h + i]
    <3>1. i \in 1..Len(t)
      BY <1>2, <1>3, <2>1
    <3> QED
      BY <1>5, <2>1, <2>4, <3>1
  <2>7. ASSUME NEW i \in 1..(n - b) PROVE free_slots'[F + (m - h) + i] = row[r][b + i]
    <3>1. (m - h) + i \in 1..Len(t) /\ F + ((m - h) + i) = F + (m - h) + i
      BY <1>2, <1>3, <2>1
    <3>2. t[(m - h) + i] = row[r][b + i]
      BY <1>6, <2>1
    <3>3. free_slots'[F + ((m - h) + i)] = t[(m - h) + i]
      BY <2>4, <3>1
    <3> QED
      BY <3>1, <3>2, <3>3
  <2> QED
    BY <2>3, <2>4, <2>5, <2>6, <2>7
<1> HIDE DEF F
<1> DEFINE g == [i \in (h + 1)..n |->
                   IF i <= m THEN << "free", F + (i - h) >>
                   ELSE IF i <= b THEN << "tree", SubSeq(B, 1, i) >>
                   ELSE << "free", F + (m - h) + (i - b) >>]
<1>8. /\ \A i \in (h + 1)..m : g[i] = << "free", F + (i - h) >>
      /\ \A i \in (m + 1)..b : g[i] = << "tree", SubSeq(B, 1, i) >>
      /\ \A i \in (b + 1)..n : g[i] = << "free", F + (m - h) + (i - b) >>
  BY <1>2, <1>3
<1> HIDE DEF g
<1>9. ASSUME NEW i \in (h + 1)..n PROVE g[i] \in Y /\ new(g[i]) = row[r][i]
  <2>1. CASE i <= m
    <3>1. i \in (h + 1)..m /\ i - h \in 1..(m - h) /\ h + (i - h) = i
      BY <1>2, <1>3, <2>1
    <3>2. F + (i - h) \in 1..(F + (m - h) + (n - b))
      BY <1>3, <3>1, <1>2
    <3>3. free_slots'[F + (i - h)] = row[r][i]
      BY <1>7, <3>1
    <3> QED
      BY <1>7, <1>8, <3>1, <3>2, <3>3, <1>a, <1>b DEF AllPlaces
  <2>2. CASE ~(i <= m) /\ i <= b
    <3>1. i \in (m + 1)..b
      BY <1>2, <1>3, <2>2
    <3> QED
      BY <1>2, <1>4, <1>8, <3>1, <1>a, <1>b DEF AllPlaces
  <2>3. CASE ~(i <= b)
    <3>1. i \in (b + 1)..n /\ i - b \in 1..(n - b) /\ b + (i - b) = i
      BY <1>2, <1>3, <2>3
    <3>2. F + (m - h) + (i - b) \in 1..(F + (m - h) + (n - b))
      BY <1>3, <3>1, <1>2
    <3>3. free_slots'[F + (m - h) + (i - b)] = row[r][i]
      BY <1>7, <3>1
    <3> QED
      BY <1>7, <1>8, <3>1, <3>2, <3>3, <1>a, <1>b DEF AllPlaces
  <2> QED
    BY <2>1, <2>2, <2>3
<1>10. ASSUME NEW i \in DOMAIN free_slots' \ DOMAIN free_slots
       PROVE  \E j \in (h + 1)..n : g[j] = << "free", i >>
  <2>1. CASE i <= F + (m - h)
    <3> DEFINE j == h + (i - F)
    <3>1. j \in (h + 1)..m /\ j \in (h + 1)..n /\ F + (j - h) = i
      BY <1>2, <1>3, <1>7, <2>1
    <3> HIDE DEF j
    <3> QED
      BY <1>8, <3>1
  <2>2. CASE ~(i <= F + (m - h))
    <3> DEFINE j == b + (i - (F + (m - h)))
    <3>1. j \in (b + 1)..n /\ j \in (h + 1)..n /\ F + (m - h) + (j - b) = i
      BY <1>2, <1>3, <1>7, <2>2
    <3> HIDE DEF j
    <3> QED
      BY <1>8, <3>1
  <2> QED
    BY <2>1, <2>2
<1>11. ASSUME NEW q \in Paths(cache') \ Paths(cache)
       PROVE  \E j \in (h + 1)..n : g[j] = << "tree", q >>
  <2>1. PICK j \in (m + 1)..b : q = SubSeq(B, 1, j)
    BY <1>2, <1>4
  <2>2. j \in (h + 1)..n
    BY <1>2, <1>3
  <2> QED
    BY <1>8, <2>1, <2>2
<1>12. (Len(handle'[r]) + 1)..Len(row'[r]) = {}
  BY <1>3 DEF Root
<1>13. \A i \in DOMAIN free_slots : i \in DOMAIN free_slots' /\ free_slots'[i] = free_slots[i]
  BY <1>2, <1>3, <1>7
<1>14. \A q \in Paths(cache) : q \in Paths(cache') /\ cache'.page[q] = cache.page[q]
  BY <1>2, <1>4
<1>15. RowGoes(r, g, free_slots, cache, handle, row, free_slots', cache', handle', row')
  <2>1. \A i \in (Len(handle[r]) + 1)..Len(row[r]) :
          /\ g[i] \in Places(free_slots', cache', handle', row')
          /\ PageAt(free_slots', cache', row', g[i]) = row[r][i]
    BY <1>9 DEF Y, new, h, n
  <2>2. \A i \in DOMAIN free_slots' \ DOMAIN free_slots :
          \E j \in (Len(handle[r]) + 1)..Len(row[r]) : g[j] = << "free", i >>
    BY <1>10 DEF h, n
  <2>3. \A q \in Paths(cache') \ Paths(cache) :
          \E j \in (Len(handle[r]) + 1)..Len(row[r]) : g[j] = << "tree", q >>
    BY <1>11 DEF h, n
  <2> QED
    BY <1>3, <1>12, <1>13, <1>14, <2>1, <2>2, <2>3 DEF RowGoes
<1>16. EachOnce(free_slots', cache', handle', row')
  BY <1>15, RowMoves
<1> QED
  BY <1>16 DEF EachOnce, Located, Places, PageAt, Entries

-----------------------------------------------------------------------------
PageInv == HandlesFit /\ EachOnce(free_slots, cache, handle, row)

LEMMA PageInit == ASSUME Init PROVE PageInv
BY InitFits, InitOnce DEF PageInv

LEMMA PageStep ==
  ASSUME IInv, PageInv, [Next]_vars PROVE PageInv'
<1> USE DEF PageInv
<1>1. ASSUME NEW r \in Req, Refuse(r) PROVE PageInv'
  <2>1. HandlesFit'
    BY <1>1 DEF Refuse, HandlesFit, Live, Computed
  <2> QED
    BY <1>1, <2>1, RefuseMoves
<1>2. ASSUME NEW r \in Req, Admit(r) PROVE PageInv'
  BY <1>2, AdmitFits, AdmitMoves
<1>3. ASSUME NEW r \in Req, NEW n \in Targets(r), StartAlloc(r, n) PROVE PageInv'
  <2>1. UNCHANGED << free_slots, cache, handle, row >>
    BY <1>3 DEF StartAlloc
  <2>2. EachOnce(free_slots, cache, handle, row)'
    BY <2>1 DEF EachOnce, Located, Places, PageAt, Entries
  <2> QED
    BY <1>3, <2>2, StartAllocFits
<1>4. ASSUME NEW r \in Req, EvictOne(r) PROVE PageInv'
  <2>1. HandlesFit'
    BY <1>4 DEF EvictOne, HandlesFit, Live, Computed
  <2> QED
    BY <1>4, <2>1, EvictMoves
<1>5. ASSUME NEW r \in Req, Take(r) PROVE PageInv'
  BY <1>5, TakeFits, TakeMoves
<1>6. ASSUME NEW r \in Req, Commit(r) PROVE PageInv'
  BY <1>6, CommitFits, CommitMoves
<1>7. ASSUME NEW r \in Req, Finish(r) PROVE PageInv'
  BY <1>7, FinishFits, FinishMoves
<1>8. CASE UNCHANGED vars
  <2>1. HandlesFit'
    BY <1>8 DEF vars, HandlesFit, Live, Computed
  <2>2. EachOnce(free_slots, cache, handle, row)'
    BY <1>8 DEF vars, EachOnce, Located, Places, PageAt, Entries
  <2> QED
    BY <2>1, <2>2
<1>9. CASE Done
  BY <1>8, <1>9 DEF Done
<1> QED
  BY <1>1, <1>2, <1>3, <1>4, <1>5, <1>6, <1>7, <1>8, <1>9 DEF Next

-----------------------------------------------------------------------------
(* What the pages of the tree hold. *)

\* The pages of the tokens a request has computed and not committed hold the KV of
\* these tokens; TreeContent says the same of the tree.
RowContent ==
  \A r \in Req : Live(r) =>
    \A i \in (Len(handle[r]) + 1)..(cached_len[r] \div PageSize) :
      kv[row[r][i]] = SubSeq(ids[r], 1, PageSize * i)

\* No page is in the row of two requests, or in a row and in the tree.
LEMMA PlacesDiffer ==
  ASSUME NEW fs, NEW c, NEW hd, NEW rw, EachOnce(fs, c, hd, rw),
         NEW r \in Req, NEW i \in (Len(hd[r]) + 1)..Len(rw[r])
  PROVE  /\ rw[r][i] \in Page
         /\ \A q \in Paths(c) : c.page[q] # rw[r][i]
         /\ \A s \in Req : \A j \in (Len(hd[s]) + 1)..Len(rw[s]) :
              rw[s][j] = rw[r][i] => s = r /\ j = i
<1> DEFINE X == Places(fs, c, hd, rw)
           at(x) == PageAt(fs, c, rw, x)
<1>1. /\ \A q : at(<< "tree", q >>) = c.page[q]
      /\ \A s, j : at(<< "row", << s, j >> >>) = rw[s][j]
  BY DEF PageAt
<1>2. AllPlaces(X, fs, c, hd, rw)
  BY PlaceKinds
<1>3. /\ \A x \in X : at(x) \in Page
      /\ \A x, y \in X : at(x) = at(y) => x = y
  BY OnePlace
<1> HIDE DEF X, at
<1>4. << "row", << r, i >> >> \in X
  BY <1>2 DEF AllPlaces
<1>5. rw[r][i] \in Page
  BY <1>1, <1>3, <1>4
<1>6. ASSUME NEW q \in Paths(c), c.page[q] = rw[r][i] PROVE FALSE
  <2>1. << "tree", q >> \in X
    BY <1>2 DEF AllPlaces
  <2>2. << "tree", q >> = << "row", << r, i >> >>
    BY <1>1, <1>3, <1>4, <1>6, <2>1
  <2> QED
    BY <2>2
<1>7. ASSUME NEW s \in Req, NEW j \in (Len(hd[s]) + 1)..Len(rw[s]), rw[s][j] = rw[r][i]
      PROVE  s = r /\ j = i
  <2>1. << "row", << s, j >> >> \in X
    BY <1>2 DEF AllPlaces
  <2>2. << "row", << s, j >> >> = << "row", << r, i >> >>
    BY <1>1, <1>3, <1>4, <1>7, <2>1
  <2> QED
    BY <2>2
<1> QED
  BY <1>5, <1>6, <1>7

\* The first i blocks of a sequence are the blocks of its first PageSize * i tokens
LEMMA BlocksSegment ==
  ASSUME NEW s \in Seq(Token), NEW n \in 0..Len(s), NEW i \in 0..(n \div PageSize)
  PROVE  LET t == SubSeq(s, 1, PageSize * i)
         IN  /\ Len(t) = PageSize * i
             /\ Blocks(t) = SubSeq(Blocks(SubSeq(s, 1, n)), 1, i)
<1> DEFINE k == PageSize * i
<1>1. n \in Nat /\ PageSize \in Nat \ {0} /\ n \div PageSize \in Nat
  BY PageSizeAssumption, DivBounds
<1>2. i \in Nat /\ i <= n \div PageSize
  BY <1>1
<1>3. k \in 0..n
  BY <1>1, <1>2, DivBelow
<1>4. k \div PageSize = i
  <2>1. k \in Nat
    BY <1>1, <1>3
  <2>2. PageSize * i <= k /\ k < PageSize * i + PageSize
    BY <1>1, <2>1
  <2> HIDE DEF k
  <2> QED
    BY <1>1, <1>2, <2>1, <2>2, DivUnique
<1> HIDE DEF k
<1>5. SubSeq(s, 1, k) \in Seq(Token) /\ Len(SubSeq(s, 1, k)) = k /\ SubSeq(s, 1, n) \in Seq(Token)
  <2>1. k \in 0..Len(s)
    BY <1>1, <1>3
  <2> QED
    BY <2>1
<1>6. /\ Blocks(SubSeq(s, 1, k)) \in Seq(Block) /\ Len(Blocks(SubSeq(s, 1, k))) = i
      /\ Blocks(SubSeq(s, 1, n)) \in Seq(Block)
  BY <1>4, <1>5, BlocksType
<1>7. IsPrefix(Blocks(SubSeq(s, 1, k)), Blocks(SubSeq(s, 1, n)))
  BY <1>3, BlocksPrefix
<1> QED
  BY <1>5, <1>6, <1>7, PrefixIsSegment DEF k

\* cache_req hands pages with the right content to the tree
LEMMA CacheReqContent ==
  ASSUME IInv, HandlesFit, RowContent, TreeContent, NEW r \in Req, Live(r)
  PROVE  LET d == Insert(cache, Computed(r), row[r])
         IN  \A q \in Paths(d) : LET t == kv[d.page[q]]
                                 IN  Len(t) = PageSize * Len(q) /\ Blocks(t) = q
<1> DEFINE B == Computed(r)
           d == Insert(cache, B, row[r])
           m == Len(Matched(cache, B))
           n == cached_len[r]
<1>1. /\ m \in Nat /\ Len(handle[r]) \in Nat /\ Len(handle[r]) <= m
      /\ \A q \in Paths(cache) : q \in Paths(d) /\ d.page[q] = cache.page[q]
      /\ \A i \in (m + 1)..Len(B) : d.page[SubSeq(B, 1, i)] = row[r][i]
      /\ \A q \in Paths(d) \ Paths(cache) : \E i \in (m + 1)..Len(B) : q = SubSeq(B, 1, i)
  BY CacheReqPages
<1>2. B \in Seq(Block) /\ Len(B) = n \div PageSize /\ B = Blocks(SubSeq(ids[r], 1, n))
  BY ComputedType DEF Computed
<1>3. ids[r] \in Seq(Token) /\ n \in 0..Len(ids[r])
  BY DEF IInv, TypeOK, Lengths
<1> HIDE DEF d, m, B, n
<1>4. ASSUME NEW i \in (m + 1)..Len(B)
      PROVE  LET t == kv[d.page[SubSeq(B, 1, i)]]
             IN  /\ Len(t) = PageSize * Len(SubSeq(B, 1, i))
                 /\ Blocks(t) = SubSeq(B, 1, i)
  <2>1. /\ i \in 0..(n \div PageSize) /\ i \in 0..Len(B)
        /\ i \in (Len(handle[r]) + 1)..(n \div PageSize)
    BY <1>1, <1>2
  <2>2. kv[row[r][i]] = SubSeq(ids[r], 1, PageSize * i)
    BY <2>1 DEF RowContent, n
  <2>3. Len(SubSeq(B, 1, i)) = i
    BY <1>2, <2>1, PrefixSegment
  <2>4. /\ Len(SubSeq(ids[r], 1, PageSize * i)) = PageSize * i
        /\ Blocks(SubSeq(ids[r], 1, PageSize * i)) = SubSeq(B, 1, i)
    BY <1>2, <1>3, <2>1, BlocksSegment
  <2> QED
    BY <1>1, <2>2, <2>3, <2>4
<1>5. ASSUME NEW q \in Paths(d)
      PROVE  LET t == kv[d.page[q]] IN Len(t) = PageSize * Len(q) /\ Blocks(t) = q
  <2>1. CASE q \in Paths(cache)
    BY <1>1, <2>1 DEF TreeContent
  <2>2. CASE q \notin Paths(cache)
    BY <1>1, <1>4, <2>2
  <2> QED
    BY <2>1, <2>2
<1> QED
  BY <1>5 DEF d, B
LEMMA AdmitContent ==
  ASSUME IInv, RowContent, TreeContent, NEW r \in Req, Admit(r)
  PROVE  RowContent' /\ TreeContent'
<1> DEFINE h == MatchReq(r)
<1>1. /\ cache' = Lock(Walk(cache, h), h) /\ handle' = [handle EXCEPT ![r] = h]
      /\ cached_len' = [cached_len EXCEPT ![r] = PageSize * Len(h)]
      /\ row' = [row EXCEPT ![r] = MatchedPages(cache, h)]
      /\ phase' = [phase EXCEPT ![r] = "admitted"]
      /\ UNCHANGED << ids, kv >>
  BY DEF Admit
<1>2. h \in Seq(Block)
  BY MatchReqType DEF IInv
<1> HIDE DEF h
<1>3. cache'.page = cache.page /\ Paths(cache') = Paths(cache)
  BY <1>1 DEF Lock, Walk, Paths
<1>4. /\ handle'[r] = h /\ cached_len'[r] = PageSize * Len(h)
      /\ \A s \in Req \ {r} : /\ handle'[s] = handle[s] /\ cached_len'[s] = cached_len[s]
                              /\ row'[s] = row[s] /\ phase'[s] = phase[s]
  BY <1>1 DEF IInv, TypeOK
<1>5. (Len(handle'[r]) + 1)..(cached_len'[r] \div PageSize) = {}
  <2> DEFINE k == Len(h)
             a == PageSize * k
  <2>1. k \in Nat /\ PageSize \in Nat \ {0}
    BY <1>2, PageSizeAssumption
  <2>2. a \in Nat /\ PageSize * k <= a /\ a < PageSize * k + PageSize
    BY <2>1
  <2> HIDE DEF a, k
  <2>3. a \div PageSize = k
    BY <2>1, <2>2, DivUnique
  <2>4. Len(handle'[r]) = k /\ cached_len'[r] \div PageSize = k
    BY <1>4, <2>3 DEF a, k
  <2> QED
    BY <2>1, <2>4
<1>6. TreeContent'
  BY <1>1, <1>3 DEF TreeContent
<1>7. ASSUME NEW s \in Req, Live(s)',
             NEW i \in (Len(handle'[s]) + 1)..(cached_len'[s] \div PageSize)
      PROVE  kv'[row'[s][i]] = SubSeq(ids'[s], 1, PageSize * i)
  <2>1. s # r
    BY <1>5, <1>7
  <2> QED
    BY <1>1, <1>4, <1>7, <2>1 DEF RowContent, Live
<1> QED
  BY <1>6, <1>7 DEF RowContent

LEMMA StartAllocContent ==
  ASSUME IInv, RowContent, TreeContent, NEW r \in Req, NEW n \in Targets(r), StartAlloc(r, n)
  PROVE  RowContent' /\ TreeContent'
<1>1. /\ UNCHANGED << cache, phase, cached_len, handle, row, kv >>
      /\ \/ ids' = ids
         \/ \E t \in Token : ids' = [ids EXCEPT ![r] = Append(@, t)]
  BY DEF StartAlloc
<1>2. ASSUME NEW s \in Req, NEW i \in (Len(handle[s]) + 1)..(cached_len[s] \div PageSize)
      PROVE  SubSeq(ids'[s], 1, PageSize * i) = SubSeq(ids[s], 1, PageSize * i)
  <2>1. /\ ids[s] \in Seq(Token) /\ cached_len[s] \in Nat /\ cached_len[s] <= Len(ids[s])
        /\ handle[s] \in Seq(Block) /\ PageSize \in Nat \ {0}
    BY PageSizeAssumption DEF IInv, TypeOK, Lengths
  <2>2. i \in Nat /\ i <= cached_len[s] \div PageSize
    BY <2>1, DivBounds
  <2> DEFINE k == PageSize * i
  <2>3. k \in Nat /\ k <= cached_len[s]
    BY <2>1, <2>2, DivBelow
  <2>4. k \in 0..Len(ids[s])
    BY <2>1, <2>3
  <2> HIDE DEF k
  <2>5. CASE ids'[s] = ids[s]
    BY <2>5
  <2>6. CASE \E t \in Token : ids'[s] = Append(ids[s], t)
    <3>1. PICK t \in Token : ids'[s] = Append(ids[s], t)
      BY <2>6
    <3>2. SubSeq(ids'[s], 1, k) = SubSeq(ids[s], 1, k)
      BY <2>1, <2>4, <3>1
    <3> QED
      BY <3>2 DEF k
  <2> QED
    BY <1>1, <2>5, <2>6 DEF IInv, TypeOK
<1>3. RowContent'
  BY <1>1, <1>2 DEF RowContent, Live
<1> QED
  BY <1>1, <1>3 DEF TreeContent

LEMMA EvictContent ==
  ASSUME IInv, RowContent, TreeContent, NEW r \in Req, EvictOne(r)
  PROVE  RowContent' /\ TreeContent'
<1>1. PICK v \in Victims(cache) : cache' = EvictLeaf(cache, v)
  BY DEF EvictOne
<1>2. UNCHANGED << phase, ids, cached_len, handle, row, kv >>
  BY DEF EvictOne
<1>3. CacheType(cache, Block, Page) /\ Trie(cache) /\ v \in Leaves(cache)
  BY DEF IInv, TypeOK, TreeShape, Victims, Unlocked
<1>4. /\ Paths(cache') \subseteq Paths(cache)
      /\ \A q \in Paths(cache') : cache'.page[q] = cache.page[q]
  BY <1>1, <1>3, EvictNodes
<1>5. TreeContent'
  BY <1>2, <1>4 DEF TreeContent
<1>6. RowContent'
  BY <1>2 DEF RowContent, Live
<1> QED
  BY <1>5, <1>6

LEMMA CommitContent ==
  ASSUME IInv, HandlesFit, RowContent, TreeContent, NEW r \in Req, Commit(r)
  PROVE  RowContent' /\ TreeContent'
<1> DEFINE d == Insert(cache, Computed(r), row[r])
<1>1. /\ Live(r) /\ cache' = Lock(Unlock(d, handle[r]), Computed(r))
      /\ handle' = [handle EXCEPT ![r] = Computed(r)]
      /\ phase' = [phase EXCEPT ![r] = "committed"]
      /\ UNCHANGED << ids, cached_len, row, kv >>
  BY DEF Commit, Live
<1>2. \A q \in Paths(d) : LET t == kv[d.page[q]]
                          IN  Len(t) = PageSize * Len(q) /\ Blocks(t) = q
  BY <1>1, CacheReqContent
<1> HIDE DEF d
<1>3. cache'.page = d.page /\ Paths(cache') = Paths(d)
  BY <1>1 DEF Lock, Unlock, Paths
<1>4. TreeContent'
  BY <1>1, <1>2, <1>3 DEF TreeContent
<1>5. /\ handle'[r] = Computed(r) /\ cached_len'[r] = cached_len[r]
      /\ \A s \in Req \ {r} : handle'[s] = handle[s] /\ phase'[s] = phase[s]
  BY <1>1 DEF IInv, TypeOK
<1>6. (Len(handle'[r]) + 1)..(cached_len'[r] \div PageSize) = {}
  <2>1. Len(handle'[r]) = cached_len[r] \div PageSize /\ Len(handle'[r]) \in Nat
    BY <1>5, ComputedType
  <2> QED
    BY <1>5, <2>1
<1>7. ASSUME NEW s \in Req, Live(s)',
             NEW i \in (Len(handle'[s]) + 1)..(cached_len'[s] \div PageSize)
      PROVE  kv'[row'[s][i]] = SubSeq(ids'[s], 1, PageSize * i)
  <2>1. s # r
    BY <1>6, <1>7
  <2> QED
    BY <1>1, <1>5, <1>7, <2>1 DEF RowContent, Live
<1> QED
  BY <1>4, <1>7 DEF RowContent

LEMMA FinishContent ==
  ASSUME IInv, HandlesFit, RowContent, TreeContent, NEW r \in Req, Finish(r)
  PROVE  RowContent' /\ TreeContent'
<1> DEFINE d == Insert(cache, Computed(r), row[r])
<1>1. Live(r) /\ cache' = Unlock(d, handle[r]) /\ kv' = kv
  BY DEF Finish
<1>2. \A q \in Paths(d) : LET t == kv[d.page[q]]
                          IN  Len(t) = PageSize * Len(q) /\ Blocks(t) = q
  BY <1>1, CacheReqContent
<1> HIDE DEF d
<1>3. cache'.page = d.page /\ Paths(cache') = Paths(d)
  BY <1>1 DEF Unlock, Paths
<1>4. TreeContent'
  BY <1>1, <1>2, <1>3 DEF TreeContent
<1>5. /\ phase'[r] = "done"
      /\ \A s \in Req \ {r} : /\ handle'[s] = handle[s] /\ phase'[s] = phase[s]
                              /\ ids'[s] = ids[s] /\ cached_len'[s] = cached_len[s]
                              /\ row'[s] = row[s]
  BY DEF Finish, IInv, TypeOK
<1>6. RowContent'
  BY <1>1, <1>5 DEF RowContent, Live
<1> QED
  BY <1>4, <1>6
LEMMA TakeContent ==
  ASSUME IInv, EachOnce(free_slots, cache, handle, row), RowContent, TreeContent,
         NEW r \in Req, Take(r)
  PROVE  RowContent' /\ TreeContent'
<1> DEFINE n == job.upto
           m == cached_len[r]
           k == PagesFor(r, n)
           rw == row[r] \o SubSeq(free_slots, 1, k)
           written == (m \div PageSize + 1)..CeilDiv(n, PageSize)
<1>1. /\ job.req = {r} /\ k <= Len(free_slots) /\ row' = [row EXCEPT ![r] = rw]
      /\ kv' = Stored(r, rw, n) /\ cached_len' = [cached_len EXCEPT ![r] = n]
      /\ UNCHANGED << cache, phase, ids, handle >>
  BY DEF Take
<1>2. Live(r) /\ m \in Nat /\ n \in Nat /\ m < n /\ PageSize \in Nat \ {0}
  BY <1>1, PageSizeAssumption DEF IInv, TypeOK, Lengths
<1>3. /\ row'[r] = rw /\ cached_len'[r] = n
      /\ \A s \in Req \ {r} : row'[s] = row[s] /\ cached_len'[s] = cached_len[s]
  BY <1>1 DEF IInv, TypeOK
<1>4. kv' = [p \in Page |->
               IF \E i \in written : rw[i] = p
               THEN LET i == CHOOSE j \in written : rw[j] = p
                    IN SubSeq(ids[r], 1, Smaller(i * PageSize, n))
               ELSE kv[p]]
  BY <1>1 DEF Stored
<1>5. ASSUME NEW i \in 1..Len(row[r]) PROVE rw[i] = row[r][i]
  <2> DEFINE t == SubSeq(free_slots, 1, k)
  <2>1. k \in Nat
    BY <1>1, PagesForType
  <2> HIDE DEF k
  <2>2. t \in Seq(Page) /\ row[r] \in Seq(Page)
    BY <1>1, <2>1 DEF IInv, TypeOK
  <2> HIDE DEF t
  <2> QED
    BY <2>2, Appended DEF t
<1> HIDE DEF rw, k
<1>6. IInv' /\ EachOnce(free_slots', cache', handle', row')
  <2>1. EachOnce(free_slots, cache, handle, row)'
    BY <1>1, TakeMoves
  <2>2. EachOnce(free_slots', cache', handle', row')
    BY <2>1 DEF EachOnce, Located, Places, PageAt, Entries
  <2> QED
    BY <2>2, TakeStep
<1>7. Len(row'[r]) = CeilDiv(n, PageSize)
  BY <1>3, <1>6 DEF IInv, Lengths
<1>8. Len(handle[r]) \in Nat /\ Len(handle[r]) <= m \div PageSize /\ m \div PageSize \in Nat
  <2> DEFINE h == Len(handle[r])
             a == PageSize * h
  <2>1. h \in Nat /\ a <= m
    BY <1>2 DEF IInv, TypeOK, HandlesHeld
  <2>2. a \in Nat /\ PageSize * h <= a /\ a < PageSize * h + PageSize
    BY <1>2, <2>1
  <2> HIDE DEF a, h, m
  <2>3. a \div PageSize = h
    BY <1>2, <2>1, <2>2, DivUnique
  <2> QED
    BY <1>2, <2>1, <2>2, <2>3, DivMonotone, DivBounds DEF h
<1>9. CeilDiv(n, PageSize) \in Nat /\ n \div PageSize <= CeilDiv(n, PageSize)
      /\ n \div PageSize \in Nat
  <2> HIDE DEF n
  <2> QED
    BY <1>2, CeilDivFacts, DivBounds
<1> HIDE DEF n, m
<1>10. ASSUME NEW j \in written
       PROVE  j \in (Len(handle'[r]) + 1)..Len(row'[r])
  BY <1>1, <1>7, <1>8, <1>9
\* the pages written belong to r alone, and each is written as one page of its row
<1>11. ASSUME NEW j \in written
       PROVE  /\ \A q \in Paths(cache) : cache.page[q] # rw[j]
              /\ \A s \in Req : \A i \in (Len(handle[s]) + 1)..Len(row'[s]) :
                   row'[s][i] = rw[j] => s = r /\ i = j
  <2>1. /\ \A q \in Paths(cache') : cache'.page[q] # row'[r][j]
        /\ \A s \in Req : \A i \in (Len(handle'[s]) + 1)..Len(row'[s]) :
             row'[s][i] = row'[r][j] => s = r /\ i = j
    BY <1>6, <1>10, PlacesDiffer
  <2>2. cache' = cache /\ handle' = handle /\ row'[r] = rw
    BY <1>1, <1>3
  <2> QED
    BY <2>1, <2>2
<1>12. ASSUME NEW s \in Req, NEW i \in (Len(handle[s]) + 1)..Len(row'[s])
       PROVE  row'[s][i] \in Page
  BY <1>1, <1>6, PlacesDiffer
<1>13. ASSUME NEW p \in Page, \A j \in written : rw[j] # p
       PROVE  kv'[p] = kv[p]
  BY <1>4, <1>13
<1>14. ASSUME NEW i \in written
       PROVE  kv'[rw[i]] = SubSeq(ids[r], 1, Smaller(i * PageSize, n))
  <2>1. rw[i] \in Page
    BY <1>1, <1>3, <1>10, <1>12
  <2>2. \A j \in written : rw[j] = rw[i] => j = i
    BY <1>1, <1>3, <1>10, <1>11
  <2>3. (CHOOSE j \in written : rw[j] = rw[i]) = i
    BY <2>2
  <2> QED
    BY <1>4, <2>1, <2>3
<1>15. TreeContent'
  <2>1. ASSUME NEW q \in Paths(cache) PROVE kv'[cache.page[q]] = kv[cache.page[q]]
    <3>1. cache.page[q] \in Page
      BY DEF IInv, TypeOK, CacheType
    <3> QED
      BY <1>11, <1>13, <3>1
  <2> QED
    BY <1>1, <2>1 DEF TreeContent
<1>16. ASSUME NEW s \in Req, s # r, Live(s),
              NEW i \in (Len(handle[s]) + 1)..(cached_len[s] \div PageSize)
       PROVE  kv'[row[s][i]] = kv[row[s][i]]
  <2>1. cached_len[s] \div PageSize \in Nat /\ cached_len[s] \div PageSize <= Len(row[s])
    BY PageSizeAssumption, ComputedType, DivBounds DEF IInv, TypeOK
  <2>2. Len(handle[s]) \in Nat /\ Len(row[s]) \in Nat /\ row'[s] = row[s]
    BY <1>3, <1>16 DEF IInv, TypeOK
  <2>3. i \in (Len(handle[s]) + 1)..Len(row'[s])
    BY <2>1, <2>2
  <2>4. row[s][i] \in Page /\ \A j \in written : rw[j] # row[s][i]
    BY <1>11, <1>12, <1>16, <2>2, <2>3
  <2> QED
    BY <1>13, <2>4
<1>17. ASSUME NEW i \in (Len(handle[r]) + 1)..(n \div PageSize)
       PROVE  kv'[rw[i]] = SubSeq(ids[r], 1, PageSize * i)
  <2>1. i \in Nat /\ i <= n \div PageSize
    BY <1>8, <1>9
  <2>2. i \in (Len(handle[r]) + 1)..Len(row'[r])
    BY <1>7, <1>8, <1>9
  <2>3. CASE i \in written
    <3>1. PageSize * i \in Nat /\ PageSize * i <= n
      BY <1>2, <2>1, DivBelow
    <3>2. i * PageSize = PageSize * i
      BY <1>2, <2>1
    <3>3. Smaller(i * PageSize, n) = PageSize * i
      BY <1>2, <3>1, <3>2 DEF Smaller
    <3> QED
      BY <1>14, <2>3, <3>3
  <2>4. CASE i \notin written
    <3>1. i \in (Len(handle[r]) + 1)..(m \div PageSize)
      BY <1>8, <1>9, <2>1, <2>4
    <3>2. rw[i] \in Page /\ \A j \in written : rw[j] # rw[i]
      BY <1>3, <1>11, <1>12, <2>2, <2>4
    <3>3. kv'[rw[i]] = kv[rw[i]]
      BY <1>13, <3>2
    <3>4. rw[i] = row[r][i]
      <4>1. m \div PageSize <= Len(row[r]) /\ Len(row[r]) \in Nat
        BY ComputedType DEF m, IInv, TypeOK
      <4>2. i \in 1..Len(row[r])
        BY <1>8, <3>1, <4>1
      <4> QED
        BY <1>5, <4>2
    <3>5. kv[row[r][i]] = SubSeq(ids[r], 1, PageSize * i)
      BY <1>2, <3>1 DEF RowContent, m
    <3> QED
      BY <3>3, <3>4, <3>5
  <2> QED
    BY <2>3, <2>4
<1>18. ASSUME NEW s \in Req, Live(s)',
              NEW i \in (Len(handle'[s]) + 1)..(cached_len'[s] \div PageSize)
       PROVE  kv'[row'[s][i]] = SubSeq(ids'[s], 1, PageSize * i)
  <2>1. CASE s = r
    BY <1>1, <1>3, <1>17, <1>18, <2>1
  <2>2. CASE s # r
    <3>1. /\ Live(s) /\ i \in (Len(handle[s]) + 1)..(cached_len[s] \div PageSize)
          /\ row'[s] = row[s] /\ ids' = ids
      BY <1>1, <1>3, <1>18, <2>2 DEF Live
    <3>2. kv[row[s][i]] = SubSeq(ids[s], 1, PageSize * i)
      BY <3>1 DEF RowContent
    <3> QED
      BY <1>16, <2>2, <3>1, <3>2
  <2> QED
    BY <2>1, <2>2
<1> QED
  BY <1>15, <1>18 DEF RowContent
-----------------------------------------------------------------------------
ContentInv == RowContent /\ TreeContent

LEMMA ContentInit == ASSUME Init PROVE ContentInv
BY DEF Init, EmptyCache, Paths, Live, ContentInv, RowContent, TreeContent

LEMMA ContentStep ==
  ASSUME IInv, PageInv, ContentInv, [Next]_vars PROVE ContentInv'
<1> USE DEF PageInv, ContentInv
<1>1. ASSUME NEW r \in Req, Refuse(r) PROVE ContentInv'
  <2>1. cache'.page = cache.page /\ UNCHANGED << phase, ids, cached_len, handle, row, kv >>
    BY <1>1 DEF Refuse, Walk
  <2> QED
    BY <2>1 DEF RowContent, TreeContent, Live, Paths
<1>2. ASSUME NEW r \in Req, Admit(r) PROVE ContentInv'
  BY <1>2, AdmitContent
<1>3. ASSUME NEW r \in Req, NEW n \in Targets(r), StartAlloc(r, n) PROVE ContentInv'
  BY <1>3, StartAllocContent
<1>4. ASSUME NEW r \in Req, EvictOne(r) PROVE ContentInv'
  BY <1>4, EvictContent
<1>5. ASSUME NEW r \in Req, Take(r) PROVE ContentInv'
  BY <1>5, TakeContent
<1>6. ASSUME NEW r \in Req, Commit(r) PROVE ContentInv'
  BY <1>6, CommitContent
<1>7. ASSUME NEW r \in Req, Finish(r) PROVE ContentInv'
  BY <1>7, FinishContent
<1>8. CASE UNCHANGED vars
  BY <1>8 DEF vars, RowContent, TreeContent, Live
<1>9. CASE Done
  BY <1>8, <1>9 DEF Done
<1> QED
  BY <1>1, <1>2, <1>3, <1>4, <1>5, <1>6, <1>7, <1>8, <1>9 DEF Next

LEMMA PageInvariance == Spec => []PageInv
<1>1. Init => PageInv
  BY PageInit
<1>2. IInv /\ PageInv /\ [Next]_vars => PageInv'
  BY PageStep
<1> QED
  BY <1>1, <1>2, Invariance, PTL DEF Spec

\* Every page of the pool is free, in the tree, or uncommitted in one row, and in
\* one place only: no allocation, eviction, commit or end loses or doubles a page.
THEOREM EveryPageInOnePlace == Spec => []PagePartition
<1>1. PageInv => PagePartition
  BY OncePartition DEF PageInv
<1> QED
  BY <1>1, PageInvariance, PTL

\* The tree never hands out a page that holds anything but the KV of the prefix it
\* stands for, however pages were allocated, committed, evicted and reused.
THEOREM TreePagesHoldTheirPrefix == Spec => []TreeContent
<1>1. Init => ContentInv
  BY ContentInit
<1>2. IInv /\ PageInv /\ ContentInv /\ [Next]_vars => ContentInv'
  BY ContentStep
<1>3. ContentInv => TreeContent
  BY DEF ContentInv
<1> QED
  BY <1>1, <1>2, <1>3, Invariance, PageInvariance, PTL DEF Spec

LEMMA SmallestNat ==
  ASSUME NEW T \in SUBSET Nat, T # {}
  PROVE  \E m \in T : \A k \in T : m <= k
<1>1. PICK n \in T : TRUE
  OBVIOUS
<1> DEFINE U == {n - k : k \in {j \in T : j <= n}}
<1>a. n \in Nat /\ n - n \in U
  BY <1>1
<1>b. ASSUME NEW k \in T, k <= n PROVE n - k \in 0..n
  BY <1>a, <1>b
<1>2. U \in SUBSET (0..n) /\ U # {} /\ n \in Nat
  BY <1>a, <1>b
<1> HIDE DEF U
<1>3. PICK u \in U : \A k \in U : k <= u
  BY <1>2, MaximumExists
<1>4. PICK m \in T : m <= n /\ u = n - m
  BY <1>3 DEF U
<1>5. ASSUME NEW k \in T PROVE m <= k
  <2>1. CASE k <= n
    <3>1. n - k \in U
      BY <2>1 DEF U
    <3>2. n - k <= n - m /\ k \in Nat /\ m \in Nat
      BY <1>3, <1>4, <3>1
    <3> QED
      BY <1>2, <3>2
  <2>2. CASE ~(k <= n)
    <3>1. k \in Nat /\ m \in Nat
      OBVIOUS
    <3> QED
      BY <1>2, <1>4, <2>2, <3>1
  <2> QED
    BY <2>1, <2>2
<1> QED
  BY <1>4, <1>5

-----------------------------------------------------------------------------
(* What available_size promises, evict delivers. *)

\* The allocation in progress was checked against the pages that are free or
\* counted evictable, and no step before its end takes any of them.
Covered ==
  \A r \in job.req : PagesFor(r, job.upto) <= Len(free_slots) + cache.evictable

EvictInv == Sized(cache) /\ AgesOrdered(cache) /\ Covered

\* In the tree that cache_req(r) has inserted into, r still holds its old handle
LEMMA InsertHeld ==
  ASSUME IInv, NEW r \in Req, Live(r)
  PROVE  LET d == Insert(cache, Computed(r), row[r])
         IN  /\ CacheType(d, Block, Page) /\ Trie(d)
             /\ handle[r] \in {Root} \cup Nodes(d)
             /\ Computed(r) \in {Root} \cup Nodes(d)
             /\ \A n \in Nodes(d) : IsPrefix(n, handle[r]) => d.ref[n] > 0
<1> DEFINE d == Insert(cache, Computed(r), row[r])
<1>1. /\ CacheType(cache, Block, Page) /\ Trie(cache)
      /\ Computed(r) \in Seq(Block) /\ row[r] \in Seq(Page)
      /\ Len(Computed(r)) <= Len(row[r])
  BY ComputedType DEF IInv, TypeOK, TreeShape
<1>2. /\ Nodes(cache) \subseteq Nodes(d) /\ Computed(r) \in Nodes(d) \cup {Root}
      /\ \A n \in Nodes(cache) : d.ref[n] = cache.ref[n]
      /\ \A n \in Nodes(d) \ Nodes(cache) :
           \/ n \in Paths(cache) /\ d.ref[n] = cache.ref[NodeOf(cache, n)]
           \/ n \notin Paths(cache) /\ d.ref[n] = 0
      /\ CacheType(d, Block, Page) /\ Trie(d)
  BY <1>1, InsertNodes
<1> HIDE DEF d
<1>3. ASSUME NEW n \in Nodes(d), IsPrefix(n, handle[r]) PROVE d.ref[n] > 0
  <2>1. r \in Holders(n)
    BY <1>3 DEF Holders
  <2>2. n \in Seq(Block) \ {Root}
    BY <1>2 DEF CacheType
  <2>3. ASSUME NEW m \in Nodes(cache), r \in Holders(m) PROVE cache.ref[m] > 0
    <3>1. IsFiniteSet(Holders(m)) /\ Holders(m) # {}
      BY <2>3, HoldersFinite
    <3>2. Cardinality(Holders(m)) \in Nat /\ Cardinality(Holders(m)) # 0
      BY <3>1, FS_CardinalityType, FS_EmptySet
    <3>3. cache.ref[m] = Cardinality(Holders(m))
      BY DEF IInv, RefCounts
    <3> QED
      BY <3>2, <3>3
  <2>4. CASE n \in Nodes(cache)
    BY <1>2, <2>1, <2>3, <2>4
  <2>5. CASE n \in Paths(cache) /\ n \notin Nodes(cache)
    <3>1. Holders(n) = Holders(NodeOf(cache, n))
      BY <2>2, <2>5, HoldersOfPath DEF IInv
    <3>2. NodeOf(cache, n) \in Nodes(cache)
      BY <1>1, <2>5, NodeOfPath DEF IsNodeOf
    <3>3. cache.ref[NodeOf(cache, n)] > 0
      BY <2>1, <2>3, <3>1, <3>2
    <3> QED
      BY <1>2, <2>5, <3>3
  <2>6. CASE n \notin Paths(cache)
    BY <2>1, <2>2, <2>6, HoldersOfPath DEF IInv
  <2> QED
    BY <2>4, <2>5, <2>6
<1>4. handle[r] \in {Root} \cup Nodes(d)
  BY <1>2 DEF IInv, HandlesHeld
<1> QED
  BY <1>2, <1>3, <1>4 DEF d

\* Neither form of cache_req upsets the counters or the order of the ages
LEMMA CacheReqSized ==
  ASSUME IInv, Sized(cache), AgesOrdered(cache), NEW r \in Req, Live(r)
  PROVE  LET u == Unlock(Insert(cache, Computed(r), row[r]), handle[r])
         IN  /\ Sized(u) /\ AgesOrdered(u)
             /\ Sized(Lock(u, Computed(r))) /\ AgesOrdered(Lock(u, Computed(r)))
<1> DEFINE b == Computed(r)
           d == Insert(cache, b, row[r])
           u == Unlock(d, handle[r])
<1>1. /\ CacheType(cache, Block, Page) /\ Trie(cache)
      /\ b \in Seq(Block) /\ row[r] \in Seq(Page) /\ Len(b) <= Len(row[r])
  BY ComputedType DEF IInv, TypeOK, TreeShape
<1>2. Sized(d) /\ AgesOrdered(d)
  BY <1>1, InsertSized, InsertAges
<1>3. /\ CacheType(d, Block, Page) /\ Trie(d)
      /\ handle[r] \in {Root} \cup Nodes(d) /\ b \in {Root} \cup Nodes(d)
      /\ \A n \in Nodes(d) : IsPrefix(n, handle[r]) => d.ref[n] > 0
  BY InsertHeld
<1> HIDE DEF b, d
<1>4. /\ CacheType(u, Block, Page) /\ Trie(u) /\ Nodes(u) = Nodes(d)
  BY <1>3, UnlockNodes
<1>5. Sized(u)
  BY <1>2, <1>3, UnlockSized
<1>6. u.age = d.age
  BY DEF Unlock
<1>7. AgesOrdered(u)
  BY <1>2, <1>4, <1>6, SameAges
<1> HIDE DEF u
<1>8. Sized(Lock(u, b)) /\ Nodes(Lock(u, b)) = Nodes(u)
  BY <1>3, <1>4, <1>5, LockSized, LockNodes
<1>9. Lock(u, b).age = u.age
  BY DEF Lock
<1>10. AgesOrdered(Lock(u, b))
  BY <1>7, <1>8, <1>9, SameAges
<1> QED
  BY <1>5, <1>7, <1>8, <1>10 DEF u, d, b

LEMMA EvictInit == ASSUME Init PROVE EvictInv
<1>1. cache = EmptyCache /\ job.req = {}
  BY DEF Init, NoJob
<1>2. Paths(cache) = {} /\ Nodes(cache) = {} /\ cache.evictable = 0 /\ cache.protected = 0
  BY <1>1 DEF EmptyCache, Paths, Nodes
<1>3. FreePaths(cache) = {}
  BY <1>2 DEF FreePaths
<1>4. Sized(cache)
  BY <1>2, <1>3, FS_EmptySet DEF Sized
<1>5. AgesOrdered(cache) /\ Covered
  BY <1>1, <1>2 DEF AgesOrdered, Covered
<1> QED
  BY <1>4, <1>5 DEF EvictInv

LEMMA AdmitSized ==
  ASSUME IInv, EvictInv, NEW r \in Req, Refuse(r) \/ Admit(r)
  PROVE  EvictInv'
<1> DEFINE h == MatchReq(r)
           w == Walk(cache, h)
<1>1. CacheType(cache, Block, Page) /\ Trie(cache) /\ h \in {Root} \cup Paths(cache)
  BY MatchReqType DEF IInv, TypeOK, TreeShape
<1>2. (cache' = w \/ cache' = Lock(w, h)) /\ job'.req = {}
  BY DEF Refuse, Admit, NoJob
<1> HIDE DEF h
<1>3. /\ CacheType(w, Block, Page) /\ Trie(w) /\ Nodes(w) = Nodes(cache) \cup ({h} \ {Root})
      /\ Sized(w) /\ AgesOrdered(w)
  BY <1>1, WalkNodes, WalkTrie, WalkSized, WalkAges DEF EvictInv
<1> HIDE DEF w
<1>4. h \in {Root} \cup Nodes(w)
  BY <1>3
<1>5. Sized(Lock(w, h)) /\ Nodes(Lock(w, h)) = Nodes(w)
  BY <1>3, <1>4, LockSized, LockNodes
<1>6. Lock(w, h).age = w.age
  BY DEF Lock
<1>7. AgesOrdered(Lock(w, h))
  BY <1>3, <1>5, <1>6, SameAges
<1>8. Sized(cache') /\ AgesOrdered(cache')
  BY <1>2, <1>3, <1>5, <1>7
<1>9. Sized(cache)' /\ AgesOrdered(cache)'
  BY <1>8 DEF Sized, FreePaths, NodeOf, IsNodeOf, AgesOrdered, Paths, Nodes, Now
<1> QED
  BY <1>2, <1>9 DEF EvictInv, Covered

LEMMA EvictOneSized ==
  ASSUME IInv, EvictInv, NEW r \in Req, EvictOne(r)
  PROVE  EvictInv'
<1>1. PICK v \in Victims(cache) :
         /\ cache' = EvictLeaf(cache, v)
         /\ free_slots' = free_slots \o EvictedPages(cache, v)
  BY DEF EvictOne
<1>2. job' = job /\ cached_len' = cached_len /\ job.req = {r}
  BY DEF EvictOne
<1>3. /\ CacheType(cache, Block, Page) /\ Trie(cache) /\ free_slots \in Seq(Page)
      /\ v \in Unlocked(cache) /\ v \in Nodes(cache)
  BY DEF IInv, TypeOK, TreeShape, Victims, Unlocked, Leaves
<1>4. Sized(cache') /\ AgesOrdered(cache')
  BY <1>1, <1>3, EvictSized, EvictAges DEF EvictInv
<1>5. Sized(cache)' /\ AgesOrdered(cache)'
  BY <1>4 DEF Sized, FreePaths, NodeOf, IsNodeOf, AgesOrdered, Paths, Nodes, Now
<1> DEFINE k == Cardinality(Key(cache, v))
           e == EvictedPages(cache, v)
<1>6. cache'.evictable = cache.evictable - k
  BY <1>1 DEF EvictLeaf
<1>7. v \in Seq(Block) /\ k \in 0..Len(v) /\ cache.evictable \in Int
  BY <1>3, KeyOfNode DEF CacheType
<1>8. k \in Nat
  BY <1>7
<1>9. e \in Seq(Page) /\ e = [i \in 1..k |-> cache.page[SubSeq(v, 1, Len(v) - k + i)]]
  BY <1>3, EvictedType DEF EvictedPages
<1> HIDE DEF k
<1>10. Len(e) = k
  BY <1>8, <1>9
<1> HIDE DEF e
<1>11. Len(free_slots') = Len(free_slots) + k /\ Len(free_slots) \in Nat
  <2>1. free_slots' = free_slots \o e
    BY <1>1 DEF e
  <2> HIDE DEF e
  <2>2. e \in Seq(Page) /\ Len(e) = k /\ free_slots \in Seq(Page)
    BY <1>3, <1>9, <1>10
  <2>3. Len(free_slots \o e) = Len(free_slots) + Len(e)
    BY <2>2, ConcatProperties
  <2> QED
    BY <2>1, <2>2, <2>3
<1>12. Len(free_slots') + cache'.evictable = Len(free_slots) + cache.evictable
  BY <1>6, <1>7, <1>8, <1>11
<1>13. Covered'
  BY <1>2, <1>12 DEF EvictInv, Covered, PagesFor
<1> QED
  BY <1>5, <1>13 DEF EvictInv

LEMMA EvictStep ==
  ASSUME IInv, EvictInv, [Next]_vars PROVE EvictInv'
<1>a. ASSUME cache' = cache PROVE Sized(cache)' /\ AgesOrdered(cache)'
  BY <1>a DEF EvictInv, Sized, FreePaths, NodeOf, IsNodeOf, AgesOrdered, Paths, Nodes, Now
<1>1. ASSUME NEW r \in Req, Refuse(r) \/ Admit(r) PROVE EvictInv'
  BY <1>1, AdmitSized
<1>2. ASSUME NEW r \in Req, NEW n \in Targets(r), StartAlloc(r, n) PROVE EvictInv'
  <2>1. /\ UNCHANGED << cache, free_slots, cached_len >> /\ job' = [req |-> {r}, upto |-> n]
        /\ PagesFor(r, n) <= Len(free_slots) + cache.evictable
    BY <1>2 DEF StartAlloc
  <2>2. Covered'
    BY <2>1 DEF Covered, PagesFor
  <2> QED
    BY <1>a, <2>1, <2>2 DEF EvictInv
<1>3. ASSUME NEW r \in Req, EvictOne(r) PROVE EvictInv'
  BY <1>3, EvictOneSized
<1>4. ASSUME NEW r \in Req, Take(r) PROVE EvictInv'
  <2>1. cache' = cache /\ job'.req = {}
    BY <1>4 DEF Take, NoJob
  <2> QED
    BY <1>a, <2>1 DEF EvictInv, Covered
<1>5. ASSUME NEW r \in Req, Commit(r) \/ Finish(r) PROVE EvictInv'
  <2> DEFINE u == Unlock(Insert(cache, Computed(r), row[r]), handle[r])
  <2>a. ASSUME Commit(r)
      PROVE  Live(r) /\ (cache' = Lock(u, Computed(r)) \/ cache' = u) /\ job'.req = {}
    <3>1. Live(r) /\ job' = NoJob
      BY <2>a DEF Commit, Live
    <3>2. cache' = Lock(u, Computed(r))
      BY <2>a DEF Commit
    <3> QED
      BY <3>1, <3>2 DEF NoJob
  <2>b. ASSUME Finish(r)
      PROVE  Live(r) /\ (cache' = Lock(u, Computed(r)) \/ cache' = u) /\ job'.req = {}
    <3>1. Live(r) /\ job' = NoJob
      BY <2>b DEF Finish
    <3>2. cache' = u
      BY <2>b DEF Finish
    <3> QED
      BY <3>1, <3>2 DEF NoJob
  <2>1. Live(r) /\ (cache' = Lock(u, Computed(r)) \/ cache' = u) /\ job'.req = {}
    BY <1>5, <2>a, <2>b
  <2>2. Sized(u) /\ AgesOrdered(u)
    BY <2>1, CacheReqSized DEF EvictInv
  <2>3. Sized(Lock(u, Computed(r))) /\ AgesOrdered(Lock(u, Computed(r)))
    BY <2>1, CacheReqSized DEF EvictInv
  <2> HIDE DEF u
  <2>4. Sized(cache') /\ AgesOrdered(cache')
    BY <2>1, <2>2, <2>3
  <2>5. Sized(cache)' /\ AgesOrdered(cache)'
    BY <2>4 DEF Sized, FreePaths, NodeOf, IsNodeOf, AgesOrdered, Paths, Nodes, Now
  <2> QED
    BY <2>1, <2>5 DEF EvictInv, Covered
<1>6. CASE UNCHANGED vars
  <2>1. UNCHANGED << cache, free_slots, cached_len, job >>
    BY <1>6 DEF vars
  <2> QED
    BY <1>a, <2>1 DEF EvictInv, Covered, PagesFor
<1>7. CASE Done
  BY <1>6, <1>7 DEF Done
<1> QED
  BY <1>1, <1>2, <1>3, <1>4, <1>5, <1>6, <1>7 DEF Next

\* Below every node that nobody holds there is a leaf that nobody holds
LEMMA UnlockedExists ==
  ASSUME IInv, NEW n \in Nodes(cache), cache.ref[n] = 0
  PROVE  Unlocked(cache) # {}
<1>1. /\ CacheType(cache, Block, Page) /\ IsFiniteSet(Nodes(cache))
      /\ Nodes(cache) \subseteq Seq(Block) /\ cache.ref \in [Nodes(cache) -> Nat]
  BY NowType DEF IInv, TypeOK, CacheType
<1> DEFINE N == {m \in Nodes(cache) : IsPrefix(n, m)}
<1>2. n \in N /\ N \subseteq Nodes(cache)
  BY <1>1, PrefixReflexive
<1>3. \E l \in N : \A m \in N : IsPrefix(l, m) => m = l
  <2> DEFINE below(m) == {x \in N : IsPrefix(m, x)}
             size(m) == Cardinality(below(m))
             T == {size(m) : m \in N}
  <2>1. ASSUME NEW m \in N PROVE IsFiniteSet(below(m)) /\ size(m) \in Nat
    <3>1. below(m) \subseteq Nodes(cache)
      BY <1>2
    <3>2. IsFiniteSet(below(m))
      BY <1>1, <3>1, FS_Subset
    <3> QED
      BY <3>2, FS_CardinalityType
  <2> HIDE DEF N, below
  <2>2. \E l \in N : \A m \in N : size(l) <= size(m)
    <3>1. T \subseteq Nat /\ T # {}
      BY <1>2, <2>1
    <3>2. \E x \in T : \A y \in T : x <= y
      BY <3>1, SmallestNat
    <3> QED
      BY <3>2
  <2>3. PICK l \in N : \A m \in N : size(l) <= size(m)
    BY <2>2
  <2>4. ASSUME NEW m \in N, IsPrefix(l, m), m # l PROVE FALSE
    <3>1. l \in Seq(Block) /\ m \in Seq(Block)
      BY <1>1, <1>2, <2>3
    <3>2. below(m) \subseteq below(l)
      BY <1>1, <1>2, <2>4, <3>1, PrefixTransitive DEF below
    <3>3. l \in below(l) /\ l \notin below(m)
      BY <2>3, <2>4, <3>1, PrefixReflexive, PrefixAntisymmetric DEF below
    <3>4. size(m) < size(l)
      <4>1. size(m) <= size(l) /\ (size(m) = size(l) => below(m) = below(l))
        BY <2>1, <2>3, <3>2, FS_Subset
      <4> QED
        BY <2>1, <2>3, <3>3, <4>1
    <3>5. size(l) <= size(m) /\ size(l) \in Nat /\ size(m) \in Nat
      BY <2>1, <2>3
    <3> QED
      BY <3>4, <3>5
  <2> QED
    BY <2>3, <2>4
<1>4. PICK l \in N : \A m \in N : IsPrefix(l, m) => m = l
  BY <1>3
<1>5. l \in Nodes(cache) /\ IsPrefix(n, l) /\ l \in Seq(Block) /\ n \in Seq(Block)
  BY <1>1, <1>4
<1>6. l \in Leaves(cache)
  <2>1. ASSUME NEW m \in Nodes(cache), IsPrefix(l, m) PROVE m = l
    <3>1. m \in Seq(Block)
      BY <1>1
    <3>2. IsPrefix(n, m)
      BY <1>5, <2>1, <3>1, PrefixTransitive
    <3> QED
      BY <1>4, <2>1, <3>2
  <2> QED
    BY <1>5, <2>1 DEF Leaves
<1>7. Holders(l) \subseteq Holders(n)
  <2> SUFFICES ASSUME NEW r \in Holders(l) PROVE r \in Holders(n)
    OBVIOUS
  <2>1. r \in Req /\ Live(r) /\ IsPrefix(l, handle[r]) /\ handle[r] \in Seq(Block)
    BY DEF Holders, IInv, TypeOK
  <2> QED
    BY <1>5, <2>1, PrefixTransitive DEF Holders
<1>8. Holders(n) = {}
  <2>1. Cardinality(Holders(n)) = 0 /\ IsFiniteSet(Holders(n))
    BY HoldersFinite DEF IInv, RefCounts
  <2> QED
    BY <2>1, FS_EmptySet
<1>9. Holders(l) = {}
  BY <1>7, <1>8
<1>10. cache.ref[l] = Cardinality(Holders(l))
  BY <1>5 DEF IInv, RefCounts
<1>11. cache.ref[l] = 0
  BY <1>9, <1>10, FS_EmptySet
<1> QED
  BY <1>6, <1>11 DEF Unlocked

\* ... and the least recently used of them is a victim
LEMMA VictimExists ==
  ASSUME IInv, Unlocked(cache) # {}
  PROVE  Victims(cache) # {}
<1>1. cache.age \in [Nodes(cache) -> Nat]
  BY DEF IInv, TypeOK, CacheType
<1> DEFINE T == {cache.age[n] : n \in Unlocked(cache)}
<1>2. T \subseteq Nat /\ T # {}
  BY <1>1 DEF Unlocked, Leaves
<1>3. PICK x \in T : \A y \in T : x <= y
  <2> HIDE DEF T
  <2> QED
    BY <1>2, SmallestNat
<1>4. PICK v \in Unlocked(cache) : x = cache.age[v]
  BY <1>3
<1>5. v \in Victims(cache)
  BY <1>3, <1>4 DEF Victims
<1> QED
  BY <1>5

\* The counters, the evictions and the order of the leaves at once: an allocation
\* available_size covered never finds evict without a leaf to free (the assertion
\* "Eviction did not free enough space" of scheduler/cache.py), and the leaf is
\* the same on every rank that has seen the same calls.
THEOREM EvictionIsSound == Spec => []EvictionSound
<1>1. Init => EvictInv
  BY EvictInit
<1>2. IInv /\ EvictInv /\ [Next]_vars => EvictInv'
  BY EvictStep
<1>3. IInv /\ EvictInv => EvictionSound
  <2> SUFFICES ASSUME IInv, EvictInv PROVE EvictionSound
    OBVIOUS
  <2>1. CacheType(cache, Block, Page) /\ Trie(cache) /\ Len(free_slots) \in Nat
    BY DEF IInv, TypeOK, TreeShape
  <2>2. SizeCounters
    BY DEF EvictInv, Sized, FreePaths, SizeCounters
  <2>3. LruUnique
    BY <2>1, OneVictim DEF EvictInv, LruUnique
  <2>4. ASSUME NEW r \in job.req, PagesFor(r, job.upto) > Len(free_slots)
        PROVE  Victims(cache) # {}
    <3>1. PagesFor(r, job.upto) \in Nat /\ cache.evictable \in Int
      BY <2>1, PagesForType DEF CacheType
    <3>2. PagesFor(r, job.upto) <= Len(free_slots) + cache.evictable
      BY DEF EvictInv, Covered
    <3>3. cache.evictable > 0
      <4> DEFINE k == PagesFor(r, job.upto)
      <4>1. k > Len(free_slots) /\ k <= Len(free_slots) + cache.evictable /\ k \in Nat
        BY <2>4, <3>1, <3>2
      <4> HIDE DEF k
      <4> QED
        BY <2>1, <3>1, <4>1
    <3>4. FreePaths(cache) # {}
      BY <3>3, FS_EmptySet DEF EvictInv, Sized
    <3>5. PICK p \in Paths(cache) : cache.ref[NodeOf(cache, p)] = 0
      BY <3>4 DEF FreePaths
    <3>6. NodeOf(cache, p) \in Nodes(cache)
      BY <2>1, <3>5, NodeOfPath DEF IsNodeOf
    <3> QED
      BY <3>5, <3>6, UnlockedExists, VictimExists
  <2> QED
    BY <2>2, <2>3, <2>4 DEF EvictionSound, EvictionSucceeds
<1> QED
  BY <1>1, <1>2, <1>3, Invariance, PTL DEF Spec
-----------------------------------------------------------------------------
(* What commits and ends give back, and that in the end everything is back. *)

\* When no request is live, every page is free or in the tree and none is locked
AllReturned ==
  (\A r \in Req : ~Live(r)) =>
    /\ Len(free_slots) + cache.evictable + cache.protected = NumPages
    /\ cache.protected = 0

\* If the places are a bijection to the pages and no row holds one, the free list
\* and the tree have them all.
LEMMA FreeOrTree ==
  ASSUME NEW n \in Nat, NEW fs, DOMAIN fs = 1..n, NEW T, IsFiniteSet(T), NEW N \in Nat,
         ExistsBijection(({"free"} \X DOMAIN fs) \cup ({"tree"} \X T), 1..N)
  PROVE  n + Cardinality(T) = N
<1> DEFINE F == {"free"} \X DOMAIN fs
           R == {"tree"} \X T
<1>1. IsFiniteSet(1..n) /\ Cardinality(1..n) = n /\ IsFiniteSet(1..N) /\ Cardinality(1..N) = N
  BY FS_Interval
<1>2. IsFiniteSet({"free"}) /\ IsFiniteSet({"tree"})
      /\ Cardinality({"free"}) = 1 /\ Cardinality({"tree"}) = 1
  BY FS_Singleton
<1>3. IsFiniteSet(F) /\ Cardinality(F) = n
  <2> DEFINE f == {"free"}
  <2> HIDE DEF f
  <2>a. IsFiniteSet(f) /\ IsFiniteSet(1..n)
    BY <1>1, <1>2 DEF f
  <2>b. /\ IsFiniteSet(f \X (1..n))
        /\ Cardinality(f \X (1..n)) = Cardinality(f) * Cardinality(1..n)
    BY <2>a, FS_Product, Zenon
  <2>1. IsFiniteSet({"free"} \X (1..n)) /\ Cardinality({"free"} \X (1..n)) = 1 * n
    BY <1>1, <1>2, <2>b, Zenon DEF f
  <2>2. F = {"free"} \X (1..n)
    OBVIOUS
  <2>3. 1 * n = n
    OBVIOUS
  <2> HIDE DEF F
  <2> QED
    BY <2>1, <2>2, <2>3
<1>4. Cardinality(T) \in Nat
  BY FS_CardinalityType
<1>5. IsFiniteSet(R) /\ Cardinality(R) = Cardinality(T)
  BY <1>2, <1>4, FS_Product
<1>6. F \cap R = {}
  OBVIOUS
<1>7. ExistsBijection(F \cup R, 1..N)
  OBVIOUS
<1> HIDE DEF F, R
<1>8. Cardinality(F \cup R) = n + Cardinality(T) /\ IsFiniteSet(F \cup R)
  <2>1. IsFiniteSet(F \cup R)
    BY <1>3, <1>5, FS_Union
  <2>2. Cardinality(F \cup R) = Cardinality(F) + Cardinality(R) - Cardinality(F \cap R)
    BY <1>3, <1>5, FS_Union
  <2>3. Cardinality(F \cap R) = 0
    BY <1>6, FS_EmptySet
  <2> DEFINE t == Cardinality(T)
  <2>4. Cardinality(F \cup R) = n + t - 0 /\ t \in Nat
    BY <1>3, <1>4, <1>5, <2>2, <2>3
  <2> HIDE DEF t
  <2>5. Cardinality(F \cup R) = n + t
    BY <2>4
  <2> QED
    BY <2>1, <2>5 DEF t
<1>9. Cardinality(F \cup R) = Cardinality(1..N)
  BY <1>1, <1>7, <1>8, FS_Bijection
<1> QED
  BY <1>1, <1>8, <1>9

LEMMA AllBack ==
  ASSUME IInv, PageInv, EvictInv PROVE AllReturned
<1> SUFFICES ASSUME \A r \in Req : ~Live(r)
             PROVE  /\ Len(free_slots) + cache.evictable + cache.protected = NumPages
                    /\ cache.protected = 0
  BY DEF AllReturned
<1>1. /\ CacheType(cache, Block, Page) /\ Trie(cache) /\ free_slots \in Seq(Page)
      /\ \A r \in Req : row[r] \in Seq(Page)
  BY DEF IInv, TypeOK, TreeShape
<1>2. IsFiniteSet(Paths(cache)) /\ Cardinality(Paths(cache)) \in Nat
      /\ cache.evictable \in Int /\ cache.protected \in Int
  BY <1>1, FS_CardinalityType DEF CacheType
<1>3. \A n : Holders(n) = {}
  BY DEF Holders
<1>4. \A n \in Nodes(cache) : cache.ref[n] = 0
  <2>1. Cardinality({}) = 0
    BY FS_EmptySet
  <2> QED
    BY <1>3, <2>1 DEF IInv, RefCounts
<1>5. FreePaths(cache) = Paths(cache)
  <2>1. \A p \in Paths(cache) : NodeOf(cache, p) \in Nodes(cache)
    BY <1>1, NodeOfPath DEF IsNodeOf
  <2> QED
    BY <1>4, <2>1 DEF FreePaths
<1>6. cache.evictable = Cardinality(Paths(cache)) /\ cache.protected = 0
  BY <1>2, <1>5 DEF EvictInv, Sized
<1>7. \A r \in Req : Len(row[r]) = 0
  <2> SUFFICES ASSUME NEW r \in Req PROVE Len(row[r]) = 0
    OBVIOUS
  <2>1. cached_len[r] = 0 /\ Len(row[r]) = CeilDiv(cached_len[r], PageSize)
    BY DEF PageInv, HandlesFit, IInv, Lengths
  <2>2. CeilDiv(PageSize * 0, PageSize) = 0 /\ PageSize * 0 = 0
    BY PageSizeAssumption, CeilDivFacts
  <2> QED
    BY <2>1, <2>2
<1>8. Entries(handle, row) = {}
  <2>1. \A r \in Req : Len(handle[r]) \in Nat
    BY DEF IInv, TypeOK
  <2> QED
    BY <1>7, <2>1 DEF Entries
<1>9. ExistsBijection(({"free"} \X DOMAIN free_slots) \cup ({"tree"} \X Paths(cache)), 1..NumPages)
  <2>1. Places(free_slots, cache, handle, row)
          = ({"free"} \X DOMAIN free_slots) \cup ({"tree"} \X Paths(cache))
    BY <1>8 DEF Places
  <2> QED
    BY <2>1 DEF PageInv, EachOnce, ExistsBijection, Page
<1>10. Len(free_slots) + Cardinality(Paths(cache)) = NumPages
  BY <1>1, <1>2, <1>9, BoundAssumption, FreeOrTree
<1> QED
  BY <1>1, <1>2, <1>6, <1>10

\* Once all requests have ended or none has come, every page is free or can be
\* evicted: no sequence of admissions, allocations, evictions, commits and ends
\* loses a page or leaves one locked.
THEOREM NothingIsLost == Spec => []AllReturned
<1>1. Init => EvictInv
  BY EvictInit
<1>2. IInv /\ EvictInv /\ [Next]_vars => EvictInv'
  BY EvictStep
<1>3. IInv /\ PageInv /\ EvictInv => AllReturned
  BY AllBack
<1> QED
  BY <1>1, <1>2, <1>3, Invariance, PageInvariance, PTL DEF Spec

\* The pages an allocation may use
Usable == Len(free_slots) + cache.evictable

\* Neither form of cache_req lets them become fewer: what the new handle locks are
\* blocks the old one held, blocks the tree has got, and duplicates that are freed.
LEMMA CacheReqGives ==
  ASSUME IInv, PageInv, NEW r \in Req, Live(r)
  PROVE  LET d == Insert(cache, Computed(r), row[r])
             u == Unlock(d, handle[r])
             m == Len(Matched(cache, Computed(r)))
         IN  /\ u.evictable \in Int /\ u.evictable >= cache.evictable
             /\ Len(handle[r]) \in 0..m /\ m \in 0..Len(row[r])
             /\ Lock(u, Computed(r)).evictable \in Int
             /\ Lock(u, Computed(r)).evictable >= cache.evictable - (m - Len(handle[r]))
<1> DEFINE B == Computed(r)
           d == Insert(cache, B, row[r])
           u == Unlock(d, handle[r])
           h == handle[r]
           m == Len(Matched(cache, B))
<1>1. /\ Len(h) \in Nat /\ m \in Nat /\ Len(B) \in Nat
      /\ Len(h) <= m /\ m <= Len(B) /\ Len(B) <= Len(row[r])
  BY CacheReqPages DEF PageInv
<1>2. /\ CacheType(d, Block, Page) /\ Trie(d) /\ h \in {Root} \cup Nodes(d)
      /\ \A n \in Nodes(d) : IsPrefix(n, h) => d.ref[n] > 0
  BY InsertHeld
<1>3. B \in Seq(Block) /\ h \in Seq(Block) /\ IsPrefix(h, B) /\ Len(row[r]) \in Nat
  BY ComputedType DEF IInv, TypeOK, PageInv, HandlesFit
<1>4. cache.evictable \in Int
  BY DEF IInv, TypeOK, CacheType
<1>5. d.evictable = cache.evictable + (Len(B) - m)
  BY <1>1, <1>4, InsertCount
<1> HIDE DEF B, d, h
<1>6. /\ PagesAtRef(d, h, 1) \in Nat /\ PagesAtRef(u, B, 0) \in Nat
      /\ PagesAtRef(u, B, 0) <= PagesAtRef(d, h, 1) + (Len(B) - Len(h))
  BY <1>2, <1>3, RelockCost DEF h
<1>7. u.evictable = d.evictable + PagesAtRef(d, h, 1)
  BY DEF Unlock, h
<1>8. Lock(u, B).evictable = u.evictable - PagesAtRef(u, B, 0)
  BY DEF Lock
<1> DEFINE e == cache.evictable
           b == Len(B)
           k == Len(h)
           x == PagesAtRef(d, h, 1)
           y == PagesAtRef(u, B, 0)
           n == Len(row[r])
           v == u.evictable
           w == Lock(u, B).evictable
<1>9. /\ e \in Int /\ b \in Nat /\ k \in Nat /\ x \in Nat /\ y \in Nat /\ n \in Nat /\ m \in Nat
      /\ k <= m /\ m <= b /\ b <= n /\ y <= x + (b - k)
      /\ v = e + (b - m) + x /\ w = v - y
  BY <1>1, <1>3, <1>4, <1>5, <1>6, <1>7, <1>8
<1> HIDE DEF e, b, k, x, y, n, v, w, m, u
<1>10. v \in Int /\ v >= e /\ k \in 0..m /\ m \in 0..n /\ w \in Int /\ w >= e - (m - k)
  BY <1>9
<1> QED
  BY <1>10 DEF e, k, n, v, w, m, u, d, h, B

LEMMA FinishGives ==
  ASSUME IInv, PageInv, NEW r \in Req, Finish(r)
  PROVE  Usable <= Usable'
<1> DEFINE u == Unlock(Insert(cache, Computed(r), row[r]), handle[r])
           f == FreedAtFinish(r)
<1>1. Live(r) /\ cache' = u /\ free_slots' = free_slots \o f
  BY DEF Finish
<1>2. u.evictable \in Int /\ u.evictable >= cache.evictable
  BY <1>1, CacheReqGives
<1>3. cache.evictable \in Int /\ free_slots \in Seq(Page) /\ row[r] \in Seq(Page)
  BY DEF IInv, TypeOK, CacheType
<1>4. f \in Seq(Page)
  <2> DEFINE a == SubSeq(row[r], Len(handle[r]) + 1, Len(Matched(cache, Computed(r))))
             z == SubSeq(row[r], Len(Computed(r)) + 1, Len(row[r]))
  <2>1. a \in Seq(Page)
    <3>1. /\ Len(handle[r]) \in Nat
          /\ Len(Matched(cache, Computed(r))) \in 0..Len(row[r])
      BY <1>1, CacheReqGives DEF IInv, TypeOK
    <3> QED
      BY <1>3, <3>1
  <2>2. z \in Seq(Page)
    <3>1. Len(Computed(r)) \in Nat
      BY ComputedType
    <3> QED
      BY <1>3, <3>1
  <2>3. f = a \o z
    BY DEF FreedAtFinish
  <2> HIDE DEF a, z, f
  <2> QED
    BY <2>1, <2>2, <2>3
<1> HIDE DEF u, f
<1>5. Len(free_slots') = Len(free_slots) + Len(f) /\ Len(f) \in Nat /\ Len(free_slots) \in Nat
  BY <1>1, <1>3, <1>4
<1>6. cache'.evictable >= cache.evictable /\ cache'.evictable \in Int
  BY <1>1, <1>2
<1> QED
  BY <1>3, <1>5, <1>6 DEF Usable

LEMMA CommitGives ==
  ASSUME IInv, PageInv, NEW r \in Req, Commit(r)
  PROVE  Usable <= Usable'
<1> DEFINE u == Unlock(Insert(cache, Computed(r), row[r]), handle[r])
           m == Len(Matched(cache, Computed(r)))
           h == Len(handle[r])
           f == SubSeq(row[r], h + 1, m)
           w == Lock(u, Computed(r))
<1>1. Live(r) /\ cache' = w /\ free_slots' = free_slots \o f
  BY DEF Commit, Live
<1>2. /\ h \in 0..m /\ m \in 0..Len(row[r])
      /\ w.evictable \in Int /\ w.evictable >= cache.evictable - (m - h)
  BY <1>1, CacheReqGives
<1>3. cache.evictable \in Int /\ free_slots \in Seq(Page) /\ row[r] \in Seq(Page) /\ h \in Nat
  BY DEF IInv, TypeOK, CacheType
<1> HIDE DEF w, m, h
<1>4. f \in Seq(Page) /\ Len(f) = m - h
  BY <1>2, <1>3
<1> HIDE DEF f
<1>5. Len(free_slots') = Len(free_slots) + Len(f) /\ Len(f) \in Nat /\ Len(free_slots) \in Nat
  BY <1>1, <1>3, <1>4
<1>6. cache'.evictable >= cache.evictable - (m - h) /\ cache'.evictable \in Int /\ m \in Nat
  BY <1>1, <1>2
<1> QED
  BY <1>3, <1>4, <1>5, <1>6 DEF Usable

LEMMA EvictGives ==
  ASSUME IInv, NEW r \in Req, EvictOne(r)
  PROVE  Usable' = Usable
<1>1. PICK v \in Victims(cache) :
         /\ cache' = EvictLeaf(cache, v)
         /\ free_slots' = free_slots \o EvictedPages(cache, v)
  BY DEF EvictOne
<1> DEFINE k == Cardinality(Key(cache, v))
           e == EvictedPages(cache, v)
<1>2. /\ CacheType(cache, Block, Page) /\ Trie(cache) /\ free_slots \in Seq(Page)
      /\ v \in Nodes(cache) /\ v \in Unlocked(cache)
  BY DEF IInv, TypeOK, TreeShape, Victims, Unlocked, Leaves
<1>3. cache'.evictable = cache.evictable - k /\ cache.evictable \in Int
  BY <1>1, <1>2 DEF EvictLeaf, CacheType
<1>4. v \in Seq(Block) /\ k \in 0..Len(v)
  BY <1>2, KeyOfNode DEF CacheType
<1>5. k \in Nat
  BY <1>4
<1>6. e \in Seq(Page) /\ e = [i \in 1..k |-> cache.page[SubSeq(v, 1, Len(v) - k + i)]]
  BY <1>2, EvictedType DEF EvictedPages
<1> HIDE DEF k
<1>7. Len(e) = k
  BY <1>5, <1>6
<1>8. free_slots' = free_slots \o e
  BY <1>1
<1> HIDE DEF e
<1>9. Len(free_slots') = Len(free_slots) + Len(e)
  <2>1. e \in Seq(Page) /\ free_slots \in Seq(Page)
    BY <1>2, <1>6
  <2>2. Len(free_slots \o e) = Len(free_slots) + Len(e)
    BY <2>1, ConcatProperties
  <2> QED
    BY <1>8, <2>2
<1> QED
  BY <1>2, <1>3, <1>5, <1>7, <1>9 DEF Usable
==============================================================================
