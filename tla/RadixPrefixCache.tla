--------------------------- MODULE RadixPrefixCache ---------------------------
(***************************************************************************)
(* The radix tree of KV-cache pages, kvcache/radix_cache.py.               *)
(*                                                                         *)
(* Matching, splitting and inserting are aligned down to PageSize tokens,  *)
(* so the tree is a tree of BLOCKS of PageSize tokens, one KV page each.   *)
(* A tree node is named by the path (sequence of blocks) from the root to  *)
(* its end: the name survives split_at, which keeps the object as the      *)
(* lower half.  A cache is a record                                        *)
(*   page       non-empty path stored in the tree -> its KV page           *)
(*   ref        node -> ref_count              (DOMAIN ref: the nodes)     *)
(*   age        node -> rank of its timestamp: how many nodes are older    *)
(*   evictable, protected   the two size counters, in pages                *)
(* and every method of the class is an operator from cache to cache.       *)
(***************************************************************************)
EXTENDS Integers, FiniteSets, Sequences, SequencesExt

CONSTANT PageSize               \* tokens per KV page (ctx.page_size)

ASSUME PageSizeAssumption == PageSize \in Nat \ {0}

Root == << >>                   \* the path of root_node, never locked or evicted

EmptyCache == [page |-> [p \in {} |-> 0], ref |-> [n \in {} |-> 0],
               age |-> [n \in {} |-> 0], evictable |-> 0, protected |-> 0]

Paths(c) == DOMAIN c.page       \* the block prefixes the tree holds
Nodes(c) == DOMAIN c.ref        \* the paths at which a node ends

\* align_down followed by the key function: the full blocks of a token sequence
Blocks(ids) ==
  [i \in 1..(Len(ids) \div PageSize) |->
     SubSeq(ids, (i - 1) * PageSize + 1, i * PageSize)]

\* The node whose _key holds the last block of path p: the nearest end below p
IsNodeOf(c, p, n) ==
  /\ n \in Nodes(c)
  /\ IsPrefix(p, n)
  /\ \A m \in Nodes(c) : IsPrefix(p, m) => IsPrefix(n, m)

NodeOf(c, p) == CHOOSE n \in Nodes(c) : IsNodeOf(c, p, n)

\* The blocks in the _key of node n, as the paths that end with them
Key(c, n) == {p \in Paths(c) : NodeOf(c, p) = n}

\* Only the order of the monotonic_ns timestamps matters, so a node's age is the
\* number of nodes with an older timestamp; Now ranks above every node.

Now(c) == Cardinality(Nodes(c)) + 1

Ranked(age) ==
  [n \in DOMAIN age |-> Cardinality({m \in DOMAIN age : age[m] < age[n]})]

-----------------------------------------------------------------------------
\* _tree_walk: where the walk along `blocks` stops, the longest cached prefix
Matched(c, blocks) ==
  CHOOSE p \in {Root} \cup Paths(c) :
    /\ IsPrefix(p, blocks)
    /\ \A q \in Paths(c) : IsPrefix(q, blocks) => IsPrefix(q, p)

\* ref_count after a walk that stops at p: split_at gives the new upper half
\* the count of the node it cuts.
RefAfterWalk(c, p) ==
  [n \in Nodes(c) \cup ({p} \ {Root}) |->
     IF n \in Nodes(c) THEN c.ref[n] ELSE c.ref[NodeOf(c, n)]]

\* timestamps after the walk: every fully matched node is touched, the upper
\* half of a split inherits the timestamp of the node it cuts.
AgeAfterWalk(c, p) ==
  Ranked([n \in Nodes(c) \cup ({p} \ {Root}) |->
            IF n \notin Nodes(c) THEN c.age[NodeOf(c, n)]
            ELSE IF IsPrefix(n, p) THEN Now(c) ELSE c.age[n]])

Walk(c, p) ==
  [page |-> c.page, ref |-> RefAfterWalk(c, p), age |-> AgeAfterWalk(c, p),
   evictable |-> c.evictable, protected |-> c.protected]

-----------------------------------------------------------------------------
\* lock_handle on the handle of node h: every node from h up to the root
CountedAtEndOnly(c, h, d) ==    \* mutant: only the handle's node is counted
  [n \in Nodes(c) |-> IF n = h THEN c.ref[n] + d ELSE c.ref[n]]

Counted(c, h, d) ==
  [n \in Nodes(c) |-> IF IsPrefix(n, h) THEN c.ref[n] + d ELSE c.ref[n]]

\* The pages of the nodes above h whose count is k
PagesAtRef(c, h, k) ==
  Cardinality({p \in Paths(c) : IsPrefix(p, h) /\ c.ref[NodeOf(c, p)] = k})

LockNotSized(c, h) ==           \* mutant: locking leaves the size counters alone
  [page |-> c.page, ref |-> Counted(c, h, 1), age |-> c.age,
   evictable |-> c.evictable, protected |-> c.protected]

Lock(c, h) ==
  [page |-> c.page, ref |-> Counted(c, h, 1), age |-> c.age,
   evictable |-> c.evictable - PagesAtRef(c, h, 0),
   protected |-> c.protected + PagesAtRef(c, h, 0)]

\* `assert node.ref_count >= 0` is the type of ref: a count below 0 is an error
Unlock(c, h) ==
  [page |-> c.page, ref |-> Counted(c, h, -1), age |-> c.age,
   evictable |-> c.evictable + PagesAtRef(c, h, 1),
   protected |-> c.protected - PagesAtRef(c, h, 1)]

-----------------------------------------------------------------------------
\* insert_prefix below the node p where the walk stopped: one new leaf holding
\* the blocks beyond p, with the pages of the caller's row.
LeafOfWholeRow(c, p, blocks, row) ==    \* mutant: indices not cut at prefix_len
  LET added == {SubSeq(blocks, 1, i) : i \in (Len(p) + 1)..Len(blocks)}
  IN [page |-> [q \in Paths(c) \cup added |->
                  IF q \in added THEN row[Len(q) - Len(p)] ELSE c.page[q]],
      ref  |-> [n \in Nodes(c) \cup {blocks} |->
                  IF n = blocks THEN 0 ELSE c.ref[n]],
      age  |-> Ranked([n \in Nodes(c) \cup {blocks} |->
                  IF n = blocks THEN Now(c) ELSE c.age[n]]),
      evictable |-> c.evictable + (Len(blocks) - Len(p)),
      protected |-> c.protected]

NewLeaf(c, p, blocks, row) ==
  LET added == {SubSeq(blocks, 1, i) : i \in (Len(p) + 1)..Len(blocks)}
  IN [page |-> [q \in Paths(c) \cup added |->
                  IF q \in added THEN row[Len(q)] ELSE c.page[q]],
      ref  |-> [n \in Nodes(c) \cup {blocks} |->
                  IF n = blocks THEN 0 ELSE c.ref[n]],
      age  |-> Ranked([n \in Nodes(c) \cup {blocks} |->
                  IF n = blocks THEN Now(c) ELSE c.age[n]]),
      evictable |-> c.evictable + (Len(blocks) - Len(p)),
      protected |-> c.protected]

Insert(c, blocks, row) ==
  LET p == Matched(c, blocks)
  IN IF p = blocks THEN Walk(c, p) ELSE NewLeaf(Walk(c, p), p, blocks, row)

-----------------------------------------------------------------------------
\* evict: the leaves nobody holds, and the least recently used of them
Leaves(c) == {n \in Nodes(c) : \A m \in Nodes(c) : IsPrefix(n, m) => m = n}

Unlocked(c) == {n \in Leaves(c) : c.ref[n] = 0}

VictimsAnyLeaf(c) ==            \* mutant: the ref_count = 0 filter is lost
  {n \in Leaves(c) : \A m \in Leaves(c) : c.age[n] <= c.age[m]}

VictimsInnerToo(c) ==           \* mutant: the is_leaf test is lost
  LET free == {n \in Nodes(c) : c.ref[n] = 0}
  IN {n \in free : \A m \in free : c.age[n] <= c.age[m]}

Victims(c) == {n \in Unlocked(c) : \A m \in Unlocked(c) : c.age[n] <= c.age[m]}

\* one turn of evict's loop: the pages of leaf v, in key order, and the tree
\* without it
EvictedPages(c, v) ==
  LET k == Cardinality(Key(c, v))
  IN [i \in 1..k |-> c.page[SubSeq(v, 1, Len(v) - k + i)]]

EvictLeaf(c, v) ==
  [page |-> [p \in Paths(c) \ Key(c, v) |-> c.page[p]],
   ref  |-> [n \in Nodes(c) \ {v} |-> c.ref[n]],
   age  |-> Ranked([n \in Nodes(c) \ {v} |-> c.age[n]]),
   evictable |-> c.evictable - Cardinality(Key(c, v)),
   protected |-> c.protected]

\* get_matched_indices: the pages along the path to node h
MatchedPages(c, h) == [i \in 1..Len(h) |-> c.page[SubSeq(h, 1, i)]]

-----------------------------------------------------------------------------
\* A cache of blocks from B and pages from P
CacheType(c, B, P) ==
  /\ c = [page |-> c.page, ref |-> c.ref, age |-> c.age,
          evictable |-> c.evictable, protected |-> c.protected]
  /\ Paths(c) \subseteq Seq(B) \ {Root}
  /\ IsFiniteSet(Paths(c))
  /\ c.page \in [Paths(c) -> P]
  /\ Nodes(c) \subseteq Paths(c)
  /\ c.ref \in [Nodes(c) -> Nat]
  /\ c.age \in [Nodes(c) -> Nat]
  /\ c.evictable \in Int /\ c.protected \in Int

\* A compressed trie: paths are closed under prefixes, and each path lies in the
\* key of exactly one node, so that every branch is at a node.
Trie(c) ==
  /\ \A p \in Paths(c) : \A i \in 1..Len(p) : SubSeq(p, 1, i) \in Paths(c)
  /\ \A p \in Paths(c) : \E n \in Nodes(c) : IsNodeOf(c, p, n)
=============================================================================
