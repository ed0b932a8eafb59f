------------------------ MODULE RadixPrefixCacheProofs ------------------------
(***************************************************************************)
(* What the operators of RadixPrefixCache preserve, for every block set B  *)
(* and page set P: lemmas for the proofs about the modules built on it.    *)
(***************************************************************************)
EXTENDS RadixPrefixCache, TLAPS, SequenceTheorems, FiniteSetTheorems,
        WellFoundedInduction

-----------------------------------------------------------------------------
(* Arithmetic of lengths and pages. *)

LEMMA DivBounds ==
  ASSUME NEW a \in Nat, NEW b \in Nat \ {0}
  PROVE  /\ a \div b \in Nat
         /\ b * (a \div b) <= a
         /\ a < b * (a \div b) + b
OBVIOUS

LEMMA MultMonotone ==
  ASSUME NEW a \in Int, NEW k \in Int, NEW b \in Nat, a <= k
  PROVE  b * a <= b * k
OBVIOUS

LEMMA DivUnique ==
  ASSUME NEW a \in Nat, NEW b \in Nat \ {0}, NEW q \in Nat, b * q <= a, a < b * q + b
  PROVE  a \div b = q
OBVIOUS

LEMMA DivMonotone ==
  ASSUME NEW a \in Nat, NEW c \in Nat, NEW b \in Nat \ {0}, a <= c
  PROVE  a \div b <= c \div b
OBVIOUS

LEMMA DivBelow ==
  ASSUME NEW a \in Nat, NEW b \in Nat \ {0}, NEW k \in Nat, k <= a \div b
  PROVE  b * k \in Nat /\ b * k <= a
<1>1. a \div b \in Nat /\ b * (a \div b) <= a
  BY DivBounds
<1>2. b * k <= b * (a \div b)
  BY <1>1, MultMonotone
<1>3. b * k \in Nat /\ b * (a \div b) \in Nat
  BY <1>1
<1> QED
  BY <1>1, <1>2, <1>3

LEMMA RoundedUp ==
  ASSUME NEW a \in Nat, NEW b \in Nat \ {0}
  PROVE  /\ (a + b - 1) \div b \in Nat
         /\ a \div b <= (a + b - 1) \div b
         /\ \A c \in Nat : a <= c => (a + b - 1) \div b <= (c + b - 1) \div b
         /\ (b * a + b - 1) \div b = a
<1>1. a + b - 1 \in Nat /\ a <= a + b - 1
  OBVIOUS
<1>2. (a + b - 1) \div b \in Nat
  BY <1>1, DivBounds
<1>3. a \div b <= (a + b - 1) \div b
  BY <1>1, DivMonotone
<1>4. ASSUME NEW c \in Nat, a <= c PROVE (a + b - 1) \div b <= (c + b - 1) \div b
  <2>1. c + b - 1 \in Nat /\ a + b - 1 <= c + b - 1
    BY <1>4
  <2> QED
    BY <1>1, <2>1, DivMonotone
<1>5. (b * a + b - 1) \div b = a
  <2>1. b * a \in Nat
    OBVIOUS
  <2>2. b * a + b - 1 \in Nat /\ b * a <= b * a + b - 1 /\ b * a + b - 1 < b * a + b
    BY <2>1
  <2> QED
    BY <2>2, DivUnique
<1> QED
  BY <1>2, <1>3, <1>4, <1>5

LEMMA BlocksTyped ==
  ASSUME NEW T, NEW s \in Seq(T)
  PROVE  Blocks(s) \in Seq([1..PageSize -> T]) /\ Len(Blocks(s)) = Len(s) \div PageSize
<1> DEFINE k == Len(s) \div PageSize
           e(i) == SubSeq(s, (i - 1) * PageSize + 1, i * PageSize)
<1>1. PageSize \in Nat \ {0} /\ Len(s) \in Nat
  BY PageSizeAssumption
<1>2. k \in Nat /\ PageSize * k <= Len(s)
  BY <1>1, DivBounds
<1>3. ASSUME NEW i \in 1..k PROVE e(i) \in [1..PageSize -> T]
  <2> DEFINE m == PageSize * i
  <2>1. m \in Nat /\ m <= Len(s) /\ m >= PageSize
    BY <1>1, <1>2, MultMonotone
  <2>2. (i - 1) * PageSize + 1 = m - PageSize + 1 /\ i * PageSize = m
    BY <1>1, <1>2
  <2>3. SubSeq(s, m - PageSize + 1, m) \in [1..PageSize -> T]
    <3> HIDE DEF m
    <3>1. \A j \in (m - PageSize + 1)..m : s[j] \in T
      BY <1>1, <2>1
    <3>2. /\ SubSeq(s, m - PageSize + 1, m) \in Seq(T)
          /\ Len(SubSeq(s, m - PageSize + 1, m)) = PageSize
      BY <1>1, <2>1, <3>1, SubSeqProperties
    <3> QED
      BY <3>2, LenProperties
  <2> QED
    BY <2>2, <2>3
<1>4. Blocks(s) = [i \in 1..k |-> e(i)]
  BY DEF Blocks
<1> HIDE DEF k, e
<1> QED
  BY <1>2, <1>3, <1>4 DEF k

-----------------------------------------------------------------------------
(* The prefix order. *)

LEMMA PrefixPointwise ==
  ASSUME NEW S, NEW s \in Seq(S), NEW t \in Seq(S)
  PROVE  IsPrefix(s, t) <=> /\ Len(s) <= Len(t)
                            /\ \A i \in 1..Len(s) : s[i] = t[i]
<1>1. SubSeq(s, 1, Len(s)) = s
  OBVIOUS
<1>2. ASSUME IsPrefix(s, t) PROVE Len(s) <= Len(t) /\ \A i \in 1..Len(s) : s[i] = t[i]
  BY <1>1, <1>2 DEF IsPrefix
<1>3. ASSUME Len(s) <= Len(t), \A i \in 1..Len(s) : s[i] = t[i]
      PROVE  IsPrefix(s, t)
  <2>1. /\ SubSeq(t, 1, Len(s)) \in Seq(S)
        /\ Len(SubSeq(t, 1, Len(s))) = Len(s)
    BY <1>3
  <2>2. \A i \in 1..Len(s) : SubSeq(t, 1, Len(s))[i] = s[i]
    BY <1>3
  <2>3. SubSeq(t, 1, Len(s)) = s
    BY <2>1, <2>2, SeqEqual
  <2> QED
    BY <1>1, <1>3, <2>3 DEF IsPrefix
<1> QED
  BY <1>2, <1>3

LEMMA PrefixReflexive ==
  ASSUME NEW S, NEW s \in Seq(S)
  PROVE  IsPrefix(s, s)
BY PrefixPointwise

LEMMA PrefixTransitive ==
  ASSUME NEW S, NEW s \in Seq(S), NEW t \in Seq(S), NEW u \in Seq(S),
         IsPrefix(s, t), IsPrefix(t, u)
  PROVE  IsPrefix(s, u)
BY PrefixPointwise

LEMMA PrefixAntisymmetric ==
  ASSUME NEW S, NEW s \in Seq(S), NEW t \in Seq(S),
         IsPrefix(s, t), IsPrefix(t, s)
  PROVE  s = t
<1>1. Len(s) = Len(t) /\ \A i \in 1..Len(s) : s[i] = t[i]
  BY PrefixPointwise
<1> QED
  BY <1>1, SeqEqual

\* Two prefixes of one sequence are comparable.
LEMMA PrefixChain ==
  ASSUME NEW S, NEW s \in Seq(S), NEW t \in Seq(S), NEW u \in Seq(S),
         IsPrefix(s, u), IsPrefix(t, u), Len(s) <= Len(t)
  PROVE  IsPrefix(s, t)
BY PrefixPointwise

LEMMA PrefixRoot ==
  ASSUME NEW S, NEW s \in Seq(S)
  PROVE  /\ Root \in Seq(S)
         /\ IsPrefix(Root, s)
         /\ IsPrefix(s, Root) <=> s = Root
<1>1. Root \in Seq(S) /\ Len(Root) = 0
  BY DEF Root
<1>2. IsPrefix(Root, s)
  <2>1. Len(Root) <= Len(s) /\ \A i \in 1..Len(Root) : Root[i] = s[i]
    BY <1>1
  <2> QED
    BY <1>1, <2>1, PrefixPointwise
<1>3. IsPrefix(s, Root) => s = Root
  BY <1>1, <1>2, PrefixAntisymmetric
<1> QED
  BY <1>1, <1>2, <1>3

\* The prefixes of t are its initial segments.
LEMMA PrefixSegment ==
  ASSUME NEW S, NEW t \in Seq(S), NEW i \in 0..Len(t)
  PROVE  /\ SubSeq(t, 1, i) \in Seq(S)
         /\ Len(SubSeq(t, 1, i)) = i
         /\ IsPrefix(SubSeq(t, 1, i), t)
<1> DEFINE u == SubSeq(t, 1, i)
<1>1. u \in Seq(S) /\ Len(u) = i
  OBVIOUS
<1>2. \A j \in 1..i : u[j] = t[j]
  OBVIOUS
<1> HIDE DEF u
<1>3. IsPrefix(u, t)
  BY <1>1, <1>2, PrefixPointwise
<1> QED
  BY <1>1, <1>3 DEF u

LEMMA PrefixIsSegment ==
  ASSUME NEW S, NEW s \in Seq(S), NEW t \in Seq(S), IsPrefix(s, t)
  PROVE  s = SubSeq(t, 1, Len(s)) /\ Len(s) \in 0..Len(t)
<1>1. SubSeq(s, 1, Len(s)) = s
  OBVIOUS
<1> QED
  BY <1>1 DEF IsPrefix

-----------------------------------------------------------------------------
(* The longest cached prefix exists. *)

LEMMA MaximumExists ==
  ASSUME NEW n \in Nat, NEW T \in SUBSET (0..n), T # {}
  PROVE  \E m \in T : \A k \in T : k <= m
<1> DEFINE U == {n - k : k \in T}
<1>1. U \subseteq Nat /\ U # {}
  <2>1. \A k \in T : n - k \in Nat
    OBVIOUS
  <2>2. PICK k \in T : TRUE
    OBVIOUS
  <2>3. n - k \in U
    OBVIOUS
  <2> QED
    BY <2>1, <2>3
<1>2. PICK x \in U : \A y \in U : ~ (<< y, x >> \in OpToRel(<, Nat))
  <2> HIDE DEF U
  <2> QED
    BY <1>1, NatLessThanWellFounded, WFMin
<1>3. \A y \in U : ~ (y < x)
  BY <1>1, <1>2 DEF OpToRel
<1>4. PICK m \in T : x = n - m
  OBVIOUS
<1>5. \A k \in T : k <= m
  BY <1>3, <1>4
<1> QED
  BY <1>5

LEMMA MatchedPrefix ==
  ASSUME NEW B, NEW c, Paths(c) \subseteq Seq(B), NEW blocks \in Seq(B)
  PROVE  /\ Matched(c, blocks) \in {Root} \cup Paths(c)
         /\ Matched(c, blocks) \in Seq(B)
         /\ IsPrefix(Matched(c, blocks), blocks)
         /\ \A q \in Paths(c) : IsPrefix(q, blocks) => IsPrefix(q, Matched(c, blocks))
<1> DEFINE Good(p) == /\ IsPrefix(p, blocks)
                      /\ \A q \in Paths(c) : IsPrefix(q, blocks) => IsPrefix(q, p)
           T == {i \in 0..Len(blocks) : SubSeq(blocks, 1, i) \in {Root} \cup Paths(c)}
<1>1. Paths(c) \subseteq Seq(B) /\ Root \in Seq(B)
  BY PrefixRoot
<1>2. 0 \in T
  BY DEF Root
<1>3. PICK m \in T : \A k \in T : k <= m
  <2>1. T \in SUBSET (0..Len(blocks)) /\ Len(blocks) \in Nat
    OBVIOUS
  <2> HIDE DEF T
  <2> QED
    BY <1>2, <2>1, MaximumExists
<1> DEFINE p == SubSeq(blocks, 1, m)
<1>4. p \in {Root} \cup Paths(c)
  BY <1>3
<1>5. p \in Seq(B) /\ Len(p) = m /\ IsPrefix(p, blocks)
  BY <1>3, PrefixSegment
<1>6. ASSUME NEW q \in Paths(c), IsPrefix(q, blocks) PROVE IsPrefix(q, p)
  <2>1. q = SubSeq(blocks, 1, Len(q)) /\ Len(q) \in 0..Len(blocks)
    BY <1>1, <1>6, PrefixIsSegment
  <2>2. Len(q) \in T
    BY <2>1
  <2>3. Len(q) <= Len(p)
    BY <1>3, <1>5, <2>2
  <2> HIDE DEF p, T
  <2> QED
    BY <1>1, <1>5, <1>6, <2>3, PrefixChain
<1>7. \E x \in {Root} \cup Paths(c) : Good(x)
  <2> HIDE DEF p
  <2> QED
    BY <1>4, <1>5, <1>6
<1>8. Matched(c, blocks) = CHOOSE x \in {Root} \cup Paths(c) : Good(x)
  BY DEF Matched
<1> HIDE DEF Good
<1>9. Matched(c, blocks) \in {Root} \cup Paths(c) /\ Good(Matched(c, blocks))
  BY <1>7, <1>8
<1> QED
  BY <1>1, <1>9 DEF Good

LEMMA MatchedLongest ==
  ASSUME NEW B, NEW P, NEW c, CacheType(c, B, P), NEW blocks \in Seq(B)
  PROVE  /\ Matched(c, blocks) \in {Root} \cup Paths(c)
         /\ Matched(c, blocks) \in Seq(B)
         /\ IsPrefix(Matched(c, blocks), blocks)
         /\ \A q \in Paths(c) : IsPrefix(q, blocks) => IsPrefix(q, Matched(c, blocks))
<1>1. Paths(c) \subseteq Seq(B)
  BY DEF CacheType
<1> QED
  BY <1>1, MatchedPrefix

\* Whatever is done to a cache, its paths are sequences of blocks.
LEMMA PathsTyped ==
  ASSUME NEW B, NEW c, Paths(c) \subseteq Seq(B)
  PROVE  /\ \A p : Paths(Walk(c, p)) \subseteq Seq(B)
         /\ \A h : Paths(Lock(c, h)) \subseteq Seq(B) /\ Paths(Unlock(c, h)) \subseteq Seq(B)
         /\ \A v : Paths(EvictLeaf(c, v)) \subseteq Seq(B)
         /\ \A b \in Seq(B) : \A row : Paths(Insert(c, b, row)) \subseteq Seq(B)
<1>1. \A p : Paths(Walk(c, p)) = Paths(c)
  BY DEF Walk, Paths
<1>2. \A h : Paths(Lock(c, h)) = Paths(c) /\ Paths(Unlock(c, h)) = Paths(c)
  BY DEF Lock, Unlock, Paths
<1>3. \A v : Paths(EvictLeaf(c, v)) = Paths(c) \ Key(c, v)
  BY DEF EvictLeaf, Paths
<1>4. ASSUME NEW b \in Seq(B), NEW row PROVE Paths(Insert(c, b, row)) \subseteq Seq(B)
  <2> DEFINE p == Matched(c, b)
             w == Walk(c, p)
             added == {SubSeq(b, 1, i) : i \in (Len(p) + 1)..Len(b)}
  <2>1. p \in Seq(B)
    BY MatchedPrefix
  <2>2. CASE p = b
    <3>1. Insert(c, b, row) = Walk(c, p)
      BY <2>2 DEF Insert
    <3> QED
      BY <1>1, <3>1
  <2>3. CASE p # b
    <3>1. Insert(c, b, row) = NewLeaf(w, p, b, row)
      BY <2>3 DEF Insert
    <3>2. Paths(NewLeaf(w, p, b, row)) = Paths(w) \cup added
      BY DEF NewLeaf, Paths
    <3>3. \A i \in (Len(p) + 1)..Len(b) : SubSeq(b, 1, i) \in Seq(B)
      <4>1. Len(p) \in Nat /\ Len(b) \in Nat
        BY <2>1
      <4>2. \A i \in (Len(p) + 1)..Len(b) : i \in 0..Len(b)
        BY <4>1
      <4> QED
        BY <4>2, PrefixSegment
    <3> QED
      BY <1>1, <3>1, <3>2, <3>3
  <2> QED
    BY <2>2, <2>3
<1> QED
  BY <1>1, <1>2, <1>3, <1>4

-----------------------------------------------------------------------------
(* The node of a path. *)

LEMMA NodeOfPath ==
  ASSUME NEW c, Trie(c), NEW p \in Paths(c)
  PROVE  IsNodeOf(c, p, NodeOf(c, p))
BY DEF Trie, NodeOf, IsNodeOf

LEMMA NodeOfUnique ==
  ASSUME NEW B, NEW P, NEW c, CacheType(c, B, P), NEW p, NEW n, IsNodeOf(c, p, n)
  PROVE  NodeOf(c, p) = n
<1>1. IsNodeOf(c, p, NodeOf(c, p)) /\ NodeOf(c, p) \in Nodes(c) /\ n \in Nodes(c)
  BY DEF NodeOf, IsNodeOf
<1>2. Nodes(c) \subseteq Seq(B)
  BY DEF CacheType
<1>3. IsPrefix(n, NodeOf(c, p)) /\ IsPrefix(NodeOf(c, p), n)
  BY <1>1 DEF IsNodeOf
<1> QED
  BY <1>1, <1>2, <1>3, PrefixAntisymmetric

LEMMA NodeOfNode ==
  ASSUME NEW B, NEW P, NEW c, CacheType(c, B, P), NEW n \in Nodes(c)
  PROVE  IsNodeOf(c, n, n) /\ NodeOf(c, n) = n
<1>1. n \in Seq(B)
  BY DEF CacheType
<1>2. IsNodeOf(c, n, n)
  BY <1>1, PrefixReflexive DEF IsNodeOf
<1> QED
  BY <1>2, NodeOfUnique

LEMMA RankedType ==
  ASSUME NEW D, IsFiniteSet(D), NEW age \in [D -> Nat]
  PROVE  Ranked(age) \in [D -> Nat]
<1>1. ASSUME NEW n \in D
      PROVE  Cardinality({m \in D : age[m] < age[n]}) \in Nat
  <2>1. {m \in D : age[m] < age[n]} \in SUBSET D
    OBVIOUS
  <2> QED
    BY <2>1, FS_Subset, FS_CardinalityType
<1> QED
  BY <1>1 DEF Ranked

LEMMA NowType ==
  ASSUME NEW B, NEW P, NEW c, CacheType(c, B, P)
  PROVE  IsFiniteSet(Nodes(c)) /\ Now(c) \in Nat
<1>1. Nodes(c) \in SUBSET Paths(c) /\ IsFiniteSet(Paths(c))
  BY DEF CacheType
<1>2. IsFiniteSet(Nodes(c))
  BY <1>1, FS_Subset
<1> QED
  BY <1>2, FS_CardinalityType DEF Now

-----------------------------------------------------------------------------
(* _tree_walk: a walk that stops at a stored path p makes p a node and moves *)
(* no page.                                                                  *)

LEMMA WalkNodes ==
  ASSUME NEW B, NEW P, NEW c, CacheType(c, B, P), Trie(c),
         NEW p \in {Root} \cup Paths(c)
  PROVE  /\ Paths(Walk(c, p)) = Paths(c) /\ Walk(c, p).page = c.page
         /\ Nodes(Walk(c, p)) = Nodes(c) \cup ({p} \ {Root})
         /\ \A n \in Nodes(c) : Walk(c, p).ref[n] = c.ref[n]
         /\ \A n \in Nodes(Walk(c, p)) \ Nodes(c) :
              n = p /\ Walk(c, p).ref[n] = c.ref[NodeOf(c, p)]
         /\ CacheType(Walk(c, p), B, P)
<1> DEFINE N == Nodes(c) \cup ({p} \ {Root})
           d == Walk(c, p)
<1>1. d = [page |-> c.page, ref |-> RefAfterWalk(c, p), age |-> AgeAfterWalk(c, p),
           evictable |-> c.evictable, protected |-> c.protected]
  BY DEF Walk
<1>2. Paths(d) = Paths(c) /\ d.page = c.page
  BY <1>1 DEF Paths
<1>3. Nodes(d) = N
  BY <1>1 DEF Nodes, RefAfterWalk
<1>4. \A n \in Nodes(c) : d.ref[n] = c.ref[n]
  BY <1>1 DEF RefAfterWalk
<1>5. \A n \in N \ Nodes(c) : n = p /\ d.ref[n] = c.ref[NodeOf(c, p)]
  BY <1>1 DEF RefAfterWalk
<1>6. p # Root => NodeOf(c, p) \in Nodes(c)
  BY NodeOfPath DEF IsNodeOf
<1>7. d.ref \in [N -> Nat]
  BY <1>1, <1>6 DEF RefAfterWalk, CacheType
<1>8. d.age \in [N -> Nat]
  <2> DEFINE a == [n \in N |-> IF n \notin Nodes(c) THEN c.age[NodeOf(c, n)]
                               ELSE IF IsPrefix(n, p) THEN Now(c) ELSE c.age[n]]
  <2>1. Now(c) \in Nat /\ IsFiniteSet(Nodes(c))
    BY NowType
  <2>2. a \in [N -> Nat]
    BY <1>6, <2>1 DEF CacheType
  <2>3. IsFiniteSet(N)
    BY <2>1, FS_AddElement
  <2> HIDE DEF a
  <2>4. Ranked(a) \in [N -> Nat]
    BY <2>2, <2>3, RankedType
  <2>5. d.age = Ranked(a)
    BY <1>1 DEF AgeAfterWalk, a
  <2> QED
    BY <2>4, <2>5
<1>9. CacheType(d, B, P)
  <2>1. N \subseteq Paths(d)
    BY <1>2 DEF CacheType
  <2> HIDE DEF N, d
  <2>2. d.evictable = c.evictable /\ d.protected = c.protected
    BY <1>1
  <2> QED
    BY <1>1, <1>2, <1>3, <1>7, <1>8, <2>1, <2>2 DEF CacheType
<1> QED
  BY <1>2, <1>3, <1>4, <1>5, <1>9

LEMMA WalkTrie ==
  ASSUME NEW B, NEW P, NEW c, CacheType(c, B, P), Trie(c),
         NEW p \in {Root} \cup Paths(c)
  PROVE  Trie(Walk(c, p))
<1> DEFINE d == Walk(c, p)
<1>1. Paths(d) = Paths(c) /\ Nodes(d) = Nodes(c) \cup ({p} \ {Root})
  BY WalkNodes
<1> HIDE DEF d
<1>2. Paths(c) \subseteq Seq(B) /\ Nodes(c) \subseteq Seq(B) /\ p \in Seq(B)
  <2>1. Root \in Seq(B)
    BY DEF Root
  <2> QED
    BY <2>1 DEF CacheType
<1>3. ASSUME NEW q \in Paths(c) PROVE \E m \in Nodes(d) : IsNodeOf(d, q, m)
  <2> DEFINE n == NodeOf(c, q)
  <2>1. IsNodeOf(c, q, n)
    BY NodeOfPath
  <2> HIDE DEF n
  <2>2. n \in Nodes(c) /\ n \in Seq(B) /\ q \in Seq(B) /\ IsPrefix(q, n)
    BY <1>2, <1>3, <2>1 DEF IsNodeOf
  <2>3. CASE p = Root \/ ~ IsPrefix(q, p)
    <3>1. \A m \in Nodes(d) : IsPrefix(q, m) => m \in Nodes(c)
      BY <1>1, <2>3
    <3> QED
      BY <1>1, <2>1, <2>2, <3>1 DEF IsNodeOf
  <2>4. CASE p # Root /\ IsPrefix(q, p)
    <3> DEFINE np == NodeOf(c, p)
    <3>1. IsNodeOf(c, p, np)
      BY <2>4, NodeOfPath
    <3> HIDE DEF np
    <3>2. np \in Nodes(c) /\ np \in Seq(B) /\ IsPrefix(p, np)
      BY <1>2, <3>1 DEF IsNodeOf
    <3>3. IsPrefix(n, np)
      <4>1. IsPrefix(q, np)
        BY <1>2, <2>2, <2>4, <3>2, PrefixTransitive
      <4> QED
        BY <2>1, <3>2, <4>1 DEF IsNodeOf
    <3>4. CASE Len(n) <= Len(p)
      <4>1. IsPrefix(n, p)
        BY <1>2, <2>2, <3>2, <3>3, <3>4, PrefixChain
      <4> QED
        BY <1>1, <2>1, <2>2, <4>1 DEF IsNodeOf
    <3>5. CASE Len(p) <= Len(n)
      <4>1. IsPrefix(p, n)
        BY <1>2, <2>2, <3>2, <3>3, <3>5, PrefixChain
      <4>2. ASSUME NEW m \in Nodes(d), IsPrefix(q, m) PROVE IsPrefix(p, m)
        <5>1. CASE m = p
          BY <1>2, <5>1, PrefixReflexive
        <5>2. CASE m \in Nodes(c)
          <6>1. IsPrefix(n, m)
            BY <2>1, <4>2, <5>2 DEF IsNodeOf
          <6> QED
            BY <1>2, <2>2, <4>1, <5>2, <6>1, PrefixTransitive
        <5> QED
          BY <1>1, <5>1, <5>2
      <4>3. p \in Nodes(d)
        BY <1>1, <2>4
      <4> QED
        BY <2>4, <4>2, <4>3 DEF IsNodeOf
    <3> QED
      BY <1>2, <2>2, <3>4, <3>5
  <2> QED
    BY <2>3, <2>4
<1>4. \A q \in Paths(d) : \A i \in 1..Len(q) : SubSeq(q, 1, i) \in Paths(d)
  BY <1>1 DEF Trie
<1> QED
  BY <1>1, <1>3, <1>4 DEF Trie, d

-----------------------------------------------------------------------------
(* lock_handle: only counts and counters change. *)

LEMMA TrieSame ==
  ASSUME NEW c, NEW d, Trie(c), Paths(d) = Paths(c), Nodes(d) = Nodes(c)
  PROVE  Trie(d)
BY DEF Trie, IsNodeOf

LEMMA PagesAtRefType ==
  ASSUME NEW B, NEW P, NEW c, CacheType(c, B, P), NEW h, NEW k
  PROVE  PagesAtRef(c, h, k) \in Int
<1> DEFINE Q == {p \in Paths(c) : IsPrefix(p, h) /\ c.ref[NodeOf(c, p)] = k}
<1>1. Q \in SUBSET Paths(c) /\ IsFiniteSet(Paths(c))
  BY DEF CacheType
<1>2. Cardinality(Q) \in Nat
  <2> HIDE DEF Q
  <2> QED
    BY <1>1, FS_Subset, FS_CardinalityType
<1> QED
  BY <1>2 DEF PagesAtRef

LEMMA LockNodes ==
  ASSUME NEW B, NEW P, NEW c, CacheType(c, B, P), Trie(c), NEW h
  PROVE  LET d == Lock(c, h)
         IN /\ Paths(d) = Paths(c) /\ d.page = c.page /\ Nodes(d) = Nodes(c)
            /\ \A n \in Nodes(c) :
                 d.ref[n] = IF IsPrefix(n, h) THEN c.ref[n] + 1 ELSE c.ref[n]
            /\ CacheType(d, B, P) /\ Trie(d)
<1> DEFINE d == Lock(c, h)
<1>1. d = [page |-> c.page, ref |-> Counted(c, h, 1), age |-> c.age,
           evictable |-> c.evictable - PagesAtRef(c, h, 0),
           protected |-> c.protected + PagesAtRef(c, h, 0)]
  BY DEF Lock
<1>2. Paths(d) = Paths(c) /\ d.page = c.page /\ Nodes(d) = Nodes(c)
  BY <1>1 DEF Paths, Nodes, Counted
<1>3. \A n \in Nodes(c) : d.ref[n] = IF IsPrefix(n, h) THEN c.ref[n] + 1 ELSE c.ref[n]
  BY <1>1 DEF Counted
<1>4. d.ref \in [Nodes(c) -> Nat]
  BY <1>1 DEF Counted, CacheType
<1>5. PagesAtRef(c, h, 0) \in Int
  BY PagesAtRefType
<1>6. CacheType(d, B, P)
  BY <1>1, <1>2, <1>4, <1>5 DEF CacheType
<1> QED
  BY <1>2, <1>3, <1>6, TrieSame

LEMMA UnlockNodes ==
  ASSUME NEW B, NEW P, NEW c, CacheType(c, B, P), Trie(c), NEW h,
         \A n \in Nodes(c) : IsPrefix(n, h) => c.ref[n] > 0
  PROVE  LET d == Unlock(c, h)
         IN /\ Paths(d) = Paths(c) /\ d.page = c.page /\ Nodes(d) = Nodes(c)
            /\ \A n \in Nodes(c) :
                 d.ref[n] = IF IsPrefix(n, h) THEN c.ref[n] - 1 ELSE c.ref[n]
            /\ CacheType(d, B, P) /\ Trie(d)
<1> DEFINE d == Unlock(c, h)
<1>1. d = [page |-> c.page, ref |-> Counted(c, h, -1), age |-> c.age,
           evictable |-> c.evictable + PagesAtRef(c, h, 1),
           protected |-> c.protected - PagesAtRef(c, h, 1)]
  BY DEF Unlock
<1>2. Paths(d) = Paths(c) /\ d.page = c.page /\ Nodes(d) = Nodes(c)
  BY <1>1 DEF Paths, Nodes, Counted
<1>3. \A n \in Nodes(c) : d.ref[n] = IF IsPrefix(n, h) THEN c.ref[n] - 1 ELSE c.ref[n]
  <2>1. c.ref \in [Nodes(c) -> Nat]
    BY DEF CacheType
  <2> QED
    BY <1>1, <2>1 DEF Counted
<1>4. d.ref \in [Nodes(c) -> Nat]
  <2>1. c.ref \in [Nodes(c) -> Nat]
    BY DEF CacheType
  <2>2. \A n \in Nodes(c) : (IF IsPrefix(n, h) THEN c.ref[n] + (-1) ELSE c.ref[n]) \in Nat
    BY <2>1
  <2> QED
    BY <1>1, <2>2 DEF Counted
<1>5. PagesAtRef(c, h, 1) \in Int
  BY PagesAtRefType
<1>6. CacheType(d, B, P)
  BY <1>1, <1>2, <1>4, <1>5 DEF CacheType
<1> QED
  BY <1>2, <1>3, <1>6, TrieSame

-----------------------------------------------------------------------------
(* insert_prefix: the leaf below the node where the walk stopped. *)

LEMMA AddedPaths ==
  ASSUME NEW B, NEW blocks \in Seq(B), NEW a \in 0..Len(blocks)
  PROVE  LET added == {SubSeq(blocks, 1, i) : i \in (a + 1)..Len(blocks)}
         IN /\ IsFiniteSet(added)
            /\ added \subseteq Seq(B) \ {Root}
            /\ \A q \in added : IsPrefix(q, blocks) /\ Len(q) \in (a + 1)..Len(blocks)
<1> DEFINE I == (a + 1)..Len(blocks)
           f == [i \in I |-> SubSeq(blocks, 1, i)]
           added == {SubSeq(blocks, 1, i) : i \in I}
<1>1. IsFiniteSet(I)
  BY FS_Interval
<1>2. f \in Surjection(I, added)
  BY DEF Surjection
<1>3. IsFiniteSet(added)
  <2> HIDE DEF I, f, added
  <2> QED
    BY <1>1, <1>2, FS_Surjection
<1>4. ASSUME NEW i \in I
      PROVE  /\ SubSeq(blocks, 1, i) \in Seq(B) \ {Root}
             /\ IsPrefix(SubSeq(blocks, 1, i), blocks)
             /\ Len(SubSeq(blocks, 1, i)) = i
  <2>1. i \in 0..Len(blocks) /\ i > 0
    OBVIOUS
  <2>2. /\ SubSeq(blocks, 1, i) \in Seq(B)
        /\ Len(SubSeq(blocks, 1, i)) = i
        /\ IsPrefix(SubSeq(blocks, 1, i), blocks)
    BY <2>1, PrefixSegment
  <2>3. Len(Root) = 0
    BY DEF Root
  <2> QED
    BY <2>1, <2>2, <2>3
<1> QED
  BY <1>3, <1>4

LEMMA NewLeafNodes ==
  ASSUME NEW B, NEW P, NEW c, CacheType(c, B, P), Trie(c),
         NEW blocks \in Seq(B), NEW row \in Seq(P), Len(blocks) <= Len(row),
         NEW p \in {Root} \cup Nodes(c), IsPrefix(p, blocks), p # blocks,
         \A q \in Paths(c) : IsPrefix(q, blocks) => IsPrefix(q, p)
  PROVE  LET d == NewLeaf(c, p, blocks, row)
         IN /\ Paths(c) \subseteq Paths(d)
            /\ Nodes(d) = Nodes(c) \cup {blocks} /\ blocks \notin Paths(c)
            /\ \A n \in Nodes(c) : d.ref[n] = c.ref[n]
            /\ d.ref[blocks] = 0
            /\ \A q \in Paths(c) : d.page[q] = c.page[q]
            /\ CacheType(d, B, P) /\ Trie(d)
<1> DEFINE d == NewLeaf(c, p, blocks, row)
           added == {SubSeq(blocks, 1, i) : i \in (Len(p) + 1)..Len(blocks)}
           N == Nodes(c) \cup {blocks}
           Q == Paths(c) \cup added
<1>1. /\ Paths(c) \subseteq Seq(B) \ {Root} /\ Nodes(c) \subseteq Seq(B)
      /\ Nodes(c) \subseteq Paths(c) /\ p \in Seq(B)
  <2>1. Root \in Seq(B)
    BY DEF Root
  <2> QED
    BY <2>1 DEF CacheType
<1>2. Len(p) \in 0..Len(blocks) /\ Len(p) < Len(blocks)
  <2>1. Len(p) \in 0..Len(blocks) /\ p = SubSeq(blocks, 1, Len(p))
    BY <1>1, PrefixIsSegment
  <2>2. SubSeq(blocks, 1, Len(blocks)) = blocks
    OBVIOUS
  <2> QED
    BY <2>1, <2>2
<1>3. /\ IsFiniteSet(added) /\ added \subseteq Seq(B) \ {Root}
      /\ \A q \in added : IsPrefix(q, blocks) /\ Len(q) \in (Len(p) + 1)..Len(blocks)
  BY <1>2, AddedPaths
<1>4. blocks \in added
  <2>1. SubSeq(blocks, 1, Len(blocks)) = blocks
    OBVIOUS
  <2>2. Len(blocks) \in (Len(p) + 1)..Len(blocks)
    BY <1>2
  <2>3. SubSeq(blocks, 1, Len(blocks)) \in added
    BY <2>2
  <2> QED
    BY <2>1, <2>3
<1>5. added \cap Paths(c) = {}
  <2> SUFFICES ASSUME NEW q \in added, q \in Paths(c) PROVE FALSE
    OBVIOUS
  <2>1. IsPrefix(q, p) /\ Len(q) > Len(p)
    BY <1>2, <1>3
  <2> QED
    BY <1>1, <2>1, PrefixIsSegment
<1> DEFINE rf == [n \in N |-> IF n = blocks THEN 0 ELSE c.ref[n]]
           ag == [n \in N |-> IF n = blocks THEN Now(c) ELSE c.age[n]]
           pg == [q \in Q |-> IF q \in added THEN row[Len(q)] ELSE c.page[q]]
<1>6. d = [page |-> pg, ref |-> rf, age |-> Ranked(ag),
           evictable |-> c.evictable + (Len(blocks) - Len(p)), protected |-> c.protected]
  BY DEF NewLeaf
<1>7. Paths(d) = Q /\ Nodes(d) = N /\ d.ref = rf /\ d.age = Ranked(ag) /\ d.page = pg
  BY <1>6 DEF Paths, Nodes
<1>8. rf \in [N -> Nat]
  <2>1. c.ref \in [Nodes(c) -> Nat]
    BY DEF CacheType
  <2> QED
    BY <2>1
<1>9. Ranked(ag) \in [N -> Nat]
  <2>1. IsFiniteSet(Nodes(c)) /\ Now(c) \in Nat
    BY NowType
  <2>2. IsFiniteSet(N)
    BY <2>1, FS_AddElement
  <2>3. c.age \in [Nodes(c) -> Nat]
    BY DEF CacheType
  <2>4. ag \in [N -> Nat]
    BY <2>1, <2>3
  <2> HIDE DEF ag, N
  <2> QED
    BY <2>2, <2>4, RankedType
<1>10. pg \in [Q -> P]
  <2>1. \A q \in added : row[Len(q)] \in P
    BY <1>2, <1>3
  <2>2. c.page \in [Paths(c) -> P]
    BY DEF CacheType
  <2> HIDE DEF added
  <2> QED
    BY <2>1, <2>2
<1>11. IsFiniteSet(Q)
  BY <1>3, FS_Union DEF CacheType
<1>12. \A n \in Nodes(c) : rf[n] = c.ref[n]
  BY <1>1, <1>4, <1>5
<1>13. \A q \in Paths(c) : pg[q] = c.page[q]
  BY <1>5
<1> HIDE DEF added, rf, ag, pg, d
<1>14. CacheType(d, B, P)
  <2>1. d.evictable \in Int /\ d.protected \in Int
    BY <1>2, <1>6 DEF CacheType
  <2>2. N \subseteq Q /\ Q \subseteq Seq(B) \ {Root}
    BY <1>1, <1>3, <1>4
  <2>3. d = [page |-> d.page, ref |-> d.ref, age |-> d.age,
             evictable |-> d.evictable, protected |-> d.protected]
    BY <1>6
  <2> QED
    BY <1>7, <1>8, <1>9, <1>10, <1>11, <2>1, <2>2, <2>3 DEF CacheType
<1>15. ASSUME NEW q \in Q, NEW i \in 1..Len(q) PROVE SubSeq(q, 1, i) \in Q
  <2>1. CASE q \in Paths(c)
    BY <2>1 DEF Trie
  <2>2. CASE q \in added
    <3>1. PICK j \in (Len(p) + 1)..Len(blocks) : q = SubSeq(blocks, 1, j)
      BY <2>2 DEF added
    <3>2. Len(q) = j
      BY <1>2, <3>1
    <3>3. SubSeq(q, 1, i) = SubSeq(blocks, 1, i)
      BY <1>2, <3>1, <3>2
    <3>4. CASE i > Len(p)
      BY <1>2, <3>2, <3>3, <3>4 DEF added
    <3>5. CASE i <= Len(p)
      <4>1. p = SubSeq(blocks, 1, Len(p))
        BY <1>1, PrefixIsSegment
      <4>2. SubSeq(p, 1, i) = SubSeq(blocks, 1, i)
        BY <1>2, <3>2, <3>5, <4>1
      <4>3. p \in Paths(c)
        <5>1. Len(Root) = 0
          BY DEF Root
        <5> QED
          BY <1>1, <3>5, <5>1
      <4>4. SubSeq(p, 1, i) \in Paths(c)
        BY <1>2, <3>2, <3>5, <4>3 DEF Trie
      <4> QED
        BY <3>3, <4>2, <4>4
    <3> QED
      BY <1>2, <3>2, <3>4, <3>5
  <2> QED
    BY <2>1, <2>2
<1>16. ASSUME NEW q \in Q PROVE \E m \in Nodes(d) : IsNodeOf(d, q, m)
  <2>1. CASE q \in Paths(c)
    <3> DEFINE n == NodeOf(c, q)
    <3>1. IsNodeOf(c, q, n)
      BY <2>1, NodeOfPath
    <3> HIDE DEF n
    <3>2. n \in Nodes(c) /\ n \in Seq(B) /\ q \in Seq(B) /\ IsPrefix(q, n)
      BY <1>1, <2>1, <3>1 DEF IsNodeOf
    <3>3. IsPrefix(q, blocks) => IsPrefix(n, blocks)
      <4> SUFFICES ASSUME IsPrefix(q, blocks) PROVE IsPrefix(n, blocks)
        OBVIOUS
      <4>1. IsPrefix(q, p)
        BY <2>1
      <4>2. p # Root
        BY <1>1, <2>1, <4>1, PrefixRoot
      <4>3. IsPrefix(n, p)
        BY <3>1, <4>1, <4>2 DEF IsNodeOf
      <4> QED
        BY <1>1, <3>2, <4>3, PrefixTransitive
    <3>4. \A m \in N : IsPrefix(q, m) => IsPrefix(n, m)
      BY <3>1, <3>3 DEF IsNodeOf
    <3> QED
      BY <1>7, <3>2, <3>4 DEF IsNodeOf
  <2>2. CASE q \in added
    <3>1. ASSUME NEW m \in Nodes(c), IsPrefix(q, m) PROVE FALSE
      <4>1. q = SubSeq(m, 1, Len(q)) /\ Len(q) \in 0..Len(m)
        BY <1>1, <1>3, <2>2, <3>1, PrefixIsSegment
      <4>2. Len(q) \in 1..Len(m)
        BY <1>2, <1>3, <2>2, <4>1
      <4>3. q \in Paths(c)
        BY <1>1, <4>1, <4>2 DEF Trie
      <4> QED
        BY <1>5, <2>2, <4>3
    <3>2. IsPrefix(q, blocks) /\ IsPrefix(blocks, blocks)
      BY <1>3, <2>2, PrefixReflexive
    <3> QED
      BY <1>7, <3>1, <3>2 DEF IsNodeOf
  <2> QED
    BY <2>1, <2>2
<1>17. Trie(d)
  BY <1>7, <1>15, <1>16 DEF Trie
<1>18. rf[blocks] = 0 /\ blocks \notin Paths(c)
  BY <1>4, <1>5 DEF rf
<1> QED
  BY <1>7, <1>12, <1>13, <1>14, <1>17, <1>18 DEF d

\* insert_prefix as a whole.  A node it adds is either the upper half of a split
\* at a stored path, or the new leaf at a path that was not stored.
LEMMA InsertNodes ==
  ASSUME NEW B, NEW P, NEW c, CacheType(c, B, P), Trie(c),
         NEW blocks \in Seq(B), NEW row \in Seq(P), Len(blocks) <= Len(row)
  PROVE  LET d == Insert(c, blocks, row)
         IN /\ Paths(c) \subseteq Paths(d)
            /\ Nodes(c) \subseteq Nodes(d) /\ blocks \in Nodes(d) \cup {Root}
            /\ \A n \in Nodes(c) : d.ref[n] = c.ref[n]
            /\ \A n \in Nodes(d) \ Nodes(c) :
                 \/ n \in Paths(c) /\ d.ref[n] = c.ref[NodeOf(c, n)]
                 \/ n \notin Paths(c) /\ d.ref[n] = 0
            /\ \A q \in Paths(c) : d.page[q] = c.page[q]
            /\ CacheType(d, B, P) /\ Trie(d)
<1> DEFINE p == Matched(c, blocks)
           w == Walk(c, p)
           d == Insert(c, blocks, row)
<1>1. /\ p \in {Root} \cup Paths(c) /\ p \in Seq(B) /\ IsPrefix(p, blocks)
      /\ \A q \in Paths(c) : IsPrefix(q, blocks) => IsPrefix(q, p)
  BY MatchedLongest
<1> HIDE DEF p
<1>2. /\ Paths(w) = Paths(c) /\ w.page = c.page
      /\ Nodes(w) = Nodes(c) \cup ({p} \ {Root})
      /\ \A n \in Nodes(c) : w.ref[n] = c.ref[n]
      /\ \A n \in Nodes(w) \ Nodes(c) : n = p /\ w.ref[n] = c.ref[NodeOf(c, p)]
      /\ CacheType(w, B, P)
  BY <1>1, WalkNodes
<1>3. Trie(w)
  BY <1>1, WalkTrie
<1>4. \A n \in Nodes(w) \ Nodes(c) : n \in Paths(c) /\ w.ref[n] = c.ref[NodeOf(c, n)]
  BY <1>1, <1>2
<1>5. CASE p = blocks
  <2>1. d = w
    BY <1>5 DEF Insert, p
  <2> HIDE DEF d, w
  <2> QED
    BY <1>2, <1>3, <1>4, <1>5, <2>1 DEF d
<1>6. CASE p # blocks
  <2>1. d = NewLeaf(w, p, blocks, row)
    BY <1>6 DEF Insert, p
  <2>2. p \in {Root} \cup Nodes(w)
    BY <1>2
  <2> HIDE DEF d, w
  <2>3. /\ Paths(w) \subseteq Paths(d)
        /\ Nodes(d) = Nodes(w) \cup {blocks} /\ blocks \notin Paths(w)
        /\ \A n \in Nodes(w) : d.ref[n] = w.ref[n]
        /\ d.ref[blocks] = 0
        /\ \A q \in Paths(w) : d.page[q] = w.page[q]
        /\ CacheType(d, B, P) /\ Trie(d)
    BY <1>1, <1>2, <1>3, <1>6, <2>1, <2>2, NewLeafNodes
  <2> QED
    BY <1>2, <1>4, <2>3 DEF d
<1> QED
  BY <1>5, <1>6

-----------------------------------------------------------------------------
(* evict: one unlocked leaf goes, with the blocks of its key. *)

LEMMA KeyOfNode ==
  ASSUME NEW B, NEW P, NEW c, CacheType(c, B, P), Trie(c), NEW v \in Nodes(c)
  PROVE  /\ IsFiniteSet(Key(c, v))
         /\ Cardinality(Key(c, v)) \in 0..Len(v)
         /\ \A p \in Key(c, v) : IsPrefix(p, v)
<1>1. Paths(c) \subseteq Seq(B) \ {Root} /\ v \in Seq(B)
  BY DEF CacheType
<1>2. \A p \in Key(c, v) : IsPrefix(p, v)
  BY NodeOfPath DEF Key, IsNodeOf
<1> DEFINE f == [p \in Key(c, v) |-> Len(p)]
<1>3. \A p \in Key(c, v) : Len(p) \in 1..Len(v) /\ p = SubSeq(v, 1, Len(p))
  <2> SUFFICES ASSUME NEW p \in Key(c, v)
               PROVE  Len(p) \in 1..Len(v) /\ p = SubSeq(v, 1, Len(p))
    OBVIOUS
  <2>1. p \in Seq(B) /\ p # Root
    BY <1>1 DEF Key
  <2>2. p = SubSeq(v, 1, Len(p)) /\ Len(p) \in 0..Len(v)
    BY <1>1, <1>2, <2>1, PrefixIsSegment
  <2>3. Len(p) # 0
    BY <2>1 DEF Root
  <2> QED
    BY <2>2, <2>3
<1>4. f \in Injection(Key(c, v), 1..Len(v))
  BY <1>3 DEF Injection, IsInjective
<1>5. IsFiniteSet(1..Len(v)) /\ Cardinality(1..Len(v)) = Len(v)
  <2>1. Len(v) \in Nat
    BY <1>1
  <2> QED
    BY <2>1, FS_Interval
<1>6. IsFiniteSet(Key(c, v)) /\ Cardinality(Key(c, v)) <= Len(v)
  <2> HIDE DEF f
  <2> QED
    BY <1>4, <1>5, FS_Injection
<1>7. Cardinality(Key(c, v)) \in Nat /\ Len(v) \in Nat
  BY <1>1, <1>6, FS_CardinalityType
<1> QED
  BY <1>2, <1>6, <1>7

LEMMA EvictedType ==
  ASSUME NEW B, NEW P, NEW c, CacheType(c, B, P), Trie(c), NEW v \in Nodes(c)
  PROVE  EvictedPages(c, v) \in Seq(P)
<1> DEFINE k == Cardinality(Key(c, v))
<1>1. k \in 0..Len(v)
  BY KeyOfNode
<1>2. v \in Paths(c) /\ v \in Seq(B) /\ c.page \in [Paths(c) -> P]
  BY DEF CacheType
<1>3. ASSUME NEW i \in 1..k PROVE c.page[SubSeq(v, 1, Len(v) - k + i)] \in P
  <2>1. Len(v) - k + i \in 1..Len(v)
    BY <1>1, <1>2
  <2>2. SubSeq(v, 1, Len(v) - k + i) \in Paths(c)
    BY <1>2, <2>1 DEF Trie
  <2> QED
    BY <1>2, <2>2
<1>4. EvictedPages(c, v) = [i \in 1..k |-> c.page[SubSeq(v, 1, Len(v) - k + i)]]
  BY DEF EvictedPages
<1> HIDE DEF k
<1> QED
  BY <1>1, <1>2, <1>3, <1>4

LEMMA EvictNodes ==
  ASSUME NEW B, NEW P, NEW c, CacheType(c, B, P), Trie(c), NEW v \in Leaves(c)
  PROVE  LET d == EvictLeaf(c, v)
         IN /\ Paths(d) = Paths(c) \ Key(c, v) /\ Nodes(d) = Nodes(c) \ {v}
            /\ \A n \in Nodes(d) : d.ref[n] = c.ref[n]
            /\ \A q \in Paths(d) : d.page[q] = c.page[q]
            /\ CacheType(d, B, P) /\ Trie(d)
<1> DEFINE d == EvictLeaf(c, v)
           N == Nodes(c) \ {v}
           Q == Paths(c) \ Key(c, v)
           rf == [n \in N |-> c.ref[n]]
           ag == [n \in N |-> c.age[n]]
           pg == [q \in Q |-> c.page[q]]
<1>1. d = [page |-> pg, ref |-> rf, age |-> Ranked(ag),
           evictable |-> c.evictable - Cardinality(Key(c, v)), protected |-> c.protected]
  BY DEF EvictLeaf
<1>2. Paths(d) = Q /\ Nodes(d) = N /\ d.ref = rf /\ d.age = Ranked(ag) /\ d.page = pg
  BY <1>1 DEF Paths, Nodes
<1>3. v \in Nodes(c) /\ \A m \in Nodes(c) : IsPrefix(v, m) => m = v
  BY DEF Leaves
<1>4. /\ Paths(c) \subseteq Seq(B) \ {Root} /\ Nodes(c) \subseteq Paths(c)
      /\ IsFiniteSet(Paths(c)) /\ c.ref \in [Nodes(c) -> Nat]
      /\ c.age \in [Nodes(c) -> Nat] /\ c.page \in [Paths(c) -> P]
      /\ c.evictable \in Int /\ c.protected \in Int
  BY DEF CacheType
<1>5. IsFiniteSet(Q) /\ IsFiniteSet(N)
  <2>1. Q \in SUBSET Paths(c) /\ N \in SUBSET Paths(c)
    BY <1>4
  <2> QED
    BY <1>4, <2>1, FS_Subset
<1>6. Ranked(ag) \in [N -> Nat]
  <2>1. ag \in [N -> Nat]
    BY <1>4
  <2> HIDE DEF ag, N
  <2> QED
    BY <1>5, <2>1, RankedType
<1>7. N \subseteq Q
  BY <1>4, NodeOfNode DEF Key
<1>8. Cardinality(Key(c, v)) \in Int
  <2>1. Cardinality(Key(c, v)) \in 0..Len(v)
    BY <1>3, KeyOfNode
  <2> QED
    BY <2>1
<1>9. rf \in [N -> Nat] /\ pg \in [Q -> P] /\ Q \subseteq Seq(B) \ {Root}
  BY <1>4
<1> HIDE DEF rf, ag, pg, d
<1>10. CacheType(d, B, P)
  <2>1. d.evictable \in Int /\ d.protected \in Int
    BY <1>1, <1>4, <1>8
  <2>2. d = [page |-> d.page, ref |-> d.ref, age |-> d.age,
             evictable |-> d.evictable, protected |-> d.protected]
    BY <1>1
  <2> QED
    BY <1>2, <1>5, <1>6, <1>7, <1>9, <2>1, <2>2 DEF CacheType
<1>11. ASSUME NEW q \in Q, NEW i \in 1..Len(q) PROVE SubSeq(q, 1, i) \in Q
  <2> DEFINE u == SubSeq(q, 1, i)
             n == NodeOf(c, q)
  <2>1. u \in Paths(c)
    BY DEF Trie
  <2>2. q \in Seq(B) /\ u \in Seq(B) /\ IsPrefix(u, q)
    <3>1. q \in Seq(B) /\ i \in 0..Len(q)
      BY <1>4
    <3> QED
      BY <3>1, PrefixSegment
  <2>3. IsNodeOf(c, q, n)
    BY NodeOfPath
  <2>4. n \in Nodes(c) /\ n \in Seq(B) /\ IsPrefix(q, n)
    BY <1>4, <2>3 DEF IsNodeOf
  <2> HIDE DEF u, n
  <2>5. ASSUME u \in Key(c, v) PROVE FALSE
    <3>1. NodeOf(c, u) = v /\ IsNodeOf(c, u, v)
      BY <2>1, <2>5, NodeOfPath DEF Key
    <3>2. IsPrefix(u, n)
      BY <2>2, <2>4, PrefixTransitive
    <3>3. IsPrefix(v, n)
      BY <2>4, <3>1, <3>2 DEF IsNodeOf
    <3>4. n = v
      BY <1>3, <2>4, <3>3
    <3> QED
      BY <3>4 DEF Key, n
  <2> QED
    BY <2>1, <2>5 DEF u
<1>12. ASSUME NEW q \in Q PROVE \E m \in Nodes(d) : IsNodeOf(d, q, m)
  <2>1. IsNodeOf(c, q, NodeOf(c, q)) /\ NodeOf(c, q) # v
    BY NodeOfPath DEF Key
  <2> QED
    BY <1>2, <2>1 DEF IsNodeOf
<1>13. Trie(d)
  BY <1>2, <1>11, <1>12 DEF Trie
<1> QED
  BY <1>2, <1>10, <1>13 DEF d, rf, pg

-----------------------------------------------------------------------------
(* The pages of the tree: what insert_prefix adds and evict gives back.    *)

LEMMA NewLeafPages ==
  ASSUME NEW c, NEW p, NEW blocks, NEW row
  PROVE  LET d == NewLeaf(c, p, blocks, row)
             added == {SubSeq(blocks, 1, i) : i \in (Len(p) + 1)..Len(blocks)}
         IN  /\ Paths(d) = Paths(c) \cup added
             /\ \A q \in added : d.page[q] = row[Len(q)]
             /\ \A q \in Paths(c) \ added : d.page[q] = c.page[q]
BY DEF NewLeaf, Paths

LEMMA InsertPages ==
  ASSUME NEW B, NEW P, NEW c, CacheType(c, B, P), Trie(c),
         NEW blocks \in Seq(B), NEW row \in Seq(P), Len(blocks) <= Len(row)
  PROVE  LET d == Insert(c, blocks, row)
             p == Matched(c, blocks)
         IN  /\ Paths(d) = Paths(c) \cup {SubSeq(blocks, 1, i) : i \in (Len(p) + 1)..Len(blocks)}
             /\ \A q \in Paths(c) : d.page[q] = c.page[q]
             /\ \A i \in (Len(p) + 1)..Len(blocks) :
                  /\ SubSeq(blocks, 1, i) \notin Paths(c)
                  /\ d.page[SubSeq(blocks, 1, i)] = row[i]
<1> DEFINE d == Insert(c, blocks, row)
           p == Matched(c, blocks)
           w == Walk(c, p)
<1>1. /\ p \in {Root} \cup Paths(c) /\ p \in Seq(B) /\ IsPrefix(p, blocks)
      /\ \A q \in Paths(c) : IsPrefix(q, blocks) => IsPrefix(q, p)
  BY MatchedLongest
<1>2. Len(p) \in 0..Len(blocks) /\ p = SubSeq(blocks, 1, Len(p))
  BY <1>1, PrefixIsSegment
<1>3. \A q \in Paths(c) : d.page[q] = c.page[q]
  BY InsertNodes
<1> HIDE DEF p
<1>4. ASSUME NEW i \in (Len(p) + 1)..Len(blocks)
      PROVE  /\ SubSeq(blocks, 1, i) \notin Paths(c)
             /\ SubSeq(blocks, 1, i) \in Seq(B) /\ Len(SubSeq(blocks, 1, i)) = i
  <2>1. i \in 0..Len(blocks)
    BY <1>1
  <2>2. /\ SubSeq(blocks, 1, i) \in Seq(B) /\ Len(SubSeq(blocks, 1, i)) = i
        /\ IsPrefix(SubSeq(blocks, 1, i), blocks)
    BY <2>1, PrefixSegment
  <2>3. ASSUME IsPrefix(SubSeq(blocks, 1, i), p) PROVE FALSE
    <3>1. i \in 0..Len(p)
      BY <1>1, <2>2, <2>3, PrefixIsSegment
    <3> QED
      BY <1>2, <3>1
  <2> QED
    BY <1>1, <2>2, <2>3
<1>5. Paths(w) = Paths(c)
  BY DEF Walk, Paths
<1>6. CASE p = blocks
  <2>1. d = w
    BY <1>6 DEF Insert, p
  <2>2. (Len(p) + 1)..Len(blocks) = {}
    BY <1>6
  <2> HIDE DEF d, w
  <2> QED
    BY <1>3, <1>5, <2>1, <2>2 DEF d, p
<1>7. CASE p # blocks
  <2>1. d = NewLeaf(w, p, blocks, row)
    BY <1>7 DEF Insert, p
  <2> HIDE DEF d, w
  <2>2. Paths(d) = Paths(c) \cup {SubSeq(blocks, 1, i) : i \in (Len(p) + 1)..Len(blocks)}
    BY <1>5, <2>1, NewLeafPages
  <2>3. ASSUME NEW i \in (Len(p) + 1)..Len(blocks)
        PROVE  d.page[SubSeq(blocks, 1, i)] = row[i]
    <3> DEFINE q == SubSeq(blocks, 1, i)
    <3>1. q \in {SubSeq(blocks, 1, j) : j \in (Len(p) + 1)..Len(blocks)}
      OBVIOUS
    <3>2. Len(q) = i
      BY <1>4
    <3> HIDE DEF q
    <3>3. d.page[q] = row[Len(q)]
      BY <2>1, <3>1, NewLeafPages
    <3> QED
      BY <3>2, <3>3 DEF q
  <2> QED
    BY <1>3, <1>4, <2>2, <2>3 DEF d, p
<1> QED
  BY <1>6, <1>7

\* The key of a node is the lower end of its path
LEMMA KeyIsTail ==
  ASSUME NEW B, NEW P, NEW c, CacheType(c, B, P), Trie(c), NEW v \in Nodes(c)
  PROVE  LET k == Cardinality(Key(c, v))
         IN  /\ k \in 0..Len(v)
             /\ Key(c, v) = {SubSeq(v, 1, j) : j \in (Len(v) - k + 1)..Len(v)}
<1> DEFINE lengths == {j \in 1..Len(v) : SubSeq(v, 1, j) \in Key(c, v)}
<1>1. /\ Paths(c) \subseteq Seq(B) \ {Root} /\ v \in Seq(B) /\ v \in Paths(c)
      /\ Nodes(c) \subseteq Seq(B)
  BY DEF CacheType
<1>2. Len(v) \in Nat
  BY <1>1
<1>3. ASSUME NEW q \in Key(c, v)
      PROVE  Len(q) \in lengths /\ q = SubSeq(v, 1, Len(q))
  <2>1. q \in Seq(B) /\ q # Root /\ IsPrefix(q, v)
    BY <1>1, KeyOfNode DEF Key
  <2>2. q = SubSeq(v, 1, Len(q)) /\ Len(q) \in 0..Len(v)
    BY <1>1, <2>1, PrefixIsSegment
  <2>3. Len(q) # 0
    BY <2>1 DEF Root
  <2>4. Len(q) \in 1..Len(v)
    BY <1>2, <2>2, <2>3
  <2>5. SubSeq(v, 1, Len(q)) \in Key(c, v)
    BY <2>2, Zenon
  <2> QED
    BY <2>2, <2>4, <2>5
<1>4. ASSUME NEW i \in lengths, NEW j \in i..Len(v)
      PROVE  j \in lengths
  <2> DEFINE p == SubSeq(v, 1, i)
             q == SubSeq(v, 1, j)
  <2>1. i \in 0..Len(v) /\ j \in 0..Len(v) /\ j \in 1..Len(v) /\ i <= j
    BY <1>2
  <2>2. /\ p \in Seq(B) /\ q \in Seq(B) /\ Len(p) = i /\ Len(q) = j
        /\ IsPrefix(p, v) /\ IsPrefix(q, v)
    BY <1>1, <2>1, PrefixSegment
  <2>3. p \in Key(c, v)
    OBVIOUS
  <2>4. q \in Paths(c)
    BY <1>1, <2>1 DEF Trie
  <2> HIDE DEF p, q
  <2>5. IsPrefix(p, q)
    BY <1>1, <2>1, <2>2, PrefixChain
  <2> DEFINE n == NodeOf(c, q)
  <2>6. IsNodeOf(c, q, n) /\ IsNodeOf(c, p, v)
    BY <2>3, <2>4, NodeOfPath DEF Key
  <2> HIDE DEF n
  <2>7. n \in Seq(B) /\ IsPrefix(q, n) /\ IsPrefix(n, v)
    BY <1>1, <2>2, <2>6 DEF IsNodeOf
  <2>8. IsPrefix(p, n)
    BY <2>2, <2>5, <2>7, PrefixTransitive
  <2>9. IsPrefix(v, n)
    BY <2>6, <2>8 DEF IsNodeOf
  <2>10. n = v
    BY <1>1, <2>7, <2>9, PrefixAntisymmetric
  <2> QED
    BY <2>1, <2>4, <2>10 DEF Key, n, q
<1>5. Len(v) \in lengths
  <2>1. v \in Key(c, v)
    BY <1>1, NodeOfNode DEF Key
  <2> QED
    BY <1>3, <2>1
<1>6. PICK a \in lengths : \A j \in lengths : a <= j
  <2> DEFINE T == {Len(v) - j : j \in lengths}
  <2>1. T \in SUBSET (0..Len(v)) /\ T # {}
    BY <1>2, <1>5
  <2>2. PICK m \in T : \A j \in T : j <= m
    BY <1>2, <2>1, MaximumExists
  <2>3. PICK a \in lengths : m = Len(v) - a
    BY <2>2
  <2>4. \A j \in lengths : Len(v) - j <= Len(v) - a
    BY <2>2, <2>3
  <2> QED
    BY <1>2, <2>4
<1>7. lengths = a..Len(v) /\ a \in 1..Len(v)
  BY <1>2, <1>4, <1>6
<1> HIDE DEF lengths
<1> DEFINE f == [q \in Key(c, v) |-> Len(q)]
<1>8. f \in Bijection(Key(c, v), a..Len(v))
  <2>1. \A q \in Key(c, v) : f[q] \in a..Len(v)
    BY <1>3, <1>7
  <2>2. \A q, s \in Key(c, v) : f[q] = f[s] => q = s
    BY <1>3
  <2>3. \A j \in a..Len(v) : \E q \in Key(c, v) : f[q] = j
    <3> SUFFICES ASSUME NEW j \in a..Len(v) PROVE \E q \in Key(c, v) : f[q] = j
      OBVIOUS
    <3>1. SubSeq(v, 1, j) \in Key(c, v)
      BY <1>7 DEF lengths
    <3>2. Len(SubSeq(v, 1, j)) = j
      BY <1>1, <1>7, PrefixSegment
    <3> QED
      BY <3>1, <3>2
  <2> QED
    BY <2>1, <2>2, <2>3 DEF Bijection, Injection, Surjection, IsInjective
<1>9. Cardinality(Key(c, v)) = Len(v) - a + 1
  <2>1. IsFiniteSet(a..Len(v)) /\ Cardinality(a..Len(v)) = Len(v) - a + 1
    BY <1>2, <1>7, FS_Interval
  <2>2. IsFiniteSet(Key(c, v))
    BY KeyOfNode
  <2> HIDE DEF f
  <2> QED
    BY <1>8, <2>1, <2>2, FS_Bijection DEF ExistsBijection
<1>10. Key(c, v) = {SubSeq(v, 1, j) : j \in a..Len(v)}
  BY <1>3, <1>7 DEF lengths
<1> QED
  <2> DEFINE k == Cardinality(Key(c, v))
  <2>1. k = Len(v) - a + 1
    BY <1>9
  <2> HIDE DEF k
  <2>2. k \in 0..Len(v) /\ Len(v) - k + 1 = a
    BY <1>2, <1>7, <2>1
  <2> QED
    BY <1>10, <2>2 DEF k

-----------------------------------------------------------------------------
(* The size counters. *)

FreePaths(c) == {p \in Paths(c) : c.ref[NodeOf(c, p)] = 0}

Sized(c) ==
  /\ c.evictable = Cardinality(FreePaths(c))
  /\ c.evictable + c.protected = Cardinality(Paths(c))

LEMMA FreePathsFinite ==
  ASSUME NEW B, NEW P, NEW c, CacheType(c, B, P)
  PROVE  /\ FreePaths(c) \subseteq Paths(c) /\ IsFiniteSet(FreePaths(c))
         /\ Cardinality(FreePaths(c)) \in Nat /\ Cardinality(Paths(c)) \in Nat
<1>1. IsFiniteSet(Paths(c)) /\ FreePaths(c) \in SUBSET Paths(c)
  BY DEF CacheType, FreePaths
<1> QED
  BY <1>1, FS_Subset, FS_CardinalityType

LEMMA NodeOfSame ==
  ASSUME NEW c, NEW d, Nodes(d) = Nodes(c)
  PROVE  \A p : NodeOf(d, p) = NodeOf(c, p)
BY DEF NodeOf, IsNodeOf

LEMMA CardinalityMinus ==
  ASSUME NEW S, NEW T, IsFiniteSet(S), T \subseteq S
  PROVE  Cardinality(S \ T) = Cardinality(S) - Cardinality(T)
<1>1. S \cap T = T
  OBVIOUS
<1> QED
  BY <1>1, FS_Difference

LEMMA CardinalityPlus ==
  ASSUME NEW S, NEW T, IsFiniteSet(S), IsFiniteSet(T), S \cap T = {}
  PROVE  Cardinality(S \cup T) = Cardinality(S) + Cardinality(T)
<1>1. Cardinality(S) \in Nat /\ Cardinality(T) \in Nat /\ Cardinality(S \cap T) = 0
  BY FS_CardinalityType, FS_EmptySet
<1>2. Cardinality(S \cup T) = Cardinality(S) + Cardinality(T) - Cardinality(S \cap T)
  BY FS_Union
<1> QED
  BY <1>1, <1>2

\* A split keeps the count of every path
LEMMA WalkSized ==
  ASSUME NEW B, NEW P, NEW c, CacheType(c, B, P), Trie(c),
         NEW p \in {Root} \cup Paths(c), Sized(c)
  PROVE  Sized(Walk(c, p))
<1> DEFINE d == Walk(c, p)
<1>1. /\ Paths(d) = Paths(c)
      /\ Nodes(d) = Nodes(c) \cup ({p} \ {Root})
      /\ \A n \in Nodes(c) : d.ref[n] = c.ref[n]
      /\ \A n \in Nodes(d) \ Nodes(c) : n = p /\ d.ref[n] = c.ref[NodeOf(c, p)]
      /\ CacheType(d, B, P) /\ Trie(d)
  BY WalkNodes, WalkTrie
<1>2. d.evictable = c.evictable /\ d.protected = c.protected
  BY DEF Walk
<1> HIDE DEF d
<1>3. ASSUME NEW q \in Paths(c) PROVE d.ref[NodeOf(d, q)] = c.ref[NodeOf(c, q)]
  <2> DEFINE n == NodeOf(d, q)
  <2>1. IsNodeOf(d, q, n)
    BY <1>1, NodeOfPath
  <2> HIDE DEF n
  <2>2. CASE n \in Nodes(c)
    <3>1. IsNodeOf(c, q, n)
      BY <1>1, <2>1, <2>2 DEF IsNodeOf
    <3>2. NodeOf(c, q) = n
      BY <3>1, NodeOfUnique
    <3> QED
      BY <1>1, <2>2, <3>2 DEF n
  <2>3. CASE n \notin Nodes(c)
    <3>1. n = p /\ d.ref[n] = c.ref[NodeOf(c, p)] /\ p \in Paths(c) /\ p \in Nodes(d)
      BY <1>1, <2>1, <2>3 DEF IsNodeOf
    <3> DEFINE u == NodeOf(c, p)
    <3>2. IsNodeOf(c, p, u)
      BY <3>1, NodeOfPath
    <3> HIDE DEF u
    <3>3. q \in Seq(B) /\ p \in Seq(B) /\ u \in Seq(B) /\ IsPrefix(q, p) /\ IsPrefix(p, u)
      BY <2>1, <3>1, <3>2 DEF IsNodeOf, CacheType
    <3>4. IsPrefix(q, u)
      BY <3>3, PrefixTransitive
    <3>5. ASSUME NEW m \in Nodes(c), IsPrefix(q, m) PROVE IsPrefix(u, m)
      <4>1. IsPrefix(p, m)
        BY <1>1, <2>1, <3>1, <3>5 DEF IsNodeOf
      <4> QED
        BY <3>2, <4>1 DEF IsNodeOf
    <3>6. IsNodeOf(c, q, u)
      BY <3>2, <3>4, <3>5 DEF IsNodeOf
    <3>7. NodeOf(c, q) = u
      BY <3>6, NodeOfUnique
    <3> QED
      BY <3>1, <3>7 DEF n, u
  <2> QED
    BY <2>2, <2>3
<1>4. FreePaths(d) = FreePaths(c)
  BY <1>1, <1>3 DEF FreePaths
<1> QED
  BY <1>1, <1>2, <1>4 DEF Sized, d

\* The paths above a handle are those of the nodes above it
LEMMA AboveHandle ==
  ASSUME NEW B, NEW P, NEW c, CacheType(c, B, P), Trie(c),
         NEW h \in {Root} \cup Nodes(c), NEW p \in Paths(c)
  PROVE  NodeOf(c, p) \in Nodes(c) /\ (IsPrefix(NodeOf(c, p), h) <=> IsPrefix(p, h))
<1> DEFINE n == NodeOf(c, p)
<1>1. IsNodeOf(c, p, n)
  BY NodeOfPath
<1> HIDE DEF n
<1>2. /\ p \in Seq(B) /\ p # Root /\ n \in Seq(B) /\ h \in Seq(B)
      /\ n \in Nodes(c) /\ IsPrefix(p, n)
  <2>1. Root \in Seq(B)
    BY DEF Root
  <2> QED
    BY <1>1, <2>1 DEF IsNodeOf, CacheType
<1>3. IsPrefix(n, h) => IsPrefix(p, h)
  BY <1>2, PrefixTransitive
<1>4. IsPrefix(p, h) => IsPrefix(n, h)
  <2>1. CASE h = Root
    BY <1>2, <2>1, PrefixRoot
  <2>2. CASE h # Root
    BY <1>1, <2>2 DEF IsNodeOf
  <2> QED
    BY <2>1, <2>2
<1> QED
  BY <1>2, <1>3, <1>4 DEF n

LEMMA LockSized ==
  ASSUME NEW B, NEW P, NEW c, CacheType(c, B, P), Trie(c),
         NEW h \in {Root} \cup Nodes(c), Sized(c)
  PROVE  Sized(Lock(c, h))
<1> DEFINE d == Lock(c, h)
           D == {p \in Paths(c) : IsPrefix(p, h) /\ c.ref[NodeOf(c, p)] = 0}
<1>1. /\ Paths(d) = Paths(c) /\ Nodes(d) = Nodes(c)
      /\ \A n \in Nodes(c) : d.ref[n] = IF IsPrefix(n, h) THEN c.ref[n] + 1 ELSE c.ref[n]
  BY LockNodes
<1>2. /\ d.evictable = c.evictable - Cardinality(D)
      /\ d.protected = c.protected + Cardinality(D)
  BY DEF Lock, PagesAtRef
<1> HIDE DEF d
<1>3. \A n \in Nodes(c) : c.ref[n] \in Nat
  BY DEF CacheType
<1>4. FreePaths(d) = FreePaths(c) \ D
  <2>1. ASSUME NEW p \in Paths(c)
        PROVE  d.ref[NodeOf(d, p)] = 0 <=> (c.ref[NodeOf(c, p)] = 0 /\ ~IsPrefix(p, h))
    <3>1. NodeOf(d, p) = NodeOf(c, p)
      BY <1>1, NodeOfSame
    <3>2. NodeOf(c, p) \in Nodes(c) /\ (IsPrefix(NodeOf(c, p), h) <=> IsPrefix(p, h))
      BY AboveHandle
    <3> QED
      BY <1>1, <1>3, <3>1, <3>2
  <2> QED
    BY <1>1, <2>1 DEF FreePaths
<1>5. D \subseteq FreePaths(c)
  BY DEF FreePaths
<1>6. IsFiniteSet(FreePaths(c)) /\ Cardinality(FreePaths(c)) \in Nat /\ Cardinality(Paths(c)) \in Nat
  BY FreePathsFinite
<1> HIDE DEF D
<1>7. Cardinality(FreePaths(d)) = Cardinality(FreePaths(c)) - Cardinality(D)
  BY <1>4, <1>5, <1>6, CardinalityMinus
<1>8. Cardinality(D) \in Nat /\ c.protected \in Int
  BY <1>5, <1>6, FS_Subset, FS_CardinalityType DEF CacheType
<1> QED
  BY <1>1, <1>2, <1>6, <1>7, <1>8 DEF Sized, d

LEMMA UnlockSized ==
  ASSUME NEW B, NEW P, NEW c, CacheType(c, B, P), Trie(c),
         NEW h \in {Root} \cup Nodes(c), Sized(c),
         \A n \in Nodes(c) : IsPrefix(n, h) => c.ref[n] > 0
  PROVE  Sized(Unlock(c, h))
<1> DEFINE d == Unlock(c, h)
           D == {p \in Paths(c) : IsPrefix(p, h) /\ c.ref[NodeOf(c, p)] = 1}
<1>1. /\ Paths(d) = Paths(c) /\ Nodes(d) = Nodes(c)
      /\ \A n \in Nodes(c) : d.ref[n] = IF IsPrefix(n, h) THEN c.ref[n] - 1 ELSE c.ref[n]
  BY UnlockNodes
<1>2. /\ d.evictable = c.evictable + Cardinality(D)
      /\ d.protected = c.protected - Cardinality(D)
  BY DEF Unlock, PagesAtRef
<1> HIDE DEF d
<1>3. \A n \in Nodes(c) : c.ref[n] \in Nat
  BY DEF CacheType
<1>4. FreePaths(d) = FreePaths(c) \cup D /\ FreePaths(c) \cap D = {}
  <2>1. ASSUME NEW p \in Paths(c)
        PROVE  d.ref[NodeOf(d, p)] = 0 <=>
                 (c.ref[NodeOf(c, p)] = 0 \/ (IsPrefix(p, h) /\ c.ref[NodeOf(c, p)] = 1))
    <3>1. NodeOf(d, p) = NodeOf(c, p)
      BY <1>1, NodeOfSame
    <3>2. NodeOf(c, p) \in Nodes(c) /\ (IsPrefix(NodeOf(c, p), h) <=> IsPrefix(p, h))
      BY AboveHandle
    <3> QED
      BY <1>1, <1>3, <3>1, <3>2
  <2> QED
    BY <1>1, <2>1 DEF FreePaths
<1>5. D \in SUBSET Paths(c) /\ IsFiniteSet(Paths(c))
  BY DEF CacheType
<1>6. IsFiniteSet(FreePaths(c)) /\ Cardinality(FreePaths(c)) \in Nat /\ Cardinality(Paths(c)) \in Nat
  BY FreePathsFinite
<1> HIDE DEF D
<1>7. IsFiniteSet(D) /\ Cardinality(D) \in Nat /\ c.protected \in Int
  BY <1>5, FS_Subset, FS_CardinalityType DEF CacheType
<1>8. Cardinality(FreePaths(d)) = Cardinality(FreePaths(c)) + Cardinality(D)
  BY <1>4, <1>6, <1>7, CardinalityPlus
<1> QED
  BY <1>1, <1>2, <1>6, <1>7, <1>8 DEF Sized, d

LEMMA AddedCount ==
  ASSUME NEW B, NEW blocks \in Seq(B), NEW a \in 0..Len(blocks)
  PROVE  Cardinality({SubSeq(blocks, 1, i) : i \in (a + 1)..Len(blocks)}) = Len(blocks) - a
<1> DEFINE I == (a + 1)..Len(blocks)
           f == [i \in I |-> SubSeq(blocks, 1, i)]
           added == {SubSeq(blocks, 1, i) : i \in I}
<1>1. IsFiniteSet(I) /\ Cardinality(I) = Len(blocks) - a
  <2> DEFINE low == a + 1
             high == Len(blocks)
  <2>1. low \in Int /\ high \in Int /\ low <= high + 1 /\ high - low + 1 = high - a
    OBVIOUS
  <2> HIDE DEF low, high
  <2>2. /\ IsFiniteSet(low..high)
        /\ Cardinality(low..high) = IF low > high THEN 0 ELSE high - low + 1
    BY <2>1, FS_Interval
  <2>3. low > high => high - low + 1 = 0
    BY <2>1
  <2>4. IsFiniteSet(low..high) /\ Cardinality(low..high) = high - low + 1
    BY <2>1, <2>2, <2>3
  <2> QED
    BY <2>1, <2>4 DEF low, high
<1>2. \A i \in I : Len(f[i]) = i
  <2> SUFFICES ASSUME NEW i \in I PROVE Len(f[i]) = i
    OBVIOUS
  <2>1. i \in 0..Len(blocks)
    OBVIOUS
  <2>2. Len(SubSeq(blocks, 1, i)) = i
    BY <2>1, PrefixSegment
  <2> QED
    BY <2>2
<1>3. \A i \in I : f[i] \in added
  OBVIOUS
<1>4. \A q \in added : \E i \in I : f[i] = q
  OBVIOUS
<1>5. f \in [I -> added]
  OBVIOUS
<1> HIDE DEF I, f, added
<1>6. f \in Bijection(I, added)
  BY <1>2, <1>3, <1>4, <1>5 DEF Bijection, Injection, Surjection, IsInjective
<1>7. Cardinality(added) = Cardinality(I)
  BY <1>1, <1>6, FS_Bijection DEF ExistsBijection
<1> QED
  BY <1>1, <1>7 DEF added, I

LEMMA NewLeafSized ==
  ASSUME NEW B, NEW P, NEW c, CacheType(c, B, P), Trie(c),
         NEW blocks \in Seq(B), NEW row \in Seq(P), Len(blocks) <= Len(row),
         NEW p \in {Root} \cup Nodes(c), IsPrefix(p, blocks), p # blocks,
         \A q \in Paths(c) : IsPrefix(q, blocks) => IsPrefix(q, p), Sized(c)
  PROVE  Sized(NewLeaf(c, p, blocks, row))
<1> DEFINE d == NewLeaf(c, p, blocks, row)
           added == {SubSeq(blocks, 1, i) : i \in (Len(p) + 1)..Len(blocks)}
<1>1. /\ Nodes(d) = Nodes(c) \cup {blocks} /\ blocks \notin Paths(c)
      /\ \A n \in Nodes(c) : d.ref[n] = c.ref[n]
      /\ d.ref[blocks] = 0
      /\ CacheType(d, B, P) /\ Trie(d)
  BY NewLeafNodes
<1>2. Paths(d) = Paths(c) \cup added
  BY NewLeafPages
<1>3. /\ d.evictable = c.evictable + (Len(blocks) - Len(p))
      /\ d.protected = c.protected
  BY DEF NewLeaf
<1>4. /\ Paths(c) \subseteq Seq(B) \ {Root} /\ Nodes(c) \subseteq Paths(c) /\ p \in Seq(B)
  <2>1. Root \in Seq(B)
    BY DEF Root
  <2> QED
    BY <2>1 DEF CacheType
<1>5. Len(p) \in 0..Len(blocks)
  BY <1>4, PrefixIsSegment
<1>6. /\ IsFiniteSet(added) /\ Cardinality(added) = Len(blocks) - Len(p)
      /\ \A q \in added : q \in Seq(B) /\ IsPrefix(q, blocks) /\ Len(q) \in (Len(p) + 1)..Len(blocks)
  BY <1>5, AddedPaths, AddedCount
<1>7. added \cap Paths(c) = {}
  <2> SUFFICES ASSUME NEW q \in added, q \in Paths(c) PROVE FALSE
    OBVIOUS
  <2>1. IsPrefix(q, p) /\ q \in Seq(B)
    BY <1>6
  <2>2. Len(q) \in 0..Len(p)
    BY <1>4, <2>1, PrefixIsSegment
  <2>3. Len(q) \in (Len(p) + 1)..Len(blocks) /\ Len(p) \in Nat
    BY <1>4, <1>6
  <2> QED
    BY <2>2, <2>3
<1> HIDE DEF d, added
<1>8. ASSUME NEW q \in Paths(c) PROVE d.ref[NodeOf(d, q)] = c.ref[NodeOf(c, q)]
  <2> DEFINE n == NodeOf(c, q)
  <2>1. IsNodeOf(c, q, n)
    BY NodeOfPath
  <2> HIDE DEF n
  <2>2. n \in Nodes(c) /\ IsPrefix(q, n) /\ n \in Seq(B) /\ q \in Seq(B) /\ q # Root
    BY <1>4, <2>1 DEF IsNodeOf
  <2>3. IsPrefix(q, blocks) => IsPrefix(n, blocks)
    <3> SUFFICES ASSUME IsPrefix(q, blocks) PROVE IsPrefix(n, blocks)
      OBVIOUS
    <3>1. IsPrefix(q, p)
      OBVIOUS
    <3>2. p # Root
      BY <2>2, <3>1, PrefixRoot
    <3>3. IsPrefix(n, p)
      BY <2>1, <3>1, <3>2 DEF IsNodeOf
    <3> QED
      BY <1>4, <2>2, <3>3, PrefixTransitive
  <2>4. IsNodeOf(d, q, n)
    BY <1>1, <2>1, <2>3 DEF IsNodeOf
  <2>5. NodeOf(d, q) = n
    BY <1>1, <2>4, NodeOfUnique
  <2> QED
    BY <1>1, <2>2, <2>5 DEF n
<1>9. ASSUME NEW q \in added PROVE d.ref[NodeOf(d, q)] = 0
  <2>1. q \in Paths(d) /\ q \notin Paths(c)
    BY <1>2, <1>7
  <2> DEFINE n == NodeOf(d, q)
  <2>2. IsNodeOf(d, q, n)
    BY <1>1, <2>1, NodeOfPath
  <2> HIDE DEF n
  <2>3. CASE n = blocks
    BY <1>1, <2>3 DEF n
  <2>4. CASE n # blocks
    <3>1. n \in Nodes(c) /\ IsPrefix(q, n) /\ q \in Seq(B) /\ n \in Seq(B) /\ n \in Paths(c)
      BY <1>1, <1>4, <1>6, <2>2, <2>4 DEF IsNodeOf
    <3>2. q = SubSeq(n, 1, Len(q)) /\ Len(q) \in 0..Len(n)
      BY <3>1, PrefixIsSegment
    <3>3. Len(q) \in 1..Len(n)
      BY <1>4, <1>6, <3>1, <3>2
    <3>4. SubSeq(n, 1, Len(q)) \in Paths(c)
      BY <3>1, <3>3 DEF Trie
    <3> QED
      BY <2>1, <3>2, <3>4
  <2> QED
    BY <2>3, <2>4
<1>10. FreePaths(d) = FreePaths(c) \cup added
  BY <1>2, <1>8, <1>9 DEF FreePaths
<1>11. /\ IsFiniteSet(FreePaths(c)) /\ FreePaths(c) \subseteq Paths(c) /\ IsFiniteSet(Paths(c))
       /\ Cardinality(FreePaths(c)) \in Nat /\ Cardinality(Paths(c)) \in Nat
  BY FreePathsFinite DEF CacheType
<1>12. Cardinality(FreePaths(d)) = Cardinality(FreePaths(c)) + Cardinality(added)
  <2>1. FreePaths(c) \cap added = {}
    BY <1>7, <1>11
  <2> QED
    BY <1>6, <1>10, <1>11, <2>1, CardinalityPlus
<1>13. Cardinality(Paths(d)) = Cardinality(Paths(c)) + Cardinality(added)
  <2>1. Paths(c) \cap added = {}
    BY <1>7
  <2> QED
    BY <1>2, <1>6, <1>11, <2>1, CardinalityPlus
<1>14. c.protected \in Int /\ Cardinality(added) \in Nat
  BY <1>6, FS_CardinalityType DEF CacheType
<1>15. Sized(d)
  BY <1>3, <1>6, <1>11, <1>12, <1>13, <1>14 DEF Sized
<1> QED
  BY <1>15 DEF d

LEMMA InsertSized ==
  ASSUME NEW B, NEW P, NEW c, CacheType(c, B, P), Trie(c),
         NEW blocks \in Seq(B), NEW row \in Seq(P), Len(blocks) <= Len(row), Sized(c)
  PROVE  Sized(Insert(c, blocks, row))
<1> DEFINE p == Matched(c, blocks)
           w == Walk(c, p)
<1>1. /\ p \in {Root} \cup Paths(c) /\ IsPrefix(p, blocks)
      /\ \A q \in Paths(c) : IsPrefix(q, blocks) => IsPrefix(q, p)
  BY MatchedLongest
<1> HIDE DEF p
<1>2. /\ Paths(w) = Paths(c) /\ p \in {Root} \cup Nodes(w) /\ CacheType(w, B, P) /\ Trie(w)
      /\ Sized(w)
  BY <1>1, WalkNodes, WalkTrie, WalkSized
<1>3. CASE p = blocks
  BY <1>2, <1>3 DEF Insert, p
<1>4. CASE p # blocks
  <2>1. Insert(c, blocks, row) = NewLeaf(w, p, blocks, row)
    BY <1>4 DEF Insert, p
  <2> HIDE DEF w
  <2> QED
    BY <1>1, <1>2, <1>4, <2>1, NewLeafSized
<1> QED
  BY <1>3, <1>4

LEMMA EvictSized ==
  ASSUME NEW B, NEW P, NEW c, CacheType(c, B, P), Trie(c), NEW v \in Unlocked(c), Sized(c)
  PROVE  Sized(EvictLeaf(c, v))
<1> DEFINE d == EvictLeaf(c, v)
           key == Key(c, v)
<1>1. v \in Leaves(c) /\ v \in Nodes(c) /\ c.ref[v] = 0
  BY DEF Unlocked, Leaves
<1>2. /\ Paths(d) = Paths(c) \ key /\ Nodes(d) = Nodes(c) \ {v}
      /\ \A n \in Nodes(d) : d.ref[n] = c.ref[n]
      /\ CacheType(d, B, P)
  BY <1>1, EvictNodes
<1>3. d.evictable = c.evictable - Cardinality(key) /\ d.protected = c.protected
  BY DEF EvictLeaf
<1>4. key \subseteq FreePaths(c)
  BY <1>1 DEF FreePaths, Key
<1> HIDE DEF d
<1>5. ASSUME NEW q \in Paths(d) PROVE d.ref[NodeOf(d, q)] = c.ref[NodeOf(c, q)]
  <2> DEFINE n == NodeOf(c, q)
  <2>1. IsNodeOf(c, q, n) /\ n # v
    BY <1>2, NodeOfPath DEF Key
  <2> HIDE DEF n
  <2>2. IsNodeOf(d, q, n) /\ n \in Nodes(d)
    BY <1>2, <2>1 DEF IsNodeOf
  <2>3. NodeOf(d, q) = n
    BY <1>2, <2>2, NodeOfUnique
  <2> QED
    BY <1>2, <2>2, <2>3 DEF n
<1>6. FreePaths(d) = FreePaths(c) \ key
  BY <1>2, <1>5 DEF FreePaths
<1> HIDE DEF key
<1>7. /\ IsFiniteSet(FreePaths(c)) /\ FreePaths(c) \subseteq Paths(c) /\ IsFiniteSet(Paths(c))
      /\ Cardinality(FreePaths(c)) \in Nat /\ Cardinality(Paths(c)) \in Nat
  BY FreePathsFinite DEF CacheType
<1>8. Cardinality(FreePaths(d)) = Cardinality(FreePaths(c)) - Cardinality(key)
  BY <1>4, <1>6, <1>7, CardinalityMinus
<1>9. Cardinality(Paths(d)) = Cardinality(Paths(c)) - Cardinality(key)
  <2>1. key \subseteq Paths(c)
    BY <1>4, <1>7
  <2> QED
    BY <1>2, <1>7, <2>1, CardinalityMinus
<1>10. c.protected \in Int /\ Cardinality(key) \in Nat
  BY <1>4, <1>7, FS_Subset, FS_CardinalityType DEF CacheType
<1> QED
  BY <1>3, <1>7, <1>8, <1>9, <1>10 DEF Sized, d

-----------------------------------------------------------------------------
(* The timestamps: nodes of one age lie on one path. *)

Comparable(n, m) == IsPrefix(n, m) \/ IsPrefix(m, n)

AgesOrdered(c) ==
  /\ \A n \in Nodes(c) : c.age[n] < Now(c)
  /\ \A n, m \in Nodes(c) : c.age[n] = c.age[m] => Comparable(n, m)

LEMMA RankedOrder ==
  ASSUME NEW D, IsFiniteSet(D), NEW age \in [D -> Nat]
  PROVE  /\ \A n \in D : Ranked(age)[n] <= Cardinality(D)
         /\ \A n, m \in D : Ranked(age)[n] = Ranked(age)[m] => age[n] = age[m]
<1> DEFINE below(n) == {k \in D : age[k] < age[n]}
<1>1. \A n \in D : Ranked(age)[n] = Cardinality(below(n))
  BY DEF Ranked
<1>2. \A n \in D : below(n) \in SUBSET D
  OBVIOUS
<1>3. ASSUME NEW n \in D
      PROVE  /\ IsFiniteSet(below(n)) /\ Cardinality(below(n)) <= Cardinality(D)
  <2> HIDE DEF below
  <2> QED
    BY <1>2, FS_Subset
<1>4. ASSUME NEW n \in D, NEW m \in D, age[n] < age[m]
      PROVE  Cardinality(below(n)) # Cardinality(below(m))
  <2>1. below(n) \in SUBSET below(m)
    BY <1>4
  <2>2. n \in below(m) /\ n \notin below(n)
    BY <1>4
  <2> HIDE DEF below
  <2> QED
    BY <1>3, <2>1, <2>2, FS_Subset
<1>5. ASSUME NEW n \in D, NEW m \in D, Ranked(age)[n] = Ranked(age)[m]
      PROVE  age[n] = age[m]
  <2>1. Cardinality(below(n)) = Cardinality(below(m))
    BY <1>1, <1>5
  <2>2. ~(age[n] < age[m]) /\ ~(age[m] < age[n])
    <3> HIDE DEF below
    <3> QED
      BY <1>4, <2>1
  <2>3. age[n] \in Nat /\ age[m] \in Nat
    OBVIOUS
  <2> QED
    BY <2>2, <2>3
<1> QED
  BY <1>1, <1>3, <1>5

\* Ranking keeps the order of ages
LEMMA RankedAges ==
  ASSUME NEW c, IsFiniteSet(Nodes(c)), NEW age \in [Nodes(c) -> Nat], c.age = Ranked(age),
         \A n, m \in Nodes(c) : age[n] = age[m] => Comparable(n, m)
  PROVE  AgesOrdered(c)
<1>1. /\ \A n \in Nodes(c) : c.age[n] <= Cardinality(Nodes(c))
      /\ \A n, m \in Nodes(c) : c.age[n] = c.age[m] => age[n] = age[m]
  BY RankedOrder
<1>2. Cardinality(Nodes(c)) \in Nat /\ \A n \in Nodes(c) : c.age[n] \in Nat
  <2>1. c.age \in [Nodes(c) -> Nat]
    BY RankedType
  <2> QED
    BY <2>1, FS_CardinalityType
<1>3. \A n \in Nodes(c) : c.age[n] < Now(c)
  <2>1. Now(c) = Cardinality(Nodes(c)) + 1
    BY DEF Now
  <2> HIDE DEF Now
  <2> QED
    BY <1>1, <1>2, <2>1
<1> QED
  BY <1>1, <1>3 DEF AgesOrdered

LEMMA SameAges ==
  ASSUME NEW c, NEW d, Nodes(d) = Nodes(c), d.age = c.age, AgesOrdered(c)
  PROVE  AgesOrdered(d)
BY DEF AgesOrdered, Now

LEMMA WalkAges ==
  ASSUME NEW B, NEW P, NEW c, CacheType(c, B, P), Trie(c),
         NEW p \in {Root} \cup Paths(c), AgesOrdered(c)
  PROVE  AgesOrdered(Walk(c, p))
<1> DEFINE d == Walk(c, p)
           N == Nodes(c) \cup ({p} \ {Root})
           age == [n \in N |-> IF n \notin Nodes(c) THEN c.age[NodeOf(c, n)]
                               ELSE IF IsPrefix(n, p) THEN Now(c) ELSE c.age[n]]
<1>1. Nodes(d) = N /\ CacheType(d, B, P)
  BY WalkNodes
<1>2. d.age = Ranked(age)
  BY DEF Walk, AgeAfterWalk
<1>3. /\ Now(c) \in Nat /\ c.age \in [Nodes(c) -> Nat] /\ Nodes(c) \subseteq Seq(B)
      /\ Paths(c) \subseteq Seq(B) /\ p \in Seq(B)
  <2>1. Root \in Seq(B)
    BY DEF Root
  <2> QED
    BY <2>1, NowType DEF CacheType
<1> DEFINE u == NodeOf(c, p)
<1>4. p # Root => IsNodeOf(c, p, u) /\ u \in Nodes(c) /\ u \in Seq(B) /\ IsPrefix(p, u)
  BY <1>3, NodeOfPath DEF IsNodeOf
<1>5. age \in [N -> Nat]
  BY <1>3, <1>4
<1>6. /\ \A n \in Nodes(c) : age[n] = IF IsPrefix(n, p) THEN Now(c) ELSE c.age[n]
      /\ \A n \in N \ Nodes(c) : n = p /\ p # Root /\ age[n] = c.age[u]
  OBVIOUS
<1> HIDE DEF d, age, u
<1>7. \A n \in Nodes(c) : c.age[n] \in Nat /\ c.age[n] < Now(c)
  BY <1>3 DEF AgesOrdered
<1>8. ASSUME NEW n \in Nodes(c), NEW m \in Nodes(c), age[n] = age[m]
      PROVE  Comparable(n, m)
  <2>1. CASE IsPrefix(n, p) /\ IsPrefix(m, p)
    <3>1. n \in Seq(B) /\ m \in Seq(B) /\ Len(n) \in Nat /\ Len(m) \in Nat
      BY <1>3
    <3>2. CASE Len(n) <= Len(m)
      BY <1>3, <2>1, <3>1, <3>2, PrefixChain DEF Comparable
    <3>3. CASE Len(m) <= Len(n)
      BY <1>3, <2>1, <3>1, <3>3, PrefixChain DEF Comparable
    <3> QED
      BY <3>1, <3>2, <3>3
  <2>2. CASE ~(IsPrefix(n, p) /\ IsPrefix(m, p))
    <3>1. c.age[n] = c.age[m]
      BY <1>3, <1>6, <1>7, <1>8, <2>2
    <3> QED
      BY <3>1 DEF AgesOrdered
  <2> QED
    BY <2>1, <2>2
<1>9. ASSUME NEW m \in Nodes(c), p \in N \ Nodes(c), age[p] = age[m]
      PROVE  Comparable(p, m)
  <2>1. p # Root /\ age[p] = c.age[u] /\ u \in Nodes(c) /\ u \in Seq(B) /\ IsPrefix(p, u)
    BY <1>4, <1>6, <1>9
  <2>2. CASE IsPrefix(m, p)
    BY <2>2 DEF Comparable
  <2>3. CASE ~IsPrefix(m, p)
    <3>1. c.age[u] = c.age[m]
      BY <1>6, <1>9, <2>1, <2>3
    <3>2. Comparable(u, m)
      BY <2>1, <3>1 DEF AgesOrdered
    <3>3. m \in Seq(B) /\ Len(m) \in Nat /\ Len(p) \in Nat
      BY <1>3
    <3>4. CASE IsPrefix(u, m)
      <4>1. IsPrefix(p, m)
        BY <1>3, <2>1, <3>3, <3>4, PrefixTransitive
      <4> QED
        BY <4>1 DEF Comparable
    <3>5. CASE IsPrefix(m, u)
      <4>1. CASE Len(p) <= Len(m)
        BY <1>3, <2>1, <3>3, <3>5, <4>1, PrefixChain DEF Comparable
      <4>2. CASE Len(m) <= Len(p)
        BY <1>3, <2>1, <3>3, <3>5, <4>2, PrefixChain DEF Comparable
      <4> QED
        BY <3>3, <4>1, <4>2
    <3> QED
      BY <3>2, <3>4, <3>5 DEF Comparable
  <2> QED
    BY <2>2, <2>3
<1>10. ASSUME NEW n \in N, NEW m \in N, age[n] = age[m]
       PROVE  Comparable(n, m)
  <2>1. CASE n \in Nodes(c) /\ m \in Nodes(c)
    BY <1>8, <1>10, <2>1
  <2>2. CASE n \notin Nodes(c) /\ m \in Nodes(c)
    BY <1>6, <1>9, <1>10, <2>2
  <2>3. CASE n \in Nodes(c) /\ m \notin Nodes(c)
    <3>1. Comparable(m, n)
      BY <1>6, <1>9, <1>10, <2>3
    <3> QED
      BY <3>1 DEF Comparable
  <2>4. CASE n \notin Nodes(c) /\ m \notin Nodes(c)
    <3>1. n = p /\ m = p
      BY <1>6, <2>4
    <3> QED
      BY <1>3, <3>1, PrefixReflexive DEF Comparable
  <2> QED
    BY <2>1, <2>2, <2>3, <2>4
<1>11. IsFiniteSet(N)
  BY <1>1, NowType
<1> HIDE DEF N
<1>12. AgesOrdered(d)
  BY <1>1, <1>2, <1>5, <1>10, <1>11, RankedAges
<1> QED
  BY <1>12 DEF d

\* A new leaf is younger than every node
LEMMA NewLeafAges ==
  ASSUME NEW B, NEW P, NEW c, CacheType(c, B, P), NEW p, NEW blocks \in Seq(B), NEW row,
         blocks \notin Nodes(c), AgesOrdered(c)
  PROVE  AgesOrdered(NewLeaf(c, p, blocks, row))
<1> DEFINE d == NewLeaf(c, p, blocks, row)
           N == Nodes(c) \cup {blocks}
           age == [n \in N |-> IF n = blocks THEN Now(c) ELSE c.age[n]]
<1>1. Nodes(d) = N /\ d.age = Ranked(age)
  BY DEF NewLeaf, Nodes
<1>2. Now(c) \in Nat /\ c.age \in [Nodes(c) -> Nat] /\ IsFiniteSet(Nodes(c))
  BY NowType DEF CacheType
<1>3. IsFiniteSet(N) /\ age \in [N -> Nat]
  BY <1>2, FS_AddElement
<1>4. age[blocks] = Now(c) /\ \A n \in Nodes(c) : age[n] = c.age[n]
  OBVIOUS
<1>5. \A n \in Nodes(c) : c.age[n] \in Nat /\ c.age[n] < Now(c)
  BY <1>2 DEF AgesOrdered
<1> HIDE DEF d, age
<1>6. ASSUME NEW n \in N, NEW m \in N, age[n] = age[m] PROVE Comparable(n, m)
  <2>1. CASE n \in Nodes(c) /\ m \in Nodes(c)
    BY <1>4, <1>6, <2>1 DEF AgesOrdered
  <2>2. CASE ~(n \in Nodes(c) /\ m \in Nodes(c))
    <3>1. n = blocks /\ m = blocks
      BY <1>2, <1>4, <1>5, <1>6, <2>2
    <3> QED
      BY <3>1, PrefixReflexive DEF Comparable
  <2> QED
    BY <2>1, <2>2
<1> HIDE DEF N
<1>7. AgesOrdered(d)
  BY <1>1, <1>3, <1>6, RankedAges
<1> QED
  BY <1>7 DEF d

LEMMA InsertAges ==
  ASSUME NEW B, NEW P, NEW c, CacheType(c, B, P), Trie(c),
         NEW blocks \in Seq(B), NEW row, AgesOrdered(c)
  PROVE  AgesOrdered(Insert(c, blocks, row))
<1> DEFINE p == Matched(c, blocks)
           w == Walk(c, p)
<1>1. /\ p \in {Root} \cup Paths(c) /\ IsPrefix(p, blocks) /\ p \in Seq(B)
      /\ \A q \in Paths(c) : IsPrefix(q, blocks) => IsPrefix(q, p)
  BY MatchedLongest
<1> HIDE DEF p
<1>2. /\ Nodes(w) = Nodes(c) \cup ({p} \ {Root}) /\ CacheType(w, B, P) /\ AgesOrdered(w)
  BY <1>1, WalkNodes, WalkAges
<1>3. CASE p = blocks
  BY <1>2, <1>3 DEF Insert, p
<1>4. CASE p # blocks
  <2>1. Insert(c, blocks, row) = NewLeaf(w, p, blocks, row)
    BY <1>4 DEF Insert, p
  <2>2. blocks \notin Nodes(c)
    <3> SUFFICES ASSUME blocks \in Nodes(c) PROVE FALSE
      OBVIOUS
    <3>1. blocks \in Paths(c) /\ IsPrefix(blocks, blocks)
      BY PrefixReflexive DEF CacheType
    <3>2. IsPrefix(blocks, p)
      BY <1>1, <3>1
    <3> QED
      BY <1>1, <1>4, <3>2, PrefixAntisymmetric
  <2>3. blocks \notin Nodes(w)
    BY <1>2, <1>4, <2>2
  <2> HIDE DEF w
  <2> QED
    BY <1>2, <2>1, <2>3, NewLeafAges
<1> QED
  BY <1>3, <1>4

LEMMA EvictAges ==
  ASSUME NEW B, NEW P, NEW c, CacheType(c, B, P), NEW v, AgesOrdered(c)
  PROVE  AgesOrdered(EvictLeaf(c, v))
<1> DEFINE d == EvictLeaf(c, v)
           N == Nodes(c) \ {v}
           age == [n \in N |-> c.age[n]]
<1>1. Nodes(d) = N /\ d.age = Ranked(age)
  BY DEF EvictLeaf, Nodes
<1>2. IsFiniteSet(N) /\ age \in [N -> Nat]
  BY NowType, FS_RemoveElement DEF CacheType
<1>3. \A n, m \in N : age[n] = age[m] => Comparable(n, m)
  BY DEF AgesOrdered
<1> HIDE DEF d, age, N
<1>4. AgesOrdered(d)
  BY <1>1, <1>2, <1>3, RankedAges
<1> QED
  BY <1>4 DEF d

\* So the leaf that evict takes is the only one of its age
LEMMA OneVictim ==
  ASSUME NEW B, NEW P, NEW c, CacheType(c, B, P), AgesOrdered(c)
  PROVE  Cardinality(Victims(c)) <= 1
<1>1. ASSUME NEW v \in Victims(c), NEW w \in Victims(c) PROVE v = w
  <2>1. /\ v \in Nodes(c) /\ \A m \in Nodes(c) : IsPrefix(v, m) => m = v
        /\ w \in Nodes(c) /\ \A m \in Nodes(c) : IsPrefix(w, m) => m = w
        /\ c.age[v] <= c.age[w] /\ c.age[w] <= c.age[v]
    BY DEF Victims, Unlocked, Leaves
  <2>2. c.age[v] \in Nat /\ c.age[w] \in Nat
    BY <2>1 DEF CacheType
  <2>3. c.age[v] = c.age[w]
    BY <2>1, <2>2
  <2> QED
    BY <2>1, <2>3 DEF AgesOrdered, Comparable
<1>2. CASE Victims(c) = {}
  BY <1>2, FS_EmptySet
<1>3. CASE Victims(c) # {}
  <2>1. PICK v : v \in Victims(c)
    BY <1>3
  <2>2. Victims(c) = {v}
    BY <1>1, <2>1
  <2> QED
    BY <2>2, FS_Singleton
<1> QED
  BY <1>2, <1>3
-----------------------------------------------------------------------------
(* What cache_req changes of the sizes. *)

LEMMA InsertCount ==
  ASSUME NEW c, NEW blocks, NEW row, c.evictable \in Int, Len(blocks) \in Nat
  PROVE  Insert(c, blocks, row).evictable
           = c.evictable + (Len(blocks) - Len(Matched(c, blocks)))
<1> DEFINE p == Matched(c, blocks)
<1>1. CASE p = blocks
  <2>1. Insert(c, blocks, row).evictable = c.evictable
    BY <1>1 DEF Insert, Walk
  <2>2. Len(p) = Len(blocks)
    BY <1>1
  <2> HIDE DEF p
  <2>3. c.evictable + (Len(blocks) - Len(p)) = c.evictable
    BY <2>2
  <2> QED
    BY <2>1, <2>3 DEF p
<1>2. CASE p # blocks
  BY <1>2 DEF Insert, NewLeaf, Walk
<1> QED
  BY <1>1, <1>2

\* To unlock handle h and lock b below it takes away at most the blocks between
LEMMA RelockCost ==
  ASSUME NEW B, NEW P, NEW c, CacheType(c, B, P), Trie(c),
         NEW h \in {Root} \cup Nodes(c), h \in Seq(B), NEW b \in Seq(B), IsPrefix(h, b),
         \A n \in Nodes(c) : IsPrefix(n, h) => c.ref[n] > 0
  PROVE  /\ PagesAtRef(c, h, 1) \in Nat /\ PagesAtRef(Unlock(c, h), b, 0) \in Nat
         /\ PagesAtRef(Unlock(c, h), b, 0) <= PagesAtRef(c, h, 1) + (Len(b) - Len(h))
<1> DEFINE u == Unlock(c, h)
           Z == {p \in Paths(u) : IsPrefix(p, b) /\ u.ref[NodeOf(u, p)] = 0}
           A == {p \in Paths(c) : IsPrefix(p, h) /\ c.ref[NodeOf(c, p)] = 1}
           D == {SubSeq(b, 1, i) : i \in (Len(h) + 1)..Len(b)}
<1>1. /\ Paths(u) = Paths(c) /\ Nodes(u) = Nodes(c)
      /\ \A n \in Nodes(c) : u.ref[n] = IF IsPrefix(n, h) THEN c.ref[n] - 1 ELSE c.ref[n]
  BY UnlockNodes
<1>2. \A p : NodeOf(u, p) = NodeOf(c, p)
  BY <1>1, NodeOfSame
<1>3. Len(h) \in 0..Len(b) /\ Len(b) \in Nat
  BY PrefixIsSegment
<1>4. IsFiniteSet(D) /\ Cardinality(D) = Len(b) - Len(h)
  BY <1>3, AddedPaths, AddedCount
<1>5. IsFiniteSet(Paths(c)) /\ Paths(c) \subseteq Seq(B)
  BY DEF CacheType
<1>6. A \subseteq Paths(c) /\ Z \subseteq Paths(c)
  BY <1>1
<1> HIDE DEF u
<1>7. ASSUME NEW p \in Z, p \notin D PROVE p \in A
  <2>1. p \in Paths(c) /\ p \in Seq(B) /\ IsPrefix(p, b) /\ u.ref[NodeOf(c, p)] = 0
    BY <1>2, <1>5, <1>6
  <2>2. p = SubSeq(b, 1, Len(p)) /\ Len(p) \in 0..Len(b) /\ Len(p) \in Nat
    BY <2>1, PrefixIsSegment
  <2>3. Len(p) <= Len(h)
    <3>1. \A i \in (Len(h) + 1)..Len(b) : SubSeq(b, 1, i) # p
      BY <1>7, Zenon
    <3> HIDE DEF D, Z
    <3> DEFINE l == Len(p)
               x == Len(h)
               y == Len(b)
    <3>2. l \notin (x + 1)..y /\ x \in 0..y /\ y \in Nat /\ l \in 0..y
      BY <1>3, <2>2, <3>1, Zenon
    <3> HIDE DEF l, x, y
    <3>3. l <= x
      BY <3>2
    <3> QED
      BY <3>3 DEF l, x
  <2>4. IsPrefix(p, h)
    BY <2>1, <2>3, PrefixChain
  <2>5. NodeOf(c, p) \in Nodes(c) /\ IsPrefix(NodeOf(c, p), h)
    BY <2>1, <2>4, AboveHandle
  <2>6. c.ref[NodeOf(c, p)] \in Nat
    BY <2>5 DEF CacheType
  <2>7. c.ref[NodeOf(c, p)] = 1
    BY <1>1, <2>1, <2>5, <2>6
  <2> QED
    BY <2>1, <2>4, <2>7
<1>8. PagesAtRef(c, h, 1) = Cardinality(A) /\ PagesAtRef(u, b, 0) = Cardinality(Z)
  BY DEF PagesAtRef
<1> HIDE DEF A, D, Z
<1>9. IsFiniteSet(A) /\ IsFiniteSet(Z) /\ Cardinality(A) \in Nat /\ Cardinality(Z) \in Nat
  BY <1>5, <1>6, FS_Subset, FS_CardinalityType
<1>10. Z \subseteq A \cup D
  BY <1>7
<1>11. /\ IsFiniteSet(A \cup D)
       /\ Cardinality(A \cup D) = Cardinality(A) + Cardinality(D) - Cardinality(A \cap D)
  BY <1>4, <1>9, FS_Union
<1>12. Cardinality(A \cap D) \in Nat
  BY <1>9, FS_Intersection, FS_CardinalityType
<1>13. Cardinality(Z) <= Cardinality(A \cup D)
  BY <1>10, <1>11, FS_Subset
<1>14. Cardinality(Z) <= Cardinality(A) + (Len(b) - Len(h))
  <2>1. \A z, a, d, m, n \in Int : n >= 0 /\ m = a + d - n /\ z <= m => z <= a + d
    OBVIOUS
  <2>2. Cardinality(D) \in Int /\ Cardinality(A \cup D) \in Int
    BY <1>4, <1>11, FS_CardinalityType
  <2> DEFINE z == Cardinality(Z)
             a == Cardinality(A)
             d == Cardinality(D)
             m == Cardinality(A \cup D)
             n == Cardinality(A \cap D)
  <2>3. /\ z \in Nat /\ a \in Nat /\ d \in Int /\ m \in Int /\ n \in Nat
        /\ m = a + d - n /\ z <= m /\ d = Len(b) - Len(h)
    BY <1>4, <1>9, <1>11, <1>12, <1>13, <2>2
  <2> HIDE DEF z, a, d, m, n
  <2>4. z <= a + d
    BY <2>1, <2>3
  <2> QED
    BY <2>3, <2>4 DEF z, a
<1> QED
  BY <1>8, <1>9, <1>14 DEF u
==============================================================================
