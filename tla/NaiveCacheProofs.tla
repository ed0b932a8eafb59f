--------------------------- MODULE NaiveCacheProofs ---------------------------
(***************************************************************************)
(* Proofs about NaiveCache, for any requests, lengths and page size: every *)
(* page is free or in one row, through all chunks, ends and aborts.  What  *)
(* a row gets is cut off the front of free_slots and comes back whole,     *)
(* because a row has exactly the pages of its tokens (Lengths).  With      *)
(* pages of one token the free pages are never fewer than what the         *)
(* requests may still ask for, so nothing is ever asked of evict.          *)
(***************************************************************************)
EXTENDS NaiveCache, FiniteSetTheorems, NaturalsInduction, TLAPS

TypeOK ==
  /\ args \in Args
  /\ free_slots \in Seq(Page)
  /\ phase \in [Req -> {"waiting", "chunked", "running", "done"}]
  /\ cached_len \in [Req -> Nat]
  /\ row \in [Req -> Seq(Page)]

IInv == TypeOK /\ Lengths /\ PagePartition

-----------------------------------------------------------------------------
(* Sequences without a value twice. *)

LEMMA Concatenated ==
  ASSUME NEW S, NEW s \in Seq(S), NEW t \in Seq(S)
  PROVE  /\ s \o t \in Seq(S) /\ Len(s \o t) = Len(s) + Len(t)
         /\ ToSet(s \o t) = ToSet(s) \cup ToSet(t)
         /\ IsInjective(s) /\ IsInjective(t) /\ ToSet(s) \cap ToSet(t) = {}
              => IsInjective(s \o t)
<1>1. s \o t \in Seq(S) /\ Len(s \o t) = Len(s) + Len(t)
  OBVIOUS
<1>2. \A i \in DOMAIN (s \o t) : (s \o t)[i] = IF i <= Len(s) THEN s[i] ELSE t[i - Len(s)]
  OBVIOUS
<1>3. ToSet(s \o t) = ToSet(s) \cup ToSet(t)
  <2>1. \A i \in DOMAIN s : i \in DOMAIN (s \o t) /\ (s \o t)[i] = s[i]
    OBVIOUS
  <2>2. \A i \in DOMAIN t : Len(s) + i \in DOMAIN (s \o t) /\ (s \o t)[Len(s) + i] = t[i]
    OBVIOUS
  <2>3. \A i \in DOMAIN (s \o t) : (s \o t)[i] \in ToSet(s) \cup ToSet(t)
    BY <1>2 DEF ToSet
  <2> QED
    BY <2>1, <2>2, <2>3 DEF ToSet
<1>4. ASSUME IsInjective(s), IsInjective(t), ToSet(s) \cap ToSet(t) = {}
      PROVE  IsInjective(s \o t)
  <2> SUFFICES ASSUME NEW i \in DOMAIN (s \o t), NEW j \in DOMAIN (s \o t),
                      (s \o t)[i] = (s \o t)[j]
               PROVE  i = j
    BY DEF IsInjective
  <2>1. i \in 1..(Len(s) + Len(t)) /\ j \in 1..(Len(s) + Len(t))
    BY <1>1
  <2>2. CASE i <= Len(s) /\ j <= Len(s)
    <3>1. i \in DOMAIN s /\ j \in DOMAIN s /\ s[i] = s[j]
      BY <1>2, <2>1, <2>2
    <3> QED
      BY <3>1, <1>4 DEF IsInjective
  <2>3. CASE i > Len(s) /\ j > Len(s)
    <3>1. i - Len(s) \in DOMAIN t /\ j - Len(s) \in DOMAIN t /\ t[i - Len(s)] = t[j - Len(s)]
      BY <1>2, <2>1, <2>3
    <3>2. i - Len(s) = j - Len(s)
      BY <3>1, <1>4 DEF IsInjective
    <3> QED
      BY <3>2, <2>1
  <2>4. CASE i <= Len(s) /\ j > Len(s)
    <3>1. i \in DOMAIN s /\ j - Len(s) \in DOMAIN t /\ s[i] = t[j - Len(s)]
      BY <1>2, <2>1, <2>4
    <3> QED
      BY <3>1, <1>4 DEF ToSet
  <2>5. CASE i > Len(s) /\ j <= Len(s)
    <3>1. j \in DOMAIN s /\ i - Len(s) \in DOMAIN t /\ s[j] = t[i - Len(s)]
      BY <1>2, <2>1, <2>5
    <3> QED
      BY <3>1, <1>4 DEF ToSet
  <2> QED
    BY <2>1, <2>2, <2>3, <2>4, <2>5
<1> QED
  BY <1>1, <1>3, <1>4

LEMMA Cut ==
  ASSUME NEW S, NEW s \in Seq(S), NEW k \in 0..Len(s)
  PROVE  LET a == SubSeq(s, 1, k)
             b == SubSeq(s, k + 1, Len(s))
         IN /\ a \in Seq(S) /\ b \in Seq(S) /\ Len(a) = k
            /\ ToSet(a) \cup ToSet(b) = ToSet(s)
            /\ IsInjective(s) => IsInjective(a) /\ IsInjective(b) /\ ToSet(a) \cap ToSet(b) = {}
<1> DEFINE a == SubSeq(s, 1, k)
           b == SubSeq(s, k + 1, Len(s))
<1>1. a \in Seq(S) /\ Len(a) = k /\ DOMAIN a = 1..k /\ \A i \in 1..k : a[i] = s[i]
  OBVIOUS
<1>2. /\ b \in Seq(S) /\ DOMAIN b = 1..(Len(s) - k)
      /\ \A i \in 1..(Len(s) - k) : b[i] = s[i + k]
  OBVIOUS
<1>3. ToSet(a) \cup ToSet(b) = ToSet(s)
  <2>1. \A i \in DOMAIN a : a[i] \in ToSet(s)
    BY <1>1 DEF ToSet
  <2>2. \A i \in DOMAIN b : b[i] \in ToSet(s)
    BY <1>2 DEF ToSet
  <2>3. ASSUME NEW i \in DOMAIN s PROVE s[i] \in ToSet(a) \cup ToSet(b)
    <3>1. CASE i <= k
      BY <1>1, <3>1 DEF ToSet
    <3>2. CASE i > k
      <4>1. i - k \in DOMAIN b /\ b[i - k] = s[i]
        BY <1>2, <3>2
      <4> QED
        BY <4>1 DEF ToSet
    <3> QED
      BY <3>1, <3>2
  <2> QED
    BY <2>1, <2>2, <2>3 DEF ToSet
<1>4. ASSUME IsInjective(s) PROVE IsInjective(a) /\ IsInjective(b) /\ ToSet(a) \cap ToSet(b) = {}
  <2>1. \A i, j \in 1..Len(s) : s[i] = s[j] => i = j
    BY <1>4 DEF IsInjective
  <2>2. IsInjective(a)
    BY <1>1, <2>1 DEF IsInjective
  <2>3. IsInjective(b)
    <3> SUFFICES ASSUME NEW i \in DOMAIN b, NEW j \in DOMAIN b, b[i] = b[j] PROVE i = j
      BY DEF IsInjective
    <3>1. i + k \in 1..Len(s) /\ j + k \in 1..Len(s) /\ s[i + k] = s[j + k]
      BY <1>2
    <3>2. i + k = j + k
      BY <2>1, <3>1
    <3> QED
      BY <1>2, <3>2
  <2>4. \A i \in DOMAIN a, j \in DOMAIN b : a[i] # b[j]
    <3> SUFFICES ASSUME NEW i \in DOMAIN a, NEW j \in DOMAIN b, a[i] = b[j] PROVE FALSE
      OBVIOUS
    <3>1. i \in 1..Len(s) /\ j + k \in 1..Len(s) /\ s[i] = s[j + k] /\ i # j + k
      BY <1>1, <1>2
    <3> QED
      BY <2>1, <3>1
  <2> QED
    BY <2>2, <2>3, <2>4 DEF ToSet
<1> QED
  BY <1>1, <1>2, <1>3, <1>4

-----------------------------------------------------------------------------
LEMMA ArgsTyped ==
  ASSUME TypeOK
  PROVE  /\ PageSize \in Nat \ {0}
         /\ \A r \in Req : InputLen[r] \in Nat \ {0} /\ OutputLen[r] \in Nat
BY NaiveAssumption DEF TypeOK, PageSize, InputLen, OutputLen

LEMMA PagesOfFacts ==
  ASSUME TypeOK, NEW n \in Nat
  PROVE  PagesOf(n) \in Nat /\ \A m \in Nat : n <= m => PagesOf(n) <= PagesOf(m)
<1>0. PageSize \in Nat \ {0}
  BY ArgsTyped
<1>1. \A a \in Nat, b \in Nat \ {0} : a \div b \in Nat
  OBVIOUS
<1>2. ASSUME NEW a \in Nat, NEW c \in Nat, NEW b \in Nat \ {0}, a <= c PROVE a \div b <= c \div b
  BY <1>2
<1>3. n + PageSize - 1 \in Nat
  BY <1>0
<1>4. ASSUME NEW m \in Nat, n <= m PROVE PagesOf(n) <= PagesOf(m)
  <2>1. m + PageSize - 1 \in Nat /\ n + PageSize - 1 <= m + PageSize - 1
    BY <1>0, <1>4
  <2> QED
    BY <1>0, <1>2, <1>3, <2>1 DEF PagesOf, CeilDiv
<1> QED
  BY <1>0, <1>1, <1>3, <1>4 DEF PagesOf, CeilDiv

LEMMA PagesOfNone ==
  ASSUME TypeOK
  PROVE  PagesOf(0) = 0
<1>1. PageSize \in Nat \ {0}
  BY ArgsTyped
<1>2. ASSUME NEW b \in Nat \ {0} PROVE (b - 1) \div b = 0
  BY <1>2
<1> QED
  BY <1>1, <1>2 DEF PagesOf, CeilDiv

LEMMA InitHolds == Init => IInv
<1> SUFFICES ASSUME Init PROVE IInv
  OBVIOUS
<1>1. free_slots = [i \in 1..NumPages |-> i] /\ NumPages \in Nat
  BY NaiveAssumption DEF Init, Page
<1>2. free_slots \in Seq(Page)
  BY <1>1 DEF Page
<1>3. TypeOK
  BY <1>2 DEF Init, TypeOK
<1>4. \A r \in Req : row[r] = << >> /\ ToSet(row[r]) = {} /\ IsInjective(row[r])
  BY DEF Init, ToSet, IsInjective
<1>5. ToSet(free_slots) = Page /\ IsInjective(free_slots)
  BY <1>1 DEF ToSet, IsInjective, Page
<1>6. Lengths
  BY <1>3, PagesOfNone, <1>4 DEF Init, Lengths
<1>7. PagePartition
  BY <1>4, <1>5 DEF PagePartition
<1> QED
  BY <1>3, <1>6, <1>7 DEF IInv

LEMMA AdmitHolds ==
  ASSUME IInv, NEW r \in Req, Admit(r)
  PROVE  IInv'
BY DEF IInv, Admit, TypeOK, Lengths, PagePartition, PagesOf, PageSize, CeilDiv

\* The row gets the front of free_slots, as many pages as its length needs more.
LEMMA GrowHolds ==
  ASSUME IInv, NEW r \in Req, NEW n \in Targets(r), Grow(r, n)
  PROVE  IInv'
<1> DEFINE k == Needed(r, n)
           got == SubSeq(free_slots, 1, k)
           left == SubSeq(free_slots, k + 1, Len(free_slots))
<1>1. n \in Nat /\ cached_len[r] <= n /\ cached_len[r] \in Nat
  BY ArgsTyped DEF Targets, IInv, TypeOK
<1>2. k \in Nat /\ k <= Len(free_slots) /\ Len(row[r]) + k = PagesOf(n)
  <2>1. PagesOf(n) \in Nat /\ PagesOf(cached_len[r]) \in Nat /\ PagesOf(cached_len[r]) <= PagesOf(n)
    BY <1>1, PagesOfFacts DEF IInv
  <2>2. Len(row[r]) = PagesOf(cached_len[r])
    BY DEF IInv, Lengths
  <2>3. k <= Len(free_slots)
    BY DEF Grow
  <2> QED
    BY <2>1, <2>2, <2>3 DEF Needed
<1>3. /\ free_slots \in Seq(Page) /\ row \in [Req -> Seq(Page)] /\ row[r] \in Seq(Page)
      /\ IsInjective(free_slots) /\ IsInjective(row[r])
      /\ ToSet(free_slots) \cap ToSet(row[r]) = {}
  BY DEF IInv, TypeOK, PagePartition
<1>4. k \in 0..Len(free_slots)
  BY <1>2, <1>3
<1>5. /\ got \in Seq(Page) /\ left \in Seq(Page) /\ Len(got) = k
      /\ ToSet(got) \cup ToSet(left) = ToSet(free_slots)
      /\ IsInjective(got) /\ IsInjective(left) /\ ToSet(got) \cap ToSet(left) = {}
  BY <1>3, <1>4, Cut
<1>6. /\ row[r] \o got \in Seq(Page) /\ Len(row[r] \o got) = PagesOf(n)
      /\ ToSet(row[r] \o got) = ToSet(row[r]) \cup ToSet(got)
      /\ IsInjective(row[r] \o got)
  <2>1. ToSet(row[r]) \cap ToSet(got) = {}
    BY <1>3, <1>5
  <2>2. row[r] \in Seq(Page) /\ IsInjective(row[r]) /\ got \in Seq(Page) /\ IsInjective(got)
    BY <1>3, <1>5
  <2> HIDE DEF got
  <2>3. /\ row[r] \o got \in Seq(Page) /\ Len(row[r] \o got) = Len(row[r]) + Len(got)
        /\ ToSet(row[r] \o got) = ToSet(row[r]) \cup ToSet(got)
        /\ IsInjective(row[r] \o got)
    BY <2>1, <2>2, Concatenated
  <2> QED
    BY <1>2, <1>5, <2>3
<1>7. free_slots' = left /\ cached_len' = [cached_len EXCEPT ![r] = n]
  BY DEF Grow
<1>8. \A q \in Req : row'[q] = IF q = r THEN row[r] \o got ELSE row[q]
  BY <1>3 DEF Grow
<1>9. row' \in [Req -> Seq(Page)]
  BY <1>3, <1>6 DEF Grow
<1>10. TypeOK'
  <2>1. phase' \in [Req -> {"waiting", "chunked", "running", "done"}]
    BY DEF Grow, IInv, TypeOK
  <2>2. cached_len' \in [Req -> Nat]
    BY <1>1, <1>7 DEF IInv, TypeOK
  <2> QED
    BY <1>5, <1>7, <1>9, <2>1, <2>2 DEF Grow, IInv, TypeOK, Page
<1>11. Lengths'
  <2>1. \A q \in Req : cached_len'[q] = IF q = r THEN n ELSE cached_len[q]
    BY <1>7 DEF IInv, TypeOK
  <2> QED
    BY <1>6, <1>8, <2>1 DEF Grow, IInv, Lengths, PagesOf, PageSize, CeilDiv
<1>12. PagePartition'
  <2>1. \A q \in Req : ToSet(row'[q]) = IF q = r THEN ToSet(row[r]) \cup ToSet(got)
                                        ELSE ToSet(row[q])
    BY <1>6, <1>8
  <2>2. ToSet(free_slots') = ToSet(left)
    BY <1>7
  <2>3. IsInjective(free_slots') /\ \A q \in Req : IsInjective(row'[q])
    BY <1>5, <1>6, <1>7, <1>8 DEF IInv, PagePartition
  <2>4. \A q \in Req : ToSet(free_slots') \cap ToSet(row'[q]) = {}
    BY <1>5, <2>1, <2>2 DEF IInv, PagePartition
  <2>5. \A p, q \in Req : p # q => ToSet(row'[p]) \cap ToSet(row'[q]) = {}
    BY <1>5, <2>1 DEF IInv, PagePartition
  <2>6. ToSet(free_slots') \cup UNION {ToSet(row'[q]) : q \in Req} = Page
    <3>1. ToSet(free_slots) \cup UNION {ToSet(row[q]) : q \in Req} = Page
      BY DEF IInv, PagePartition
    <3> QED
      BY <1>5, <2>1, <2>2, <3>1
  <2> QED
    BY <2>3, <2>4, <2>5, <2>6 DEF PagePartition
<1> QED
  BY <1>10, <1>11, <1>12 DEF IInv

\* The whole row goes back.
LEMMA FinishHolds ==
  ASSUME IInv, NEW r \in Req, Finish(r)
  PROVE  IInv'
<1>1. /\ free_slots \in Seq(Page) /\ row \in [Req -> Seq(Page)] /\ row[r] \in Seq(Page)
      /\ IsInjective(free_slots) /\ IsInjective(row[r])
      /\ ToSet(free_slots) \cap ToSet(row[r]) = {}
      /\ Len(row[r]) = PagesOf(cached_len[r])
  BY DEF IInv, TypeOK, PagePartition, Lengths
<1>2. Freed(r) = row[r]
  BY <1>1 DEF Freed
<1>3. /\ free_slots' = free_slots \o row[r] /\ cached_len' = [cached_len EXCEPT ![r] = 0]
      /\ row' = [row EXCEPT ![r] = << >>] /\ phase' = [phase EXCEPT ![r] = "done"]
  BY <1>2 DEF Finish
<1>4. /\ free_slots' \in Seq(Page) /\ IsInjective(free_slots')
      /\ ToSet(free_slots') = ToSet(free_slots) \cup ToSet(row[r])
  BY <1>1, <1>3, Concatenated
<1>5. \A q \in Req : /\ row'[q] = IF q = r THEN << >> ELSE row[q]
                     /\ cached_len'[q] = IF q = r THEN 0 ELSE cached_len[q]
  BY <1>1, <1>3 DEF IInv, TypeOK
<1>6. ToSet(<< >>) = {} /\ IsInjective(<< >>) /\ Len(<< >>) = 0
  BY DEF ToSet, IsInjective
<1>7. TypeOK'
  BY <1>3, <1>4 DEF Finish, IInv, TypeOK
<1>8. Lengths'
  BY <1>5, <1>6, PagesOfNone DEF Finish, IInv, Lengths, PagesOf, PageSize, CeilDiv
<1>9. PagePartition'
  <2>1. \A q \in Req : ToSet(row'[q]) = IF q = r THEN {} ELSE ToSet(row[q])
    BY <1>5, <1>6
  <2>2. \A q \in Req : IsInjective(row'[q])
    BY <1>5, <1>6 DEF IInv, PagePartition
  <2>3. \A q \in Req : ToSet(free_slots') \cap ToSet(row'[q]) = {}
    BY <1>4, <2>1 DEF IInv, PagePartition
  <2>4. \A p, q \in Req : p # q => ToSet(row'[p]) \cap ToSet(row'[q]) = {}
    BY <2>1 DEF IInv, PagePartition
  <2>5. ToSet(free_slots') \cup UNION {ToSet(row'[q]) : q \in Req} = Page
    <3>1. ToSet(free_slots) \cup UNION {ToSet(row[q]) : q \in Req} = Page
      BY DEF IInv, PagePartition
    <3> QED
      BY <1>4, <2>1, <3>1
  <2> QED
    BY <1>4, <2>2, <2>3, <2>4, <2>5 DEF PagePartition
<1> QED
  BY <1>7, <1>8, <1>9 DEF IInv

LEMMA StepHolds ==
  ASSUME IInv, [Next]_vars
  PROVE  IInv'
<1>1. CASE UNCHANGED vars
  BY <1>1 DEF vars, IInv, TypeOK, Lengths, PagePartition, PagesOf, PageSize, CeilDiv
<1>2. ASSUME NEW r \in Req, NEW n \in Targets(r), Evict(r, n) PROVE IInv'
  BY <1>2 DEF Evict, IInv, TypeOK, Lengths, PagePartition, PagesOf, PageSize, CeilDiv
<1> QED
  BY <1>1, <1>2, AdmitHolds, GrowHolds, FinishHolds DEF Next, Step, Over

LEMMA Invariance == Spec => []IInv
BY StepHolds, InitHolds, PTL DEF Spec

-----------------------------------------------------------------------------
(* Sums over finite sets. *)

LEMMA SmallestNat ==
  ASSUME NEW T \in SUBSET Nat, T # {}
  PROVE  \E m \in T : \A k \in T : m <= k
<1>1. PICK m \in T : \A k \in T : ~ (<< k, m >> \in OpToRel(<, Nat))
  BY NatLessThanWellFounded, WFMin
<1>2. \A k \in T : ~ (k < m)
  BY <1>1 DEF OpToRel
<1> QED
  BY <1>2

\* The sum of q[x] over the x of S
Total(q, S) == MapThenSumSet(LAMBDA x : q[x], S)

\* g is the function that sum looks up
Next1(s) == CHOOSE x \in s : TRUE
SumOf(g, q, s) == IF s = {} THEN 0 ELSE q[Next1(s)] + g[s \ {Next1(s)}]
Sums(g, q, S) == g = [s \in SUBSET S |-> SumOf(g, q, s)]

LEMMA SumsExists ==
  ASSUME NEW q, NEW S, IsFiniteSet(S)
  PROVE  \E g : Sums(g, q, S)
<1> DEFINE P(k) == \E g : /\ g = [s \in SUBSET S |-> g[s]]
                          /\ \A s \in SUBSET S : Cardinality(s) <= k => g[s] = SumOf(g, q, s)
           n == Cardinality(S)
           B == {k \in 0..n : ~ P(k)}
<1>1. n \in Nat /\ \A s \in SUBSET S : IsFiniteSet(s) /\ Cardinality(s) \in Nat /\ Cardinality(s) <= n
  BY FS_CardinalityType, FS_Subset
<1> HIDE DEF n, P
<1>2. ASSUME B # {} PROVE FALSE
  <2>1. B \in SUBSET Nat
    BY <1>1
  <2>2. PICK k \in B : \A j \in B : k <= j
    <3> HIDE DEF B
    <3> QED
      BY <1>2, <2>1, SmallestNat
  <2>3. k \in 0..n /\ k \in Nat /\ ~ P(k)
    BY <1>1, <2>2
  <2>4. CASE k = 0
    <3> DEFINE g == [s \in SUBSET S |-> 0]
    <3>1. \A s \in SUBSET S : Cardinality(s) <= 0 => s = {}
      BY <1>1, FS_EmptySet
    <3>2. \A s \in SUBSET S : Cardinality(s) <= k => g[s] = SumOf(g, q, s)
      BY <2>4, <3>1 DEF SumOf
    <3>3. g = [s \in SUBSET S |-> g[s]]
      OBVIOUS
    <3> HIDE DEF g
    <3>4. P(k)
      BY <3>2, <3>3 DEF P
    <3> QED
      BY <2>3, <3>4
  <2>5. CASE k # 0
    <3>1. k - 1 \in Nat /\ k - 1 \in 0..n /\ P(k - 1)
      BY <1>1, <2>2, <2>3, <2>5
    <3>2. PICK f : /\ f = [s \in SUBSET S |-> f[s]]
                   /\ \A s \in SUBSET S : Cardinality(s) <= k - 1 => f[s] = SumOf(f, q, s)
      BY <3>1 DEF P
    <3> PICK g : g = [s \in SUBSET S |-> IF Cardinality(s) = k THEN SumOf(f, q, s) ELSE f[s]]
      OBVIOUS
    <3>3. ASSUME NEW s \in SUBSET S, s # {}, Cardinality(s) <= k
          PROVE  g[s \ {Next1(s)}] = f[s \ {Next1(s)}] /\ s \ {Next1(s)} \in SUBSET S
      <4>1. Next1(s) \in s
        BY <3>3 DEF Next1
      <4>2. Cardinality(s \ {Next1(s)}) = Cardinality(s) - 1
        BY <1>1, <4>1, FS_RemoveElement
      <4>3. s \ {Next1(s)} \in SUBSET S /\ Cardinality(s) \in Nat
        BY <1>1
      <4>4. Cardinality(s \ {Next1(s)}) # k
        BY <2>3, <3>3, <4>2, <4>3
      <4> QED
        BY <4>3, <4>4
    <3>4. ASSUME NEW s \in SUBSET S, Cardinality(s) <= k
          PROVE  SumOf(g, q, s) = SumOf(f, q, s)
      BY <3>3, <3>4 DEF SumOf
    <3>5. ASSUME NEW s \in SUBSET S, Cardinality(s) <= k
          PROVE  g[s] = SumOf(g, q, s)
      <4>1. CASE Cardinality(s) = k
        BY <3>4, <3>5, <4>1
      <4>2. CASE Cardinality(s) # k
        <5>1. Cardinality(s) <= k - 1
          BY <1>1, <2>3, <3>5, <4>2
        <5> QED
          BY <3>2, <3>4, <3>5, <4>2, <5>1
      <4> QED
        BY <4>1, <4>2
    <3>6. g = [s \in SUBSET S |-> g[s]]
      OBVIOUS
    <3>7. P(k)
      BY <3>5, <3>6 DEF P
    <3> QED
      BY <2>3, <3>7
  <2> QED
    BY <2>4, <2>5
<1>3. P(n)
  BY <1>1, <1>2
<1>4. PICK g : /\ g = [s \in SUBSET S |-> g[s]]
               /\ \A s \in SUBSET S : Cardinality(s) <= n => g[s] = SumOf(g, q, s)
  BY <1>3 DEF P
<1>5. \A s \in SUBSET S : g[s] = SumOf(g, q, s)
  BY <1>1, <1>4
<1>6. Sums(g, q, S)
  BY <1>4, <1>5 DEF Sums
<1> QED
  BY <1>6

\* A smallest one among the finite sets of a family
LEMMA SmallestSet ==
  ASSUME NEW S, IsFiniteSet(S), NEW F \in SUBSET (SUBSET S), F # {}
  PROVE  \E s \in F : \A t \in F : Cardinality(s) <= Cardinality(t)
<1> DEFINE T == {Cardinality(s) : s \in F}
<1>1. \A s \in F : Cardinality(s) \in Nat
  BY FS_CardinalityType, FS_Subset
<1>2. T \in SUBSET Nat /\ T # {}
  BY <1>1
<1>3. PICK m \in T : \A k \in T : m <= k
  <2> HIDE DEF T
  <2> QED
    BY <1>2, SmallestNat
<1> QED
  BY <1>3

\* Two such functions agree where both are defined, and where the values are.
LEMMA SumsAgree ==
  ASSUME NEW q, NEW p, NEW S, NEW T, IsFiniteSet(S), IsFiniteSet(T), T \subseteq S,
         \A i \in T : p[i] = q[i],
         NEW g, NEW h, Sums(g, q, S), Sums(h, p, T)
  PROVE  \A s \in SUBSET T : h[s] = g[s]
<1> DEFINE F == {s \in SUBSET T : h[s] # g[s]}
<1>1. ASSUME F # {} PROVE FALSE
  <2>1. F \in SUBSET (SUBSET T)
    OBVIOUS
  <2>2. PICK s \in F : \A t \in F : Cardinality(s) <= Cardinality(t)
    <3> HIDE DEF F
    <3> QED
      BY <1>1, <2>1, SmallestSet
  <2>3. s \in SUBSET T /\ s \in SUBSET S /\ h[s] # g[s]
    BY <2>2
  <2>4. g[s] = SumOf(g, q, s) /\ h[s] = SumOf(h, p, s)
    BY <2>3 DEF Sums
  <2>5. s # {}
    BY <2>3, <2>4 DEF SumOf
  <2> DEFINE x == Next1(s)
  <2>6. x \in s
    BY <2>5 DEF Next1
  <2>7. Cardinality(s \ {x}) = Cardinality(s) - 1 /\ Cardinality(s) \in Nat /\ s \ {x} \in SUBSET T
    BY <2>3, <2>6, FS_RemoveElement, FS_Subset, FS_CardinalityType
  <2>8. s \ {x} \notin F
    <3> HIDE DEF F, x
    <3> QED
      BY <2>2, <2>7
  <2>9. h[s \ {x}] = g[s \ {x}]
    BY <2>7, <2>8
  <2> QED
    BY <2>3, <2>4, <2>5, <2>6, <2>9 DEF SumOf
<1> QED
  BY <1>1

\* It does not matter which element is taken first.
LEMMA SumsAny ==
  ASSUME NEW q, NEW S, IsFiniteSet(S), \A i \in S : q[i] \in Nat, NEW g, Sums(g, q, S)
  PROVE  \A s \in SUBSET S :
           g[s] \in Nat /\ \A x \in s : g[s] = q[x] + g[s \ {x}]
<1> DEFINE Fine(s) == g[s] \in Nat /\ \A x \in s : g[s] = q[x] + g[s \ {x}]
           F == {s \in SUBSET S : ~ Fine(s)}
<1>1. ASSUME F # {} PROVE FALSE
  <2>1. F \in SUBSET (SUBSET S)
    OBVIOUS
  <2>2. PICK s \in F : \A t \in F : Cardinality(s) <= Cardinality(t)
    <3> HIDE DEF F
    <3> QED
      BY <1>1, <2>1, SmallestSet
  <2>3. s \in SUBSET S /\ ~ Fine(s)
    BY <2>2
  <2>4. \A t \in SUBSET S : g[t] = SumOf(g, q, t)
    BY DEF Sums
  <2>5. CASE s = {}
    <3>1. g[s] = 0
      BY <2>3, <2>4, <2>5 DEF SumOf
    <3> QED
      BY <2>3, <2>5, <3>1
  <2>6. CASE s # {}
    <3> PICK y : y = Next1(s)
      OBVIOUS
    <3>1. y \in s /\ g[s] = q[y] + g[s \ {y}]
      BY <2>3, <2>4, <2>6 DEF SumOf, Next1
    <3>2. \A x \in s : s \ {x} \in SUBSET S /\ Fine(s \ {x})
      <4> SUFFICES ASSUME NEW x \in s PROVE s \ {x} \in SUBSET S /\ Fine(s \ {x})
        OBVIOUS
      <4>1. Cardinality(s \ {x}) = Cardinality(s) - 1 /\ Cardinality(s) \in Nat /\ s \ {x} \in SUBSET S
        BY <2>3, FS_RemoveElement, FS_Subset, FS_CardinalityType
      <4>2. s \ {x} \notin F
        <5> HIDE DEF F
        <5> QED
          BY <2>2, <4>1
      <4> QED
        BY <4>1, <4>2
    <3>3. q[y] \in Nat /\ g[s \ {y}] \in Nat
      BY <2>3, <3>1, <3>2
    <3>4. ASSUME NEW x \in s PROVE g[s] = q[x] + g[s \ {x}]
      <4>1. CASE x = y
        BY <3>1, <4>1
      <4>2. CASE x # y
        <5> DEFINE t == (s \ {x}) \ {y}
        <5>1. x \in s \ {y} /\ y \in s \ {x} /\ (s \ {y}) \ {x} = t
          BY <3>1, <4>2
        <5>2. g[s \ {y}] = q[x] + g[t] /\ g[s \ {x}] = q[y] + g[t]
          <6>1. Fine(s \ {y}) /\ Fine(s \ {x})
            BY <3>1, <3>2
          <6>2. g[s \ {y}] = q[x] + g[(s \ {y}) \ {x}]
            BY <5>1, <6>1
          <6>3. g[s \ {x}] = q[y] + g[(s \ {x}) \ {y}]
            BY <5>1, <6>1
          <6> QED
            BY <5>1, <6>2, <6>3
        <5>3. q[x] \in Nat /\ t \in SUBSET S /\ g[t] \in Nat
          <6>1. q[x] \in Nat /\ t \in SUBSET S
            BY <2>3
          <6>2. Cardinality(t) < Cardinality(s)
            <7>1. /\ Cardinality(s \ {x}) = Cardinality(s) - 1 /\ Cardinality(s) \in Nat
                  /\ IsFiniteSet(s \ {x})
              BY <2>3, FS_RemoveElement, FS_Subset, FS_CardinalityType
            <7>2. Cardinality(t) = Cardinality(s \ {x}) - 1
              BY <5>1, <7>1, FS_RemoveElement
            <7> QED
              BY <7>1, <7>2
          <6>3. t \notin F
            <7>1. Cardinality(t) \in Nat /\ Cardinality(s) \in Nat
              BY <2>3, <6>1, FS_Subset, FS_CardinalityType
            <7> HIDE DEF F, t
            <7> QED
              BY <2>2, <6>2, <7>1
          <6> QED
            BY <6>1, <6>3
        <5> HIDE DEF t
        <5> QED
          BY <3>1, <3>3, <5>2, <5>3
      <4> QED
        BY <4>1, <4>2
    <3>5. g[s] \in Nat
      BY <3>1, <3>3
    <3>6. Fine(s)
      BY <3>4, <3>5
    <3> QED
      BY <2>3, <3>6
  <2> QED
    BY <2>5, <2>6
<1> QED
  BY <1>1

LEMMA SumsLess ==
  ASSUME NEW q, NEW S, IsFiniteSet(S), \A i \in S : q[i] \in Nat, NEW g, Sums(g, q, S),
         NEW x \in S
  PROVE  g[S] = q[x] + g[S \ {x}] /\ g[S \ {x}] \in Nat
<1>1. S \in SUBSET S /\ S \ {x} \in SUBSET S /\ \A i \in S : q[i] \in Nat
  OBVIOUS
<1>2. \A s \in SUBSET S : g[s] \in Nat /\ \A y \in s : g[s] = q[y] + g[s \ {y}]
  <2> HIDE DEF Sums
  <2> QED
    BY <1>1, SumsAny
<1> QED
  BY <1>1, <1>2

LEMMA TotalIs ==
  ASSUME NEW q, NEW S, IsFiniteSet(S)
  PROVE  \E g : Sums(g, q, S) /\ Total(q, S) = g[S]
<1> DEFINE P(g) == g = [s \in SUBSET S |->
                          IF s = {} THEN 0
                          ELSE q[CHOOSE x \in s : TRUE] + g[s \ {CHOOSE x \in s : TRUE}]]
           c == CHOOSE g : P(g)
<1>1. \A g : P(g) <=> Sums(g, q, S)
  BY DEF Sums, SumOf, Next1
<1>2. Total(q, S) = c[S]
  BY DEF Total, MapThenSumSet, MapThenFoldSet
<1>3. P(c)
  <2>1. PICK g : Sums(g, q, S)
    BY SumsExists
  <2>2. P(g)
    BY <1>1, <2>1
  <2> HIDE DEF P
  <2> QED
    BY <2>2
<1> HIDE DEF c
<1> QED
  BY <1>1, <1>2, <1>3

\* Changing one value changes the sum by as much.
LEMMA TotalChanges ==
  ASSUME NEW q, NEW p, NEW S, IsFiniteSet(S), NEW x \in S,
         \A i \in S : q[i] \in Nat /\ p[i] \in Nat, \A i \in S \ {x} : q[i] = p[i]
  PROVE  \E rest \in Nat : Total(q, S) = q[x] + rest /\ Total(p, S) = p[x] + rest
<1> DEFINE T == S \ {x}
<1>1. IsFiniteSet(T) /\ T \subseteq S /\ T \in SUBSET T /\ \A i \in T : q[i] = p[i]
  BY FS_RemoveElement
<1>2. PICK g : Sums(g, q, S) /\ Total(q, S) = g[S]
  BY TotalIs
<1>3. PICK h : Sums(h, p, S) /\ Total(p, S) = h[S]
  BY TotalIs
<1>4. PICK k : Sums(k, p, T)
  BY <1>1, SumsExists
<1>5. k[T] = g[T]
  <2>1. \A i \in T : p[i] = q[i]
    BY <1>1
  <2>2. \A s \in SUBSET T : k[s] = g[s]
    <3> HIDE DEF T
    <3> QED
      BY <1>1, <1>2, <1>4, <2>1, SumsAgree
  <2> QED
    BY <1>1, <2>2
<1>6. k[T] = h[T]
  <2>1. \A i \in T : p[i] = p[i]
    OBVIOUS
  <2>2. \A s \in SUBSET T : k[s] = h[s]
    <3> HIDE DEF T
    <3> QED
      BY <1>1, <1>3, <1>4, <2>1, SumsAgree
  <2> QED
    BY <1>1, <2>2
<1>7. g[S] = q[x] + g[T] /\ g[T] \in Nat
  BY <1>2, SumsLess
<1>8. h[S] = p[x] + h[T]
  BY <1>3, SumsLess
<1> QED
  BY <1>2, <1>3, <1>5, <1>6, <1>7, <1>8

LEMMA TotalNone ==
  ASSUME NEW q, NEW S, IsFiniteSet(S), \A i \in S : q[i] = 0
  PROVE  Total(q, S) = 0
<1>1. PICK g : Sums(g, q, S) /\ Total(q, S) = g[S]
  BY TotalIs
<1>2. \A s \in SUBSET S : g[s] = SumOf(g, q, s)
  BY <1>1 DEF Sums
<1>3. CASE S = {}
  BY <1>1, <1>2, <1>3 DEF SumOf
<1>4. CASE S # {}
  <2> DEFINE F == {s \in SUBSET S : g[s] # 0}
  <2>1. ASSUME F # {} PROVE FALSE
    <3>1. F \in SUBSET (SUBSET S)
      OBVIOUS
    <3>2. PICK s \in F : \A t \in F : Cardinality(s) <= Cardinality(t)
      <4> HIDE DEF F
      <4> QED
        BY <2>1, <3>1, SmallestSet
    <3>3. s # {} /\ s \in SUBSET S /\ g[s] # 0
      BY <1>2, <3>2 DEF SumOf
    <3> PICK y : y = Next1(s)
      OBVIOUS
    <3>4. y \in s /\ g[s] = q[y] + g[s \ {y}]
      BY <1>2, <3>3 DEF SumOf, Next1
    <3>5. Cardinality(s \ {y}) = Cardinality(s) - 1 /\ Cardinality(s) \in Nat /\ s \ {y} \in SUBSET S
      BY <3>3, <3>4, FS_RemoveElement, FS_Subset, FS_CardinalityType
    <3>6. s \ {y} \notin F
      <4> HIDE DEF F
      <4> QED
        BY <3>2, <3>5
    <3> QED
      BY <3>3, <3>4, <3>5, <3>6
  <2> QED
    BY <1>1, <2>1
<1> QED
  BY <1>3, <1>4

-----------------------------------------------------------------------------
(* With pages of one token the admission checks are enough. *)

\* The tokens of r when it has generated all it may: one at least
EndOf(r) == InputLen[r] + (IF OutputLen[r] > 0 THEN OutputLen[r] ELSE 1)

\* A request is never longer than its prompt and what it may generate; while chunked
\* it still needs a part of its prompt.
Bounded ==
  \A r \in Req :
    /\ phase[r] = "waiting" => cached_len[r] = 0
    /\ phase[r] = "chunked" => cached_len[r] < InputLen[r]
    /\ phase[r] = "running" => /\ InputLen[r] <= cached_len[r]
                               /\ cached_len[r] + 1 <= EndOf(r)

\* The free pages are never fewer than what the requests may still ask for.
ReservedIsFree == Reserved <= Len(free_slots) /\ ~raised

RInv == PageSize = 1 => Bounded /\ ReservedIsFree

Asks == [r \in Req |-> MayAsk(r)]

LEMMA ReservedIs == Reserved = Total(Asks, Req)
<1>1. \A s \in SUBSET Req : s # {} => Asks[CHOOSE x \in s : TRUE] = MayAsk(CHOOSE x \in s : TRUE)
  BY DEF Asks
<1> DEFINE L(g) == g = [s \in SUBSET Req |->
                          IF s = {} THEN 0
                          ELSE MayAsk(CHOOSE x \in s : TRUE) + g[s \ {CHOOSE x \in s : TRUE}]]
           R(g) == g = [s \in SUBSET Req |->
                          IF s = {} THEN 0
                          ELSE Asks[CHOOSE x \in s : TRUE] + g[s \ {CHOOSE x \in s : TRUE}]]
<1>2. Reserved = (CHOOSE g : L(g))[Req]
  BY DEF Reserved, MapThenSumSet, MapThenFoldSet
<1>3. Total(Asks, Req) = (CHOOSE g : R(g))[Req]
  BY DEF Total, MapThenSumSet, MapThenFoldSet
<1>4. \A g : L(g) <=> R(g)
  BY <1>1
<1>5. (CHOOSE g : L(g)) = (CHOOSE g : R(g))
  <2> HIDE DEF L, R
  <2> QED
    BY <1>4
<1> QED
  BY <1>2, <1>3, <1>5

LEMMA OneTokenPages ==
  ASSUME TypeOK, PageSize = 1, NEW n \in Nat
  PROVE  PagesOf(n) = n
<1>1. ASSUME NEW m \in Nat PROVE m \div 1 = m
  OBVIOUS
<1> QED
  BY <1>1 DEF PagesOf, CeilDiv

\* The one token more of a request that may generate none
LEMMA EndFacts ==
  ASSUME TypeOK, NEW r \in Req
  PROVE  /\ EndOf(r) \in Nat /\ InputLen[r] + 1 <= EndOf(r)
         /\ InputLen[r] + OutputLen[r] <= EndOf(r)
         /\ EndOf(r) <= InputLen[r] + OutputLen[r] + 1
         /\ \A c \in Nat : InputLen[r] <= c /\ InputLen[r] + OutputLen[r] <= c + 1 /\ c + 1 <= EndOf(r)
                             => c + 1 = EndOf(r)
         /\ \A c \in Nat : InputLen[r] <= c /\ c + 1 < InputLen[r] + OutputLen[r]
                             => EndOf(r) = InputLen[r] + OutputLen[r]
<1>1. InputLen[r] \in Nat \ {0} /\ OutputLen[r] \in Nat
  BY ArgsTyped
<1> QED
  BY <1>1 DEF EndOf

LEMMA AsksTyped ==
  ASSUME TypeOK, PageSize = 1, Bounded
  PROVE  \A r \in Req :
           /\ Asks[r] = MayAsk(r) /\ MayAsk(r) \in Nat
           /\ phase[r] = "running" => MayAsk(r) = EndOf(r) - cached_len[r] - 1
           /\ phase[r] = "chunked" => MayAsk(r) = InputLen[r] + OutputLen[r] - cached_len[r]
           /\ phase[r] \in {"waiting", "done"} => MayAsk(r) = 0
<1> SUFFICES ASSUME NEW r \in Req
             PROVE  /\ Asks[r] = MayAsk(r) /\ MayAsk(r) \in Nat
                    /\ phase[r] = "running" => MayAsk(r) = EndOf(r) - cached_len[r] - 1
                    /\ phase[r] = "chunked" => MayAsk(r) = InputLen[r] + OutputLen[r] - cached_len[r]
                    /\ phase[r] \in {"waiting", "done"} => MayAsk(r) = 0
  OBVIOUS
<1>1. InputLen[r] \in Nat /\ OutputLen[r] \in Nat /\ cached_len[r] \in Nat
  BY ArgsTyped DEF TypeOK
<1>2. phase[r] \in {"waiting", "chunked", "running", "done"}
  BY DEF TypeOK
<1>3. CASE phase[r] = "running"
  <2>1. InputLen[r] <= cached_len[r] /\ cached_len[r] + 1 <= EndOf(r)
    BY <1>3 DEF Bounded
  <2>2. CASE CanDecode(r)
    <3>1. cached_len[r] + 1 < InputLen[r] + OutputLen[r]
      BY <1>1, <2>2 DEF CanDecode
    <3>2. EndOf(r) = InputLen[r] + OutputLen[r]
      BY <1>1, <2>1, <3>1, EndFacts
    <3> QED
      BY <1>1, <1>3, <2>1, <2>2, <3>2 DEF Asks, MayAsk
  <2>3. CASE ~ CanDecode(r)
    <3>1. InputLen[r] + OutputLen[r] <= cached_len[r] + 1
      BY <1>1, <1>3, <2>3 DEF CanDecode
    <3>2. cached_len[r] + 1 = EndOf(r)
      BY <1>1, <2>1, <3>1, EndFacts
    <3>3. MayAsk(r) = 0
      BY <1>3, <2>3 DEF MayAsk
    <3> QED
      BY <1>1, <1>3, <3>2, <3>3 DEF Asks
  <2> QED
    BY <2>2, <2>3
<1>4. CASE phase[r] = "chunked"
  BY <1>1, <1>4 DEF Asks, MayAsk, CanDecode, Bounded
<1>5. CASE phase[r] \in {"waiting", "done"}
  BY <1>5 DEF Asks, MayAsk, CanDecode
<1> QED
  BY <1>2, <1>3, <1>4, <1>5

LEMMA AsksTypedNext ==
  TypeOK' /\ (PageSize = 1)' /\ Bounded' =>
  (\A r \in Req :
     /\ Asks[r] = MayAsk(r) /\ MayAsk(r) \in Nat
     /\ phase[r] = "running" => MayAsk(r) = EndOf(r) - cached_len[r] - 1
     /\ phase[r] = "chunked" => MayAsk(r) = InputLen[r] + OutputLen[r] - cached_len[r]
     /\ phase[r] \in {"waiting", "done"} => MayAsk(r) = 0)'
<1>1. TypeOK /\ PageSize = 1 /\ Bounded =>
      (\A r \in Req :
         /\ Asks[r] = MayAsk(r) /\ MayAsk(r) \in Nat
         /\ phase[r] = "running" => MayAsk(r) = EndOf(r) - cached_len[r] - 1
         /\ phase[r] = "chunked" => MayAsk(r) = InputLen[r] + OutputLen[r] - cached_len[r]
         /\ phase[r] \in {"waiting", "done"} => MayAsk(r) = 0)
  BY AsksTyped
<1> QED
  BY <1>1, PTL

LEMMA ReservedIsNext == (Reserved = Total(Asks, Req))'
BY ReservedIs, PTL

\* A step of r changes what r may ask for, and nothing else of the sum.
LEMMA OneAsks ==
  ASSUME TypeOK, PageSize = 1, Bounded, TypeOK', args' = args, Bounded', NEW r \in Req,
         \A q \in Req \ {r} : phase'[q] = phase[q] /\ cached_len'[q] = cached_len[q]
  PROVE  \E rest \in Nat : Reserved = MayAsk(r) + rest /\ Reserved' = MayAsk(r)' + rest
<1>1. /\ (PageSize = 1)'
      /\ \A q \in Req : InputLen'[q] = InputLen[q] /\ OutputLen'[q] = OutputLen[q]
  BY DEF PageSize, InputLen, OutputLen
<1>2. \A q \in Req : Asks[q] = MayAsk(q) /\ MayAsk(q) \in Nat
  BY AsksTyped
<1>3. \A q \in Req : Asks'[q] = MayAsk(q)' /\ MayAsk(q)' \in Nat
  BY <1>1, AsksTypedNext
<1>4. \A q \in Req \ {r} : Asks[q] = Asks'[q]
  <2> SUFFICES ASSUME NEW q \in Req \ {r} PROVE MayAsk(q) = MayAsk(q)'
    BY <1>2, <1>3
  <2> QED
    BY <1>1 DEF MayAsk, CanDecode, PageSize
<1> PICK a : a = Asks
  OBVIOUS
<1> PICK b : b = Asks'
  OBVIOUS
<1>5. \E rest \in Nat : Total(a, Req) = a[r] + rest /\ Total(b, Req) = b[r] + rest
  <2>1. IsFiniteSet(Req)
    BY NaiveAssumption
  <2>2. \A i \in Req : a[i] \in Nat /\ b[i] \in Nat
    BY <1>2, <1>3
  <2>3. \A i \in Req \ {r} : a[i] = b[i]
    BY <1>4
  <2> QED
    BY <2>1, <2>2, <2>3, TotalChanges
<1>6. Reserved = Total(a, Req) /\ Reserved' = Total(b, Req)
  BY ReservedIs, ReservedIsNext
<1> QED
  BY <1>2, <1>3, <1>5, <1>6

LEMMA RInit == Init => RInv
<1> SUFFICES ASSUME Init, PageSize = 1 PROVE Bounded /\ ReservedIsFree
  BY DEF RInv
<1>1. TypeOK
  BY InitHolds DEF IInv
<1>2. Bounded
  BY DEF Init, Bounded
<1>3. \A r \in Req : Asks[r] = 0
  BY DEF Init, Asks, MayAsk, CanDecode
<1>4. Reserved = 0
  BY <1>3, ReservedIs, TotalNone, NaiveAssumption
<1>5. Len(free_slots) \in Nat
  BY <1>1 DEF TypeOK
<1> QED
  BY <1>2, <1>4, <1>5 DEF ReservedIsFree, Init

\* What remains to be shown of an action that is r's
LEMMA StepReserves ==
  ASSUME IInv, IInv', PageSize = 1, Bounded, ReservedIsFree, NEW r \in Req,
         args' = args, raised' = raised, Bounded',
         \A q \in Req \ {r} : phase'[q] = phase[q] /\ cached_len'[q] = cached_len[q],
         NEW d \in Int, MayAsk(r)' = MayAsk(r) + d,
         Len(free_slots') >= Len(free_slots) + d \/ Len(free_slots') >= Reserved + d
  PROVE  RInv'
<1>1. PICK rest \in Nat : Reserved = MayAsk(r) + rest /\ Reserved' = MayAsk(r)' + rest
  <2>1. TypeOK /\ TypeOK'
    BY DEF IInv
  <2> QED
    BY <2>1, OneAsks
<1>2. MayAsk(r) \in Nat /\ Len(free_slots) \in Nat /\ Len(free_slots') \in Nat
  <2>1. MayAsk(r) \in Nat
    BY AsksTyped DEF IInv
  <2> QED
    BY <2>1 DEF IInv, TypeOK
<1>3. Reserved' = Reserved + d /\ Reserved \in Nat
  BY <1>1, <1>2
<1>4. Reserved' <= Len(free_slots')
  BY <1>2, <1>3 DEF ReservedIsFree
<1>5. ReservedIsFree'
  BY <1>4 DEF ReservedIsFree
<1> QED
  BY <1>5 DEF RInv

LEMMA AdmitReserves ==
  ASSUME IInv, RInv, IInv', PageSize = 1, NEW r \in Req, Admit(r)
  PROVE  RInv'
<1>1. /\ Bounded /\ ReservedIsFree
      /\ phase[r] = "waiting" /\ phase'[r] = "chunked" /\ cached_len[r] = 0
      /\ cached_len' = cached_len /\ args' = args /\ raised' = raised /\ free_slots' = free_slots
      /\ \A q \in Req \ {r} : phase'[q] = phase[q]
  BY DEF RInv, Admit, IInv, TypeOK, Bounded
<1>2. InputLen[r] \in Nat \ {0} /\ OutputLen[r] \in Nat /\ InputLen' = InputLen /\ OutputLen' = OutputLen
  BY <1>1, ArgsTyped DEF IInv, InputLen, OutputLen
<1>3. Bounded'
  <2> SUFFICES ASSUME NEW q \in Req
               PROVE  /\ phase'[q] = "waiting" => cached_len[q] = 0
                      /\ phase'[q] = "chunked" => cached_len[q] < InputLen[q]
                      /\ phase'[q] = "running" => /\ InputLen[q] <= cached_len[q]
                                                 /\ cached_len[q] + 1 <= EndOf(q)
    BY <1>1, <1>2 DEF Bounded, EndOf
  <2>1. CASE q = r
    BY <1>1, <1>2, <2>1
  <2>2. CASE q # r
    BY <1>1, <2>2 DEF Bounded
  <2> QED
    BY <2>1, <2>2
<1>4. MayAsk(r) = 0 /\ MayAsk(r)' = InputLen[r] + OutputLen[r]
  BY <1>1, <1>2 DEF MayAsk, CanDecode
<1> PICK d : d = InputLen[r] + OutputLen[r]
  OBVIOUS
<1>5. d \in Int /\ MayAsk(r)' = MayAsk(r) + d
  BY <1>2, <1>4
<1>6. Len(free_slots') >= Reserved + d
  <2>1. d + Reserved <= Available
    BY DEF Admit
  <2>2. Reserved \in Nat
    <3>1. \E rest \in Nat : Reserved = MayAsk(r) + rest
      <4>1. TypeOK /\ TypeOK'
        BY DEF IInv
      <4> QED
        BY <1>1, <1>3, <4>1, OneAsks
    <3> QED
      BY <1>4, <3>1
  <2>3. Available = Len(free_slots) /\ Len(free_slots) \in Nat
    BY DEF Available, IInv, TypeOK
  <2> QED
    BY <1>1, <1>2, <2>1, <2>2, <2>3
<1> QED
  BY <1>1, <1>3, <1>5, <1>6, StepReserves

LEMMA GrowReserves ==
  ASSUME IInv, RInv, IInv', PageSize = 1, NEW r \in Req, NEW n \in Targets(r), Grow(r, n)
  PROVE  RInv'
<1>1. /\ Bounded /\ ReservedIsFree
      /\ cached_len'[r] = n /\ args' = args /\ raised' = raised
      /\ \A q \in Req \ {r} : phase'[q] = phase[q] /\ cached_len'[q] = cached_len[q]
      /\ phase'[r] = IF n >= InputLen[r] THEN "running" ELSE "chunked"
  BY DEF RInv, Grow, IInv, TypeOK
<1>2. InputLen[r] \in Nat \ {0} /\ OutputLen[r] \in Nat /\ InputLen' = InputLen /\ OutputLen' = OutputLen
  BY <1>1, ArgsTyped DEF IInv, InputLen, OutputLen
<1>3. cached_len[r] \in Nat
  BY DEF IInv, TypeOK
<1>4. /\ phase[r] \in {"chunked", "running"} /\ n \in Nat /\ n > cached_len[r]
      /\ phase[r] = "chunked" => n <= InputLen[r]
      /\ phase[r] = "running" => n = cached_len[r] + 1 /\ n < InputLen[r] + OutputLen[r]
  BY <1>2, <1>3 DEF Targets, CanDecode
<1>5. /\ EndOf(r) \in Nat /\ EndOf(r)' = EndOf(r) /\ InputLen[r] + 1 <= EndOf(r)
      /\ InputLen[r] + OutputLen[r] <= EndOf(r) /\ EndOf(r) <= InputLen[r] + OutputLen[r] + 1
  <2>1. EndOf(r)' = EndOf(r)
    BY <1>2 DEF EndOf
  <2> QED
    BY <2>1, EndFacts DEF IInv
<1>6. Bounded'
  <2> SUFFICES ASSUME NEW q \in Req
               PROVE  /\ phase'[q] = "waiting" => cached_len'[q] = 0
                      /\ phase'[q] = "chunked" => cached_len'[q] < InputLen[q]
                      /\ phase'[q] = "running" => /\ InputLen[q] <= cached_len'[q]
                                                 /\ cached_len'[q] + 1 <= EndOf(q)
    BY <1>2 DEF Bounded, EndOf
  <2>1. CASE q = r
    <3>1. CASE n >= InputLen[r]
      BY <1>1, <1>2, <1>4, <1>5, <2>1, <3>1
    <3>2. CASE ~(n >= InputLen[r])
      BY <1>1, <1>2, <1>4, <2>1, <3>2
    <3> QED
      BY <3>1, <3>2
  <2>2. CASE q # r
    BY <1>1, <2>2 DEF Bounded
  <2> QED
    BY <2>1, <2>2
<1>7. Len(free_slots') = Len(free_slots) - (n - cached_len[r])
  <2>1. PagesOf(n) = n /\ PagesOf(cached_len[r]) = cached_len[r]
    BY <1>3, <1>4, OneTokenPages DEF IInv
  <2>2. Needed(r, n) = n - cached_len[r] /\ Needed(r, n) <= Len(free_slots)
    BY <2>1 DEF Needed, Grow
  <2> PICK k : k = Needed(r, n)
    OBVIOUS
  <2>3. k \in Nat /\ k <= Len(free_slots) /\ free_slots' = SubSeq(free_slots, k + 1, Len(free_slots))
    BY <1>3, <1>4, <2>2 DEF Grow
  <2>4. free_slots \in Seq(Page)
    BY DEF IInv, TypeOK
  <2>5. Len(free_slots') = Len(free_slots) - k
    BY <2>3, <2>4
  <2> QED
    BY <2>2, <2>5
<1>8. \E d \in Int : MayAsk(r)' = MayAsk(r) + d /\ Len(free_slots') >= Len(free_slots) + d
  <2>1. /\ phase[r] = "running" => MayAsk(r) = EndOf(r) - cached_len[r] - 1
        /\ phase[r] = "chunked" => MayAsk(r) = InputLen[r] + OutputLen[r] - cached_len[r]
    BY <1>1, AsksTyped DEF IInv
  <2>2. MayAsk(r)' = IF n >= InputLen[r] THEN EndOf(r) - n - 1 ELSE InputLen[r] + OutputLen[r] - n
    <3>1. TypeOK' /\ (PageSize = 1)'
      BY <1>1 DEF IInv, PageSize
    <3>2. /\ phase'[r] = "running" => MayAsk(r)' = EndOf(r) - n - 1
          /\ phase'[r] = "chunked" => MayAsk(r)' = InputLen[r] + OutputLen[r] - n
      BY <1>1, <1>2, <1>6, <1>5, <3>1, AsksTypedNext
    <3> QED
      BY <1>1, <3>2
  <2>3. phase[r] = "running" => n >= InputLen[r]
    <3>1. CASE phase[r] = "running"
      <4>1. cached_len[r] >= InputLen[r]
        BY <1>1, <1>2, <1>3, <3>1 DEF Bounded
      <4> QED
        BY <1>2, <1>3, <1>4, <3>1, <4>1
    <3> QED
      BY <3>1
  <2>4. Len(free_slots) \in Nat
    BY DEF IInv, TypeOK
  <2> PICK a : a = MayAsk(r)
    OBVIOUS
  <2> PICK b : b = MayAsk(r)'
    OBVIOUS
  <2> PICK d : d = b - a
    OBVIOUS
  <2>5. d \in Int /\ MayAsk(r)' = MayAsk(r) + d /\ Len(free_slots') >= Len(free_slots) + d
    <3> PICK free : free = Len(free_slots)
      OBVIOUS
    <3>1. a \in Int /\ b \in Int /\ b <= a - (n - cached_len[r])
      <4>1. CASE phase[r] = "running"
        <5>1. a = EndOf(r) - cached_len[r] - 1 /\ b = EndOf(r) - n - 1
          BY <2>1, <2>2, <2>3, <4>1
        <5>2. \A f, c, m \in Nat :
                a = f - c - 1 /\ b = f - m - 1 => a \in Int /\ b \in Int /\ b <= a - (m - c)
          OBVIOUS
        <5>3. EndOf(r) \in Nat /\ cached_len[r] \in Nat /\ n \in Nat
          BY <1>3, <1>4, <1>5
        <5> QED
          BY <5>1, <5>2, <5>3
      <4>2. CASE phase[r] # "running"
        <5>1. a = InputLen[r] + OutputLen[r] - cached_len[r]
          BY <1>4, <2>1, <4>2
        <5>2. b = InputLen[r] + OutputLen[r] - n \/ b = EndOf(r) - n - 1
          BY <2>2
        <5>3. \A l, o, c, m, f \in Nat :
                a = l + o - c /\ (b = l + o - m \/ b = f - m - 1) /\ f <= l + o + 1
                  => a \in Int /\ b \in Int /\ b <= a - (m - c)
          OBVIOUS
        <5>4. n \in Nat /\ cached_len[r] \in Nat /\ InputLen[r] \in Nat /\ OutputLen[r] \in Nat
          BY <1>2, <1>3, <1>4
        <5> QED
          BY <1>5, <5>1, <5>2, <5>3, <5>4
      <4> QED
        BY <4>1, <4>2
    <3>2. d \in Int /\ b = a + d /\ d <= 0 - (n - cached_len[r])
      BY <1>3, <1>4, <3>1
    <3>3. free \in Nat /\ Len(free_slots') = free - (n - cached_len[r])
      BY <1>7, <2>4
    <3> QED
      BY <1>3, <1>4, <3>2, <3>3
  <2> QED
    BY <2>5
<1> QED
  BY <1>1, <1>6, <1>8, StepReserves

LEMMA FinishReserves ==
  ASSUME IInv, RInv, IInv', PageSize = 1, NEW r \in Req, Finish(r)
  PROVE  RInv'
<1>1. /\ Bounded /\ ReservedIsFree
      /\ cached_len'[r] = 0 /\ args' = args /\ raised' = raised
      /\ \A q \in Req \ {r} : phase'[q] = phase[q] /\ cached_len'[q] = cached_len[q]
      /\ phase'[r] = "done"
      /\ InputLen' = InputLen /\ OutputLen' = OutputLen
  BY DEF RInv, Finish, IInv, TypeOK, InputLen, OutputLen
<1>2. Bounded'
  <2> SUFFICES ASSUME NEW q \in Req
               PROVE  /\ phase'[q] = "waiting" => cached_len'[q] = 0
                      /\ phase'[q] = "chunked" => cached_len'[q] < InputLen[q]
                      /\ phase'[q] = "running" => /\ InputLen[q] <= cached_len'[q]
                                                 /\ cached_len'[q] + 1 <= EndOf(q)
    BY <1>1 DEF Bounded, EndOf
  <2>1. CASE q = r
    BY <1>1, <2>1
  <2>2. CASE q # r
    BY <1>1, <2>2 DEF Bounded
  <2> QED
    BY <2>1, <2>2
<1>3. Len(free_slots') >= Len(free_slots) /\ Len(free_slots) \in Nat
  <2>1. free_slots \in Seq(Page) /\ row[r] \in Seq(Page) /\ Len(row[r]) = PagesOf(cached_len[r])
    BY DEF IInv, TypeOK, Lengths
  <2>2. Freed(r) = row[r]
    BY <2>1 DEF Freed
  <2>3. free_slots' = free_slots \o row[r]
    BY <2>2 DEF Finish
  <2> QED
    BY <2>1, <2>3
<1> PICK d : d = 0 - MayAsk(r)
  OBVIOUS
<1>4. MayAsk(r) \in Nat
  BY <1>1, AsksTyped DEF IInv
<1>5. MayAsk(r)' = 0
  BY <1>1 DEF MayAsk, CanDecode
<1>6. d \in Int /\ MayAsk(r)' = MayAsk(r) + d /\ Len(free_slots') >= Len(free_slots) + d
  BY <1>3, <1>4, <1>5
<1> QED
  BY <1>1, <1>2, <1>6, StepReserves

\* What r may be extended by now is less than what it may ask for.
LEMMA NoEviction ==
  ASSUME IInv, RInv, PageSize = 1, NEW r \in Req, NEW n \in Targets(r)
  PROVE  ~Evict(r, n)
<1>1. Bounded /\ ReservedIsFree
  BY DEF RInv
<1>2. InputLen[r] \in Nat /\ OutputLen[r] \in Nat /\ cached_len[r] \in Nat
  BY ArgsTyped DEF IInv, TypeOK
<1>3. n \in Nat /\ n - cached_len[r] <= MayAsk(r) /\ MayAsk(r) \in Nat
  <2>1. /\ MayAsk(r) \in Nat
        /\ phase[r] = "running" => MayAsk(r) = EndOf(r) - cached_len[r] - 1
        /\ phase[r] = "chunked" => MayAsk(r) = InputLen[r] + OutputLen[r] - cached_len[r]
    BY <1>1, AsksTyped DEF IInv
  <2>2. CASE phase[r] = "chunked"
    <3>1. n \in (cached_len[r] + 1)..InputLen[r]
      BY <2>2 DEF Targets, CanDecode
    <3> QED
      BY <1>2, <2>1, <2>2, <3>1
  <2>3. CASE phase[r] = "running"
    <3>1. n = cached_len[r] + 1 /\ cached_len[r] + 1 < InputLen[r] + OutputLen[r]
      BY <1>2, <2>3 DEF Targets, CanDecode
    <3>2. EndOf(r) \in Nat /\ InputLen[r] + OutputLen[r] <= EndOf(r)
      BY EndFacts DEF IInv
    <3> QED
      BY <1>2, <2>1, <2>3, <3>1, <3>2
  <2> QED
    BY <2>2, <2>3 DEF Targets, CanDecode
<1>4. Needed(r, n) = n - cached_len[r]
  BY <1>2, <1>3, OneTokenPages DEF IInv, Needed
<1>5. MayAsk(r) <= Reserved /\ Reserved \in Nat
  <2> PICK a : a = Asks
    OBVIOUS
  <2>1. \A q \in Req : a[q] \in Nat /\ Asks[r] = MayAsk(r)
    BY <1>1, AsksTyped DEF IInv
  <2>2. \E rest \in Nat : Total(a, Req) = a[r] + rest /\ Total(a, Req) = a[r] + rest
    <3>1. IsFiniteSet(Req) /\ \A q \in Req \ {r} : a[q] = a[q]
      BY NaiveAssumption
    <3> QED
      BY <2>1, <3>1, TotalChanges
  <2> QED
    BY <1>3, <2>1, <2>2, ReservedIs
<1>6. Len(free_slots) \in Nat /\ Reserved <= Len(free_slots) 
  BY <1>1 DEF ReservedIsFree, IInv, TypeOK
<1> QED
  BY <1>2, <1>3, <1>4, <1>5, <1>6 DEF Evict

LEMMA Reservation == Spec => [](IInv /\ RInv)
<1>1. IInv /\ RInv /\ [Next]_vars => IInv' /\ RInv'
  <2> SUFFICES ASSUME IInv, RInv, [Next]_vars PROVE IInv' /\ RInv'
    OBVIOUS
  <2>1. IInv'
    BY StepHolds
  <2>2. CASE PageSize # 1
    <3>1. args' = args
      BY DEF Next, Step, Over, Admit, Grow, Evict, Finish, vars
    <3> QED
      BY <2>1, <2>2, <3>1 DEF RInv, PageSize
  <2>3. CASE PageSize = 1
    <3>1. CASE UNCHANGED vars
      <4>1. /\ phase' = phase /\ cached_len' = cached_len /\ free_slots' = free_slots
            /\ raised' = raised /\ args' = args
            /\ PageSize' = PageSize /\ InputLen' = InputLen /\ OutputLen' = OutputLen
        BY <3>1 DEF vars, PageSize, InputLen, OutputLen
      <4>2. Asks' = Asks
        BY <4>1 DEF Asks, MayAsk, CanDecode
      <4>3. Reserved' = Reserved
        BY <4>2, ReservedIs, ReservedIsNext
      <4> QED
        BY <2>1, <4>1, <4>3 DEF RInv, Bounded, ReservedIsFree, EndOf
    <3> QED
      BY <2>1, <2>3, <3>1, NoEviction, AdmitReserves, GrowReserves, FinishReserves DEF Next, Step, Over
  <2> QED
    BY <2>1, <2>2, <2>3
<1> QED
  BY <1>1, InitHolds, RInit, PTL DEF Spec

-----------------------------------------------------------------------------
\* Every page is free or in one row, for any number of requests and any lengths
\* (CacheManager with --cache-type naive).
THEOREM EveryPageOnce == Spec => []PagePartition
<1>1. IInv => PagePartition
  BY DEF IInv
<1> QED
  BY <1>1, Invariance, PTL

\* A row has the pages its tokens need and no others, so cache_req gives all back.
THEOREM RowsFit == Spec => []Lengths
<1>1. IInv => Lengths
  BY DEF IInv
<1> QED
  BY <1>1, Invariance, PTL

\* With pages of one token no step asks the cache for an eviction, whatever is admitted
\* when and however prompts are chunked: the lengths that _try_allocate_one and the
\* prefill adder reserve are what the running and chunked requests can still take.
THEOREM AdmissionSuffices == Spec => []NeverEvicts
<1>1. RInv => NeverEvicts
  BY DEF RInv, ReservedIsFree, NeverEvicts
<1> QED
  BY <1>1, Reservation, PTL
=============================================================================
