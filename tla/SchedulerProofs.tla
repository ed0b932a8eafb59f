---------------------------- MODULE SchedulerProofs ----------------------------
(***************************************************************************)
(* Proofs about Scheduler, for every set of requests, prompts, page size,  *)
(* number of pages and slots and both loops.                               *)
(***************************************************************************)
EXTENDS Scheduler, RadixPrefixCacheProofs

\* An abort may come for a request whose last sampled token the scheduler has yet
\* to process.  The overlap loop frees its pages and slot while the batch that
\* holds it is still to be processed (the finding AbortRace); every theorem
\* below is about the runs in which that does not happen.
SafeAborts == ~ (Overlap /\ AbortInFlight)

-----------------------------------------------------------------------------
(* Where a request stands in the loop. *)

Block == [1..PageSize -> Token]

Distinct(s) == \A i, j \in DOMAIN s : s[i] = s[j] => i = j

\* r has a token to be sampled in an entry of b from index n on
OpenIn(b, n, r) == \E i \in DOMAIN b.items : i >= n /\ b.items[i].req = r /\ ~ b.items[i].chunk

\* The results of the batch before, of which r has a token, are unanswered
InLast(r) == OpenIn(last, IF pc = "process" THEN at ELSE 1, r)

\* So are those of the batch just launched
Sampled(r) == pc = "process" /\ OpenIn(batch, IF Overlap THEN 1 ELSE at, r)

\* The batch is being put together or allocated: r's entry is ahead, or done
Preparing == pc \in {"add", "added", "ended", "allocate", "take"}

Ahead(r) == Preparing /\ \E i \in DOMAIN batch.items : i >= at /\ batch.items[i].req = r

Taken(r) == Preparing /\ \E i \in DOMAIN batch.items : i < at /\ batch.items[i].req = r

Bit(P) == IF P THEN 1 ELSE 0

\* The tokens of r that the device has and the host does not
Unanswered(r) == Bit(InLast(r)) + Bit(Sampled(r))

-----------------------------------------------------------------------------
(* The inductive invariant. *)

\* The list is at its end, or the process ends in the middle of it.
StopsAdding == StopAdding \/ \E r \in Req : AddFails(r)

BatchType == [prefill : BOOLEAN, items : Seq([req : Req, chunk : BOOLEAN, pos : Nat])]

TypeOK ==
  /\ pc \in {"receive", "add", "added", "ended", "allocate", "take", "process"}
  /\ pending \in Seq(Req)
  /\ chunked \subseteq Req /\ running \subseteq Req
  /\ finished_reqs \subseteq Req /\ newly \subseteq Req
  /\ obj \in [Req -> [slot : Nat, cached : Nat, device : Nat, host : Nat, handle : Seq(Block)]]
  /\ stage \in [Req -> {"unsent", "pending", "gone", "admitted", "committed",
                        "finished", "aborted"}]
  /\ tokens \in [Req -> Seq(Token)]
  /\ sent \in [Req -> Seq(BOOLEAN)]
  /\ batch \in BatchType /\ last \in BatchType
  /\ at \in Nat \ {0}
  /\ adder.budget \in Nat
  /\ table_free \in Seq(Slot)
  /\ page_table = [s \in Slot |-> page_table[s]]
  /\ Paths(cache) \subseteq Seq(Block)

\* The pending list: a request once, those in chunks admitted, the others not
\* unless the batch that is put together has just added them.
Queue ==
  /\ Distinct(pending)
  /\ \A r \in Req : stage[r] = "pending" \/ r \in chunked => Contains(pending, r)
  /\ pc \in {"add", "added", "ended"} => Len(batch.items) <= Len(pending)
  /\ \A i \in DOMAIN pending :
       IF pc \in {"add", "added", "ended"} /\ i <= Len(batch.items)
       THEN batch.items[i].req = pending[i] /\ stage[pending[i]] = "admitted"
       ELSE stage[pending[i]] = IF pending[i] \in chunked THEN "admitted" ELSE "pending"

\* An entry of the batch of this iteration: a live request, of the pending list if
\* the batch is a prefill, else a running one.
ThisEntry(e) ==
  /\ Preparing => Live(e.req)
  /\ batch.prefill => /\ e.chunk <=> e.req \in chunked
                      /\ ~ InLast(e.req)
                      /\ Preparing => stage[e.req] = "admitted" /\ e.req \notin running
  /\ ~ batch.prefill => ~ e.chunk /\ (Preparing => e.req \in running)
  /\ pc \notin {"add", "added", "ended"} /\ ~ e.chunk => ~ Contains(pending, e.req)

OncePerBatch(b) == \A i, j \in DOMAIN b.items : b.items[i].req = b.items[j].req => i = j

ThisBatch ==
  /\ pc = "receive" => batch = NoBatch
  /\ pc \in {"receive", "add", "added", "ended"} => at = 1
  /\ pc \in {"add", "added", "ended"} => batch = NoBatch \/ batch.prefill
  /\ OncePerBatch(batch)
  /\ \A i \in DOMAIN batch.items : ThisEntry(batch.items[i])
  /\ \A r \in Req : Sampled(r) => IF batch.prefill THEN stage[r] = "admitted"
                                  ELSE Live(r) \/ (Overlap /\ r \in newly)

\* The batch before, whose results the overlap loop processes in this iteration.
LastBatch ==
  /\ ~ Overlap => last = NoBatch
  /\ OncePerBatch(last)
  /\ \A i \in DOMAIN last.items :
       /\ stage[last.items[i].req] \notin {"unsent", "pending", "gone"}
       /\ ~ last.items[i].chunk => ~ Contains(pending, last.items[i].req)
  /\ \A r \in Req : InLast(r) => IF last.prefill THEN stage[r] = "admitted"
                                 ELSE Live(r) \/ r \in finished_reqs
  /\ pc # "process" => newly = {}
  /\ newly # {} => Results.items # << >>
  /\ \A r \in finished_reqs \cup newly : stage[r] = "finished"

\* A slot is free or a live request's.
Slots ==
  /\ Distinct(table_free)
  /\ \A r \in Req : Live(r) => obj[r].slot \in Slot /\ ~ Contains(table_free, obj[r].slot)
  /\ \A r, s \in Req : Live(r) /\ Live(s) /\ obj[r].slot = obj[s].slot => r = s
  /\ \A s \in Slot : Contains(table_free, s) \/ \E r \in Req : Live(r) /\ obj[r].slot = s

\* The lengths of a live request: its part of the prompt is to be computed, or has
\* been and was not the last one, or the prompt is behind it.
Extending(r) ==
  /\ tokens[r] = Prompt[r]
  /\ obj[r].cached < obj[r].device /\ obj[r].device <= InputLen(r)
  /\ obj[r].host = obj[r].device
  /\ r \in chunked <=> obj[r].device < InputLen(r)

BetweenChunks(r) ==
  /\ tokens[r] = Prompt[r]
  /\ obj[r].cached < InputLen(r)
  /\ obj[r].device = obj[r].cached + 1 /\ obj[r].host = obj[r].cached

Decoding(r) ==
  /\ InputLen(r) < obj[r].device
  /\ obj[r].cached = obj[r].device - 1
  /\ Len(tokens[r]) = obj[r].device - Bit(Taken(r))
  /\ SubSeq(tokens[r], 1, InputLen(r)) = Prompt[r]
  /\ obj[r].host = obj[r].device - Bit(Taken(r)) - Unanswered(r)

LengthsOf(r) ==
  IF Ahead(r) /\ batch.prefill THEN Extending(r)
  ELSE IF r \in chunked THEN BetweenChunks(r) ELSE Decoding(r)

\* Who decodes: exactly those that can, from the launch of their last part on.
Decoders ==
  /\ \A r \in running : /\ Live(r) /\ ~ Contains(pending, r)
                        /\ ~ Taken(r) => CanDecode(r)
  /\ \A r \in Req : Live(r) /\ r \notin chunked /\ ~ Ahead(r) /\ ~ Taken(r) =>
       IF CanDecode(r) THEN r \in running ELSE InLast(r) \/ Sampled(r)

\* A request that has not been admitted has its prompt, and no reply.
Fresh == \A r \in Req : stage[r] \in {"unsent", "pending"} => tokens[r] = Prompt[r] /\ sent[r] = << >>

IInv ==
  /\ TypeOK /\ Queue /\ ThisBatch /\ LastBatch /\ Slots /\ Decoders /\ Fresh
  /\ \A r \in Req : Live(r) => LengthsOf(r)

-----------------------------------------------------------------------------
(* Sequences and batches. *)

LEMMA ContainsAppend ==
  ASSUME NEW S, NEW s \in Seq(S), NEW x \in S, NEW y
  PROVE  Contains(Append(s, x), y) <=> Contains(s, y) \/ y = x
BY DEF Contains

LEMMA DistinctAppend ==
  ASSUME NEW S, NEW s \in Seq(S), NEW x \in S, Distinct(s), ~ Contains(s, x)
  PROVE  Distinct(Append(s, x))
BY DEF Contains, Distinct

LEMMA FrontProperties ==
  ASSUME NEW S, NEW s \in Seq(S), s # << >>
  PROVE  /\ Front(s) \in Seq(S) /\ Len(Front(s)) = Len(s) - 1
         /\ \A i \in 1..(Len(s) - 1) : Front(s)[i] = s[i]
         /\ Distinct(s) => /\ Distinct(Front(s))
                           /\ \A y : Contains(Front(s), y) <=> Contains(s, y) /\ y # s[Len(s)]
<1>1. Len(s) \in Nat \ {0}
  OBVIOUS
<1>2. /\ Front(s) \in Seq(S) /\ Len(Front(s)) = Len(s) - 1
      /\ \A i \in 1..(Len(s) - 1) : Front(s)[i] = s[i]
  <2> DEFINE n == Len(s) - 1
  <2>1. n \in Nat /\ \A i \in 1..n : s[i] \in S
    BY <1>1
  <2> HIDE DEF n
  <2>2. /\ SubSeq(s, 1, n) \in Seq(S) /\ Len(SubSeq(s, 1, n)) = n
        /\ \A i \in 1..n : SubSeq(s, 1, n)[i] = s[i]
    BY <2>1
  <2> QED
    BY <2>2 DEF Front, n
<1>3. ASSUME Distinct(s)
      PROVE  /\ Distinct(Front(s))
             /\ \A y : Contains(Front(s), y) <=> Contains(s, y) /\ y # s[Len(s)]
  BY <1>1, <1>2, <1>3 DEF Distinct, Contains
<1> QED
  BY <1>2, <1>3

LEMMA RemoveOnce ==
  ASSUME NEW S, NEW s \in Seq(S), NEW x, Distinct(s), Contains(s, x)
  PROVE  /\ RemoveFirst(s, x) \in Seq(S)
         /\ Distinct(RemoveFirst(s, x))
         /\ \A y : Contains(RemoveFirst(s, x), y) <=> Contains(s, y) /\ y # x
         /\ s[1] # x => RemoveFirst(s, x) # << >> /\ RemoveFirst(s, x)[1] = s[1]
<1> DEFINE I == {i \in 1..Len(s) : s[i] = x}
           n == Len(s)
           w == RemoveFirst(s, x)
<1>1. PICK k \in 1..n : s[k] = x
  BY DEF Contains
<1>2. I = {k}
  BY <1>1 DEF Distinct
<1>3. Min(I) = k
  BY <1>2, <1>1 DEF Min
<1>4. w = SubSeq(s, 1, k - 1) \o SubSeq(s, k + 1, n)
  BY <1>1, <1>2, <1>3 DEF RemoveFirst, RemoveAt, SelectInSeq
<1>5. /\ w \in Seq(S) /\ Len(w) = n - 1
      /\ \A i \in 1..(n - 1) : w[i] = IF i < k THEN s[i] ELSE s[i + 1]
  <2> DEFINE a == SubSeq(s, 1, k - 1)
             b == SubSeq(s, k + 1, n)
  <2>1. /\ a \in Seq(S) /\ Len(a) = k - 1 /\ \A i \in 1..(k - 1) : a[i] = s[i]
        /\ b \in Seq(S) /\ Len(b) = n - k /\ \A i \in 1..(n - k) : b[i] = s[k + i]
    BY <1>1
  <2> HIDE DEF a, b
  <2>2. /\ a \o b \in Seq(S) /\ Len(a \o b) = Len(a) + Len(b)
        /\ \A i \in 1..(Len(a) + Len(b)) :
             (a \o b)[i] = IF i <= Len(a) THEN a[i] ELSE b[i - Len(a)]
    BY <2>1, ConcatProperties
  <2>3. n \in Nat /\ k \in 1..n
    BY <1>1
  <2> HIDE DEF n
  <2>4. ASSUME NEW i \in 1..(n - 1)
        PROVE  (a \o b)[i] = IF i < k THEN s[i] ELSE s[i + 1]
    <3>1. i <= Len(a) <=> i < k
      BY <2>1, <2>3
    <3>2. ~ i < k => i - Len(a) \in 1..(n - k) /\ k + (i - Len(a)) = i + 1
      BY <2>1, <2>3
    <3>3. i < k => i \in 1..(k - 1)
      BY <2>3
    <3>4. i \in 1..(Len(a) + Len(b))
      BY <2>1, <2>3
    <3> QED
      BY <2>1, <2>2, <3>1, <3>2, <3>3, <3>4
  <2>5. Len(a \o b) = n - 1
    BY <2>1, <2>2, <2>3
  <2>6. w = a \o b
    BY <1>4 DEF a, b
  <2> QED
    BY <2>2, <2>4, <2>5, <2>6
<1> HIDE DEF w
<1>6. Distinct(w)
  <2> SUFFICES ASSUME NEW i \in 1..(n - 1), NEW j \in 1..(n - 1), w[i] = w[j] PROVE i = j
    BY <1>5 DEF Distinct
  <2> DEFINE f(m) == IF m < k THEN m ELSE m + 1
  <2>1. f(i) \in 1..n /\ f(j) \in 1..n /\ s[f(i)] = s[f(j)]
    BY <1>5
  <2>2. f(i) = f(j)
    BY <2>1 DEF Distinct
  <2> QED
    BY <2>2
<1>7. ASSUME NEW y PROVE Contains(w, y) <=> Contains(s, y) /\ y # x
  <2>1. ASSUME NEW i \in 1..n, s[i] = y, y # x PROVE \E j \in 1..(n - 1) : w[j] = y
    <3>1. CASE i < k
      BY <1>1, <1>5, <2>1, <3>1
    <3>2. CASE i > k
      <4>1. i - 1 \in 1..(n - 1) /\ w[i - 1] = s[i]
        BY <1>1, <1>5, <3>2
      <4> QED
        BY <4>1, <2>1
    <3> QED
      BY <1>1, <2>1, <3>1, <3>2
  <2>2. ASSUME NEW j \in 1..(n - 1) PROVE w[j] # x /\ \E i \in 1..n : s[i] = w[j]
    BY <1>1, <1>5 DEF Distinct
  <2> QED
    BY <1>5, <2>1, <2>2 DEF Contains
<1>8. ASSUME s[1] # x PROVE w # << >> /\ w[1] = s[1]
  <2>1. k # 1 /\ k \in 1..n /\ n \in Nat
    BY <1>1, <1>8
  <2> HIDE DEF n
  <2>2. 1 \in 1..(n - 1) /\ 1 < k
    BY <2>1
  <2> QED
    BY <1>5, <2>2
<1> QED
  BY <1>5, <1>6, <1>7, <1>8 DEF w

\* A strict total order arranges a finite set.
LEMMA OrderExists ==
  ASSUME NEW S, IsFiniteSet(S), NEW R \in SUBSET (S \X S),
         \A x \in S : << x, x >> \notin R,
         \A x, y \in S : x # y => << x, y >> \in R \/ << y, x >> \in R,
         \A x, y, z \in S : << x, y >> \in R /\ << y, z >> \in R => << x, z >> \in R
  PROVE  \E s \in SetToSeqs(S) : \A i, j \in DOMAIN s : i < j => << s[i], s[j] >> \in R
<1> DEFINE n == Cardinality(S)
           below(x) == {y \in S : << y, x >> \in R}
           g == [x \in S |-> Cardinality(below(x)) + 1]
<1>1. n \in Nat
  BY FS_CardinalityType
<1>2. ASSUME NEW x \in S PROVE IsFiniteSet(below(x)) /\ Cardinality(below(x)) \in 0..(n - 1)
  <2>1. below(x) \in SUBSET S /\ below(x) # S
    OBVIOUS
  <2> HIDE DEF below
  <2>2. IsFiniteSet(below(x)) /\ Cardinality(below(x)) <= n /\ Cardinality(below(x)) # n
    BY <2>1, FS_Subset
  <2>3. Cardinality(below(x)) \in Nat
    BY <2>2, FS_CardinalityType
  <2> QED
    BY <1>1, <2>2, <2>3
<1>3. ASSUME NEW x \in S, NEW y \in S, << x, y >> \in R PROVE g[x] < g[y]
  <2>1. below(x) \in SUBSET below(y) /\ x \in below(y) /\ x \notin below(x)
    BY <1>3
  <2> HIDE DEF below
  <2>2. /\ Cardinality(below(x)) <= Cardinality(below(y))
        /\ Cardinality(below(x)) # Cardinality(below(y))
    BY <1>2, <2>1, FS_Subset
  <2>3. Cardinality(below(x)) \in Nat /\ Cardinality(below(y)) \in Nat
    BY <1>2
  <2> QED
    BY <2>2, <2>3
<1>4. g \in Injection(S, 1..n)
  <2>1. g \in [S -> 1..n]
    <3>1. ASSUME NEW x \in S PROVE Cardinality(below(x)) + 1 \in 1..n
      <4> HIDE DEF below, n
      <4> QED
        BY <1>1, <1>2
    <3> HIDE DEF below, n
    <3> QED
      BY <3>1
  <2>2. \A x, y \in S : g[x] = g[y] => x = y
    <3> SUFFICES ASSUME NEW x \in S, NEW y \in S, g[x] = g[y], x # y PROVE FALSE
      OBVIOUS
    <3>1. g[x] \in 1..n /\ g[y] \in 1..n
      BY <2>1
    <3>2. << x, y >> \in R \/ << y, x >> \in R
      OBVIOUS
    <3> HIDE DEF g, n, below
    <3> QED
      BY <1>1, <1>3, <3>1, <3>2
  <2> HIDE DEF g, n
  <2> QED
    BY <2>1, <2>2 DEF Injection, IsInjective
<1>5. g \in Surjection(S, 1..n)
  <2>1. IsFiniteSet(1..n) /\ Cardinality(1..n) = n
    BY <1>1, FS_Interval
  <2> QED
    BY <1>4, <2>1, FS_Injection
<1> DEFINE s == [k \in 1..n |-> CHOOSE x \in S : g[x] = k]
<1>6. ASSUME NEW k \in 1..n PROVE s[k] \in S /\ g[s[k]] = k
  <2>1. \E x \in S : g[x] = k
    BY <1>5 DEF Surjection
  <2> HIDE DEF g, n
  <2> QED
    BY <2>1
<1>7. DOMAIN s = 1..n /\ s \in [1..n -> S]
  <2> HIDE DEF g
  <2> QED
    BY <1>6
<1> HIDE DEF s, g
<1>8. s \in SetToSeqs(S)
  BY <1>6, <1>7 DEF SetToSeqs
<1>9. ASSUME NEW i \in 1..n, NEW j \in 1..n, i < j PROVE << s[i], s[j] >> \in R
  <2>1. s[i] \in S /\ s[j] \in S /\ g[s[i]] = i /\ g[s[j]] = j
    BY <1>6
  <2>2. s[i] # s[j]
    BY <1>1, <1>9, <2>1
  <2>3. << s[j], s[i] >> \notin R
    BY <1>1, <1>3, <1>9, <2>1
  <2> QED
    BY <2>1, <2>2, <2>3
<1> QED
  BY <1>7, <1>8, <1>9

\* An enumeration of a finite set without repetition reaches all of it.
LEMMA EnumerationFull ==
  ASSUME NEW S, IsFiniteSet(S), NEW s \in SetToSeqs(S)
  PROVE  /\ Cardinality(S) \in Nat
         /\ s \in [1..Cardinality(S) -> S] /\ s \in Seq(S) /\ Len(s) = Cardinality(S)
         /\ \A i, j \in DOMAIN s : s[i] = s[j] => i = j
         /\ \A x \in S : \E i \in DOMAIN s : s[i] = x
<1> DEFINE n == Cardinality(S)
<1>1. n \in Nat
  BY FS_CardinalityType
<1>2. s \in [1..n -> S] /\ \A i, j \in 1..n : s[i] = s[j] => i = j
  BY DEF SetToSeqs
<1>3. s \in Injection(1..n, S)
  BY <1>2 DEF Injection, IsInjective
<1>4. IsFiniteSet(1..n) /\ Cardinality(1..n) = n
  BY <1>1, FS_Interval
<1>5. s \in Surjection(1..n, S)
  BY <1>3, <1>4, FS_Injection
<1>6. \A x \in S : \E i \in 1..n : s[i] = x
  BY <1>5 DEF Surjection
<1>7. s \in Seq(S) /\ Len(s) = n
  BY <1>1, <1>2
<1> QED
  BY <1>1, <1>2, <1>6, <1>7

\* Sorting the pending list permutes it.
LEMMA SortedSame ==
  ASSUME pending \in Seq(Req), Distinct(pending)
  PROVE  /\ SortedPending \in Seq(Req) /\ Distinct(SortedPending)
         /\ \A x : Contains(SortedPending, x) <=> Contains(pending, x)
         /\ \A i, j \in DOMAIN SortedPending :
              i < j /\ SortedPending[j] \in chunked => SortedPending[i] \in chunked
<1> DEFINE n == Len(pending)
           D == 1..n
           Before(i, j) ==
             LET r == pending[i]  s == pending[j]
             IN \/ r \in chunked /\ s \notin chunked
                \/ /\ r \in chunked <=> s \in chunked
                   /\ \/ QueuedPriority(r) > QueuedPriority(s)
                      \/ QueuedPriority(r) = QueuedPriority(s) /\ i < j
           R == {p \in D \X D : Before(p[1], p[2])}
           order == CHOOSE s \in SetToSeqs(D) :
                      \A i, j \in DOMAIN s : i < j => Before(s[i], s[j])
<1>1. n \in Nat /\ DOMAIN pending = D /\ IsFiniteSet(D) /\ Cardinality(D) = n
  <2>1. n \in Nat /\ DOMAIN pending = D
    OBVIOUS
  <2> HIDE DEF n
  <2> QED
    BY <2>1, FS_Interval
<1>2. /\ \A i \in D : ~ Before(i, i)
      /\ \A i, j \in D : i # j => Before(i, j) \/ Before(j, i)
      /\ \A i, j, k \in D : Before(i, j) /\ Before(j, k) => Before(i, k)
  BY <1>1 DEF QueuedPriority
<1>3. SortedPending = [i \in D |-> pending[order[i]]]
  BY <1>1 DEF SortedPending, InOrder
<1>4. \A i, j \in D : << i, j >> \in R <=> Before(i, j)
  OBVIOUS
<1>5. R \in SUBSET (D \X D)
  OBVIOUS
<1>14. \A i, j \in D : Before(i, j) /\ pending[j] \in chunked => pending[i] \in chunked
  OBVIOUS
<1> HIDE DEF Before, R
<1>6. PICK s \in SetToSeqs(D) : \A i, j \in DOMAIN s : i < j => << s[i], s[j] >> \in R
  <2> HIDE DEF D, order, n
  <2>1. \A i \in D : << i, i >> \notin R
    BY <1>2, <1>4
  <2>2. \A i, j \in D : i # j => << i, j >> \in R \/ << j, i >> \in R
    BY <1>2, <1>4
  <2>3. \A i, j, k \in D : << i, j >> \in R /\ << j, k >> \in R => << i, k >> \in R
    BY <1>2, <1>4
  <2> QED
    BY <1>1, <1>5, <2>1, <2>2, <2>3, OrderExists
<1>7. \A i \in DOMAIN s : s[i] \in D
  BY DEF SetToSeqs
<1>8. order \in SetToSeqs(D) /\ \A i, j \in DOMAIN order : i < j => Before(order[i], order[j])
  BY <1>4, <1>6, <1>7
<1> HIDE DEF order
<1>9. /\ order \in [D -> D]
      /\ \A i, j \in D : order[i] = order[j] => i = j
      /\ \A x \in D : \E i \in D : order[i] = x
  <2> HIDE DEF D
  <2>1. /\ order \in [1..Cardinality(D) -> D]
        /\ \A i, j \in DOMAIN order : order[i] = order[j] => i = j
        /\ \A x \in D : \E i \in DOMAIN order : order[i] = x
    BY <1>1, <1>8, EnumerationFull
  <2> QED
    BY <1>1, <2>1 DEF D
<1>10. SortedPending \in Seq(Req) /\ Len(SortedPending) = n
  BY <1>1, <1>3, <1>9
<1>11. \A i, j \in D : pending[i] = pending[j] => i = j
  BY <1>1 DEF Distinct
<1>12. Distinct(SortedPending)
  <2>1. \A i \in D : SortedPending[i] = pending[order[i]] /\ order[i] \in D
    BY <1>3, <1>9
  <2>2. DOMAIN SortedPending = D
    BY <1>3
  <2> HIDE DEF D, n
  <2> QED
    BY <1>9, <1>11, <2>1, <2>2 DEF Distinct
<1>13. \A x : Contains(SortedPending, x) <=> Contains(pending, x)
  <2> SUFFICES ASSUME NEW x PROVE (\E i \in D : SortedPending[i] = x) <=> \E i \in D : pending[i] = x
    BY <1>10 DEF Contains
  <2> QED
    BY <1>3, <1>9
<1>15. ASSUME NEW i \in D, NEW j \in D, i < j, SortedPending[j] \in chunked
       PROVE  SortedPending[i] \in chunked
  <2>1. Before(order[i], order[j]) /\ order[i] \in D /\ order[j] \in D
    <3> HIDE DEF D
    <3> QED
      BY <1>8, <1>9, <1>15
  <2>2. SortedPending[i] = pending[order[i]] /\ SortedPending[j] = pending[order[j]]
    BY <1>3
  <2> QED
    BY <1>14, <1>15, <2>1, <2>2
<1>16. DOMAIN SortedPending = D
  BY <1>3
<1> QED
  BY <1>10, <1>12, <1>13, <1>15, <1>16

\* rest consists of the entries of s at the positions D of 1..n, followed by those
\* behind n; kept lists D.
SelectedThenRest(s, n, len, D, m, kept, rest) ==
  /\ len = Len(s) /\ len \in Nat /\ n \in 0..len /\ D \in SUBSET (1..n)
  /\ m \in Nat /\ kept \in [1..m -> D]
  /\ \A i, j \in 1..m : kept[i] = kept[j] => i = j
  /\ \A x \in D : \E i \in 1..m : kept[i] = x
  /\ Len(rest) = m + (len - n)
  /\ \A k \in 1..m : rest[k] = s[kept[k]]
  /\ \A j \in (n + 1)..len : rest[m + (j - n)] = s[j]

LEMMA PartsJoined ==
  ASSUME NEW T, NEW s \in Seq(T), Distinct(s), NEW n, NEW len, NEW D, NEW m, NEW kept,
         NEW rest \in Seq(T), SelectedThenRest(s, n, len, D, m, kept, rest)
  PROVE  /\ Distinct(rest)
         /\ \A i \in DOMAIN rest : \E j \in DOMAIN s : rest[i] = s[j] /\ (j <= n => j \in D)
         /\ \A j \in DOMAIN s : (j <= n => j \in D) => Contains(rest, s[j])
<1>1. len \in Nat /\ n \in 0..len /\ m \in Nat /\ D \in SUBSET (1..n)
  BY DEF SelectedThenRest
<1>2. /\ \A k \in 1..m : kept[k] \in D /\ kept[k] \in 1..n /\ kept[k] \in 1..len
      /\ \A i, j \in 1..m : kept[i] = kept[j] => i = j
      /\ \A x \in D : \E i \in 1..m : kept[i] = x
  <2>1. \A k \in 1..m : kept[k] \in D /\ kept[k] \in 1..n
    BY DEF SelectedThenRest
  <2>2. \A x \in 1..n : x \in 1..len
    BY <1>1
  <2> QED
    BY <2>1, <2>2 DEF SelectedThenRest
<1>3. DOMAIN rest = 1..(m + (len - n)) /\ Len(rest) = m + (len - n) /\ DOMAIN s = 1..len
  BY <1>1 DEF SelectedThenRest
<1>4. ASSUME NEW k \in 1..m
      PROVE  k \in DOMAIN rest /\ rest[k] = s[kept[k]]
  BY <1>1, <1>3 DEF SelectedThenRest
<1>5. ASSUME NEW j \in (n + 1)..len
      PROVE  m + (j - n) \in DOMAIN rest /\ rest[m + (j - n)] = s[j]
  BY <1>1, <1>3 DEF SelectedThenRest
<1>6. ASSUME NEW k \in DOMAIN rest
      PROVE  k \in 1..m \/ \E j \in (n + 1)..len : k = m + (j - n)
  <2>1. k \in 1..(m + (len - n))
    BY <1>3
  <2>2. CASE k > m
    <3>1. (k - m) + n \in (n + 1)..len /\ k = m + (((k - m) + n) - n)
      BY <1>1, <2>1, <2>2
    <3> QED
      BY <3>1
  <2> QED
    BY <1>1, <2>1, <2>2
<1>7. \A x, y \in 1..len : s[x] = s[y] => x = y
  BY <1>3 DEF Distinct
<1>8. Distinct(rest)
  <2> SUFFICES ASSUME NEW i \in DOMAIN rest, NEW j \in DOMAIN rest, rest[i] = rest[j] PROVE i = j
    BY DEF Distinct
  <2>1. CASE i \in 1..m /\ j \in 1..m
    <3>1. s[kept[i]] = s[kept[j]] /\ kept[i] \in 1..len /\ kept[j] \in 1..len
      BY <1>2, <1>4, <2>1
    <3>2. kept[i] = kept[j]
      BY <1>7, <3>1
    <3> QED
      BY <1>2, <2>1, <3>2
  <2>2. ASSUME NEW x \in (n + 1)..len, i = m + (x - n), j \in 1..m PROVE FALSE
    <3>1. s[x] = s[kept[j]] /\ x \in 1..len /\ kept[j] \in 1..n
      BY <1>1, <1>2, <1>4, <1>5, <2>2
    <3> QED
      BY <1>1, <1>2, <1>7, <2>2, <3>1
  <2>3. ASSUME NEW x \in (n + 1)..len, j = m + (x - n), i \in 1..m PROVE FALSE
    <3>1. s[x] = s[kept[i]] /\ x \in 1..len /\ kept[i] \in 1..n
      BY <1>1, <1>2, <1>4, <1>5, <2>3
    <3> QED
      BY <1>1, <1>2, <1>7, <2>3, <3>1
  <2>4. ASSUME NEW x \in (n + 1)..len, NEW y \in (n + 1)..len,
               i = m + (x - n), j = m + (y - n) PROVE i = j
    <3>1. s[x] = s[y] /\ x \in 1..len /\ y \in 1..len
      BY <1>1, <1>5, <2>4
    <3> QED
      BY <1>7, <2>4, <3>1
  <2> QED
    BY <1>6, <2>1, <2>2, <2>3, <2>4
<1>9. ASSUME NEW i \in DOMAIN rest
       PROVE  \E j \in DOMAIN s : rest[i] = s[j] /\ (j <= n => j \in D)
  <2>1. CASE i \in 1..m
    BY <1>1, <1>2, <1>3, <1>4, <2>1
  <2>2. ASSUME NEW x \in (n + 1)..len, i = m + (x - n)
        PROVE  \E j \in DOMAIN s : rest[i] = s[j] /\ (j <= n => j \in D)
    <3>1. x \in DOMAIN s /\ ~ (x <= n)
      BY <1>1, <1>3
    <3> QED
      BY <1>5, <2>2, <3>1
  <2> QED
    BY <1>6, <2>1, <2>2
<1>10. ASSUME NEW j \in DOMAIN s, j <= n => j \in D PROVE Contains(rest, s[j])
  <2>1. CASE j <= n
    <3>1. PICK k \in 1..m : kept[k] = j
      BY <1>2, <1>10, <2>1
    <3> QED
      BY <1>3, <1>4, <3>1 DEF Contains
  <2>2. CASE ~ (j <= n)
    <3>1. j \in (n + 1)..len
      BY <1>1, <1>3, <2>2
    <3>2. m + (j - n) \in DOMAIN rest /\ rest[m + (j - n)] = s[j]
      BY <1>5, <3>1
    <3> QED
      BY <1>3, <3>2 DEF Contains
  <2> QED
    BY <2>1, <2>2
<1> QED
  BY <1>8, <1>9, <1>10

\* A set of positions can be listed from first to last.
LEMMA PositionsInOrder ==
  ASSUME NEW n, n \in Nat, NEW D, D \in SUBSET (1..n)
  PROVE  IsFiniteSet(D) /\ \E s \in SetToSeqs(D) : \A i, j \in DOMAIN s : i < j => s[i] < s[j]
<1> DEFINE S == D
           R == {p \in S \X S : p[1] < p[2]}
<1>2. IsFiniteSet(S)
  <2>1. IsFiniteSet(1..n)
    BY FS_Interval
  <2> QED
    BY <2>1, FS_Subset
<1>3. R \in SUBSET (S \X S) /\ \A i, j \in S : << i, j >> \in R <=> i < j
  OBVIOUS
<1>4. \A i, j \in S : i \in Int /\ j \in Int
  OBVIOUS
<1> HIDE DEF R, S
<1>7. PICK q \in SetToSeqs(S) : \A i, j \in DOMAIN q : i < j => << q[i], q[j] >> \in R
  <2>1. \A i \in S : << i, i >> \notin R
    BY <1>3, <1>4
  <2>2. \A i, j \in S : i # j => << i, j >> \in R \/ << j, i >> \in R
    BY <1>3, <1>4
  <2>3. \A i, j, k \in S : << i, j >> \in R /\ << j, k >> \in R => << i, k >> \in R
    BY <1>3, <1>4
  <2>4. R \in SUBSET (S \X S)
    BY <1>3
  <2> QED
    BY <1>2, <2>1, <2>2, <2>3, <2>4, OrderExists
<1>8. \A i \in DOMAIN q : q[i] \in S
  BY DEF SetToSeqs
<1> QED
  BY <1>2, <1>3, <1>7, <1>8 DEF S

\* What PrefillBatch leaves of the pending list
KeptOf(n, D, kept, rest) ==
  /\ n \in 0..Len(pending) /\ D \in SUBSET (1..n) /\ IsFiniteSet(D) /\ kept \in SetToSeqs(D)
  /\ rest = [k \in DOMAIN kept |-> pending[kept[k]]] \o SubSeq(pending, n + 1, Len(pending))

LEMMA KeptList ==
  ASSUME pending \in Seq(Req), Distinct(pending), NEW n, NEW D, NEW kept, NEW rest,
         KeptOf(n, D, kept, rest)
  PROVE  /\ rest \in Seq(Req) /\ Distinct(rest)
         /\ \A i \in DOMAIN rest : \E j \in DOMAIN pending : rest[i] = pending[j] /\ (j <= n => j \in D)
         /\ \A j \in DOMAIN pending : (j <= n => j \in D) => Contains(rest, pending[j])
         /\ D # {} => rest # << >> /\ \E j \in D : rest[1] = pending[j]
<1> DEFINE m == Cardinality(D)
<1>0. /\ n \in 0..Len(pending) /\ D \in SUBSET (1..n) /\ IsFiniteSet(D) /\ kept \in SetToSeqs(D)
      /\ rest = [k \in DOMAIN kept |-> pending[kept[k]]] \o SubSeq(pending, n + 1, Len(pending))
  BY DEF KeptOf
<1>1. n \in Nat /\ D \in SUBSET (1..n) /\ DOMAIN pending = 1..Len(pending)
  BY <1>0
<1>10. /\ m \in Nat /\ kept \in [1..m -> D] /\ DOMAIN kept = 1..m
       /\ \A i, j \in 1..m : kept[i] = kept[j] => i = j
       /\ \A x \in D : \E i \in 1..m : kept[i] = x
  <2>1. /\ m \in Nat /\ kept \in [1..m -> D]
        /\ \A i, j \in DOMAIN kept : kept[i] = kept[j] => i = j
        /\ \A x \in D : \E i \in DOMAIN kept : kept[i] = x
    <3> HIDE DEF m
    <3>2. /\ Cardinality(D) \in Nat /\ kept \in [1..Cardinality(D) -> D]
          /\ \A i, j \in DOMAIN kept : kept[i] = kept[j] => i = j
          /\ \A x \in D : \E i \in DOMAIN kept : kept[i] = x
      BY <1>0, EnumerationFull
    <3> QED
      BY <3>2 DEF m
  <2> HIDE DEF m
  <2> QED
    BY <2>1
<1> HIDE DEF m
<1>11. rest = [k \in 1..m |-> pending[kept[k]]] \o SubSeq(pending, n + 1, Len(pending))
  BY <1>0, <1>10
<1> DEFINE first == [k \in 1..m |-> pending[kept[k]]]
           tail == SubSeq(pending, n + 1, Len(pending))
           len == Len(pending)
<1>12. /\ m \in Nat /\ len \in Nat /\ n \in 0..len
       /\ \A i \in 1..len : pending[i] \in Req
  <2>1. len \in Nat /\ n \in 0..len /\ \A i \in 1..len : pending[i] \in Req
    BY <1>0
  <2> QED
    BY <1>10, <2>1
<1>13. /\ first \in Seq(Req) /\ Len(first) = m /\ \A k \in 1..m : first[k] = pending[kept[k]]
  <2>1. \A k \in 1..m : kept[k] \in 1..n
    BY <1>1, <1>10
  <2>2. \A k \in 1..n : k \in 1..len
    BY <1>12
  <2>3. \A k \in 1..m : pending[kept[k]] \in Req
    BY <2>1, <2>2, <1>12
  <2>4. first = [k \in 1..m |-> pending[kept[k]]]
    OBVIOUS
  <2> HIDE DEF len, tail, first
  <2> QED
    BY <1>10, <2>3, <2>4
<1>14. /\ tail \in Seq(Req) /\ Len(tail) = len - n /\ \A k \in 1..(len - n) : tail[k] = pending[n + k]
  <2>1. tail = SubSeq(pending, n + 1, len)
    OBVIOUS
  <2>2. \A i \in (n + 1)..len : pending[i] \in Req
    BY <1>12
  <2> HIDE DEF tail, len, first
  <2>3. n + 1 \in Int /\ len \in Int
    BY <1>12
  <2>4. /\ tail \in Seq(Req)
        /\ Len(tail) = IF n + 1 <= len THEN len - (n + 1) + 1 ELSE 0
        /\ \A k \in 1..(len - (n + 1) + 1) : tail[k] = pending[(n + 1) + k - 1]
    BY <2>1, <2>2, <2>3, SubSeqProperties
  <2>5. len - (n + 1) + 1 = len - n /\ \A k \in 1..(len - n) : (n + 1) + k - 1 = n + k
    BY <1>12
  <2>6. Len(tail) = len - n
    BY <1>12, <2>4
  <2> QED
    BY <2>4, <2>5, <2>6
<1>15. rest = first \o tail
  BY <1>11
<1>16. Len(pending) = len
  OBVIOUS
<1> HIDE DEF first, tail, len
<1>17. /\ rest \in Seq(Req) /\ Len(rest) = m + (len - n)
       /\ \A k \in 1..(m + (len - n)) : rest[k] = IF k <= m THEN first[k] ELSE tail[k - m]
  <2>1. /\ first \o tail \in Seq(Req) /\ Len(first \o tail) = Len(first) + Len(tail)
        /\ \A k \in 1..(Len(first) + Len(tail)) :
             (first \o tail)[k] = IF k <= Len(first) THEN first[k] ELSE tail[k - Len(first)]
    BY <1>13, <1>14, ConcatProperties
  <2> QED
    BY <1>13, <1>14, <1>15, <2>1
<1>18. SelectedThenRest(pending, n, len, D, m, kept, rest)
  <2>1. ASSUME NEW k \in 1..m PROVE rest[k] = pending[kept[k]]
    <3>1. k <= m /\ k \in 1..(m + (len - n))
      BY <1>12
    <3> QED
      BY <1>13, <1>17, <3>1
  <2>2. ASSUME NEW j \in (n + 1)..len PROVE rest[m + (j - n)] = pending[j]
    <3>1. j - n \in 1..(len - n) /\ n + (j - n) = j /\ (m + (j - n)) - m = j - n
      BY <1>12
    <3>2. m + (j - n) \in 1..(m + (len - n)) /\ ~ (m + (j - n) <= m)
      BY <1>12
    <3> QED
      BY <1>14, <1>17, <3>1, <3>2
  <2> QED
    BY <1>1, <1>10, <1>12, <1>16, <1>17, <2>1, <2>2 DEF SelectedThenRest
<1>19. ASSUME D # {} PROVE rest # << >> /\ \E j \in D : rest[1] = pending[j]
  <2>1. 1 \in 1..m
    <3>1. PICK x : x \in D
      BY <1>19
    <3>2. PICK i \in 1..m : kept[i] = x
      BY <1>10, <3>1
    <3> QED
      BY <1>12, <3>2
  <2>2. rest[1] = pending[kept[1]] /\ kept[1] \in D
    BY <1>10, <1>18, <2>1 DEF SelectedThenRest
  <2>3. Len(rest) > 0
    BY <1>12, <1>17, <2>1
  <2> QED
    BY <2>2, <2>3
<1> QED
  <2> DEFINE s == pending  r == rest  l == n  E == D  q == kept
  <2>1. s \in Seq(Req) /\ Distinct(s) /\ r \in Seq(Req) /\ SelectedThenRest(s, l, len, E, m, q, r)
    BY <1>17, <1>18
  <2> HIDE DEF s, r, l, E, q
  <2>2. /\ Distinct(r)
        /\ \A i \in DOMAIN r : \E j \in DOMAIN s : r[i] = s[j] /\ (j <= l => j \in E)
        /\ \A j \in DOMAIN s : (j <= l => j \in E) => Contains(r, s[j])
    BY <2>1, PartsJoined
  <2> QED
    BY <1>19, <2>1, <2>2 DEF s, r, l, E, q
-----------------------------------------------------------------------------
(* Every action preserves the invariant. *)

\* Where a request stands in the batches depends on those and the loop only.
LEMMA StandingSame ==
  ASSUME UNCHANGED << pc, batch, last, at >>
  PROVE  /\ \A x : InLast(x)' <=> InLast(x)
         /\ \A x : Sampled(x)' <=> Sampled(x)
         /\ \A x : Ahead(x)' <=> Ahead(x)
         /\ \A x : Taken(x)' <=> Taken(x)
         /\ Preparing' <=> Preparing
<1>1. pc' = pc /\ batch' = batch /\ last' = last /\ at' = at
  OBVIOUS
<1>2. \A x : InLast(x)' <=> InLast(x)
  BY <1>1 DEF InLast, OpenIn
<1>3. \A x : Sampled(x)' <=> Sampled(x)
  BY <1>1 DEF Sampled, OpenIn
<1>4. Preparing' <=> Preparing
  BY <1>1 DEF Preparing
<1>5. \A x : (Ahead(x)' <=> Ahead(x)) /\ (Taken(x)' <=> Taken(x))
  BY <1>1, <1>4 DEF Ahead, Taken
<1> QED
  BY <1>2, <1>3, <1>4, <1>5

\* The lengths a request may have follow from its object and tokens and from where
\* it stands.
LEMMA LengthsKept ==
  ASSUME NEW r, obj'[r] = obj[r], tokens'[r] = tokens[r], r \in chunked' <=> r \in chunked,
         Ahead(r)' /\ batch'.prefill <=> Ahead(r) /\ batch.prefill,
         Taken(r)' <=> Taken(r), Unanswered(r)' = Unanswered(r)
  PROVE  LengthsOf(r)' <=> LengthsOf(r)
<1>1. Extending(r)' <=> Extending(r)
  BY DEF Extending
<1>2. BetweenChunks(r)' <=> BetweenChunks(r)
  BY DEF BetweenChunks
<1>3. Decoding(r)' <=> Decoding(r)
  BY DEF Decoding, Bit
<1> QED
  BY <1>1, <1>2, <1>3 DEF LengthsOf

LEMMA LengthsSame ==
  ASSUME UNCHANGED << pc, batch, last, at >>,
         NEW r, obj'[r] = obj[r], tokens'[r] = tokens[r], r \in chunked' <=> r \in chunked
  PROVE  LengthsOf(r)' <=> LengthsOf(r)
<1>1. /\ InLast(r)' <=> InLast(r)
      /\ Sampled(r)' <=> Sampled(r)
      /\ Ahead(r)' <=> Ahead(r)
      /\ Taken(r)' <=> Taken(r)
      /\ batch' = batch
  BY StandingSame
<1>2. Unanswered(r)' = Unanswered(r)
  BY <1>1 DEF Unanswered, Bit
<1> QED
  BY <1>1, <1>2, LengthsKept

LEMMA BatchEntries ==
  ASSUME NEW b \in BatchType
  PROVE  /\ b.prefill \in BOOLEAN
         /\ b.items \in Seq([req : Req, chunk : BOOLEAN, pos : Nat])
         /\ Len(b.items) \in Nat /\ DOMAIN b.items = 1..Len(b.items)
         /\ \A i \in DOMAIN b.items : /\ b.items[i].req \in Req
                                      /\ b.items[i].chunk \in BOOLEAN
                                      /\ b.items[i].pos \in Nat
<1>1. b.items \in Seq([req : Req, chunk : BOOLEAN, pos : Nat]) /\ b.prefill \in BOOLEAN
  BY DEF BatchType
<1>2. \A i \in DOMAIN b.items : b.items[i] \in [req : Req, chunk : BOOLEAN, pos : Nat]
  <2> DEFINE E == [req : Req, chunk : BOOLEAN, pos : Nat]
             s == b.items
  <2>1. s \in Seq(E)
    BY <1>1
  <2> HIDE DEF E, s
  <2>2. \A i \in DOMAIN s : s[i] \in E
    BY <2>1
  <2> QED
    BY <2>2 DEF E, s
<1> QED
  BY <1>1, <1>2

LEMMA EmptyBatch ==
  /\ NoBatch \in BatchType /\ NoBatch.items = << >> /\ DOMAIN NoBatch.items = {}
  /\ Len(NoBatch.items) = 0
BY DEF NoBatch, BatchType

\* A request that holds nothing changes its place: it is queued, refused, or leaves
\* the queue.
LEMMA WaitingStep ==
  ASSUME IInv, NEW r \in Req, pc = "receive",
         stage[r] \in {"unsent", "pending"}, r \notin chunked,
         NEW v \in {"pending", "gone"}, stage' = [stage EXCEPT ![r] = v],
         pending' \in Seq(Req), Distinct(pending'),
         \A x \in Req : Contains(pending', x) <=> IF x = r THEN v = "pending" ELSE Contains(pending, x),
         UNCHANGED << pc, memory, chunked, running, finished_reqs, newly,
                      obj, tokens, sent, loop >>
  PROVE  IInv'
<1>1. /\ TypeOK /\ Queue /\ ThisBatch /\ LastBatch /\ Slots /\ Decoders /\ Fresh
      /\ \A x \in Req : Live(x) => LengthsOf(x)
  BY DEF IInv
<1>2. /\ pc' = pc /\ chunked' = chunked /\ running' = running
      /\ finished_reqs' = finished_reqs /\ newly' = newly /\ obj' = obj /\ tokens' = tokens
      /\ sent' = sent /\ adder' = adder /\ batch' = batch /\ last' = last /\ at' = at
      /\ cache' = cache /\ table_free' = table_free /\ page_table' = page_table
  BY DEF loop, memory
<1>3. /\ pending \in Seq(Req) /\ stage \in [Req -> {"unsent", "pending", "gone", "admitted",
                                                    "committed", "finished", "aborted"}]
  BY <1>1 DEF TypeOK
<1>4. /\ stage' \in [Req -> {"unsent", "pending", "gone", "admitted",
                             "committed", "finished", "aborted"}]
      /\ \A x \in Req : x # r => stage'[x] = stage[x]
      /\ stage'[r] = v
  BY <1>3
<1>5. TypeOK'
  BY <1>1, <1>2, <1>4 DEF TypeOK
<1>6. \A x \in Req : Live(x)' <=> Live(x)
  BY <1>2, <1>4 DEF Live
<1>7. Queue'
  <2>1. \A x \in Req : stage'[x] = "pending" \/ x \in chunked => Contains(pending', x)
    BY <1>1, <1>4 DEF Queue
  <2>2. ASSUME NEW i \in DOMAIN pending'
        PROVE  stage'[pending'[i]] = IF pending'[i] \in chunked THEN "admitted" ELSE "pending"
    <3>1. pending'[i] \in Req /\ Contains(pending', pending'[i])
      BY DEF Contains
    <3>2. CASE pending'[i] = r
      BY <1>4, <3>1, <3>2
    <3>3. CASE pending'[i] # r
      <4>1. PICK j \in DOMAIN pending : pending[j] = pending'[i]
        BY <1>3, <3>1, <3>3 DEF Contains
      <4>2. stage[pending[j]] = IF pending[j] \in chunked THEN "admitted" ELSE "pending"
        BY <1>1 DEF Queue
      <4> QED
        BY <1>4, <3>1, <3>3, <4>1, <4>2
    <3> QED
      BY <3>2, <3>3
  <2> QED
    BY <1>2, <2>1, <2>2 DEF Queue
<1>8. /\ \A x : InLast(x)' <=> InLast(x)
      /\ \A x : Sampled(x)' <=> Sampled(x)
      /\ \A x : Ahead(x)' <=> Ahead(x)
      /\ \A x : Taken(x)' <=> Taken(x)
      /\ Preparing' <=> Preparing
  BY <1>2, StandingSame
<1>9. ThisBatch'
  <2>1. batch = NoBatch /\ DOMAIN batch.items = {} /\ ~ Preparing
    BY <1>1, EmptyBatch DEF ThisBatch, Preparing
  <2>2. \A x \in Req : ~ Sampled(x)
    BY DEF Sampled
  <2> QED
    BY <1>1, <1>2, <1>8, <2>1, <2>2 DEF ThisBatch, OncePerBatch
<1>10. LastBatch'
  <2>1. \A i \in DOMAIN last.items : last.items[i].req \in Req
    BY <1>1, BatchEntries DEF TypeOK
  <2>2. \A i \in DOMAIN last.items :
          /\ stage'[last.items[i].req] \notin {"unsent", "pending", "gone"}
          /\ ~ last.items[i].chunk => ~ Contains(pending', last.items[i].req)
    BY <1>1, <1>4, <2>1 DEF LastBatch
  <2>3. \A x \in Req : InLast(x) => IF last.prefill THEN stage'[x] = "admitted"
                                    ELSE Live(x)' \/ x \in finished_reqs
    BY <1>1, <1>4, <1>6 DEF LastBatch, Live
  <2>4. \A x \in finished_reqs \cup newly : stage'[x] = "finished"
    BY <1>1, <1>4 DEF LastBatch, TypeOK
  <2> QED
    BY <1>1, <1>2, <1>8, <2>2, <2>3, <2>4 DEF LastBatch, OncePerBatch, Results
<1>11. Slots'
  BY <1>1, <1>2, <1>6 DEF Slots
<1>12. Decoders'
  <2>1. \A x \in running : x \in Req /\ x # r
    BY <1>1 DEF Decoders, TypeOK, Live
  <2>2. \A x \in Req : CanDecode(x)' <=> CanDecode(x)
    BY <1>2 DEF CanDecode, RemainLen
  <2> QED
    BY <1>1, <1>2, <1>6, <1>8, <2>1, <2>2 DEF Decoders
<1>13. \A x \in Req : Live(x)' => LengthsOf(x)'
  BY <1>1, <1>2, <1>6, LengthsSame
<1>14. Fresh'
  BY <1>1, <1>2, <1>4 DEF Fresh
<1> QED
  BY <1>5, <1>7, <1>9, <1>10, <1>11, <1>12, <1>13, <1>14 DEF IInv

LEMMA HandleUserStep ==
  ASSUME IInv, NEW r \in Req, HandleUser(r) PROVE IInv'
<1>1. TypeOK /\ Queue
  BY DEF IInv
<1>2. /\ pc = "receive" /\ stage[r] = "unsent"
      /\ UNCHANGED << pc, memory, chunked, running, finished_reqs, newly, obj, tokens, sent, loop >>
  BY DEF HandleUser
<1>3. pending \in Seq(Req)
  BY <1>1 DEF TypeOK
<1>4. ~ Contains(pending, r) /\ r \notin chunked /\ Distinct(pending)
  BY <1>1, <1>2, <1>3 DEF Queue, Contains
<1>5. CASE pending' = Append(pending, r) /\ stage' = [stage EXCEPT ![r] = "pending"]
  <2>1. /\ pending' \in Seq(Req) /\ Distinct(pending')
        /\ \A x : Contains(pending', x) <=> Contains(pending, x) \/ x = r
    BY <1>3, <1>4, <1>5, ContainsAppend, DistinctAppend
  <2> QED
    BY <1>2, <1>4, <1>5, <2>1, WaitingStep
<1>6. CASE pending' = pending /\ stage' = [stage EXCEPT ![r] = "gone"]
  BY <1>2, <1>3, <1>4, <1>6, WaitingStep
<1> QED
  BY <1>5, <1>6 DEF HandleUser

LEMMA AbortWaitingStep ==
  ASSUME IInv, NEW r \in Req, AbortWaiting(r) PROVE IInv'
<1>1. TypeOK /\ Queue
  BY DEF IInv
<1>2. /\ pc = "receive" /\ Contains(pending, r) /\ r \notin chunked
      /\ pending' = RemoveFirst(pending, r) /\ stage' = [stage EXCEPT ![r] = "gone"]
      /\ UNCHANGED << pc, memory, chunked, running, finished_reqs, newly, obj, tokens, sent, loop >>
  BY DEF AbortWaiting
<1>3. pending \in Seq(Req) /\ Distinct(pending)
  BY <1>1 DEF TypeOK, Queue
<1>4. stage[r] = "pending"
  BY <1>1, <1>2, <1>3 DEF Queue, Contains
<1>5. /\ pending' \in Seq(Req) /\ Distinct(pending')
      /\ \A x : Contains(pending', x) <=> Contains(pending, x) /\ x # r
  BY <1>2, <1>3, RemoveOnce
<1> QED
  BY <1>2, <1>4, <1>5, WaitingStep
LEMMA BitType == \A P \in BOOLEAN : Bit(P) \in 0..1
BY DEF Bit

LEMMA RequestFacts ==
  ASSUME TypeOK, NEW r \in Req
  PROVE  /\ Prompt[r] \in Seq(Token) /\ InputLen(r) \in Nat /\ InputLen(r) > 0
         /\ tokens[r] \in Seq(Token) /\ Len(tokens[r]) \in Nat
         /\ obj[r].slot \in Nat /\ obj[r].cached \in Nat
         /\ obj[r].device \in Nat /\ obj[r].host \in Nat
         /\ stage[r] \in {"unsent", "pending", "gone", "admitted", "committed", "finished", "aborted"}
<1>1. Prompt[r] \in Seq(Token) /\ Prompt[r] # << >>
  BY RequestAssumption
<1>2. InputLen(r) \in Nat /\ InputLen(r) > 0
  BY <1>1 DEF InputLen
<1>3. tokens[r] \in Seq(Token) /\ Len(tokens[r]) \in Nat
  BY DEF TypeOK
<1>4. obj[r] \in [slot : Nat, cached : Nat, device : Nat, host : Nat, handle : Seq(Block)]
  BY DEF TypeOK
<1>5. /\ obj[r].slot \in Nat /\ obj[r].cached \in Nat
      /\ obj[r].device \in Nat /\ obj[r].host \in Nat
  BY <1>4
<1>6. stage[r] \in {"unsent", "pending", "gone", "admitted", "committed", "finished", "aborted"}
  BY DEF TypeOK
<1> QED
  BY <1>1, <1>2, <1>3, <1>5, <1>6

\* What a live request has computed are tokens it has.
LEMMA CachedKnown ==
  ASSUME TypeOK, NEW r \in Req, LengthsOf(r)
  PROVE  obj[r].cached <= Len(tokens[r])
<1>1. CASE Extending(r)
  BY <1>1, RequestFacts DEF Extending, InputLen
<1>2. CASE BetweenChunks(r)
  BY <1>2, RequestFacts DEF BetweenChunks, InputLen
<1>3. CASE Decoding(r)
  BY <1>3, RequestFacts DEF Decoding, Bit
<1> QED
  BY <1>1, <1>2, <1>3 DEF LengthsOf

LEMMA ComputedType ==
  ASSUME TypeOK, NEW r \in Req, LengthsOf(r), NEW host \in Nat
  PROVE  Computed(r, host) \in Seq(Block)
<1> DEFINE n == Smaller(obj[r].cached, host)
           s == SubSeq(tokens[r], 1, n)
<1>1. n \in 0..Len(tokens[r])
  BY CachedKnown, RequestFacts DEF Smaller
<1>2. s \in Seq(Token)
  <2> HIDE DEF n
  <2> QED
    BY <1>1, RequestFacts, PrefixSegment
<1>3. Computed(r, host) = Blocks(s)
  BY DEF Computed
<1> HIDE DEF s
<1> QED
  BY <1>2, <1>3, BlocksTyped DEF Block

\* The end of a request leaves a cache of block paths.
LEMMA FreedCache ==
  ASSUME TypeOK, NEW r \in Req, LengthsOf(r), NEW host \in Nat, FreeResources(r, host)
  PROVE  /\ Paths(cache') \subseteq Seq(Block)
         /\ table_free' = Append(table_free, obj[r].slot)
<1>1. /\ cache' = Unlock(Insert(cache, Computed(r, host), Row(r)), obj[r].handle)
      /\ table_free' = Append(table_free, obj[r].slot)
  BY DEF FreeResources
<1>2. Computed(r, host) \in Seq(Block) /\ Paths(cache) \subseteq Seq(Block)
  BY ComputedType DEF TypeOK
<1>3. Paths(Insert(cache, Computed(r, host), Row(r))) \subseteq Seq(Block)
  BY <1>2, PathsTyped
<1> QED
  BY <1>1, <1>3, PathsTyped

\* The slot of a request that ends is free, and nobody else's.
LEMMA SlotFreed ==
  ASSUME TypeOK, Slots, NEW r \in Req, Live(r),
         table_free' = Append(table_free, obj[r].slot),
         \A x \in Req : Live(x)' <=> Live(x) /\ x # r,
         \A x \in Req : obj'[x].slot = obj[x].slot
  PROVE  Slots' /\ table_free' \in Seq(Slot)
<1> DEFINE w == obj[r].slot
<1>1. table_free \in Seq(Slot) /\ w \in Slot /\ ~ Contains(table_free, w) /\ Distinct(table_free)
  BY DEF TypeOK, Slots
<1>2. /\ table_free' \in Seq(Slot) /\ Distinct(table_free')
      /\ \A x : Contains(table_free', x) <=> Contains(table_free, x) \/ x = w
  BY <1>1, ContainsAppend, DistinctAppend
<1>3. \A x \in Req : Live(x)' => obj'[x].slot \in Slot /\ ~ Contains(table_free', obj'[x].slot)
  BY <1>2 DEF Slots
<1>4. \A x, y \in Req : Live(x)' /\ Live(y)' /\ obj'[x].slot = obj'[y].slot => x = y
  BY DEF Slots
<1>5. \A s \in Slot : Contains(table_free', s) \/ \E x \in Req : Live(x)' /\ obj'[x].slot = s
  BY <1>2 DEF Slots
<1> QED
  BY <1>2, <1>3, <1>4, <1>5 DEF Slots

\* A live request is aborted.
LEMMA AbortStep ==
  ASSUME IInv, NEW r \in Req, pc = "receive", Live(r), ~ InLast(r),
         FreeResources(r, obj[r].host), stage' = [stage EXCEPT ![r] = "aborted"],
         pending' \in Seq(Req), Distinct(pending'),
         \A x \in Req : Contains(pending', x) <=> Contains(pending, x) /\ x # r,
         chunked' = chunked \ {r}, running' = running \ {r},
         UNCHANGED << pc, kv, page_table, finished_reqs, newly, obj, tokens, sent, loop >>
  PROVE  IInv'
<1>1. /\ TypeOK /\ Queue /\ ThisBatch /\ LastBatch /\ Slots /\ Decoders /\ Fresh
      /\ \A x \in Req : Live(x) => LengthsOf(x)
  BY DEF IInv
<1>2. /\ pc' = pc /\ finished_reqs' = finished_reqs /\ newly' = newly /\ obj' = obj
      /\ tokens' = tokens /\ sent' = sent /\ adder' = adder /\ batch' = batch /\ last' = last
      /\ at' = at /\ page_table' = page_table
  BY DEF loop
<1>3. /\ pending \in Seq(Req) /\ stage \in [Req -> {"unsent", "pending", "gone", "admitted",
                                                    "committed", "finished", "aborted"}]
      /\ obj[r].host \in Nat
  BY <1>1, RequestFacts DEF TypeOK
<1>4. /\ stage' \in [Req -> {"unsent", "pending", "gone", "admitted",
                             "committed", "finished", "aborted"}]
      /\ \A x \in Req : x # r => stage'[x] = stage[x]
      /\ stage'[r] = "aborted"
  BY <1>3
<1>5. \A x \in Req : Live(x)' <=> Live(x) /\ x # r
  BY <1>2, <1>4 DEF Live
<1>6. Paths(cache') \subseteq Seq(Block) /\ table_free' = Append(table_free, obj[r].slot)
  BY <1>1, <1>3, FreedCache
<1>7. Slots' /\ table_free' \in Seq(Slot)
  BY <1>1, <1>2, <1>5, <1>6, SlotFreed
<1>8. TypeOK'
  BY <1>1, <1>2, <1>4, <1>6, <1>7 DEF TypeOK
<1>9. Queue'
  <2>1. \A x \in Req : stage'[x] = "pending" \/ x \in chunked' => Contains(pending', x)
    BY <1>1, <1>4 DEF Queue
  <2>2. ASSUME NEW i \in DOMAIN pending'
        PROVE  stage'[pending'[i]] = IF pending'[i] \in chunked' THEN "admitted" ELSE "pending"
    <3>1. pending'[i] \in Req /\ Contains(pending', pending'[i])
      BY DEF Contains
    <3>2. PICK j \in DOMAIN pending : pending[j] = pending'[i] /\ pending[j] # r
      BY <1>3, <3>1 DEF Contains
    <3>3. stage[pending[j]] = IF pending[j] \in chunked THEN "admitted" ELSE "pending"
      BY <1>1 DEF Queue
    <3> QED
      BY <1>4, <3>1, <3>2, <3>3
  <2> QED
    BY <1>2, <2>1, <2>2 DEF Queue
<1>10. /\ \A x : InLast(x)' <=> InLast(x)
       /\ \A x : Sampled(x)' <=> Sampled(x)
       /\ \A x : Ahead(x)' <=> Ahead(x)
       /\ \A x : Taken(x)' <=> Taken(x)
       /\ Preparing' <=> Preparing
  BY <1>2, StandingSame
<1>11. ThisBatch'
  <2>1. batch = NoBatch /\ DOMAIN batch.items = {} /\ ~ Preparing
    BY <1>1, EmptyBatch DEF ThisBatch, Preparing
  <2>2. \A x \in Req : ~ Sampled(x)
    BY DEF Sampled
  <2> QED
    BY <1>1, <1>2, <1>10, <2>1, <2>2 DEF ThisBatch, OncePerBatch
<1>12. LastBatch'
  <2>1. \A i \in DOMAIN last.items : last.items[i].req \in Req
    BY <1>1, BatchEntries DEF TypeOK
  <2>2. \A i \in DOMAIN last.items :
          /\ stage'[last.items[i].req] \notin {"unsent", "pending", "gone"}
          /\ ~ last.items[i].chunk => ~ Contains(pending', last.items[i].req)
    BY <1>1, <1>4, <2>1 DEF LastBatch
  <2>3. \A x \in Req : InLast(x) => IF last.prefill THEN stage'[x] = "admitted"
                                    ELSE Live(x)' \/ x \in finished_reqs
    BY <1>1, <1>4, <1>5 DEF LastBatch, Live
  <2>4. \A x \in finished_reqs \cup newly : stage'[x] = "finished"
    BY <1>1, <1>4 DEF LastBatch, TypeOK, Live
  <2> QED
    BY <1>1, <1>2, <1>10, <2>2, <2>3, <2>4 DEF LastBatch, OncePerBatch, Results
<1>13. Decoders'
  <2>1. \A x \in Req : CanDecode(x)' <=> CanDecode(x)
    BY <1>2 DEF CanDecode, RemainLen
  <2>2. running \subseteq Req
    BY <1>1 DEF TypeOK
  <2> QED
    BY <1>1, <1>2, <1>5, <1>10, <2>1, <2>2 DEF Decoders
<1>14. \A x \in Req : Live(x)' => LengthsOf(x)'
  <2> SUFFICES ASSUME NEW x \in Req, Live(x)' PROVE LengthsOf(x)'
    OBVIOUS
  <2>1. x # r /\ LengthsOf(x) /\ (x \in chunked' <=> x \in chunked)
    BY <1>1, <1>5
  <2> QED
    BY <1>2, <2>1, LengthsSame
<1>15. Fresh'
  BY <1>1, <1>2, <1>4 DEF Fresh
<1> QED
  BY <1>7, <1>8, <1>9, <1>11, <1>12, <1>13, <1>14, <1>15 DEF IInv

LEMMA AbortChunkedStep ==
  ASSUME IInv, NEW r \in Req, AbortChunked(r) PROVE IInv'
<1>1. TypeOK /\ Queue /\ LastBatch /\ Decoders
  BY DEF IInv
<1>2. /\ pc = "receive" /\ Contains(pending, r) /\ r \in chunked /\ FreeResources(r, obj[r].host)
      /\ pending' = RemoveFirst(pending, r) /\ chunked' = chunked \ {r} /\ running' = running
      /\ stage' = [stage EXCEPT ![r] = "aborted"]
      /\ UNCHANGED << pc, kv, page_table, finished_reqs, newly, obj, tokens, sent, loop >>
  BY DEF AbortChunked
<1>3. pending \in Seq(Req) /\ Distinct(pending)
  BY <1>1 DEF TypeOK, Queue
<1>4. Live(r)
  BY <1>1, <1>2, <1>3 DEF Queue, Contains, Live
<1>5. ~ InLast(r)
  BY <1>1, <1>2 DEF LastBatch, InLast, OpenIn
<1>6. /\ pending' \in Seq(Req) /\ Distinct(pending')
      /\ \A x : Contains(pending', x) <=> Contains(pending, x) /\ x # r
  BY <1>2, <1>3, RemoveOnce
<1>7. running' = running \ {r}
  BY <1>1, <1>2 DEF Decoders
<1> QED
  BY <1>2, <1>4, <1>5, <1>6, <1>7, AbortStep

LEMMA AbortRunningStep ==
  ASSUME IInv, SafeAborts, NEW r \in Req, AbortRunning(r) PROVE IInv'
<1>1. TypeOK /\ Queue /\ LastBatch /\ Decoders
  BY DEF IInv
<1>2. /\ pc = "receive" /\ r \in running /\ FreeResources(r, obj[r].host)
      /\ pending' = pending /\ chunked' = chunked /\ running' = running \ {r}
      /\ stage' = [stage EXCEPT ![r] = "aborted"]
      /\ UNCHANGED << pc, kv, page_table, finished_reqs, newly, obj, tokens, sent, loop >>
  BY DEF AbortRunning
<1>3. pending \in Seq(Req) /\ Distinct(pending)
  BY <1>1 DEF TypeOK, Queue
<1>4. Live(r) /\ ~ Contains(pending, r)
  BY <1>1, <1>2 DEF Decoders
<1>5. ~ InLast(r)
  <2>1. CASE Overlap
    <3>1. r \notin InBatch(last)
      BY <2>1 DEF AbortRunning, SafeAborts
    <3> QED
      BY <3>1 DEF InBatch, InLast, OpenIn
  <2>2. CASE ~ Overlap
    <3>1. last = NoBatch
      BY <1>1, <2>2 DEF LastBatch
    <3> QED
      BY <3>1, EmptyBatch DEF InLast, OpenIn
  <2> QED
    BY <2>1, <2>2
<1>6. r \notin chunked
  BY <1>1, <1>4 DEF Queue
<1>7. chunked' = chunked \ {r}
  BY <1>2, <1>6
<1>8. \A x \in Req : Contains(pending', x) <=> Contains(pending, x) /\ x # r
  BY <1>2, <1>4
<1> QED
  BY <1>2, <1>3, <1>4, <1>5, <1>7, <1>8, AbortStep
\* With no batch under way nobody stands in one.
LEMMA NoStanding ==
  ASSUME batch = NoBatch, last' = last, batch' = NoBatch,
         pc # "process", pc' # "process"
  PROVE  /\ \A x : InLast(x)' <=> InLast(x)
         /\ \A x : ~ Sampled(x) /\ ~ Sampled(x)'
         /\ \A x : ~ Ahead(x) /\ ~ Ahead(x)' /\ ~ Taken(x) /\ ~ Taken(x)'
         /\ \A x : Unanswered(x)' = Unanswered(x)
<1>1. \A x : InLast(x)' <=> InLast(x)
  BY DEF InLast, OpenIn
<1>2. \A x : ~ Sampled(x) /\ ~ Sampled(x)'
  BY DEF Sampled
<1>3. \A x : ~ Ahead(x) /\ ~ Ahead(x)' /\ ~ Taken(x) /\ ~ Taken(x)'
  BY EmptyBatch DEF Ahead, Taken
<1>4. \A x : Unanswered(x)' = Unanswered(x)
  BY <1>1, <1>2 DEF Unanswered, Bit
<1> QED
  BY <1>1, <1>2, <1>3, <1>4

LEMMA ScheduleStep ==
  ASSUME IInv, Schedule PROVE IInv'
<1>1. /\ TypeOK /\ Queue /\ ThisBatch /\ LastBatch /\ Slots /\ Decoders /\ Fresh
      /\ \A x \in Req : Live(x) => LengthsOf(x)
  BY DEF IInv
<1>2. /\ pc = "receive" /\ pc' = "add"
      /\ pending' = IF Strategy = "priority" THEN SortedPending ELSE pending
      /\ adder' = [budget |-> Budget, reserved |-> InflightTokens]
      /\ cache' = cache /\ table_free' = table_free /\ page_table' = page_table
      /\ chunked' = chunked /\ running' = running
      /\ finished_reqs' = finished_reqs /\ newly' = newly /\ obj' = obj /\ stage' = stage
      /\ tokens' = tokens /\ sent' = sent /\ batch' = batch /\ last' = last /\ at' = at
  BY DEF Schedule, memory
<1>3. batch = NoBatch /\ DOMAIN batch.items = {} /\ Len(batch.items) = 0 /\ at = 1
  BY <1>1, <1>2, EmptyBatch DEF ThisBatch
<1>4. pending \in Seq(Req) /\ Distinct(pending)
  BY <1>1 DEF TypeOK, Queue
<1>5. /\ pending' \in Seq(Req) /\ Distinct(pending')
      /\ \A x : Contains(pending', x) <=> Contains(pending, x)
  BY <1>2, <1>4, SortedSame
<1>6. \A x \in Req : Live(x)' <=> Live(x)
  BY <1>2 DEF Live
<1>7. TypeOK'
  <2>1. adder'.budget \in Nat
    BY <1>2, ConfigAssumption
  <2> QED
    BY <1>1, <1>2, <1>5, <2>1 DEF TypeOK
<1>8. Queue'
  <2>1. \A x \in Req : stage[x] = "pending" \/ x \in chunked => Contains(pending', x)
    BY <1>1, <1>5 DEF Queue
  <2>2. ASSUME NEW i \in DOMAIN pending'
        PROVE  stage[pending'[i]] = IF pending'[i] \in chunked THEN "admitted" ELSE "pending"
    <3>1. Contains(pending', pending'[i])
      BY <1>5 DEF Contains
    <3>3. Contains(pending, pending'[i])
      BY <1>5, <3>1
    <3>2. PICK j \in DOMAIN pending : pending[j] = pending'[i]
      BY <1>4, <3>3 DEF Contains
    <3> QED
      BY <1>1, <1>2, <3>2 DEF Queue
  <2>3. ASSUME NEW i \in DOMAIN pending' PROVE ~ (i <= Len(batch'.items))
    <3>1. i \in Nat /\ i >= 1
      BY <1>5
    <3> QED
      BY <1>2, <1>3, <3>1
  <2>4. Len(batch'.items) <= Len(pending')
    BY <1>2, <1>3, <1>5
  <2> QED
    BY <1>2, <1>5, <2>1, <2>2, <2>3, <2>4 DEF Queue
<1>9. /\ \A x : InLast(x)' <=> InLast(x)
      /\ \A x : ~ Sampled(x) /\ ~ Sampled(x)'
      /\ \A x : ~ Ahead(x) /\ ~ Ahead(x)' /\ ~ Taken(x) /\ ~ Taken(x)'
      /\ \A x : Unanswered(x)' = Unanswered(x)
  BY <1>2, <1>3, NoStanding
<1>10. ThisBatch'
  BY <1>2, <1>3, <1>9 DEF ThisBatch, OncePerBatch
<1>11. LastBatch'
  <2>1. newly = {}
    BY <1>1, <1>2 DEF LastBatch
  <2>2. \A i \in DOMAIN last.items :
          /\ stage[last.items[i].req] \notin {"unsent", "pending", "gone"}
          /\ ~ last.items[i].chunk => ~ Contains(pending', last.items[i].req)
    BY <1>1, <1>5 DEF LastBatch
  <2>3. \A x \in Req : InLast(x) => IF last.prefill THEN stage[x] = "admitted"
                                    ELSE Live(x) \/ x \in finished_reqs
    BY <1>1 DEF LastBatch
  <2> QED
    BY <1>1, <1>2, <1>6, <1>9, <2>1, <2>2, <2>3 DEF LastBatch, OncePerBatch
<1>12. Slots'
  BY <1>1, <1>2, <1>6 DEF Slots
<1>13. Decoders'
  <2>1. \A x \in Req : CanDecode(x)' <=> CanDecode(x)
    BY <1>2 DEF CanDecode, RemainLen
  <2>2. running \subseteq Req
    BY <1>1 DEF TypeOK
  <2> QED
    BY <1>1, <1>2, <1>5, <1>6, <1>9, <2>1, <2>2 DEF Decoders
<1>14. \A x \in Req : Live(x)' => LengthsOf(x)'
  BY <1>1, <1>2, <1>6, <1>9, LengthsKept
<1>15. Fresh'
  BY <1>1, <1>2 DEF Fresh
<1> QED
  BY <1>7, <1>8, <1>10, <1>11, <1>12, <1>13, <1>14, <1>15 DEF IInv
\* The list is at its end, or pages are about to be taken: nothing but the cache
\* and the free pages change.
LEMMA OnwardStep ==
  ASSUME IInv, pc \in {"add", "allocate", "take"},
         IF pc = "add" THEN pc' \in {"added", "ended"} ELSE pc' = "take",
         Paths(cache') \subseteq Seq(Block),
         UNCHANGED << table_free, page_table, queues, obj, stage, tokens, sent, loop >>
  PROVE  IInv'
<1>1. /\ TypeOK /\ Queue /\ ThisBatch /\ LastBatch /\ Slots /\ Decoders /\ Fresh
      /\ \A x \in Req : Live(x) => LengthsOf(x)
  BY DEF IInv
<1>2. /\ table_free' = table_free /\ page_table' = page_table /\ pending' = pending
      /\ chunked' = chunked /\ running' = running /\ finished_reqs' = finished_reqs
      /\ newly' = newly /\ obj' = obj /\ stage' = stage /\ tokens' = tokens /\ sent' = sent
      /\ adder' = adder /\ batch' = batch /\ last' = last /\ at' = at
  BY DEF queues, loop
<1>3. TypeOK'
  BY <1>1, <1>2 DEF TypeOK
<1>4. \A x \in Req : Live(x)' <=> Live(x)
  BY <1>2 DEF Live
<1>5. Queue'
  BY <1>1, <1>2 DEF Queue
<1>6. /\ \A x : InLast(x)' <=> InLast(x)
      /\ \A x : ~ Sampled(x) /\ ~ Sampled(x)'
      /\ \A x : Ahead(x)' <=> Ahead(x)
      /\ \A x : Taken(x)' <=> Taken(x)
      /\ Preparing /\ Preparing'
  BY <1>2 DEF InLast, Sampled, OpenIn, Ahead, Taken, Preparing
<1>7. \A x : Unanswered(x)' = Unanswered(x)
  BY <1>6 DEF Unanswered, Bit
<1>8. ThisBatch'
  <2>1. \A i \in DOMAIN batch.items : batch.items[i].req \in Req
    BY <1>1, BatchEntries DEF TypeOK
  <2>2. \A i \in DOMAIN batch.items : ThisEntry(batch.items[i])'
    BY <1>1, <1>2, <1>4, <1>6, <2>1 DEF ThisBatch, ThisEntry
  <2> QED
    BY <1>1, <1>2, <1>6, <2>2 DEF ThisBatch, OncePerBatch
<1>9. LastBatch'
  BY <1>1, <1>2, <1>4, <1>6 DEF LastBatch, OncePerBatch
<1>10. Slots'
  BY <1>1, <1>2, <1>4 DEF Slots
<1>11. Decoders'
  <2>1. \A x \in Req : CanDecode(x)' <=> CanDecode(x)
    BY <1>2 DEF CanDecode, RemainLen
  <2>2. running \subseteq Req
    BY <1>1 DEF TypeOK
  <2> QED
    BY <1>1, <1>2, <1>4, <1>6, <2>1, <2>2 DEF Decoders
<1>12. \A x \in Req : Live(x)' => LengthsOf(x)'
  BY <1>1, <1>2, <1>4, <1>6, <1>7, LengthsKept
<1>13. Fresh'
  BY <1>1, <1>2 DEF Fresh
<1> QED
  BY <1>3, <1>5, <1>8, <1>9, <1>10, <1>11, <1>12, <1>13 DEF IInv

\* Where the cached prefix of a waiting request ends: before its last token
LEMMA MatchReqType ==
  ASSUME TypeOK, NEW r \in Req
  PROVE  /\ MatchReq(r) \in Seq(Block)
         /\ PageSize * Len(MatchReq(r)) \in Nat
         /\ PageSize * Len(MatchReq(r)) < InputLen(r)
<1> DEFINE n == InputLen(r) - 1
           s == SubSeq(Prompt[r], 1, n)
           b == Blocks(s)
           h == MatchReq(r)
<1>1. n \in Nat /\ n \in 0..Len(Prompt[r]) /\ Prompt[r] \in Seq(Token)
  BY RequestFacts DEF InputLen
<1>2. s \in Seq(Token) /\ Len(s) = n
  <2> HIDE DEF n
  <2> QED
    BY <1>1, PrefixSegment
<1>3. h = Matched(cache, b)
  BY DEF MatchReq, InputLen
<1> HIDE DEF s, h
<1>4. b \in Seq(Block) /\ Len(b) = n \div PageSize
  BY <1>2, BlocksTyped DEF Block
<1> HIDE DEF b
<1>5. h \in Seq(Block) /\ IsPrefix(h, b)
  BY <1>3, <1>4, MatchedPrefix DEF TypeOK
<1>6. Len(h) \in Nat /\ Len(h) <= n \div PageSize
  BY <1>4, <1>5, PrefixIsSegment
<1>7. PageSize * Len(h) \in Nat /\ PageSize * Len(h) <= n
  <2> HIDE DEF n
  <2> QED
    BY <1>1, <1>6, PageSizeAssumption, DivBelow
<1> QED
  BY <1>5, <1>7, RequestFacts DEF h

\* The request that is looked at, with its place in the list
LEMMA ConsideredFacts ==
  ASSUME TypeOK, Queue, ThisBatch, NEW r \in Considered, pc = "add"
  PROVE  /\ r \in Req /\ Contains(pending, r)
         /\ Len(batch.items) + 1 \in DOMAIN pending /\ r = pending[Len(batch.items) + 1]
         /\ stage[r] = IF r \in chunked THEN "admitted" ELSE "pending"
         /\ \A i \in DOMAIN batch.items : batch.items[i].req # r
<1> DEFINE n == Len(batch.items)
<1>1. n \in Nat /\ DOMAIN batch.items = 1..n /\ pending \in Seq(Req)
  BY BatchEntries DEF TypeOK
<1>2. n + 1 \in DOMAIN pending /\ r = pending[n + 1]
  BY DEF Considered
<1>3. r \in Req /\ Contains(pending, r)
  BY <1>1, <1>2 DEF Contains
<1>4. stage[r] = IF r \in chunked THEN "admitted" ELSE "pending"
  <2>1. ~ (n + 1 <= n)
    BY <1>1
  <2> QED
    BY <1>2, <2>1 DEF Queue
<1>5. ASSUME NEW i \in DOMAIN batch.items PROVE batch.items[i].req # r
  <2>1. i \in DOMAIN pending /\ i # n + 1 /\ i <= n
    BY <1>1, <1>2
  <2>2. batch.items[i].req = pending[i]
    BY <2>1 DEF Queue
  <2>3. pending[i] # pending[n + 1]
    BY <1>2, <2>1 DEF Queue, Distinct
  <2> QED
    BY <1>2, <2>2, <2>3
<1> QED
  BY <1>2, <1>3, <1>4, <1>5
LEMMA PendingEntries ==
  ASSUME TypeOK
  PROVE  /\ Len(pending) \in Nat /\ DOMAIN pending = 1..Len(pending)
         /\ \A i \in DOMAIN pending : i \in Nat /\ i >= 1 /\ i <= Len(pending) /\ pending[i] \in Req
<1>1. pending \in Seq(Req)
  BY DEF TypeOK
<1> QED
  BY <1>1

\* The batch with one more entry
WithEntry(b, r, c, d) == [prefill |-> TRUE, items |-> Append(b.items, Entry(r, c, d))]

LEMMA EntryAppended ==
  ASSUME batch \in BatchType, NEW r \in Req, NEW c \in BOOLEAN, NEW d \in Nat,
         batch' = WithEntry(batch, r, c, d)
  PROVE  /\ batch' \in BatchType /\ batch'.prefill = TRUE
         /\ Len(batch'.items) = Len(batch.items) + 1
         /\ DOMAIN batch'.items = 1..(Len(batch.items) + 1)
         /\ \A i \in DOMAIN batch.items : batch'.items[i] = batch.items[i]
         /\ batch'.items[Len(batch.items) + 1].req = r
         /\ batch'.items[Len(batch.items) + 1].chunk = c
<1> DEFINE E == [req : Req, chunk : BOOLEAN, pos : Nat]
           e == Entry(r, c, d)
           s == batch.items
           n == Len(s)
<1>1. e \in E /\ e.req = r /\ e.chunk = c
  BY DEF Entry
<1>2. s \in Seq(E)
  BY BatchEntries
<1>3. batch'.prefill = TRUE /\ batch'.items = Append(s, e) /\ batch' = [prefill |-> TRUE, items |-> Append(s, e)]
  BY DEF WithEntry
<1> HIDE DEF E, e, s
<1>4. /\ Append(s, e) \in Seq(E) /\ Len(Append(s, e)) = n + 1 /\ DOMAIN Append(s, e) = 1..(n + 1)
      /\ \A i \in DOMAIN s : Append(s, e)[i] = s[i]
      /\ Append(s, e)[n + 1] = e
  BY <1>1, <1>2
<1>5. batch' \in [prefill : BOOLEAN, items : Seq(E)]
  BY <1>3, <1>4
<1>6. batch' \in BatchType
  BY <1>5 DEF BatchType, E
<1>7. /\ batch'.prefill = TRUE
      /\ Len(batch'.items) = n + 1 /\ DOMAIN batch'.items = 1..(n + 1)
      /\ \A i \in DOMAIN s : batch'.items[i] = s[i]
      /\ batch'.items[n + 1].req = r /\ batch'.items[n + 1].chunk = c
  BY <1>1, <1>3, <1>4
<1> QED
  BY <1>6, <1>7 DEF s

\* A request joins the batch.
LEMMA AddStep ==
  ASSUME IInv, pc = "add", NEW r \in Considered, adder.budget > 0,
         NEW slot \in Nat, NEW handle \in Seq(Block), NEW cached \in Nat, cached < InputLen(r),
         AddOneReq(r, slot, handle, cached),
         ~ InLast(r), r \notin running, tokens[r] = Prompt[r],
         stage' = [stage EXCEPT ![r] = "admitted"],
         Slots', table_free' \in Seq(Slot), page_table' = [s \in Slot |-> page_table'[s]],
         Paths(cache') \subseteq Seq(Block),
         UNCHANGED << pc, pending, running, finished_reqs, newly, tokens, sent, last, at >>
  PROVE  IInv'
<1>1. /\ TypeOK /\ Queue /\ ThisBatch /\ LastBatch /\ Slots /\ Decoders /\ Fresh
      /\ \A x \in Req : Live(x) => LengthsOf(x)
  BY DEF IInv
<1> DEFINE remain == InputLen(r) - cached
           budget == adder.budget
           device == cached + Smaller(budget, remain)
           isChunk == budget < remain
           n == Len(batch.items)
           o == [slot |-> slot, cached |-> cached, device |-> device, host |-> device, handle |-> handle]
<1>2. /\ pc' = pc /\ pending' = pending /\ running' = running /\ finished_reqs' = finished_reqs
      /\ newly' = newly /\ tokens' = tokens /\ sent' = sent /\ last' = last /\ at' = at
  OBVIOUS
<1>3. /\ obj' = [obj EXCEPT ![r] = o]
      /\ chunked' = IF isChunk THEN chunked \cup {r} ELSE chunked \ {r}
      /\ batch' = [prefill |-> TRUE, items |-> Append(batch.items, Entry(r, isChunk, device))]
      /\ adder' = [budget |-> budget - Smaller(budget, remain),
                   reserved |-> adder.reserved + remain + OutputLen(r)]
  BY DEF AddOneReq
<1>4. /\ r \in Req /\ Contains(pending, r) /\ n + 1 \in DOMAIN pending /\ r = pending[n + 1]
      /\ stage[r] = IF r \in chunked THEN "admitted" ELSE "pending"
      /\ \A i \in DOMAIN batch.items : batch.items[i].req # r
  BY <1>1, ConsideredFacts
<1>5. budget \in Nat /\ InputLen(r) \in Nat /\ remain \in Nat /\ remain > 0
  <2>1. budget \in Nat /\ InputLen(r) \in Nat
    BY <1>1, <1>4, RequestFacts DEF TypeOK
  <2> HIDE DEF budget
  <2> QED
    BY <2>1
<1>6. /\ device \in Nat /\ cached < device /\ device <= InputLen(r)
      /\ isChunk <=> device < InputLen(r)
      /\ budget - Smaller(budget, remain) \in Nat
  <2>1. budget > 0
    OBVIOUS
  <2> HIDE DEF budget, remain
  <2>2. /\ Smaller(budget, remain) \in Nat /\ Smaller(budget, remain) > 0
        /\ Smaller(budget, remain) <= budget /\ Smaller(budget, remain) <= remain
        /\ Smaller(budget, remain) < remain <=> budget < remain
    BY <1>5, <2>1 DEF Smaller
  <2>3. InputLen(r) = cached + remain
    BY <1>5 DEF remain
  <2> QED
    BY <1>5, <2>2, <2>3
<1>7. budget > 0 /\ isChunk \in BOOLEAN
  OBVIOUS
<1> HIDE DEF device, isChunk, budget, remain
<1>8. /\ batch' \in BatchType /\ batch'.prefill = TRUE
      /\ Len(batch'.items) = n + 1 /\ DOMAIN batch'.items = 1..(n + 1)
      /\ \A i \in DOMAIN batch.items : batch'.items[i] = batch.items[i]
      /\ batch'.items[n + 1].req = r /\ batch'.items[n + 1].chunk = isChunk
  <2>1. batch \in BatchType
    BY <1>1 DEF TypeOK
  <2>2. batch' = WithEntry(batch, r, isChunk, device)
    BY <1>3 DEF WithEntry
  <2> QED
    BY <1>4, <1>6, <1>7, <2>1, <2>2, EntryAppended
<1>9. /\ n \in Nat /\ DOMAIN batch.items = 1..n /\ at = 1
      /\ \A i \in DOMAIN batch.items : batch.items[i].req \in Req
  BY <1>1, BatchEntries DEF TypeOK, ThisBatch
<1>10. \A i \in DOMAIN batch'.items : i \in DOMAIN batch.items \/ i = n + 1
  BY <1>8, <1>9
<1>11. /\ stage \in [Req -> {"unsent", "pending", "gone", "admitted",
                             "committed", "finished", "aborted"}]
       /\ stage' \in [Req -> {"unsent", "pending", "gone", "admitted",
                              "committed", "finished", "aborted"}]
       /\ \A x \in Req : x # r => stage'[x] = stage[x]
       /\ stage'[r] = "admitted"
  BY <1>1, <1>4 DEF TypeOK
<1>12. \A x \in Req : Live(x)' <=> Live(x) \/ x = r
  BY <1>4, <1>11 DEF Live
<1>13. /\ obj' \in [Req -> [slot : Nat, cached : Nat, device : Nat, host : Nat, handle : Seq(Block)]]
       /\ obj'[r] = o /\ \A x \in Req : x # r => obj'[x] = obj[x]
  <2>1. o \in [slot : Nat, cached : Nat, device : Nat, host : Nat, handle : Seq(Block)]
    BY <1>6
  <2> HIDE DEF o
  <2> QED
    BY <1>1, <1>3, <1>4, <2>1 DEF TypeOK
<1>14. TypeOK'
  <2>1. chunked' \subseteq Req
    BY <1>1, <1>3, <1>4 DEF TypeOK
  <2>2. adder'.budget \in Nat
    BY <1>3, <1>6
  <2> QED
    BY <1>1, <1>2, <1>8, <1>11, <1>13, <2>1, <2>2 DEF TypeOK
<1>15. \A x \in Req : x # r => (x \in chunked' <=> x \in chunked)
  BY <1>3
<1>16. r \in chunked' <=> isChunk
  BY <1>3
<1>17. Queue'
  <2>1. \A x \in Req : stage'[x] = "pending" \/ x \in chunked' => Contains(pending, x)
    BY <1>1, <1>4, <1>11, <1>15 DEF Queue
  <2>2. n + 1 <= Len(pending)
    BY <1>1, <1>4, PendingEntries
  <2>3. ASSUME NEW i \in DOMAIN pending
        PROVE  IF i <= n + 1
               THEN batch'.items[i].req = pending[i] /\ stage'[pending[i]] = "admitted"
               ELSE stage'[pending[i]] = IF pending[i] \in chunked' THEN "admitted" ELSE "pending"
    <3>1. i \in Nat /\ i >= 1 /\ pending[i] \in Req
      BY <1>1, PendingEntries
    <3>2. CASE i = n + 1
      BY <1>4, <1>8, <1>9, <1>11, <3>2
    <3>3. CASE i <= n
      <4>1. i \in DOMAIN batch.items /\ batch'.items[i].req = pending[i] /\ stage[pending[i]] = "admitted"
        BY <1>1, <1>8, <1>9, <3>1, <3>3 DEF Queue
      <4> QED
        BY <1>9, <1>11, <3>1, <3>3, <4>1
    <3>4. CASE i > n + 1
      <4>1. pending[i] # r
        BY <1>1, <1>4, <1>9, <3>1, <3>4 DEF Queue, Distinct
      <4>2. ~ (i <= n)
        BY <1>9, <3>1, <3>4
      <4>3. stage[pending[i]] = IF pending[i] \in chunked THEN "admitted" ELSE "pending"
        BY <1>1, <4>2 DEF Queue
      <4>4. ~ (i <= n + 1)
        BY <1>9, <3>1, <3>4
      <4> QED
        BY <1>11, <1>15, <3>1, <4>1, <4>3, <4>4
    <3> QED
      BY <1>9, <3>1, <3>2, <3>3, <3>4
  <2> QED
    BY <1>1, <1>2, <1>8, <2>1, <2>2, <2>3 DEF Queue
<1>18. /\ \A x : InLast(x)' <=> InLast(x)
       /\ \A x : ~ Sampled(x) /\ ~ Sampled(x)'
       /\ Preparing /\ Preparing'
  BY <1>2 DEF InLast, Sampled, OpenIn, Preparing
<1>19. /\ \A x : x # r => (Ahead(x)' <=> Ahead(x))
       /\ \A x : Ahead(x) => batch.prefill
       /\ Ahead(r)'
       /\ \A x : ~ Taken(x) /\ ~ Taken(x)'
  <2>1. \A i \in DOMAIN batch'.items : i >= 1 /\ ~ (i < 1)
    BY <1>8, <1>9
  <2>2. \A i \in DOMAIN batch.items : i >= 1 /\ ~ (i < 1) /\ i \in DOMAIN batch'.items
    BY <1>8, <1>9
  <2>3. \A x : Ahead(x) <=> \E i \in DOMAIN batch.items : batch.items[i].req = x
    BY <1>9, <1>18, <2>2 DEF Ahead
  <2>4. \A x : Ahead(x)' <=> \E i \in DOMAIN batch'.items : batch'.items[i].req = x
    BY <1>2, <1>9, <1>18, <2>1 DEF Ahead
  <2>5. \A x : ~ Taken(x) /\ ~ Taken(x)'
    BY <1>2, <1>9, <2>1, <2>2 DEF Taken
  <2>6. n + 1 \in DOMAIN batch'.items
    BY <1>8, <1>9
  <2>7. (\E i \in DOMAIN batch.items : TRUE) => batch.prefill
    BY <1>1, EmptyBatch DEF ThisBatch
  <2> QED
    BY <1>8, <1>10, <2>2, <2>3, <2>4, <2>5, <2>6, <2>7
<1>20. ThisBatch'
  <2>1. OncePerBatch(batch')
    BY <1>1, <1>4, <1>8, <1>10 DEF ThisBatch, OncePerBatch
  <2>2. ASSUME NEW i \in DOMAIN batch.items PROVE ThisEntry(batch.items[i])'
    <3>1. ThisEntry(batch.items[i]) /\ batch.prefill
      BY <1>1, EmptyBatch DEF ThisBatch
    <3>2. batch.items[i].req # r /\ batch.items[i].req \in Req /\ batch'.items[i] = batch.items[i]
      BY <1>4, <1>8, <1>9
    <3>3. Live(batch.items[i].req)'
      BY <1>12, <1>18, <3>1, <3>2 DEF ThisEntry
    <3>4. /\ batch.items[i].chunk <=> batch.items[i].req \in chunked'
          /\ ~ InLast(batch.items[i].req)' /\ batch.items[i].req \notin running
      BY <1>15, <1>18, <3>1, <3>2 DEF ThisEntry
    <3> QED
      BY <1>2, <1>8, <1>11, <1>18, <3>1, <3>2, <3>3, <3>4 DEF ThisEntry
  <2>3. ASSUME NEW e, e = batch'.items[n + 1] PROVE ThisEntry(e)'
    <3>1. e' = e
      OBVIOUS
    <3> QED
      BY <1>2, <1>4, <1>8, <1>11, <1>12, <1>16, <1>18, <2>3 DEF ThisEntry
  <2>4. \A i \in DOMAIN batch'.items : ThisEntry(batch.items[i])'
    BY <1>8, <1>10, <2>2, <2>3
  <2> QED
    BY <1>1, <1>2, <1>8, <1>9, <1>18, <2>1, <2>4 DEF ThisBatch
<1>21. LastBatch'
  <2>1. \A i \in DOMAIN last.items :
          /\ last.items[i].req \in Req
          /\ stage'[last.items[i].req] \notin {"unsent", "pending", "gone"}
    BY <1>1, <1>11, BatchEntries DEF LastBatch, TypeOK
  <2>2. \A x \in Req : InLast(x) => IF last.prefill THEN stage'[x] = "admitted"
                                    ELSE Live(x)' \/ x \in finished_reqs
    BY <1>1, <1>11, <1>12 DEF LastBatch
  <2>3. \A x \in finished_reqs \cup newly : stage'[x] = "finished"
    BY <1>1, <1>4, <1>11 DEF LastBatch, TypeOK
  <2>4. newly = {}
    BY <1>1 DEF LastBatch
  <2> QED
    BY <1>1, <1>2, <1>18, <2>1, <2>2, <2>3, <2>4 DEF LastBatch, OncePerBatch
<1>22. Decoders'
  <2>1. \A x \in Req : x # r => (CanDecode(x)' <=> CanDecode(x))
    BY <1>13 DEF CanDecode, RemainLen
  <2>2. running \subseteq Req
    BY <1>1 DEF TypeOK
  <2> QED
    BY <1>1, <1>2, <1>12, <1>15, <1>18, <1>19, <2>1, <2>2 DEF Decoders
<1>23. ASSUME NEW x \in Req, Live(x)' PROVE LengthsOf(x)'
  <2>1. CASE x = r
    <3>1. /\ obj'[r].cached = cached /\ obj'[r].device = device /\ obj'[r].host = device
      BY <1>13
    <3>2. Extending(r)'
      BY <1>2, <1>6, <1>16, <3>1 DEF Extending, InputLen
    <3> QED
      BY <1>8, <1>19, <2>1, <3>2 DEF LengthsOf
  <2>2. CASE x # r
    <3>1. LengthsOf(x)
      BY <1>1, <1>12, <1>23, <2>2
    <3>2. Unanswered(x)' = Unanswered(x)
      BY <1>18 DEF Unanswered, Bit
    <3>3. Ahead(x)' /\ batch'.prefill <=> Ahead(x) /\ batch.prefill
      BY <1>8, <1>19, <2>2
    <3> QED
      BY <1>2, <1>13, <1>15, <1>19, <2>2, <3>1, <3>2, <3>3, LengthsKept
  <2> QED
    BY <2>1, <2>2
<1>24. Fresh'
  BY <1>1, <1>2, <1>11 DEF Fresh
<1> QED
  BY <1>14, <1>17, <1>20, <1>21, <1>22, <1>23, <1>24 DEF IInv
\* A request that waits has no token in the batch before.
LEMMA WaitingNotInLast ==
  ASSUME LastBatch, NEW r, Contains(pending, r)
  PROVE  ~ InLast(r)
BY DEF LastBatch, InLast, OpenIn

LEMMA AddChunkedStep ==
  ASSUME IInv, NEW r \in Req, AddChunked(r) PROVE IInv'
<1>1. /\ TypeOK /\ Queue /\ ThisBatch /\ LastBatch /\ Slots /\ Decoders
      /\ Live(r) => LengthsOf(r)
  BY DEF IInv
<1>2. /\ pc = "add" /\ r \in Considered /\ adder.budget > 0 /\ r \in chunked
      /\ AddOneReq(r, obj[r].slot, obj[r].handle, obj[r].cached)
      /\ UNCHANGED << pc, pending, running, finished_reqs, newly, tokens, sent, last, at >>
      /\ stage' = stage /\ cache' = cache /\ table_free' = table_free /\ page_table' = page_table
  BY DEF AddChunked, memory
<1>3. /\ Contains(pending, r) /\ stage[r] = "admitted"
      /\ \A i \in DOMAIN batch.items : batch.items[i].req # r
  BY <1>1, <1>2, ConsideredFacts
<1>4. BetweenChunks(r)
  <2>1. ~ Ahead(r)
    BY <1>3 DEF Ahead
  <2> QED
    BY <1>1, <1>2, <1>3, <2>1 DEF Live, LengthsOf
<1>5. ~ InLast(r) /\ r \notin running /\ tokens[r] = Prompt[r]
  BY <1>1, <1>3, <1>4, WaitingNotInLast DEF Decoders, BetweenChunks
<1>6. obj \in [Req -> [slot : Nat, cached : Nat, device : Nat, host : Nat, handle : Seq(Block)]]
  BY <1>1 DEF TypeOK
<1>7. /\ obj[r].slot \in Nat /\ obj[r].handle \in Seq(Block) /\ obj[r].cached \in Nat
      /\ obj[r].cached < InputLen(r)
  BY <1>4, <1>6 DEF BetweenChunks
<1>8. stage' = [stage EXCEPT ![r] = "admitted"]
  BY <1>1, <1>2, <1>3 DEF TypeOK
<1>9. Slots'
  <2>1. \A x \in Req : obj'[x].slot = obj[x].slot
    BY <1>2, <1>6 DEF AddOneReq
  <2>2. \A x \in Req : Live(x)' <=> Live(x)
    BY <1>2 DEF Live
  <2> QED
    BY <1>1, <1>2, <2>1, <2>2 DEF Slots
<1>10. /\ table_free' \in Seq(Slot) /\ page_table' = [s \in Slot |-> page_table'[s]]
       /\ Paths(cache') \subseteq Seq(Block)
  BY <1>1, <1>2 DEF TypeOK
<1> QED
  BY <1>2, <1>5, <1>7, <1>8, <1>9, <1>10, AddStep

LEMMA AddNewStep ==
  ASSUME IInv, NEW r \in Req, AddNew(r) PROVE IInv'
<1> DEFINE h == MatchReq(r)
           slot == table_free[Len(table_free)]
<1>1. /\ TypeOK /\ Queue /\ ThisBatch /\ LastBatch /\ Slots /\ Decoders /\ Fresh
  BY DEF IInv
<1>2. /\ pc = "add" /\ r \in Considered /\ adder.budget > 0 /\ r \notin chunked
      /\ table_free # << >>
      /\ cache' = Lock(Walk(cache, h), h) /\ table_free' = Front(table_free)
      /\ page_table' = [page_table EXCEPT ![slot] = MatchedPages(cache, h)]
      /\ AddOneReq(r, slot, h, PageSize * Len(h))
      /\ stage' = [stage EXCEPT ![r] = "admitted"]
      /\ UNCHANGED << pc, pending, running, finished_reqs, newly, tokens, sent, last, at >>
  BY DEF AddNew
<1>3. Contains(pending, r) /\ stage[r] = "pending"
  BY <1>1, <1>2, ConsideredFacts
<1>4. ~ InLast(r) /\ r \notin running /\ tokens[r] = Prompt[r]
  BY <1>1, <1>3, WaitingNotInLast DEF Decoders, Fresh
<1>5. h \in Seq(Block) /\ PageSize * Len(h) \in Nat /\ PageSize * Len(h) < InputLen(r)
  BY <1>1, MatchReqType
<1>6. /\ table_free \in Seq(Slot) /\ Distinct(table_free)
      /\ slot \in Slot /\ Contains(table_free, slot)
  <2>1. table_free \in Seq(Slot) /\ Distinct(table_free)
    BY <1>1 DEF TypeOK, Slots
  <2>2. Len(table_free) \in DOMAIN table_free
    BY <1>2, <2>1
  <2> QED
    BY <2>1, <2>2 DEF Contains
<1>7. /\ table_free' \in Seq(Slot) /\ Distinct(table_free')
      /\ \A y : Contains(table_free', y) <=> Contains(table_free, y) /\ y # slot
  BY <1>2, <1>6, FrontProperties
<1>8. slot \in Nat
  BY <1>6 DEF Slot
<1>9. page_table' = [s \in Slot |-> page_table'[s]]
  BY <1>1, <1>2 DEF TypeOK
<1>10. Paths(cache') \subseteq Seq(Block)
  <2>1. Paths(Walk(cache, h)) \subseteq Seq(Block)
    BY <1>1, PathsTyped DEF TypeOK
  <2> QED
    BY <1>2, <2>1, PathsTyped
<1>11. Slots'
  <2>1. obj'[r].slot = slot /\ \A x \in Req : x # r => obj'[x].slot = obj[x].slot
    <3>1. obj \in [Req -> [slot : Nat, cached : Nat, device : Nat, host : Nat, handle : Seq(Block)]]
      BY <1>1 DEF TypeOK
    <3> HIDE DEF h, slot
    <3> QED
      BY <1>2, <3>1 DEF AddOneReq
  <2>2. \A x \in Req : Live(x)' <=> Live(x) \/ x = r
    BY <1>1, <1>2 DEF Live, TypeOK
  <2>3. ~ Live(r)
    BY <1>3 DEF Live
  <2>4. \A x \in Req : Live(x) => obj[x].slot # slot
    BY <1>1, <1>6 DEF Slots
  <2> HIDE DEF h, slot
  <2> QED
    BY <1>1, <1>6, <1>7, <2>1, <2>2, <2>3, <2>4 DEF Slots
<1> HIDE DEF h, slot
<1> QED
  BY <1>2, <1>4, <1>5, <1>7, <1>8, <1>9, <1>10, <1>11, AddStep

LEMMA RefuseNewStep ==
  ASSUME IInv, NEW r \in Req, RefuseNew(r) PROVE IInv'
<1>1. Paths(cache) \subseteq Seq(Block)
  BY DEF IInv, TypeOK
<1>2. Paths(cache') \subseteq Seq(Block)
  BY <1>1, PathsTyped DEF RefuseNew
<1> QED
  BY <1>2, OnwardStep DEF RefuseNew

LEMMA StopAddingStep ==
  ASSUME IInv, StopsAdding PROVE IInv'
<1>1. Paths(cache') \subseteq Seq(Block)
  BY DEF IInv, TypeOK, StopsAdding, StopAdding, AddFails, memory
<1> QED
  BY <1>1, OnwardStep DEF StopsAdding, StopAdding, AddFails, memory
LEMMA StartAllocStep ==
  ASSUME IInv, NEW r \in Req, StartAlloc(r) PROVE IInv'
<1>1. Paths(cache') \subseteq Seq(Block)
  BY DEF IInv, TypeOK, StartAlloc, memory
<1> QED
  BY <1>1, OnwardStep DEF StartAlloc, memory

LEMMA EvictOneStep ==
  ASSUME IInv, NEW r \in Req, EvictOne(r) PROVE IInv'
<1>1. Paths(cache) \subseteq Seq(Block)
  BY DEF IInv, TypeOK
<1>2. Paths(cache') \subseteq Seq(Block)
  BY <1>1, PathsTyped DEF EvictOne
<1> QED
  BY <1>2, OnwardStep DEF EvictOne

LEMMA NothingToRunStep ==
  ASSUME IInv, NothingToRun PROVE IInv'
<1>1. /\ TypeOK /\ Queue /\ ThisBatch /\ LastBatch /\ Slots /\ Decoders /\ Fresh
      /\ \A x \in Req : Live(x) => LengthsOf(x)
  BY DEF IInv
<1>2. /\ pc = "added" /\ batch = NoBatch /\ running = {} /\ pc' = "process" /\ adder' = NoAdder
      /\ cache' = cache /\ table_free' = table_free /\ page_table' = page_table
      /\ pending' = pending /\ chunked' = chunked /\ running' = running
      /\ finished_reqs' = finished_reqs /\ newly' = newly /\ obj' = obj /\ stage' = stage
      /\ tokens' = tokens /\ sent' = sent /\ batch' = batch /\ last' = last /\ at' = at
  BY DEF NothingToRun, memory, queues
<1>3. DOMAIN batch.items = {} /\ Len(batch.items) = 0 /\ at = 1
  BY <1>1, <1>2, EmptyBatch DEF ThisBatch
<1>4. \A x \in Req : Live(x)' <=> Live(x)
  BY <1>2 DEF Live
<1>5. TypeOK'
  <2>1. adder'.budget \in Nat
    BY <1>2 DEF NoAdder
  <2> QED
    BY <1>1, <1>2, <2>1 DEF TypeOK
<1>6. Queue'
  <2>1. \A i \in DOMAIN pending : i \in Nat /\ i >= 1
    BY <1>1, PendingEntries
  <2>2. \A i \in DOMAIN pending : ~ (i <= Len(batch.items))
    BY <1>3, <2>1
  <2> QED
    BY <1>1, <1>2, <2>2 DEF Queue
<1>7. /\ \A x : InLast(x)' <=> InLast(x)
      /\ \A x : ~ Sampled(x) /\ ~ Sampled(x)'
      /\ \A x : ~ Ahead(x) /\ ~ Ahead(x)' /\ ~ Taken(x) /\ ~ Taken(x)'
  <2>1. \A x : InLast(x)' <=> InLast(x)
    BY <1>2, <1>3 DEF InLast, OpenIn
  <2>2. \A x : ~ Sampled(x) /\ ~ Sampled(x)'
    BY <1>2, <1>3 DEF Sampled, OpenIn
  <2>3. \A x : ~ Ahead(x) /\ ~ Ahead(x)' /\ ~ Taken(x) /\ ~ Taken(x)'
    BY <1>2, <1>3 DEF Ahead, Taken
  <2> QED
    BY <2>1, <2>2, <2>3
<1>8. \A x : Unanswered(x)' = Unanswered(x)
  BY <1>7 DEF Unanswered, Bit
<1>9. ThisBatch'
  BY <1>1, <1>2, <1>3, <1>7 DEF ThisBatch, OncePerBatch
<1>10. LastBatch'
  BY <1>1, <1>2, <1>4, <1>7 DEF LastBatch, OncePerBatch
<1>11. Slots'
  BY <1>1, <1>2, <1>4 DEF Slots
<1>12. Decoders'
  <2>1. \A x \in Req : CanDecode(x)' <=> CanDecode(x)
    BY <1>2 DEF CanDecode, RemainLen
  <2> QED
    BY <1>1, <1>2, <1>4, <1>7, <2>1 DEF Decoders
<1>13. \A x \in Req : Live(x)' => LengthsOf(x)'
  BY <1>1, <1>2, <1>4, <1>7, <1>8, LengthsKept
<1>14. Fresh'
  BY <1>1, <1>2 DEF Fresh
<1> QED
  BY <1>5, <1>6, <1>9, <1>10, <1>11, <1>12, <1>13, <1>14 DEF IInv

\* The prefill batch is complete: those whose prompt it completes leave the list.
LEMMA PrefillBatchStep ==
  ASSUME IInv, PrefillBatch PROVE IInv'
<1>1. /\ TypeOK /\ Queue /\ ThisBatch /\ LastBatch /\ Slots /\ Decoders /\ Fresh
      /\ \A x \in Req : Live(x) => LengthsOf(x)
  BY DEF IInv
<1> DEFINE n == Len(batch.items)
           D == {i \in 1..n : pending[i] \in chunked}
           Up(s) == \A i, j \in DOMAIN s : i < j => s[i] < s[j]
           kept == CHOOSE s \in SetToSeqs(D) : Up(s)
           rest == [k \in DOMAIN kept |-> pending[kept[k]]] \o SubSeq(pending, n + 1, Len(pending))
<1>2. /\ pc = "added" /\ batch # NoBatch /\ pc' = "allocate" /\ adder' = NoAdder
      /\ cache' = cache /\ table_free' = table_free /\ page_table' = page_table
      /\ chunked' = chunked /\ running' = running
      /\ finished_reqs' = finished_reqs /\ newly' = newly /\ obj' = obj /\ stage' = stage
      /\ tokens' = tokens /\ sent' = sent /\ batch' = batch /\ last' = last /\ at' = at
  BY DEF PrefillBatch, memory
<1>3. pending' = rest
  BY DEF PrefillBatch, InOrder
<1>4. /\ pending \in Seq(Req) /\ Distinct(pending) /\ batch.prefill /\ at = 1
      /\ n \in 0..Len(pending) /\ DOMAIN batch.items = 1..n
  <2>1. /\ pending \in Seq(Req) /\ Distinct(pending) /\ n <= Len(pending)
        /\ batch.prefill /\ at = 1
    BY <1>1, <1>2 DEF TypeOK, Queue, ThisBatch
  <2>2. n \in Nat /\ DOMAIN batch.items = 1..n
    BY <1>1, BatchEntries DEF TypeOK
  <2>3. Len(pending) \in Nat
    BY <2>1
  <2> HIDE DEF n
  <2> QED
    BY <2>1, <2>2, <2>3
<1>5. /\ rest \in Seq(Req) /\ Distinct(rest)
      /\ \A i \in DOMAIN rest : \E j \in DOMAIN pending : rest[i] = pending[j] /\ (j <= n => j \in D)
      /\ \A j \in DOMAIN pending : (j <= n => j \in D) => Contains(rest, pending[j])
  <2>1. n \in Nat /\ D \in SUBSET (1..n)
    BY <1>4
  <2> HIDE DEF n, D
  <2>2. IsFiniteSet(D) /\ \E s \in SetToSeqs(D) : Up(s)
    BY <2>1, PositionsInOrder
  <2>3. kept \in SetToSeqs(D)
    <3> HIDE DEF Up
    <3> QED
      BY <2>2
  <2> HIDE DEF kept
  <2>4. rest = [k \in DOMAIN kept |-> pending[kept[k]]] \o SubSeq(pending, n + 1, Len(pending))
    OBVIOUS
  <2> HIDE DEF rest, Up
  <2>5. KeptOf(n, D, kept, rest)
    BY <1>4, <2>1, <2>2, <2>3, <2>4 DEF KeptOf
  <2> QED
    BY <1>4, <2>5, KeptList
<1> HIDE DEF kept, rest
<1>6. \A x : Contains(pending', x) => Contains(pending, x)
  BY <1>3, <1>5 DEF Contains
<1>7. \A j \in DOMAIN pending : j <= n => /\ j \in DOMAIN batch.items
                                         /\ batch.items[j].req = pending[j]
                                         /\ stage[pending[j]] = "admitted"
                                         /\ (j \in D <=> pending[j] \in chunked)
  <2>1. \A j \in DOMAIN pending : j \in Nat /\ j >= 1
    BY <1>1, PendingEntries
  <2>2. \A j \in DOMAIN pending : j <= n => j \in 1..n
    <3> HIDE DEF n
    <3> QED
      BY <1>4, <2>1
  <2> QED
    BY <1>1, <1>2, <1>4, <2>2 DEF Queue
<1>8. \A j \in DOMAIN pending :
        ~ (j <= n) => stage[pending[j]] = IF pending[j] \in chunked THEN "admitted" ELSE "pending"
  BY <1>1 DEF Queue
<1>9. \A x \in Req : Live(x)' <=> Live(x)
  BY <1>2 DEF Live
<1>10. TypeOK'
  <2>1. adder'.budget \in Nat
    BY <1>2 DEF NoAdder
  <2> QED
    BY <1>1, <1>2, <1>3, <1>5, <2>1 DEF TypeOK
<1>11. Queue'
  <2>1. ASSUME NEW x \in Req, stage[x] = "pending" \/ x \in chunked PROVE Contains(pending', x)
    <3>1. PICK j \in DOMAIN pending : pending[j] = x
      BY <1>1, <2>1 DEF Queue, Contains
    <3>2. j <= n => j \in D
      BY <1>7, <2>1, <3>1
    <3> QED
      BY <1>3, <1>5, <3>1, <3>2
  <2>2. ASSUME NEW i \in DOMAIN pending'
        PROVE  stage[pending'[i]] = IF pending'[i] \in chunked THEN "admitted" ELSE "pending"
    <3>1. PICK j \in DOMAIN pending : pending'[i] = pending[j] /\ (j <= n => j \in D)
      BY <1>3, <1>5
    <3> QED
      BY <1>7, <1>8, <3>1
  <2> QED
    BY <1>2, <1>3, <1>5, <2>1, <2>2 DEF Queue
<1>12. /\ \A x : InLast(x)' <=> InLast(x)
       /\ \A x : ~ Sampled(x) /\ ~ Sampled(x)'
       /\ \A x : Ahead(x)' <=> Ahead(x)
       /\ \A x : Taken(x)' <=> Taken(x)
       /\ Preparing /\ Preparing'
  BY <1>2 DEF InLast, Sampled, OpenIn, Ahead, Taken, Preparing
<1>13. \A x : Unanswered(x)' = Unanswered(x)
  BY <1>12 DEF Unanswered, Bit
<1>14. ThisBatch'
  <2>1. ASSUME NEW i \in DOMAIN batch.items PROVE ThisEntry(batch.items[i])'
    <3>1. ThisEntry(batch.items[i]) /\ batch.items[i].req \in Req
      BY <1>1, BatchEntries DEF ThisBatch, TypeOK
    <3>2. i \in DOMAIN pending /\ i <= n
      <4>1. DOMAIN pending = 1..Len(pending)
        BY <1>4
      <4> HIDE DEF n
      <4> QED
        BY <1>4, <4>1
    <3>3. ASSUME Contains(pending', batch.items[i].req) PROVE batch.items[i].chunk
      <4>1. PICK k \in DOMAIN pending' : pending'[k] = pending[i]
        BY <1>7, <3>2, <3>3 DEF Contains
      <4>2. PICK j \in DOMAIN pending : pending'[k] = pending[j] /\ (j <= n => j \in D)
        BY <1>3, <1>5
      <4>3. j = i
        BY <1>4, <3>2, <4>1, <4>2 DEF Distinct
      <4> QED
        BY <1>4, <1>7, <3>1, <3>2, <4>2, <4>3 DEF ThisEntry
    <3> QED
      BY <1>2, <1>4, <1>9, <1>12, <3>1, <3>3 DEF ThisEntry
  <2> QED
    BY <1>1, <1>2, <1>12, <2>1 DEF ThisBatch, OncePerBatch
<1>15. LastBatch'
  <2>1. newly = {}
    BY <1>1, <1>2 DEF LastBatch
  <2> QED
    BY <1>1, <1>2, <1>6, <1>9, <1>12, <2>1 DEF LastBatch, OncePerBatch
<1>16. Slots'
  BY <1>1, <1>2, <1>9 DEF Slots
<1>17. Decoders'
  <2>1. \A x \in Req : CanDecode(x)' <=> CanDecode(x)
    BY <1>2 DEF CanDecode, RemainLen
  <2>2. running \subseteq Req
    BY <1>1 DEF TypeOK
  <2> QED
    BY <1>1, <1>2, <1>6, <1>9, <1>12, <2>1, <2>2 DEF Decoders
<1>18. \A x \in Req : Live(x)' => LengthsOf(x)'
  BY <1>1, <1>2, <1>9, <1>12, <1>13, LengthsKept
<1>19. Fresh'
  BY <1>1, <1>2 DEF Fresh
<1> QED
  BY <1>10, <1>11, <1>14, <1>15, <1>16, <1>17, <1>18, <1>19 DEF IInv
\* All running requests make the decode batch.
LEMMA DecodeBatchStep ==
  ASSUME IInv, DecodeBatch PROVE IInv'
<1>1. /\ TypeOK /\ Queue /\ ThisBatch /\ LastBatch /\ Slots /\ Decoders /\ Fresh
      /\ \A x \in Req : Live(x) => LengthsOf(x)
  BY DEF IInv
<1>2. /\ pc = "added" /\ batch = NoBatch /\ pc' = "allocate" /\ adder' = NoAdder
      /\ cache' = cache /\ table_free' = table_free /\ page_table' = page_table
      /\ pending' = pending /\ chunked' = chunked /\ running' = running
      /\ finished_reqs' = finished_reqs /\ newly' = newly /\ obj' = obj /\ stage' = stage
      /\ tokens' = tokens /\ sent' = sent /\ last' = last /\ at' = at
  BY DEF DecodeBatch, memory, queues
<1>3. PICK s \in SetToSeqs(running) :
        batch' = [prefill |-> FALSE,
                  items |-> [i \in DOMAIN s |-> Entry(s[i], FALSE, obj[s[i]].device)]]
  BY DEF DecodeBatch
<1>4. IsFiniteSet(running) /\ running \subseteq Req
  BY <1>1, RequestAssumption, FS_Subset DEF TypeOK
<1> DEFINE k == Cardinality(running)
<1>5. /\ k \in Nat /\ s \in [1..k -> running] /\ DOMAIN s = 1..k
      /\ \A i, j \in DOMAIN s : s[i] = s[j] => i = j
      /\ \A x \in running : \E i \in DOMAIN s : s[i] = x
  BY <1>4, EnumerationFull
<1> HIDE DEF k
<1>6. DOMAIN batch.items = {} /\ Len(batch.items) = 0 /\ at = 1
  BY <1>1, <1>2, EmptyBatch DEF ThisBatch
<1>7. /\ batch'.prefill = FALSE /\ DOMAIN batch'.items = 1..k
      /\ \A i \in 1..k : /\ batch'.items[i].req = s[i] /\ batch'.items[i].chunk = FALSE
                         /\ s[i] \in running /\ i >= 1 /\ ~ (i < 1)
  BY <1>3, <1>5 DEF Entry
<1>8. batch' \in BatchType
  <2> DEFINE E == [req : Req, chunk : BOOLEAN, pos : Nat]
             e(i) == Entry(s[i], FALSE, obj[s[i]].device)
  <2>1. ASSUME NEW i \in 1..k PROVE e(i) \in E
    <3>1. s[i] \in Req
      BY <1>4, <1>5
    <3>2. obj[s[i]].device + 1 \in Nat
      BY <1>1, <3>1, RequestFacts
    <3> QED
      BY <3>1, <3>2 DEF Entry
  <2>2. [i \in 1..k |-> e(i)] \in Seq(E)
    <3> HIDE DEF E, e
    <3> QED
      BY <1>5, <2>1
  <2> QED
    BY <1>3, <1>5, <2>2 DEF BatchType
<1>9. \A x \in Req : Live(x)' <=> Live(x)
  BY <1>2 DEF Live
<1>10. TypeOK'
  <2>1. adder'.budget \in Nat
    BY <1>2 DEF NoAdder
  <2> QED
    BY <1>1, <1>2, <1>8, <2>1 DEF TypeOK
<1>11. Queue'
  <2>1. \A i \in DOMAIN pending : i \in Nat /\ i >= 1
    BY <1>1, PendingEntries
  <2>2. \A i \in DOMAIN pending : ~ (i <= Len(batch.items))
    BY <1>6, <2>1
  <2> QED
    BY <1>1, <1>2, <2>2 DEF Queue
<1>12. /\ \A x : InLast(x)' <=> InLast(x)
       /\ \A x : ~ Sampled(x) /\ ~ Sampled(x)'
       /\ \A x : ~ Ahead(x) /\ ~ Taken(x) /\ ~ Taken(x)'
       /\ Preparing /\ Preparing'
  <2>1. \A x : InLast(x)' <=> InLast(x)
    BY <1>2 DEF InLast, OpenIn
  <2>2. \A x : ~ Sampled(x) /\ ~ Sampled(x)'
    BY <1>2 DEF Sampled
  <2>3. \A x : ~ Ahead(x) /\ ~ Taken(x)
    BY <1>6 DEF Ahead, Taken
  <2>4. \A x : ~ Taken(x)'
    BY <1>2, <1>6, <1>7 DEF Taken
  <2> QED
    BY <1>2, <2>1, <2>2, <2>3, <2>4 DEF Preparing
<1>13. \A x : Unanswered(x)' = Unanswered(x)
  BY <1>12 DEF Unanswered, Bit
<1>14. ThisBatch'
  <2>1. OncePerBatch(batch')
    BY <1>5, <1>7 DEF OncePerBatch
  <2>2. ASSUME NEW i \in DOMAIN batch'.items, NEW e, e = batch'.items[i] PROVE ThisEntry(e)'
    <3>1. e.req \in running /\ ~ e.chunk /\ e.req \in Req
      BY <1>4, <1>7, <2>2
    <3>2. Live(e.req)' /\ ~ Contains(pending, e.req)
      BY <1>1, <1>9, <3>1 DEF Decoders
    <3>3. e' = e
      OBVIOUS
    <3> QED
      BY <1>2, <1>7, <3>1, <3>2, <3>3 DEF ThisEntry
  <2>3. \A i \in DOMAIN batch'.items : ThisEntry(batch.items[i])'
    BY <2>2
  <2> QED
    BY <1>2, <1>6, <1>12, <2>1, <2>3 DEF ThisBatch
<1>15. LastBatch'
  <2>1. newly = {}
    BY <1>1, <1>2 DEF LastBatch
  <2> QED
    BY <1>1, <1>2, <1>9, <1>12, <2>1 DEF LastBatch, OncePerBatch
<1>16. Slots'
  BY <1>1, <1>2, <1>9 DEF Slots
<1>17. Decoders'
  <2>1. \A x \in Req : CanDecode(x)' <=> CanDecode(x)
    BY <1>2 DEF CanDecode, RemainLen
  <2> QED
    BY <1>1, <1>2, <1>4, <1>9, <1>12, <2>1 DEF Decoders
<1>18. \A x \in Req : Live(x)' => LengthsOf(x)'
  BY <1>1, <1>2, <1>7, <1>9, <1>12, <1>13, LengthsKept
<1>19. Fresh'
  BY <1>1, <1>2 DEF Fresh
<1> QED
  BY <1>10, <1>11, <1>14, <1>15, <1>16, <1>17, <1>18, <1>19 DEF IInv

\* The request whose pages are allocated
LEMMA CurrentFacts ==
  ASSUME TypeOK, ThisBatch, NEW r \in Current
  PROVE  /\ at \in DOMAIN batch.items /\ r = batch.items[at].req /\ r \in Req
         /\ ThisEntry(batch.items[at]) /\ batch.items[at].chunk \in BOOLEAN
         /\ \A i \in DOMAIN batch.items : batch.items[i].req = r => i = at
         /\ \A i \in DOMAIN batch.items : i \in Nat
<1>1. at \in DOMAIN batch.items /\ r = batch.items[at].req
  BY DEF Current
<1>2. \A i \in DOMAIN batch.items : i \in Nat /\ batch.items[i].req \in Req /\ batch.items[i].chunk \in BOOLEAN
  <2>1. batch \in BatchType
    BY DEF TypeOK
  <2>2. /\ Len(batch.items) \in Nat /\ DOMAIN batch.items = 1..Len(batch.items)
        /\ \A i \in DOMAIN batch.items : batch.items[i].req \in Req /\ batch.items[i].chunk \in BOOLEAN
    BY <2>1, BatchEntries
  <2> QED
    BY <2>2
<1> QED
  BY <1>1, <1>2 DEF ThisBatch, OncePerBatch

\* It moves from those ahead to those that have their pages.
LEMMA StandingTaken ==
  ASSUME TypeOK, ThisBatch, NEW r \in Current, pc = "take", pc' = "allocate", at' = at + 1,
         batch' = batch, last' = last
  PROVE  /\ \A x : InLast(x)' <=> InLast(x)
         /\ \A x : ~ Sampled(x) /\ ~ Sampled(x)'
         /\ \A x : x # r => (Ahead(x)' <=> Ahead(x)) /\ (Taken(x)' <=> Taken(x))
         /\ Ahead(r) /\ ~ Ahead(r)' /\ ~ Taken(r) /\ Taken(r)'
         /\ Preparing /\ Preparing'
<1>1. /\ at \in DOMAIN batch.items /\ r = batch.items[at].req
      /\ \A i \in DOMAIN batch.items : batch.items[i].req = r => i = at
      /\ \A i \in DOMAIN batch.items : i \in Nat
      /\ at \in Nat
  BY CurrentFacts DEF TypeOK
<1>2. \A i \in DOMAIN batch.items :
        /\ batch.items[i].req = r => i >= at /\ ~ (i >= at + 1) /\ i < at + 1 /\ ~ (i < at)
        /\ batch.items[i].req # r => /\ i >= at + 1 <=> i >= at
                                     /\ i < at + 1 <=> i < at
  BY <1>1
<1>3. Preparing /\ Preparing'
  BY DEF Preparing
<1>4. \A x : Ahead(x)' <=> Ahead(x) /\ x # r
  BY <1>2, <1>3 DEF Ahead
<1>5. \A x : Taken(x)' <=> Taken(x) \/ x = r
  BY <1>1, <1>2, <1>3 DEF Taken
<1>6. Ahead(r) /\ ~ Taken(r)
  BY <1>1, <1>2, <1>3 DEF Ahead, Taken
<1>7. \A x : InLast(x)' <=> InLast(x)
  BY DEF InLast, OpenIn
<1>8. \A x : ~ Sampled(x) /\ ~ Sampled(x)'
  BY DEF Sampled
<1> QED
  BY <1>3, <1>4, <1>5, <1>6, <1>7, <1>8

\* complete_one advances the lengths
LEMMA TakenLengths ==
  ASSUME TypeOK, NEW r \in Req, LengthsOf(r), Ahead(r), ~ Taken(r), ~ Sampled(r), ~ Sampled(r)',
         ~ Ahead(r)', Taken(r)', InLast(r)' <=> InLast(r),
         batch.prefill => ~ InLast(r), ~ batch.prefill => r \notin chunked,
         obj'[r].cached = obj[r].device, obj'[r].device = obj[r].device + 1,
         obj'[r].host = obj[r].host, UNCHANGED << tokens, chunked, batch >>
  PROVE  LengthsOf(r)'
<1>1. /\ InputLen(r) \in Nat /\ Prompt[r] \in Seq(Token) /\ InputLen(r)' = InputLen(r)
      /\ obj[r].device \in Nat /\ obj[r].host \in Nat /\ obj[r].cached \in Nat
      /\ tokens' = tokens /\ chunked' = chunked
  BY RequestFacts DEF InputLen
<1>2. CASE batch.prefill
  <2>1. Extending(r)
    BY <1>2 DEF LengthsOf
  <2>2. CASE r \in chunked
    <3>1. BetweenChunks(r)'
      BY <1>1, <2>1, <2>2 DEF Extending, BetweenChunks
    <3> QED
      BY <1>1, <2>2, <3>1 DEF LengthsOf
  <2>3. CASE r \notin chunked
    <3>1. obj[r].device = InputLen(r) /\ tokens[r] = Prompt[r] /\ obj[r].host = obj[r].device
      BY <1>1, <2>1, <2>3 DEF Extending
    <3>2. Unanswered(r)' = 0
      BY <1>2 DEF Unanswered, Bit
    <3>3. SubSeq(Prompt[r], 1, InputLen(r)) = Prompt[r] /\ Len(Prompt[r]) = InputLen(r)
      BY <1>1 DEF InputLen
    <3>4. Decoding(r)'
      BY <1>1, <3>1, <3>2, <3>3 DEF Decoding, Bit
    <3> QED
      BY <1>1, <2>3, <3>4 DEF LengthsOf
  <2> QED
    BY <2>2, <2>3
<1>3. CASE ~ batch.prefill
  <2>1. Decoding(r) /\ r \notin chunked
    BY <1>3 DEF LengthsOf
  <2>2. Unanswered(r)' = Unanswered(r) /\ Unanswered(r) \in Nat
    BY DEF Unanswered, Bit
  <2>3. Decoding(r)'
    BY <1>1, <2>1, <2>2 DEF Decoding, Bit
  <2> QED
    BY <1>1, <2>1, <2>3 DEF LengthsOf
<1> QED
  BY <1>2, <1>3

\* The count of the results processed stays a position.
LEMMA NextAt ==
  ASSUME at \in Nat \ {0}, at' = at + 1
  PROVE  at' \in Nat \ {0}
OBVIOUS

LEMMA TakeStep ==
  ASSUME IInv, NEW r \in Req, Take(r) PROVE IInv'
<1>1. /\ TypeOK /\ Queue /\ ThisBatch /\ LastBatch /\ Slots /\ Decoders /\ Fresh
      /\ \A x \in Req : Live(x) => LengthsOf(x)
  BY DEF IInv
<1>2. /\ pc = "take" /\ r \in Current /\ pc' = "allocate" /\ at' = at + 1
      /\ obj' = [obj EXCEPT ![r].cached = obj[r].device, ![r].device = @ + 1]
      /\ \E row : page_table' = [page_table EXCEPT ![obj[r].slot] = row]
      /\ cache' = cache /\ table_free' = table_free /\ adder' = adder
      /\ pending' = pending /\ chunked' = chunked /\ running' = running
      /\ finished_reqs' = finished_reqs /\ newly' = newly /\ stage' = stage
      /\ tokens' = tokens /\ sent' = sent /\ batch' = batch /\ last' = last
  BY DEF Take, queues
<1>3. /\ at \in DOMAIN batch.items /\ r = batch.items[at].req /\ ThisEntry(batch.items[at])
      /\ batch.items[at].chunk \in BOOLEAN
  BY <1>1, <1>2, CurrentFacts
<1>4. /\ obj' \in [Req -> [slot : Nat, cached : Nat, device : Nat, host : Nat, handle : Seq(Block)]]
      /\ obj'[r].cached = obj[r].device /\ obj'[r].device = obj[r].device + 1
      /\ obj'[r].host = obj[r].host /\ obj'[r].slot = obj[r].slot
      /\ \A x \in Req : x # r => obj'[x] = obj[x]
  <2> DEFINE T == [slot : Nat, cached : Nat, device : Nat, host : Nat, handle : Seq(Block)]
             o == [obj[r] EXCEPT !.cached = obj[r].device, !.device = @ + 1]
  <2>1. obj \in [Req -> T] /\ obj[r] \in T
    BY <1>1 DEF TypeOK
  <2>2. /\ o \in T /\ o.cached = obj[r].device /\ o.device = obj[r].device + 1
        /\ o.host = obj[r].host /\ o.slot = obj[r].slot
    <3> DEFINE w == obj[r]
               d == w.device + 1
    <3>1. w \in T
      BY <2>1
    <3>2. w.device \in Nat /\ d \in Nat
      BY <3>1
    <3>3. o = [w EXCEPT !.cached = w.device, !.device = d]
      OBVIOUS
    <3> HIDE DEF w, o, d
    <3>4. /\ o \in T /\ o.cached = w.device /\ o.device = d
          /\ o.host = w.host /\ o.slot = w.slot
      BY <3>1, <3>2, <3>3
    <3> QED
      BY <3>4 DEF w, d
  <2>3. obj' = [obj EXCEPT ![r] = o]
    BY <1>2, <2>1
  <2> HIDE DEF o, T
  <2>4. obj' \in [Req -> T] /\ obj'[r] = o /\ \A x \in Req : x # r => obj'[x] = obj[x]
    BY <2>1, <2>2, <2>3
  <2> QED
    BY <2>2, <2>4 DEF T
<1>5. /\ \A x : InLast(x)' <=> InLast(x)
      /\ \A x : ~ Sampled(x) /\ ~ Sampled(x)'
      /\ \A x : x # r => (Ahead(x)' <=> Ahead(x)) /\ (Taken(x)' <=> Taken(x))
      /\ Ahead(r) /\ ~ Ahead(r)' /\ ~ Taken(r) /\ Taken(r)'
      /\ Preparing /\ Preparing'
  BY <1>1, <1>2, StandingTaken
<1>6. \A x : Unanswered(x)' = Unanswered(x)
  BY <1>5 DEF Unanswered, Bit
<1>7. \A x \in Req : Live(x)' <=> Live(x)
  BY <1>2 DEF Live
<1>8. TypeOK'
  <2>1. at' \in Nat \ {0}
    <3>1. at \in Nat \ {0}
      BY <1>1 DEF TypeOK
    <3> QED
      BY <1>2, <3>1, NextAt
  <2>2. page_table' = [s \in Slot |-> page_table'[s]]
    BY <1>1, <1>2 DEF TypeOK
  <2> QED
    BY <1>1, <1>2, <1>4, <2>1, <2>2 DEF TypeOK
<1>9. Queue'
  BY <1>1, <1>2 DEF Queue
<1>10. ThisBatch'
  <2>1. \A i \in DOMAIN batch.items : batch.items[i].req \in Req
    BY <1>1, BatchEntries DEF TypeOK
  <2>2. \A i \in DOMAIN batch.items : ThisEntry(batch.items[i])'
    BY <1>1, <1>2, <1>5, <1>7, <2>1 DEF ThisBatch, ThisEntry
  <2> QED
    BY <1>1, <1>2, <1>5, <2>2 DEF ThisBatch, OncePerBatch
<1>11. LastBatch'
  <2>1. newly = {}
    BY <1>1, <1>2 DEF LastBatch
  <2> QED
    BY <1>1, <1>2, <1>5, <1>7, <2>1 DEF LastBatch, OncePerBatch
<1>12. Slots'
  BY <1>1, <1>2, <1>4, <1>7 DEF Slots
<1>13. Decoders'
  <2>1. \A x \in Req : x # r => (CanDecode(x)' <=> CanDecode(x))
    BY <1>4 DEF CanDecode, RemainLen
  <2>2. running \subseteq Req
    BY <1>1 DEF TypeOK
  <2> QED
    BY <1>1, <1>2, <1>5, <1>7, <2>1, <2>2 DEF Decoders
<1>14. ASSUME NEW x \in Req, Live(x)' PROVE LengthsOf(x)'
  <2>1. LengthsOf(x)
    BY <1>1, <1>7, <1>14
  <2>2. CASE x = r
    <3>1. batch.prefill => ~ InLast(r)
      BY <1>3 DEF ThisEntry
    <3>2. ~ batch.prefill => r \notin chunked
      BY <1>1, <1>3, <1>5 DEF ThisEntry, Decoders, Queue
    <3> QED
      BY <1>1, <1>2, <1>4, <1>5, <2>1, <2>2, <3>1, <3>2, TakenLengths
  <2>3. CASE x # r
    BY <1>2, <1>4, <1>5, <1>6, <2>1, <2>3, LengthsKept
  <2> QED
    BY <2>2, <2>3
<1>15. Fresh'
  BY <1>1, <1>2 DEF Fresh
<1> QED
  BY <1>8, <1>9, <1>10, <1>11, <1>12, <1>13, <1>14, <1>15 DEF IInv
\* With a batch done and launched, those in it that sample are the sampled ones.
LEMMA StandingLaunched ==
  ASSUME TypeOK, pc = "allocate", at > Len(batch.items), pc' = "process", at' = 1,
         batch' = batch, last' = last
  PROVE  /\ \A x : InLast(x)' <=> InLast(x)
         /\ \A x : ~ Sampled(x)
         /\ \A x : Sampled(x)' <=> \E i \in DOMAIN batch.items : batch.items[i].req = x /\ ~ batch.items[i].chunk
         /\ \A x : ~ Ahead(x) /\ ~ Ahead(x)' /\ ~ Taken(x)'
         /\ \A x : Taken(x) <=> \E i \in DOMAIN batch.items : batch.items[i].req = x
         /\ Preparing /\ ~ Preparing'
<1>1. /\ Len(batch.items) \in Nat /\ DOMAIN batch.items = 1..Len(batch.items) /\ at \in Nat
  <2>1. batch \in BatchType /\ at \in Nat
    BY DEF TypeOK
  <2> QED
    BY <2>1, BatchEntries
<1>2. \A i \in DOMAIN batch.items : i >= 1 /\ i < at /\ ~ (i >= at)
  BY <1>1
<1>3. Preparing /\ ~ Preparing'
  BY DEF Preparing
<1>4. \A x : InLast(x)' <=> InLast(x)
  BY DEF InLast, OpenIn
<1>5. \A x : ~ Sampled(x)
  BY DEF Sampled
<1>6. \A x : Sampled(x)' <=> \E i \in DOMAIN batch.items : batch.items[i].req = x /\ ~ batch.items[i].chunk
  BY <1>2 DEF Sampled, OpenIn
<1>7. \A x : ~ Ahead(x) /\ ~ Ahead(x)' /\ ~ Taken(x)'
  BY <1>2, <1>3 DEF Ahead, Taken
<1>8. \A x : Taken(x) <=> \E i \in DOMAIN batch.items : batch.items[i].req = x
  BY <1>2, <1>3 DEF Taken
<1> QED
  BY <1>3, <1>4, <1>5, <1>6, <1>7, <1>8

\* The sampled token is one the device has and the host does not.
LEMMA SampledLengths ==
  ASSUME TypeOK, NEW r \in Req, Decoding(r), Taken(r), ~ Taken(r)', ~ Sampled(r), Sampled(r)',
         InLast(r)' <=> InLast(r), obj' = obj, NEW t \in Token, tokens'[r] = Append(tokens[r], t)
  PROVE  Decoding(r)'
<1>1. /\ InputLen(r) \in Nat /\ tokens[r] \in Seq(Token) /\ InputLen(r)' = InputLen(r)
      /\ obj[r].device \in Nat /\ obj[r].host \in Nat /\ obj[r].cached \in Nat
  BY RequestFacts DEF InputLen
<1>2. Unanswered(r)' = Unanswered(r) + 1 /\ Unanswered(r) \in Nat
  BY DEF Unanswered, Bit
<1>3. /\ InputLen(r) < obj[r].device /\ obj[r].cached = obj[r].device - 1
      /\ Len(tokens[r]) = obj[r].device - 1 /\ SubSeq(tokens[r], 1, InputLen(r)) = Prompt[r]
      /\ obj[r].host = obj[r].device - 1 - Unanswered(r)
  BY DEF Decoding, Bit
<1>4. Len(tokens'[r]) = obj[r].device
  BY <1>1, <1>3
<1>5. SubSeq(tokens'[r], 1, InputLen(r)) = Prompt[r]
  <2>1. InputLen(r) <= Len(tokens[r])
    BY <1>1, <1>3
  <2> DEFINE s == tokens[r]  n == InputLen(r)
  <2>2. s \in Seq(Token) /\ n \in Nat /\ n <= Len(s)
    BY <1>1, <2>1
  <2> HIDE DEF s, n
  <2>3. SubSeq(Append(s, t), 1, n) = SubSeq(s, 1, n)
    BY <2>2
  <2> QED
    BY <1>3, <2>3 DEF s, n
<1>6. obj[r].host = obj[r].device - Unanswered(r)'
  <2> DEFINE u == Unanswered(r)  v == Unanswered(r)'  d == obj[r].device  h == obj[r].host
  <2>1. u \in Nat /\ v = u + 1 /\ d \in Nat /\ h = d - 1 - u
    BY <1>1, <1>2, <1>3
  <2> HIDE DEF u, v, d, h
  <2>2. h = d - v
    BY <2>1
  <2> QED
    BY <2>2 DEF v, d, h
<1>7. /\ InputLen(r) < obj'[r].device /\ obj'[r].cached = obj'[r].device - 1
      /\ Len(tokens'[r]) = obj'[r].device /\ SubSeq(tokens'[r], 1, InputLen(r)) = Prompt[r]
      /\ obj'[r].host = obj'[r].device - Unanswered(r)' /\ obj'[r].device \in Nat
  BY <1>1, <1>3, <1>4, <1>5, <1>6
<1>8. Unanswered(r)' \in Nat
  BY <1>2
<1>9. Bit(Taken(r)') = 0
  BY DEF Bit
<1>10. obj'[r].device - Bit(Taken(r)') = obj'[r].device
  BY <1>7, <1>9
<1> QED
  BY <1>1, <1>7, <1>10 DEF Decoding

LEMMA LaunchStep ==
  ASSUME IInv, Launch PROVE IInv'
<1>1. /\ TypeOK /\ Queue /\ ThisBatch /\ LastBatch /\ Slots /\ Decoders /\ Fresh
      /\ \A x \in Req : Live(x) => LengthsOf(x)
  BY DEF IInv
<1> DEFINE whole == {i \in DOMAIN batch.items : ~batch.items[i].chunk}
           joined == {batch.items[i].req : i \in whole}
<1>2. /\ pc = "allocate" /\ at > Len(batch.items) /\ pc' = "process" /\ at' = 1
      /\ running' = {r \in running \cup joined : CanDecode(r)}
      /\ cache' = cache /\ table_free' = table_free /\ page_table' = page_table
      /\ pending' = pending /\ chunked' = chunked /\ adder' = adder
      /\ finished_reqs' = finished_reqs /\ newly' = newly /\ obj' = obj /\ stage' = stage
      /\ sent' = sent /\ batch' = batch /\ last' = last
  BY DEF Launch, memory
<1>3. PICK t \in [joined -> Token] :
        tokens' = [r \in Req |-> IF r \in joined THEN Append(tokens[r], t[r]) ELSE tokens[r]]
  BY DEF Launch
<1>4. /\ \A i \in DOMAIN batch.items : batch.items[i].req \in Req /\ batch.items[i].chunk \in BOOLEAN
      /\ batch.prefill \in BOOLEAN
  <2>1. batch \in BatchType
    BY <1>1 DEF TypeOK
  <2> QED
    BY <2>1, BatchEntries
<1>5. joined \subseteq Req
  BY <1>4
<1>6. \A x : x \in joined <=> \E i \in DOMAIN batch.items : batch.items[i].req = x /\ ~ batch.items[i].chunk
  OBVIOUS
<1>7. /\ \A x : InLast(x)' <=> InLast(x)
      /\ \A x : ~ Sampled(x)
      /\ \A x : Sampled(x)' <=> x \in joined
      /\ \A x : ~ Ahead(x) /\ ~ Ahead(x)' /\ ~ Taken(x)'
      /\ \A x : Taken(x) <=> \E i \in DOMAIN batch.items : batch.items[i].req = x
      /\ Preparing /\ ~ Preparing'
  BY <1>1, <1>2, <1>6, StandingLaunched
<1> HIDE DEF joined
<1>8. \A x \in Req : /\ Live(x)' <=> Live(x)
                     /\ CanDecode(x)' <=> CanDecode(x)
  BY <1>2 DEF Live, CanDecode, RemainLen
<1>9. \A i \in DOMAIN batch.items :
        /\ Live(batch.items[i].req)
        /\ batch.prefill => /\ batch.items[i].chunk <=> batch.items[i].req \in chunked
                            /\ ~ InLast(batch.items[i].req) /\ stage[batch.items[i].req] = "admitted"
        /\ ~ batch.prefill => ~ batch.items[i].chunk /\ batch.items[i].req \in running
        /\ ~ batch.items[i].chunk => ~ Contains(pending, batch.items[i].req)
  BY <1>1, <1>2, <1>7 DEF ThisBatch, ThisEntry
<1>10. TypeOK'
  <2>1. \A x \in Req : (IF x \in joined THEN Append(tokens[x], t[x]) ELSE tokens[x]) \in Seq(Token)
    <3>1. tokens \in [Req -> Seq(Token)]
      BY <1>1 DEF TypeOK
    <3> QED
      BY <1>3, <3>1
  <2>2. tokens' \in [Req -> Seq(Token)]
    BY <1>3, <2>1
  <2>3. running' \subseteq Req
    BY <1>1, <1>2, <1>5 DEF TypeOK
  <2> QED
    BY <1>1, <1>2, <2>2, <2>3 DEF TypeOK
<1>11. Queue'
  BY <1>1, <1>2 DEF Queue
<1>12. ThisBatch'
  <2>1. \A i \in DOMAIN batch.items : ThisEntry(batch.items[i])'
    BY <1>2, <1>7, <1>9 DEF ThisEntry
  <2>2. ASSUME NEW x \in Req, Sampled(x)'
        PROVE  IF batch.prefill THEN stage[x] = "admitted" ELSE Live(x)
    BY <1>6, <1>7, <1>9, <2>2
  <2> QED
    BY <1>1, <1>2, <1>8, <2>1, <2>2 DEF ThisBatch, OncePerBatch
<1>13. LastBatch'
  <2>1. newly = {}
    BY <1>1, <1>2 DEF LastBatch
  <2> QED
    BY <1>1, <1>2, <1>7, <1>8, <2>1 DEF LastBatch, OncePerBatch
<1>14. Slots'
  BY <1>1, <1>2, <1>8 DEF Slots
<1>15. \A x \in Req : Taken(x) /\ x \notin chunked => x \in joined
  BY <1>4, <1>6, <1>7, <1>9
<1>16. Decoders'
  <2>1. \A x \in running' : x \in Req /\ Live(x) /\ ~ Contains(pending, x) /\ CanDecode(x)
    <3>1. \A x \in joined : x \in Req /\ Live(x) /\ ~ Contains(pending, x)
      BY <1>5, <1>6, <1>9
    <3>2. \A x \in running : x \in Req /\ Live(x) /\ ~ Contains(pending, x)
      BY <1>1 DEF Decoders, TypeOK
    <3> QED
      BY <1>2, <3>1, <3>2
  <2>2. ASSUME NEW x \in Req, Live(x), x \notin chunked
        PROVE  IF CanDecode(x) THEN x \in running' ELSE InLast(x) \/ Sampled(x)'
    <3>1. CASE Taken(x)
      BY <1>2, <1>7, <1>15, <2>2, <3>1
    <3>2. CASE ~ Taken(x)
      <4>1. IF CanDecode(x) THEN x \in running ELSE InLast(x)
        BY <1>1, <1>7, <2>2, <3>2 DEF Decoders
      <4> QED
        BY <1>2, <4>1
    <3> QED
      BY <3>1, <3>2
  <2> QED
    BY <1>2, <1>7, <1>8, <2>1, <2>2 DEF Decoders
<1>17. ASSUME NEW x \in Req, Live(x)' PROVE LengthsOf(x)'
  <2>1. LengthsOf(x)
    BY <1>1, <1>8, <1>17
  <2>2. CASE x \in joined
    <3>1. Taken(x) /\ x \notin chunked
      BY <1>1, <1>6, <1>7, <1>9, <2>2 DEF Queue
    <3>2. Decoding(x)
      BY <1>7, <2>1, <3>1 DEF LengthsOf
    <3>3. t[x] \in Token /\ tokens'[x] = Append(tokens[x], t[x])
      BY <1>3, <2>2
    <3>4. Decoding(x)'
      BY <1>1, <1>2, <1>7, <2>2, <3>1, <3>2, <3>3, SampledLengths
    <3> QED
      BY <1>2, <1>7, <3>1, <3>4 DEF LengthsOf
  <2>3. CASE x \notin joined
    <3>1. tokens'[x] = tokens[x]
      BY <1>3, <2>3
    <3>2. CASE x \in chunked
      <4>1. BetweenChunks(x)'
        BY <1>2, <1>7, <2>1, <3>1, <3>2 DEF LengthsOf, BetweenChunks
      <4> QED
        BY <1>2, <1>7, <3>2, <4>1 DEF LengthsOf
    <3>3. CASE x \notin chunked
      <4>1. ~ Taken(x)
        BY <1>15, <2>3, <3>3
      <4>2. Unanswered(x)' = Unanswered(x)
        BY <1>7, <2>3 DEF Unanswered, Bit
      <4> QED
        BY <1>2, <1>7, <2>1, <3>1, <4>1, <4>2, LengthsKept
    <3> QED
      BY <3>2, <3>3
  <2> QED
    BY <2>2, <2>3
<1>18. Fresh'
  <2>1. \A x \in joined : Live(x)
    BY <1>6, <1>9
  <2>2. \A x \in Req : x \notin joined => tokens'[x] = tokens[x]
    BY <1>3
  <2> QED
    BY <1>1, <1>2, <2>1, <2>2 DEF Fresh, Live
<1> QED
  BY <1>10, <1>11, <1>12, <1>13, <1>14, <1>16, <1>17, <1>18 DEF IInv
-----------------------------------------------------------------------------
(* The results of a batch. *)

LEMMA OpenBehind ==
  ASSUME NEW b, b \in BatchType, OncePerBatch(b), NEW n, n \in DOMAIN b.items
  PROVE  /\ \A x : OpenIn(b, n + 1, x) <=> OpenIn(b, n, x) /\ (x # b.items[n].req \/ b.items[n].chunk)
         /\ ~ b.items[n].chunk => OpenIn(b, n, b.items[n].req)
<1>1. DOMAIN b.items = 1..Len(b.items)
  BY BatchEntries
<1>2. n \in Nat /\ \A i \in DOMAIN b.items : i \in Nat
  BY <1>1
<1>3. /\ \A i \in DOMAIN b.items : b.items[i].req = b.items[n].req => i = n
      /\ \A i \in DOMAIN b.items : i >= n + 1 <=> i >= n /\ i # n
      /\ n >= n
  BY <1>2 DEF OncePerBatch
<1> QED
  BY <1>3 DEF OpenIn

\* The entry whose result is processed
LEMMA AnsweredEntry ==
  ASSUME TypeOK, ThisBatch, LastBatch, NEW e \in Answered
  PROVE  /\ Results \in BatchType /\ OncePerBatch(Results)
         /\ at \in DOMAIN Results.items /\ e = Results.items[at]
         /\ e.req \in Req /\ e.chunk \in BOOLEAN
<1>1. Results \in BatchType /\ OncePerBatch(Results)
  BY DEF Results, TypeOK, ThisBatch, LastBatch
<1>2. at \in DOMAIN Results.items /\ e = Results.items[at]
  BY DEF Answered
<1>3. \A i \in DOMAIN Results.items : Results.items[i].req \in Req /\ Results.items[i].chunk \in BOOLEAN
  BY <1>1, BatchEntries
<1> QED
  BY <1>1, <1>2, <1>3

LEMMA StandingAnswered ==
  ASSUME TypeOK, ThisBatch, LastBatch, NEW e \in Answered, pc = "process", pc' = pc, at' = at + 1,
         batch' = batch, last' = last
  PROVE  /\ \A x : ~ Ahead(x) /\ ~ Ahead(x)' /\ ~ Taken(x) /\ ~ Taken(x)'
         /\ ~ Preparing /\ ~ Preparing'
         /\ \A x : x # e.req \/ e.chunk => /\ InLast(x)' <=> InLast(x)
                                           /\ Sampled(x)' <=> Sampled(x)
         /\ \A x : (InLast(x)' => InLast(x)) /\ (Sampled(x)' => Sampled(x))
         /\ ~ e.chunk => IF Overlap THEN /\ InLast(e.req) /\ ~ InLast(e.req)'
                                         /\ Sampled(e.req)' <=> Sampled(e.req)
                         ELSE /\ Sampled(e.req) /\ ~ Sampled(e.req)'
                              /\ ~ InLast(e.req) /\ ~ InLast(e.req)'
<1>1. ~ Preparing /\ ~ Preparing'
  BY DEF Preparing
<1>2. \A x : ~ Ahead(x) /\ ~ Ahead(x)' /\ ~ Taken(x) /\ ~ Taken(x)'
  BY <1>1 DEF Ahead, Taken
<1>3. /\ \A x : OpenIn(Results, at + 1, x) <=> OpenIn(Results, at, x) /\ (x # e.req \/ e.chunk)
      /\ ~ e.chunk => OpenIn(Results, at, e.req)
  <2> DEFINE b == Results  n == at
  <2>1. b \in BatchType /\ OncePerBatch(b) /\ n \in DOMAIN b.items /\ e = b.items[n]
    BY AnsweredEntry
  <2> HIDE DEF b, n
  <2>2. /\ \A x : OpenIn(b, n + 1, x) <=> OpenIn(b, n, x) /\ (x # b.items[n].req \/ b.items[n].chunk)
        /\ ~ b.items[n].chunk => OpenIn(b, n, b.items[n].req)
    BY <2>1, OpenBehind
  <2> QED
    BY <2>1, <2>2 DEF b, n
<1>4. CASE Overlap
  <2>1. Results = last
    BY <1>4 DEF Results
  <2>2. \A x : (InLast(x) <=> OpenIn(last, at, x)) /\ (InLast(x)' <=> OpenIn(last, at + 1, x))
    BY DEF InLast, OpenIn
  <2>3. \A x : Sampled(x)' <=> Sampled(x)
    BY <1>4 DEF Sampled, OpenIn
  <2> QED
    BY <1>1, <1>2, <1>3, <1>4, <2>1, <2>2, <2>3
<1>5. CASE ~ Overlap
  <2>1. Results = batch /\ last = NoBatch
    BY <1>5 DEF Results, LastBatch
  <2>2. \A x : (Sampled(x) <=> OpenIn(batch, at, x)) /\ (Sampled(x)' <=> OpenIn(batch, at + 1, x))
    BY <1>5 DEF Sampled, OpenIn
  <2>3. \A x : ~ InLast(x) /\ ~ InLast(x)'
    BY <2>1, EmptyBatch DEF InLast, OpenIn
  <2> QED
    BY <1>1, <1>2, <1>3, <1>5, <2>1, <2>2, <2>3
<1> QED
  BY <1>4, <1>5

\* What is known of a request whose token has been sampled
LEMMA AnsweredRequest ==
  ASSUME TypeOK, ThisBatch, LastBatch, Queue, NEW e \in Answered, ~ e.chunk, pc = "process"
  PROVE  /\ e.req \notin chunked /\ ~ Contains(pending, e.req)
         /\ stage[e.req] \notin {"unsent", "pending", "gone"}
         /\ Results.prefill => stage[e.req] = "admitted"
         /\ e.req \notin finished_reqs => Live(e.req)
         /\ e.req \in finished_reqs => ~ Live(e.req)
         /\ Overlap => InLast(e.req)
         /\ ~ Overlap => Sampled(e.req)
<1>1. /\ Results \in BatchType /\ OncePerBatch(Results)
      /\ at \in DOMAIN Results.items /\ e = Results.items[at] /\ e.req \in Req
  BY AnsweredEntry
<1>2. OpenIn(Results, at, e.req)
  <2> DEFINE b == Results  n == at
  <2>1. b \in BatchType /\ OncePerBatch(b) /\ n \in DOMAIN b.items /\ e = b.items[n]
    BY <1>1
  <2> HIDE DEF b, n
  <2>2. ~ b.items[n].chunk => OpenIn(b, n, b.items[n].req)
    BY <2>1, OpenBehind
  <2> QED
    BY <2>1, <2>2 DEF b, n
<1>3. e.req \in finished_reqs => ~ Live(e.req)
  BY DEF LastBatch, Live
<1>4. CASE Overlap
  <2>1. InLast(e.req)
    BY <1>2, <1>4 DEF InLast, Results
  <2>2. ~ Contains(pending, e.req) /\ stage[e.req] \notin {"unsent", "pending", "gone"}
    BY <1>1, <1>4 DEF LastBatch, Results
  <2>3. IF last.prefill THEN stage[e.req] = "admitted" ELSE Live(e.req) \/ e.req \in finished_reqs
    BY <1>1, <2>1 DEF LastBatch
  <2> QED
    BY <1>1, <1>3, <1>4, <2>1, <2>2, <2>3 DEF Queue, Results, Live
<1>5. CASE ~ Overlap
  <2>1. Sampled(e.req)
    BY <1>2, <1>5 DEF Sampled, Results
  <2>2. ~ Contains(pending, e.req)
    BY <1>1, <1>5 DEF ThisBatch, ThisEntry, Results
  <2>3. IF batch.prefill THEN stage[e.req] = "admitted" ELSE Live(e.req)
    BY <1>1, <1>5, <2>1 DEF ThisBatch
  <2> QED
    BY <1>1, <1>3, <1>5, <2>1, <2>2, <2>3 DEF Queue, Results, Live
<1> QED
  BY <1>4, <1>5

\* A token that has come to the host is no longer unanswered.
LEMMA AnsweredLengths ==
  ASSUME TypeOK, NEW r \in Req, LengthsOf(r), r \notin chunked, chunked' = chunked,
         ~ Ahead(r), ~ Ahead(r)', ~ Taken(r), ~ Taken(r)',
         IF Overlap THEN /\ InLast(r) /\ ~ InLast(r)'
                         /\ Sampled(r)' <=> Sampled(r)
         ELSE /\ Sampled(r) /\ ~ Sampled(r)'
              /\ ~ InLast(r) /\ ~ InLast(r)',
         tokens' = tokens, obj'[r].cached = obj[r].cached, obj'[r].device = obj[r].device,
         obj'[r].host = obj[r].host + 1
  PROVE  LengthsOf(r)'
<1>1. /\ InputLen(r) \in Nat /\ tokens[r] \in Seq(Token) /\ InputLen(r)' = InputLen(r)
      /\ obj[r].device \in Nat /\ obj[r].host \in Nat /\ obj[r].cached \in Nat
  BY RequestFacts DEF InputLen
<1>2. Unanswered(r) = Unanswered(r)' + 1 /\ Unanswered(r)' \in Nat /\ Unanswered(r) \in Nat
  BY DEF Unanswered, Bit
<1>3. /\ InputLen(r) < obj[r].device /\ obj[r].cached = obj[r].device - 1
      /\ Len(tokens[r]) = obj[r].device /\ SubSeq(tokens[r], 1, InputLen(r)) = Prompt[r]
      /\ obj[r].host = obj[r].device - Unanswered(r)
  <2>1. Decoding(r)
    BY DEF LengthsOf
  <2> QED
    BY <1>1, <1>2, <2>1 DEF Decoding, Bit
<1>4. obj'[r].host = obj'[r].device - Unanswered(r)'
  <2> DEFINE u == Unanswered(r)  v == Unanswered(r)'  d == obj[r].device  h == obj[r].host
  <2>1. v \in Nat /\ u = v + 1 /\ d \in Nat /\ h = d - u
    BY <1>1, <1>2, <1>3
  <2>3. obj'[r].host = h + 1 /\ obj'[r].device = d
    OBVIOUS
  <2> HIDE DEF u, v, d, h
  <2>2. h + 1 = d - v
    BY <2>1
  <2> QED
    BY <2>2, <2>3 DEF v
<1>5. Bit(Taken(r)') = 0
  BY DEF Bit
<1>6. obj'[r].device - Bit(Taken(r)') = obj'[r].device
  BY <1>1, <1>5
<1>7. Decoding(r)'
  BY <1>1, <1>3, <1>4, <1>6 DEF Decoding
<1> QED
  BY <1>7 DEF LengthsOf
\* One result is processed: its request ends (over) or goes on.
LEMMA AnsweredStep ==
  ASSUME IInv, pc = "process", NEW e \in Answered, ~ e.chunk, NEW over \in BOOLEAN, NEW v,
         stage' = [stage EXCEPT ![e.req] = v],
         over => v = "finished" /\ e.req \notin finished_reqs,
         ~ over => /\ v = stage[e.req] \/ (v = "committed" /\ Results.prefill)
                   /\ Live(e.req) => CanDecode(e.req),
         running' = IF over THEN running \ {e.req} ELSE running,
         newly' = IF over THEN newly \cup {e.req} ELSE newly,
         obj' \in [Req -> [slot : Nat, cached : Nat, device : Nat, host : Nat, handle : Seq(Block)]],
         \A x \in Req : x # e.req => obj'[x] = obj[x] /\ sent'[x] = sent[x],
         obj'[e.req].cached = obj[e.req].cached, obj'[e.req].device = obj[e.req].device,
         obj'[e.req].host = obj[e.req].host + 1,
         sent' \in [Req -> Seq(BOOLEAN)],
         Slots', table_free' \in Seq(Slot), page_table' = page_table,
         Paths(cache') \subseteq Seq(Block), at' = at + 1,
         UNCHANGED << pc, pending, chunked, finished_reqs, tokens, adder, batch, last >>
  PROVE  IInv'
<1> DEFINE r == e.req
<1>1. /\ TypeOK /\ Queue /\ ThisBatch /\ LastBatch /\ Slots /\ Decoders /\ Fresh
      /\ \A x \in Req : Live(x) => LengthsOf(x)
  BY DEF IInv
<1>2. /\ pc' = pc /\ pending' = pending /\ chunked' = chunked /\ finished_reqs' = finished_reqs
      /\ tokens' = tokens /\ adder' = adder /\ batch' = batch /\ last' = last
  OBVIOUS
<1>3. /\ Results \in BatchType /\ at \in DOMAIN Results.items /\ r \in Req
  BY <1>1, AnsweredEntry
<1>4. /\ r \notin chunked /\ ~ Contains(pending, r)
      /\ stage[r] \notin {"unsent", "pending", "gone"}
      /\ Results.prefill => stage[r] = "admitted"
      /\ r \notin finished_reqs => Live(r)
      /\ r \in finished_reqs => ~ Live(r)
      /\ Overlap => InLast(r)
  BY <1>1, AnsweredRequest
<1>5. /\ \A x : ~ Ahead(x) /\ ~ Ahead(x)' /\ ~ Taken(x) /\ ~ Taken(x)'
      /\ ~ Preparing /\ ~ Preparing'
      /\ \A x : x # r => /\ InLast(x)' <=> InLast(x)
                         /\ Sampled(x)' <=> Sampled(x)
      /\ \A x : (InLast(x)' => InLast(x)) /\ (Sampled(x)' => Sampled(x))
      /\ IF Overlap THEN /\ InLast(r) /\ ~ InLast(r)'
                         /\ Sampled(r)' <=> Sampled(r)
         ELSE /\ Sampled(r) /\ ~ Sampled(r)'
              /\ ~ InLast(r) /\ ~ InLast(r)'
  BY <1>1, StandingAnswered
<1>6. stage \in [Req -> {"unsent", "pending", "gone", "admitted", "committed", "finished", "aborted"}]
  BY <1>1 DEF TypeOK
<1>7. /\ stage' \in [Req -> {"unsent", "pending", "gone", "admitted",
                             "committed", "finished", "aborted"}]
      /\ \A x \in Req : x # r => stage'[x] = stage[x]
      /\ stage'[r] = v
  BY <1>3, <1>6
<1>8. /\ \A x \in Req : x # r => (Live(x)' <=> Live(x))
      /\ over => ~ Live(r)'
      /\ ~ over => (Live(r)' <=> Live(r))
      /\ v \notin {"unsent", "pending", "gone"}
  BY <1>3, <1>4, <1>7 DEF Live
<1> HIDE DEF r
<1>9. TypeOK'
  <2>1. at' \in Nat \ {0}
    <3>1. at \in Nat \ {0}
      BY <1>1 DEF TypeOK
    <3> QED
      BY <3>1, NextAt
  <2>2. running' \subseteq Req /\ newly' \subseteq Req
    BY <1>1, <1>3 DEF TypeOK, r
  <2> QED
    BY <1>1, <1>2, <1>7, <2>1, <2>2 DEF TypeOK
<1>10. Queue'
  <2>1. \A i \in DOMAIN pending : pending[i] # r /\ pending[i] \in Req
    BY <1>1, <1>4, PendingEntries DEF Contains
  <2> QED
    BY <1>1, <1>2, <1>7, <1>8, <2>1 DEF Queue
<1>11. ThisBatch'
  <2>1. ASSUME NEW i \in DOMAIN batch.items PROVE ThisEntry(batch.items[i])'
    BY <1>1, <1>2, <1>5 DEF ThisBatch, ThisEntry
  <2>2. ASSUME NEW x \in Req, Sampled(x)'
        PROVE  IF batch.prefill THEN stage'[x] = "admitted" ELSE Live(x)' \/ (Overlap /\ x \in newly')
    <3>1. IF batch.prefill THEN stage[x] = "admitted" ELSE Live(x) \/ (Overlap /\ x \in newly)
      BY <1>1, <1>5, <2>2 DEF ThisBatch
    <3>2. CASE x # r
      BY <1>7, <1>8, <2>2, <3>1, <3>2
    <3>3. CASE x = r
      <4>1. Overlap /\ Sampled(r) /\ InLast(r)
        BY <1>5, <2>2, <3>3
      <4>2. ~ batch.prefill
        <5>1. PICK i \in DOMAIN batch.items : batch.items[i].req = r
          BY <4>1 DEF Sampled, OpenIn
        <5> QED
          BY <1>1, <4>1, <5>1 DEF ThisBatch, ThisEntry
      <4> QED
        BY <1>8, <3>1, <3>3, <4>1, <4>2 DEF r
    <3> QED
      BY <3>2, <3>3
  <2> QED
    BY <1>1, <1>2, <1>5, <2>1, <2>2 DEF ThisBatch, OncePerBatch
<1>12. LastBatch'
  <2>1. \A i \in DOMAIN last.items :
          /\ stage'[last.items[i].req] \notin {"unsent", "pending", "gone"}
          /\ ~ last.items[i].chunk => ~ Contains(pending, last.items[i].req)
    <3>1. \A i \in DOMAIN last.items : last.items[i].req \in Req
      BY <1>1, BatchEntries DEF TypeOK
    <3> QED
      BY <1>1, <1>7, <1>8, <3>1 DEF LastBatch
  <2>2. ASSUME NEW x \in Req, InLast(x)'
        PROVE  IF last.prefill THEN stage'[x] = "admitted" ELSE Live(x)' \/ x \in finished_reqs
    <3>1. x # r /\ InLast(x)
      BY <1>5, <2>2
    <3> QED
      BY <1>1, <1>7, <1>8, <3>1 DEF LastBatch
  <2>3. \A x \in finished_reqs \cup newly : x \in Req /\ stage[x] = "finished"
    BY <1>1 DEF LastBatch, TypeOK
  <2>4. \A x \in finished_reqs \cup newly' : stage'[x] = "finished"
    BY <1>4, <1>7, <2>3 DEF r
  <2>5. Results' = Results /\ Results.items # << >>
    BY <1>2, <1>3 DEF Results
  <2> QED
    BY <1>1, <1>2, <2>1, <2>2, <2>4, <2>5 DEF LastBatch, OncePerBatch
<1>13. Decoders'
  <2>1. \A x \in Req : CanDecode(x)' <=> CanDecode(x)
    BY <1>3 DEF CanDecode, RemainLen, r
  <2>2. \A x \in running' : x \in Req /\ x \in running /\ Live(x)'
    BY <1>1, <1>8 DEF Decoders, TypeOK, r
  <2>3. ASSUME NEW x \in Req, Live(x)', x \notin chunked
        PROVE  IF CanDecode(x) THEN x \in running' ELSE InLast(x)' \/ Sampled(x)'
    <3>1. CASE x # r
      BY <1>1, <1>5, <1>8, <2>3, <3>1 DEF Decoders, r
    <3>2. CASE x = r
      <4>1. ~ over /\ Live(x) /\ CanDecode(x)
        BY <1>8, <2>3, <3>2 DEF r
      <4> QED
        BY <1>1, <1>5, <2>3, <4>1 DEF Decoders
    <3> QED
      BY <3>1, <3>2
  <2> QED
    BY <1>1, <1>2, <1>5, <2>1, <2>2, <2>3 DEF Decoders
<1>14. ASSUME NEW x \in Req, Live(x)' PROVE LengthsOf(x)'
  <2>1. CASE x # r
    <3>1. LengthsOf(x)
      BY <1>1, <1>8, <1>14, <2>1
    <3>2. Unanswered(x)' = Unanswered(x)
      BY <1>5, <2>1 DEF Unanswered, Bit
    <3>3. obj'[x] = obj[x]
      BY <2>1 DEF r
    <3> QED
      BY <1>2, <1>5, <3>1, <3>2, <3>3, LengthsKept
  <2>2. CASE x = r
    <3>1. LengthsOf(r)
      BY <1>1, <1>3, <1>8, <1>14, <2>2
    <3>2. /\ obj'[r].cached = obj[r].cached /\ obj'[r].device = obj[r].device
          /\ obj'[r].host = obj[r].host + 1
      BY DEF r
    <3> QED
      BY <1>1, <1>2, <1>3, <1>4, <1>5, <2>2, <3>1, <3>2, AnsweredLengths
  <2> QED
    BY <2>1, <2>2
<1>15. Fresh'
  BY <1>1, <1>2, <1>7, <1>8 DEF Fresh, r
<1> QED
  BY <1>9, <1>10, <1>11, <1>12, <1>13, <1>14, <1>15 DEF IInv

\* The result of a chunk is passed over.
LEMMA SkipChunkStep ==
  ASSUME IInv, NEW e \in Answered, SkipChunk(e) PROVE IInv'
<1>1. /\ TypeOK /\ Queue /\ ThisBatch /\ LastBatch /\ Slots /\ Decoders /\ Fresh
      /\ \A x \in Req : Live(x) => LengthsOf(x)
  BY DEF IInv
<1>2. /\ pc = "process" /\ pc' = pc /\ e.chunk /\ at' = at + 1
      /\ cache' = cache /\ table_free' = table_free /\ page_table' = page_table
      /\ pending' = pending /\ chunked' = chunked /\ running' = running
      /\ finished_reqs' = finished_reqs /\ newly' = newly /\ obj' = obj /\ stage' = stage
      /\ tokens' = tokens /\ sent' = sent /\ adder' = adder /\ batch' = batch /\ last' = last
  BY DEF SkipChunk, Answer, memory, queues
<1>3. /\ \A x : ~ Ahead(x) /\ ~ Ahead(x)' /\ ~ Taken(x) /\ ~ Taken(x)'
      /\ ~ Preparing /\ ~ Preparing'
      /\ \A x : InLast(x)' <=> InLast(x)
      /\ \A x : Sampled(x)' <=> Sampled(x)
  BY <1>1, <1>2, StandingAnswered
<1>4. \A x : Unanswered(x)' = Unanswered(x)
  BY <1>3 DEF Unanswered, Bit
<1>5. \A x \in Req : /\ Live(x)' <=> Live(x)
                     /\ CanDecode(x)' <=> CanDecode(x)
  BY <1>2 DEF Live, CanDecode, RemainLen
<1>6. TypeOK'
  <2>1. at' \in Nat \ {0}
    <3>1. at \in Nat \ {0}
      BY <1>1 DEF TypeOK
    <3> QED
      BY <1>2, <3>1, NextAt
  <2> QED
    BY <1>1, <1>2, <2>1 DEF TypeOK
<1>7. Queue'
  BY <1>1, <1>2 DEF Queue
<1>8. ThisBatch'
  <2>1. \A i \in DOMAIN batch.items : ThisEntry(batch.items[i])'
    BY <1>1, <1>2, <1>3 DEF ThisBatch, ThisEntry
  <2> QED
    BY <1>1, <1>2, <1>3, <1>5, <2>1 DEF ThisBatch, OncePerBatch
<1>9. LastBatch'
  BY <1>1, <1>2, <1>3, <1>5 DEF LastBatch, OncePerBatch, Results
<1>10. Slots'
  BY <1>1, <1>2, <1>5 DEF Slots
<1>11. Decoders'
  <2>1. running \subseteq Req
    BY <1>1 DEF TypeOK
  <2> QED
    BY <1>1, <1>2, <1>3, <1>5, <2>1 DEF Decoders
<1>12. \A x \in Req : Live(x)' => LengthsOf(x)'
  BY <1>1, <1>2, <1>3, <1>4, <1>5, LengthsKept
<1>13. Fresh'
  BY <1>1, <1>2 DEF Fresh
<1> QED
  BY <1>6, <1>7, <1>8, <1>9, <1>10, <1>11, <1>12, <1>13 DEF IInv
\* A reply is sent, of one flag.
LEMMA RepliedType ==
  ASSUME TypeOK, NEW e, e.req \in Req, sent' = [sent EXCEPT ![e.req] = Append(@, Finished(e))]
  PROVE  sent' \in [Req -> Seq(BOOLEAN)] /\ \A x \in Req : x # e.req => sent'[x] = sent[x]
<1>1. Finished(e) \in BOOLEAN
  BY DEF Finished
<1>2. sent \in [Req -> Seq(BOOLEAN)]
  BY DEF TypeOK
<1> DEFINE s == Append(sent[e.req], Finished(e))
<1>3. s \in Seq(BOOLEAN)
  BY <1>1, <1>2
<1>4. sent' = [sent EXCEPT ![e.req] = s]
  OBVIOUS
<1> HIDE DEF s
<1> QED
  BY <1>2, <1>3, <1>4

\* The host's length of a request grows by one, and its handle may change.
LEMMA HostSet ==
  ASSUME TypeOK, NEW r \in Req, NEW c \in Seq(Block),
         obj' = [obj EXCEPT ![r].host = Appended(r), ![r].handle = c]
  PROVE  /\ obj' \in [Req -> [slot : Nat, cached : Nat, device : Nat, host : Nat, handle : Seq(Block)]]
         /\ obj'[r].cached = obj[r].cached /\ obj'[r].device = obj[r].device
         /\ obj'[r].host = obj[r].host + 1 /\ obj'[r].slot = obj[r].slot /\ obj'[r].handle = c
         /\ \A x \in Req : x # r => obj'[x] = obj[x]
<1> DEFINE T == [slot : Nat, cached : Nat, device : Nat, host : Nat, handle : Seq(Block)]
           w == obj[r]
           h == w.host + 1
           o == [w EXCEPT !.host = h, !.handle = c]
<1>1. obj \in [Req -> T] /\ w \in T
  BY DEF TypeOK
<1>2. w.host \in Nat /\ h \in Nat
  BY <1>1
<1>3. obj' = [obj EXCEPT ![r] = o]
  BY <1>1 DEF Appended
<1>4. o = [w EXCEPT !.host = h, !.handle = c]
  OBVIOUS
<1>5. h = obj[r].host + 1
  OBVIOUS
<1> HIDE DEF w, h, o
<1>6. o \in T /\ o.cached = w.cached /\ o.device = w.device /\ o.host = h /\ o.slot = w.slot /\ o.handle = c
  BY <1>1, <1>2, <1>4
<1> HIDE DEF T
<1>7. obj' \in [Req -> T] /\ obj'[r] = o /\ \A x \in Req : x # r => obj'[x] = obj[x]
  BY <1>1, <1>3, <1>6
<1> QED
  BY <1>5, <1>6, <1>7 DEF w, T

LEMMA HostOnly ==
  ASSUME TypeOK, NEW r \in Req, obj' = [obj EXCEPT ![r].host = Appended(r)]
  PROVE  obj[r].handle \in Seq(Block)
         /\ obj' = [obj EXCEPT ![r].host = Appended(r), ![r].handle = obj[r].handle]
<1> DEFINE T == [slot : Nat, cached : Nat, device : Nat, host : Nat, handle : Seq(Block)]
           w == obj[r]
           h == Appended(r)
<1>1. obj \in [Req -> T] /\ w \in T
  BY DEF TypeOK
<1>2. w.handle \in Seq(Block)
  BY <1>1
<1>3. [w EXCEPT !.host = h] = [w EXCEPT !.host = h, !.handle = w.handle]
  <2> HIDE DEF w, h
  <2> QED
    BY <1>1
<1> QED
  BY <1>2, <1>3

LEMMA FinishReqStep ==
  ASSUME IInv, NEW e \in Answered, FinishReq(e) PROVE IInv'
<1> DEFINE r == e.req
<1>1. /\ TypeOK /\ Queue /\ ThisBatch /\ LastBatch /\ Slots
      /\ \A x \in Req : Live(x) => LengthsOf(x)
  BY DEF IInv
<1>2. /\ pc = "process" /\ ~ e.chunk /\ at' = at + 1 /\ e.req \notin finished_reqs
      /\ sent' = [sent EXCEPT ![e.req] = Append(@, Finished(e))]
      /\ obj' = [obj EXCEPT ![r].host = Appended(r)]
      /\ FreeResources(r, Appended(r))
      /\ running' = running \ {e.req} /\ newly' = newly \cup {e.req}
      /\ stage' = [stage EXCEPT ![e.req] = "finished"]
      /\ UNCHANGED << pc, pending, chunked, finished_reqs, tokens, adder, batch, last >>
      /\ page_table' = page_table
  BY DEF FinishReq, Answer, Over
<1>3. r \in Req /\ Live(r)
  BY <1>1, <1>2, AnsweredEntry, AnsweredRequest
<1>4. Appended(r) \in Nat
  BY <1>1, <1>3, RequestFacts DEF Appended
<1>5. /\ obj' \in [Req -> [slot : Nat, cached : Nat, device : Nat, host : Nat, handle : Seq(Block)]]
      /\ obj'[r].cached = obj[r].cached /\ obj'[r].device = obj[r].device
      /\ obj'[r].host = obj[r].host + 1 /\ obj'[r].slot = obj[r].slot
      /\ \A x \in Req : x # r => obj'[x] = obj[x]
  BY <1>1, <1>2, <1>3, HostOnly, HostSet
<1>6. Paths(cache') \subseteq Seq(Block) /\ table_free' = Append(table_free, obj[r].slot)
  BY <1>1, <1>2, <1>3, <1>4, FreedCache
<1>7. Slots' /\ table_free' \in Seq(Slot)
  <2>1. \A x \in Req : Live(x)' <=> Live(x) /\ x # r
    BY <1>1, <1>2, <1>3 DEF Live, TypeOK
  <2>2. \A x \in Req : obj'[x].slot = obj[x].slot
    BY <1>5
  <2> QED
    BY <1>1, <1>3, <1>6, <2>1, <2>2, SlotFreed
<1>8. sent' \in [Req -> Seq(BOOLEAN)] /\ \A x \in Req : x # e.req => sent'[x] = sent[x]
  BY <1>1, <1>2, <1>3, RepliedType
<1> QED
  BY <1>2, <1>5, <1>6, <1>7, <1>8, AnsweredStep

\* A request that is not over, and has not been before, goes on decoding.
LEMMA NotOver ==
  ASSUME TypeOK, ThisBatch, LastBatch, Queue, NEW e \in Answered, ~ e.chunk, pc = "process",
         ~ Over(e), Live(e.req)
  PROVE  CanDecode(e.req)
BY AnsweredRequest DEF Over, Finished

LEMMA ReplyOnlyStep ==
  ASSUME IInv, NEW e \in Answered, ReplyOnly(e) PROVE IInv'
<1> DEFINE r == e.req
<1>1. /\ TypeOK /\ Queue /\ ThisBatch /\ LastBatch /\ Slots
  BY DEF IInv
<1>2. /\ pc = "process" /\ ~ e.chunk /\ at' = at + 1 /\ ~ Over(e)
      /\ sent' = [sent EXCEPT ![e.req] = Append(@, Finished(e))]
      /\ obj' = [obj EXCEPT ![r].host = Appended(r)]
      /\ running' = running /\ newly' = newly /\ stage' = stage
      /\ cache' = cache /\ table_free' = table_free
      /\ UNCHANGED << pc, pending, chunked, finished_reqs, tokens, adder, batch, last >>
      /\ page_table' = page_table
  BY DEF ReplyOnly, Answer, queues, memory
<1>3. r \in Req
  BY <1>1, AnsweredEntry
<1>4. /\ obj' \in [Req -> [slot : Nat, cached : Nat, device : Nat, host : Nat, handle : Seq(Block)]]
      /\ obj'[r].cached = obj[r].cached /\ obj'[r].device = obj[r].device
      /\ obj'[r].host = obj[r].host + 1 /\ obj'[r].slot = obj[r].slot
      /\ \A x \in Req : x # r => obj'[x] = obj[x]
  BY <1>1, <1>2, <1>3, HostOnly, HostSet
<1>5. Slots' /\ table_free' \in Seq(Slot) /\ Paths(cache') \subseteq Seq(Block)
  <2>1. \A x \in Req : obj'[x].slot = obj[x].slot /\ (Live(x)' <=> Live(x))
    BY <1>2, <1>4 DEF Live
  <2> QED
    BY <1>1, <1>2, <2>1 DEF Slots, TypeOK
<1>6. sent' \in [Req -> Seq(BOOLEAN)] /\ \A x \in Req : x # e.req => sent'[x] = sent[x]
  BY <1>1, <1>2, <1>3, RepliedType
<1>7. Live(e.req) => CanDecode(e.req)
  BY <1>1, <1>2, NotOver
<1>8. stage' = [stage EXCEPT ![e.req] = stage[e.req]]
  BY <1>1, <1>2, <1>3 DEF TypeOK
<1> DEFINE over == FALSE  v == stage[e.req]
<1>9. over \in BOOLEAN /\ ~ over /\ v = stage[e.req] /\ stage' = [stage EXCEPT ![e.req] = v]
  BY <1>8
<1> HIDE DEF over, v
<1>10. /\ running' = IF over THEN running \ {e.req} ELSE running
       /\ newly' = IF over THEN newly \cup {e.req} ELSE newly
  BY <1>2, <1>9
<1>11. /\ pc = "process" /\ ~ e.chunk /\ at' = at + 1 /\ page_table' = page_table
       /\ UNCHANGED << pc, pending, chunked, finished_reqs, tokens, adder, batch, last >>
  BY <1>2
<1>12. /\ over => v = "finished" /\ e.req \notin finished_reqs
       /\ ~ over => /\ v = stage[e.req] \/ (v = "committed" /\ Results.prefill)
                    /\ Live(e.req) => CanDecode(e.req)
       /\ over \in BOOLEAN /\ stage' = [stage EXCEPT ![e.req] = v]
  BY <1>7, <1>9
<1> QED
  BY <1>4, <1>5, <1>6, <1>10, <1>11, <1>12, AnsweredStep

LEMMA CommitReqStep ==
  ASSUME IInv, NEW e \in Answered, CommitReq(e) PROVE IInv'
<1> DEFINE r == e.req
           c == Computed(r, Appended(r))
<1>1. /\ TypeOK /\ Queue /\ ThisBatch /\ LastBatch /\ Slots
      /\ \A x \in Req : Live(x) => LengthsOf(x)
  BY DEF IInv
<1>2. /\ pc = "process" /\ ~ e.chunk /\ at' = at + 1 /\ ~ Over(e) /\ Results.prefill
      /\ sent' = [sent EXCEPT ![e.req] = Append(@, Finished(e))]
      /\ obj' = [obj EXCEPT ![r].host = Appended(r), ![r].handle = c]
      /\ running' = running /\ newly' = newly /\ stage' = [stage EXCEPT ![e.req] = "committed"]
      /\ cache' = Lock(Unlock(Insert(cache, c, Row(r)), obj[r].handle), c)
      /\ table_free' = table_free
      /\ UNCHANGED << pc, pending, chunked, finished_reqs, tokens, adder, batch, last >>
      /\ page_table' = page_table
  BY DEF CommitReq, Answer, queues
<1>3. r \in Req /\ stage[r] = "admitted"
  BY <1>1, <1>2, AnsweredEntry, AnsweredRequest
<1>4. Live(r) /\ Appended(r) \in Nat
  BY <1>1, <1>3, RequestFacts DEF Appended, Live
<1>5. c \in Seq(Block)
  BY <1>1, <1>3, <1>4, ComputedType
<1> HIDE DEF c
<1>6. /\ obj' \in [Req -> [slot : Nat, cached : Nat, device : Nat, host : Nat, handle : Seq(Block)]]
      /\ obj'[r].cached = obj[r].cached /\ obj'[r].device = obj[r].device
      /\ obj'[r].host = obj[r].host + 1 /\ obj'[r].slot = obj[r].slot
      /\ \A x \in Req : x # r => obj'[x] = obj[x]
  BY <1>1, <1>2, <1>3, <1>5, HostSet
<1>7. Slots' /\ table_free' \in Seq(Slot)
  <2>1. \A x \in Req : obj'[x].slot = obj[x].slot /\ (Live(x)' <=> Live(x))
    BY <1>1, <1>2, <1>3, <1>6 DEF Live, TypeOK
  <2> QED
    BY <1>1, <1>2, <2>1 DEF Slots, TypeOK
<1>8. Paths(cache') \subseteq Seq(Block)
  <2>1. Paths(cache) \subseteq Seq(Block)
    BY <1>1 DEF TypeOK
  <2>2. Paths(Insert(cache, c, Row(r))) \subseteq Seq(Block)
    BY <1>5, <2>1, PathsTyped
  <2>3. Paths(Unlock(Insert(cache, c, Row(r)), obj[r].handle)) \subseteq Seq(Block)
    BY <2>2, PathsTyped
  <2> QED
    BY <1>2, <2>3, PathsTyped
<1>9. sent' \in [Req -> Seq(BOOLEAN)] /\ \A x \in Req : x # e.req => sent'[x] = sent[x]
  BY <1>1, <1>2, <1>3, RepliedType
<1>10. Live(e.req) => CanDecode(e.req)
  BY <1>1, <1>2, NotOver
<1> DEFINE over == FALSE  v == "committed"
<1>11. over \in BOOLEAN /\ ~ over /\ v = "committed"
  OBVIOUS
<1> HIDE DEF over, v
<1> QED
  BY <1>2, <1>6, <1>7, <1>8, <1>9, <1>10, <1>11, AnsweredStep
\* The batch just launched becomes the one before.
LEMMA StandingEnded ==
  ASSUME TypeOK, ThisBatch, LastBatch, pc = "process", at > Len(Results.items), pc' = "receive",
         last' = IF Overlap THEN batch ELSE NoBatch, batch' = NoBatch
  PROVE  /\ \A x : InLast(x)' <=> InLast(x) \/ Sampled(x)
         /\ \A x : ~ InLast(x) \/ ~ Sampled(x)
         /\ \A x : ~ Sampled(x)'
         /\ \A x : ~ Ahead(x) /\ ~ Ahead(x)' /\ ~ Taken(x) /\ ~ Taken(x)'
         /\ ~ Preparing /\ ~ Preparing'
         /\ \A x : InLast(x)' => Overlap /\ Sampled(x)
         /\ \A x : InLast(x)' <=> OpenIn(last', 1, x)
         /\ Overlap => \A x : Sampled(x) <=> OpenIn(batch, 1, x)
<1>1. ~ Preparing /\ ~ Preparing'
  BY DEF Preparing
<1>2. \A x : ~ Ahead(x) /\ ~ Ahead(x)' /\ ~ Taken(x) /\ ~ Taken(x)'
  BY <1>1 DEF Ahead, Taken
<1>3. \A x : ~ OpenIn(Results, at, x)
  <2>1. Results \in BatchType /\ at \in Nat
    BY DEF Results, TypeOK
  <2>2. Len(Results.items) \in Nat /\ DOMAIN Results.items = 1..Len(Results.items)
    BY <2>1, BatchEntries
  <2>3. \A i \in DOMAIN Results.items : ~ (i >= at)
    BY <2>1, <2>2
  <2> QED
    BY <2>3 DEF OpenIn
<1>4. \A x : ~ Sampled(x)'
  BY DEF Sampled
<1>5. \A x : InLast(x)' <=> OpenIn(last', 1, x)
  BY DEF InLast, OpenIn
<1>6. CASE Overlap
  <2>1. \A x : ~ InLast(x)
    BY <1>3, <1>6 DEF InLast, Results
  <2>2. \A x : Sampled(x) <=> OpenIn(batch, 1, x)
    BY <1>6 DEF Sampled
  <2>3. last' = batch
    BY <1>6
  <2> QED
    BY <1>1, <1>2, <1>4, <1>5, <1>6, <2>1, <2>2, <2>3
<1>7. CASE ~ Overlap
  <2>1. \A x : ~ Sampled(x)
    BY <1>3, <1>7 DEF Sampled, Results
  <2>2. \A x : ~ InLast(x)
    BY <1>7, EmptyBatch DEF InLast, OpenIn, LastBatch
  <2>3. \A x : ~ OpenIn(last', 1, x)
    BY <1>7, EmptyBatch DEF OpenIn
  <2> QED
    BY <1>1, <1>2, <1>4, <1>5, <1>7, <2>1, <2>2, <2>3
<1> QED
  BY <1>6, <1>7

LEMMA EndLoopStep ==
  ASSUME IInv, EndLoop PROVE IInv'
<1>1. /\ TypeOK /\ Queue /\ ThisBatch /\ LastBatch /\ Slots /\ Decoders /\ Fresh
      /\ \A x \in Req : Live(x) => LengthsOf(x)
  BY DEF IInv
<1>2. /\ pc = "process" /\ at > Len(Results.items) /\ pc' = "receive" /\ at' = 1
      /\ finished_reqs' = IF Results = NoBatch THEN finished_reqs ELSE newly
      /\ newly' = {} /\ last' = IF Overlap THEN batch ELSE NoBatch
      /\ batch' = NoBatch
      /\ cache' = cache /\ table_free' = table_free /\ page_table' = page_table
      /\ pending' = pending /\ chunked' = chunked /\ running' = running
      /\ stage' = stage /\ tokens' = tokens /\ sent' = sent /\ adder' = adder
  BY DEF EndLoop, memory
<1>3. \E S : obj' = [x \in Req |-> IF stage[x] \in {"finished", "aborted"} /\ x \notin S
                                   THEN NoObject ELSE obj[x]]
  BY DEF EndLoop
<1>4. /\ obj' \in [Req -> [slot : Nat, cached : Nat, device : Nat, host : Nat, handle : Seq(Block)]]
      /\ \A x \in Req : Live(x) => obj'[x] = obj[x]
  <2> DEFINE T == [slot : Nat, cached : Nat, device : Nat, host : Nat, handle : Seq(Block)]
  <2>1. NoObject \in T
    BY DEF NoObject, Root
  <2>2. obj \in [Req -> T]
    BY <1>1 DEF TypeOK
  <2> HIDE DEF T
  <2>3. obj' \in [Req -> T]
    BY <1>3, <2>1, <2>2
  <2>4. \A x \in Req : Live(x) => obj'[x] = obj[x]
    BY <1>3 DEF Live
  <2> QED
    BY <2>3, <2>4 DEF T
<1>5. /\ \A x : InLast(x)' <=> InLast(x) \/ Sampled(x)
      /\ \A x : ~ InLast(x) \/ ~ Sampled(x)
      /\ \A x : ~ Sampled(x)'
      /\ \A x : ~ Ahead(x) /\ ~ Ahead(x)' /\ ~ Taken(x) /\ ~ Taken(x)'
      /\ ~ Preparing /\ ~ Preparing'
      /\ \A x : InLast(x)' => Overlap /\ Sampled(x)
      /\ Overlap => \A x : Sampled(x) <=> OpenIn(batch, 1, x)
  BY <1>1, <1>2, StandingEnded
<1>6. \A x : Unanswered(x)' = Unanswered(x)
  BY <1>5 DEF Unanswered, Bit
<1>7. \A x \in Req : /\ Live(x)' <=> Live(x)
                     /\ Live(x) => (CanDecode(x)' <=> CanDecode(x))
  BY <1>2, <1>4 DEF Live, CanDecode, RemainLen
<1>8. TypeOK'
  <2>1. last' \in BatchType /\ batch' \in BatchType /\ finished_reqs' \subseteq Req
    BY <1>1, <1>2, EmptyBatch DEF TypeOK
  <2> QED
    BY <1>1, <1>2, <1>4, <2>1 DEF TypeOK
<1>9. Queue'
  BY <1>1, <1>2 DEF Queue
<1>10. ThisBatch'
  BY <1>2, <1>5, EmptyBatch DEF ThisBatch, OncePerBatch
<1>11. LastBatch'
  <2>1. OncePerBatch(last')
    BY <1>1, <1>2, EmptyBatch DEF ThisBatch, OncePerBatch
  <2>2. ASSUME NEW i \in DOMAIN last'.items
        PROVE  /\ stage[last'.items[i].req] \notin {"unsent", "pending", "gone"}
               /\ ~ last'.items[i].chunk => ~ Contains(pending, last'.items[i].req)
    <3>1. Overlap /\ last' = batch
      BY <1>2, EmptyBatch
    <3> DEFINE e == batch.items[i]
    <3>2. batch \in BatchType /\ i \in DOMAIN batch.items
      BY <1>1, <3>1 DEF TypeOK
    <3>3. /\ e.req \in Req /\ e.chunk \in BOOLEAN /\ batch.prefill \in BOOLEAN
          /\ i \in Nat /\ i >= 1
      BY <3>2, BatchEntries
    <3>4. ThisEntry(e)
      BY <1>1, <3>2 DEF ThisBatch
    <3>5. CASE e.chunk
      <4>1. e.req \in chunked
        BY <3>3, <3>4, <3>5 DEF ThisEntry
      <4>2. PICK k \in DOMAIN pending : pending[k] = e.req
        BY <1>1, <3>3, <4>1 DEF Queue, Contains
      <4>3. stage[e.req] = "admitted"
        BY <1>1, <1>2, <4>1, <4>2 DEF Queue
      <4> QED
        BY <3>1, <3>5, <4>3
    <3>6. CASE ~ e.chunk
      <4>1. ~ Contains(pending, e.req)
        BY <1>2, <3>4, <3>6 DEF ThisEntry
      <4>2. Sampled(e.req)
        BY <1>5, <3>1, <3>2, <3>3, <3>6 DEF OpenIn
      <4>3. IF batch.prefill THEN stage[e.req] = "admitted" ELSE Live(e.req) \/ e.req \in newly
        BY <1>1, <3>3, <4>2 DEF ThisBatch
      <4>4. \A x \in newly : stage[x] = "finished"
        BY <1>1 DEF LastBatch
      <4> QED
        BY <3>1, <3>3, <4>1, <4>3, <4>4 DEF Live
    <3> QED
      BY <3>3, <3>5, <3>6
  <2>3. ASSUME NEW x \in Req, InLast(x)'
        PROVE  IF last'.prefill THEN stage[x] = "admitted" ELSE Live(x) \/ x \in finished_reqs'
    <3>1. Overlap /\ Sampled(x) /\ last' = batch
      BY <1>2, <1>5, <2>3
    <3>2. IF batch.prefill THEN stage[x] = "admitted" ELSE Live(x) \/ x \in newly
      BY <1>1, <3>1 DEF ThisBatch
    <3>3. x \in newly => x \in finished_reqs'
      BY <1>1, <1>2, EmptyBatch DEF LastBatch
    <3> QED
      BY <3>1, <3>2, <3>3
  <2>4. \A x \in finished_reqs' : stage[x] = "finished"
    BY <1>1, <1>2 DEF LastBatch
  <2>5. ~ Overlap => last' = NoBatch
    BY <1>2
  <2> QED
    BY <1>2, <1>7, <2>1, <2>2, <2>3, <2>4, <2>5 DEF LastBatch
<1>12. Slots'
  BY <1>1, <1>2, <1>4, <1>7 DEF Slots
<1>13. Decoders'
  <2>1. running \subseteq Req
    BY <1>1 DEF TypeOK
  <2> QED
    BY <1>1, <1>2, <1>5, <1>7, <2>1 DEF Decoders
<1>14. \A x \in Req : Live(x)' => LengthsOf(x)'
  BY <1>1, <1>2, <1>4, <1>5, <1>6, <1>7, LengthsKept
<1>15. Fresh'
  BY <1>1, <1>2 DEF Fresh
<1> QED
  BY <1>8, <1>9, <1>10, <1>11, <1>12, <1>13, <1>14, <1>15 DEF IInv

LEMMA InitIInv ==
  ASSUME Init PROVE IInv
<1>1. /\ pc = "receive" /\ pending = << >> /\ chunked = {} /\ running = {}
      /\ finished_reqs = {} /\ newly = {} /\ obj = [r \in Req |-> NoObject]
      /\ stage = [r \in Req |-> "unsent"] /\ tokens = Prompt /\ sent = [r \in Req |-> << >>]
      /\ adder = NoAdder /\ batch = NoBatch /\ last = NoBatch /\ at = 1
      /\ table_free = [s \in Slot |-> s] /\ page_table = [s \in Slot |-> << >>]
      /\ cache = EmptyCache
  BY DEF Init
<1>2. DOMAIN batch.items = {} /\ DOMAIN last.items = {} /\ Len(batch.items) = 0 /\ batch \in BatchType
  BY <1>1, EmptyBatch
<1>3. MaxRunning \in Nat
  BY ConfigAssumption
<1>4. table_free \in Seq(Slot) /\ DOMAIN table_free = Slot /\ \A s \in Slot : table_free[s] = s
  BY <1>1, <1>3 DEF Slot
<1>5. \A x \in Req : ~ Live(x) /\ stage[x] = "unsent"
  BY <1>1 DEF Live
<1>6. \A x : ~ InLast(x) /\ ~ Sampled(x)
  BY <1>1, <1>2 DEF InLast, Sampled, OpenIn
<1>7. TypeOK
  <2>1. Paths(cache) \subseteq Seq(Block)
    BY <1>1 DEF EmptyCache, Paths
  <2>2. NoObject \in [slot : Nat, cached : Nat, device : Nat, host : Nat, handle : Seq(Block)]
    BY DEF NoObject, Root
  <2>3. tokens \in [Req -> Seq(Token)] /\ sent \in [Req -> Seq(BOOLEAN)]
    BY <1>1, RequestAssumption
  <2>4. adder.budget \in Nat
    BY <1>1 DEF NoAdder
  <2>5. obj \in [Req -> [slot : Nat, cached : Nat, device : Nat, host : Nat, handle : Seq(Block)]]
    BY <1>1, <2>2
  <2>6. last \in BatchType /\ page_table = [s \in Slot |-> page_table[s]]
    BY <1>1, <1>2
  <2> QED
    BY <1>1, <1>2, <1>4, <2>1, <2>3, <2>4, <2>5, <2>6 DEF TypeOK
<1>8. Queue
  BY <1>1, <1>5 DEF Queue, Distinct
<1>9. ThisBatch /\ LastBatch
  BY <1>1, <1>2, <1>6 DEF ThisBatch, LastBatch, OncePerBatch
<1>10. Slots
  BY <1>4, <1>5 DEF Slots, Distinct, Contains
<1>11. Decoders
  BY <1>1, <1>5 DEF Decoders
<1>12. Fresh
  BY <1>1 DEF Fresh
<1> QED
  BY <1>5, <1>7, <1>8, <1>9, <1>10, <1>11, <1>12 DEF IInv

LEMMA StutterIInv ==
  ASSUME IInv, UNCHANGED vars PROVE IInv'
<1>1. /\ TypeOK /\ Queue /\ ThisBatch /\ LastBatch /\ Slots /\ Decoders /\ Fresh
      /\ \A x \in Req : Live(x) => LengthsOf(x)
  BY DEF IInv
<1>2. /\ pc' = pc /\ cache' = cache /\ table_free' = table_free /\ page_table' = page_table
      /\ pending' = pending /\ chunked' = chunked /\ running' = running
      /\ finished_reqs' = finished_reqs /\ newly' = newly /\ obj' = obj /\ stage' = stage
      /\ tokens' = tokens /\ sent' = sent /\ adder' = adder /\ batch' = batch /\ last' = last
      /\ at' = at
  BY DEF vars, memory, queues, loop
<1>3. /\ \A x : InLast(x)' <=> InLast(x)
      /\ \A x : Sampled(x)' <=> Sampled(x)
      /\ \A x : Ahead(x)' <=> Ahead(x)
      /\ \A x : Taken(x)' <=> Taken(x)
      /\ Preparing' <=> Preparing
  BY <1>2, StandingSame
<1>4. \A x : (Live(x)' <=> Live(x)) /\ (CanDecode(x)' <=> CanDecode(x))
  BY <1>2 DEF Live, CanDecode, RemainLen
<1>5. TypeOK' /\ Fresh'
  BY <1>1, <1>2 DEF TypeOK, Fresh
<1>6. Queue'
  BY <1>1, <1>2 DEF Queue
<1>7. ThisBatch'
  <2>1. \A i \in DOMAIN batch.items : ThisEntry(batch.items[i])'
    BY <1>1, <1>2, <1>3, <1>4 DEF ThisBatch, ThisEntry
  <2> QED
    BY <1>1, <1>2, <1>3, <1>4, <2>1 DEF ThisBatch, OncePerBatch
<1>8. LastBatch'
  BY <1>1, <1>2, <1>3, <1>4 DEF LastBatch, OncePerBatch, Results
<1>9. Slots' /\ Decoders'
  BY <1>1, <1>2, <1>3, <1>4 DEF Slots, Decoders
<1>10. \A x \in Req : Live(x)' => LengthsOf(x)'
  BY <1>1, <1>2, <1>4, LengthsSame
<1> QED
  BY <1>1, <1>5, <1>6, <1>7, <1>8, <1>9, <1>10 DEF IInv

-----------------------------------------------------------------------------
\* The invariant of the scheduler loop: the lengths its objects keep agree with
\* the tokens the device and the host have, wherever in the loop the thread is,
\* with requests queued and aborted at any time and one batch processed while
\* the next is under way.
THEOREM SchedulerInvariant == ASSUME SafeAborts PROVE Spec => []IInv
<1>1. Init => IInv
  BY InitIInv
<1>2. IInv /\ [Next]_vars => IInv'
  <2> SUFFICES ASSUME IInv, [Next]_vars PROVE IInv'
    OBVIOUS
  <2>1. CASE \E r \in Req : Message(r)
    BY <2>1, HandleUserStep, AbortWaitingStep, AbortChunkedStep, AbortRunningStep DEF Message
  <2>2. CASE Step
    <3>1. CASE Schedule
      BY <3>1, ScheduleStep
    <3>2. CASE \E r \in Req : AddChunked(r) \/ AddNew(r) \/ RefuseNew(r)
      BY <3>2, AddChunkedStep, AddNewStep, RefuseNewStep
    <3>3. CASE StopsAdding \/ PrefillBatch \/ DecodeBatch \/ NothingToRun
      BY <3>3, StopAddingStep, PrefillBatchStep, DecodeBatchStep, NothingToRunStep
    <3>4. CASE \E r \in Req : StartAlloc(r) \/ EvictOne(r) \/ Take(r)
      BY <3>4, StartAllocStep, EvictOneStep, TakeStep
    <3>5. CASE Launch
      BY <3>5, LaunchStep
    <3>6. CASE \E e \in Answered : SkipChunk(e) \/ FinishReq(e) \/ CommitReq(e) \/ ReplyOnly(e)
      BY <3>6, SkipChunkStep, FinishReqStep, CommitReqStep, ReplyOnlyStep
    <3>7. CASE EndLoop
      BY <3>7, EndLoopStep
    <3> QED
      BY <2>2, <3>1, <3>2, <3>3, <3>4, <3>5, <3>6, <3>7 DEF Step, StopsAdding
  <2>3. CASE Idle
    BY <2>3, StutterIInv DEF Idle, Stopped
  <2>4. CASE UNCHANGED vars
    BY <2>4, StutterIInv
  <2> QED
    BY <2>1, <2>2, <2>3, <2>4 DEF Next
<1> QED
  BY <1>1, <1>2, PTL DEF Spec

-----------------------------------------------------------------------------
(* What the invariant says of slots, of lengths, and of an idle scheduler. *)

LEMMA OneIn ==
  ASSUME NEW S, NEW a \in S, \A b \in S : b = a
  PROVE  Cardinality(S) = 1
<1>1. S = {a}
  OBVIOUS
<1> QED
  BY <1>1, FS_Singleton

LEMMA SlotHeldOnce ==
  ASSUME TypeOK, Slots
  PROVE  SlotsExclusive
<1> SUFFICES ASSUME NEW s \in Slot
             PROVE  Cardinality({i \in DOMAIN table_free : table_free[i] = s})
                      + Cardinality({r \in Req : Live(r) /\ obj[r].slot = s}) = 1
  BY DEF SlotsExclusive
<1> DEFINE I == {i \in DOMAIN table_free : table_free[i] = s}
           R == {r \in Req : Live(r) /\ obj[r].slot = s}
<1>1. CASE Contains(table_free, s)
  <2>1. PICK i \in DOMAIN table_free : table_free[i] = s
    BY <1>1 DEF Contains, TypeOK
  <2>2. i \in I /\ \A j \in I : j = i
    BY <2>1 DEF Slots, Distinct
  <2>3. R = {}
    BY <1>1 DEF Slots
  <2>4. Cardinality(I) = 1
    <3> HIDE DEF I
    <3> QED
      BY <2>2, OneIn
  <2>5. Cardinality(R) = 0
    BY <2>3, FS_EmptySet
  <2> QED
    BY <2>4, <2>5
<1>2. CASE ~ Contains(table_free, s)
  <2>1. PICK r \in Req : Live(r) /\ obj[r].slot = s
    BY <1>2 DEF Slots
  <2>2. r \in R /\ \A x \in R : x = r
    BY <2>1 DEF Slots
  <2>3. I = {}
    <3>1. table_free \in Seq(Slot)
      BY DEF TypeOK
    <3>2. DOMAIN table_free = 1..Len(table_free)
      BY <3>1
    <3> QED
      BY <1>2, <3>2 DEF Contains
  <2>4. Cardinality(R) = 1
    <3> HIDE DEF R
    <3> QED
      BY <2>2, OneIn
  <2>5. Cardinality(I) = 0
    BY <2>3, FS_EmptySet
  <2> QED
    BY <2>4, <2>5
<1> QED
  BY <1>1, <1>2

\* No page-table row is ever shared, or lost: every slot is free once or held by one
\* live request.
THEOREM SlotsAreExclusive == ASSUME SafeAborts PROVE Spec => []SlotsExclusive
<1>1. IInv => SlotsExclusive
  BY SlotHeldOnce DEF IInv
<1> QED
  BY <1>1, SchedulerInvariant, PTL

\* Where cache_req may be called, the host has the tokens the device has computed:
\* when a message is handled ...
LEMMA HostHas ==
  ASSUME IInv, NEW r \in Req, Live(r), pc = "receive"
  PROVE  obj[r].cached <= obj[r].host
<1>1. TypeOK /\ LengthsOf(r)
  BY DEF IInv
<1>2. /\ obj[r].device \in Nat /\ obj[r].host \in Nat /\ obj[r].cached \in Nat
  BY <1>1, RequestFacts
<1>3. ~ Ahead(r) /\ ~ Taken(r) /\ ~ Sampled(r)
  BY DEF Ahead, Taken, Sampled, Preparing
<1>4. Unanswered(r) \in 0..1 /\ Bit(Taken(r)) = 0
  BY <1>3 DEF Unanswered, Bit
<1>5. CASE r \in chunked
  BY <1>1, <1>2, <1>3, <1>5 DEF LengthsOf, BetweenChunks
<1>6. CASE r \notin chunked
  <2>1. obj[r].cached = obj[r].device - 1 /\ obj[r].host = obj[r].device - Unanswered(r)
    BY <1>1, <1>2, <1>3, <1>4, <1>6 DEF LengthsOf, Decoding
  <2> QED
    BY <1>2, <1>4, <2>1
<1> QED
  BY <1>5, <1>6

\* ... and, with the token just appended, when a result is processed.
LEMMA HostHasAnswered ==
  ASSUME IInv, NEW e \in Answered, ~ e.chunk, pc = "process", Live(e.req)
  PROVE  /\ obj[e.req].cached <= Appended(e.req)
         /\ obj[e.req].cached >= InputLen(e.req)
         /\ Decoding(e.req)
<1> DEFINE r == e.req
<1>1. TypeOK /\ ThisBatch /\ LastBatch /\ Queue
  BY DEF IInv
<1>2. r \in Req /\ r \notin chunked
  BY <1>1, AnsweredEntry, AnsweredRequest
<1>3. /\ obj[r].device \in Nat /\ obj[r].host \in Nat /\ obj[r].cached \in Nat
      /\ InputLen(r) \in Nat
  BY <1>1, <1>2, RequestFacts
<1>4. ~ Ahead(r) /\ ~ Taken(r)
  BY DEF Ahead, Taken, Preparing
<1>5. Unanswered(r) \in 0..2 /\ Bit(Taken(r)) = 0
  BY <1>4 DEF Unanswered, Bit
<1>6. Decoding(r)
  BY <1>2, <1>4 DEF IInv, LengthsOf
<1>7. /\ obj[r].cached = obj[r].device - 1 /\ obj[r].host = obj[r].device - Unanswered(r)
      /\ InputLen(r) < obj[r].device
  BY <1>3, <1>5, <1>6 DEF Decoding
<1>8. obj[r].cached <= obj[r].host + 1 /\ obj[r].cached >= InputLen(r)
  BY <1>3, <1>5, <1>7
<1> QED
  BY <1>6, <1>8 DEF Appended

LEMMA HostAlwaysKnows ==
  ASSUME IInv
  PROVE  HostKnows
<1> DEFINE answers(r) == {e \in Answered : pc = "process" /\ e.req = r /\ ~e.chunk}
<1> SUFFICES ASSUME NEW r \in Req, Live(r),
                    (pc = "receive" /\ r \in chunked \cup running) \/ answers(r) # {}
             PROVE  obj[r].cached <= obj[r].host + Cardinality(answers(r))
  BY DEF HostKnows
<1>1. obj[r].host \in Nat /\ obj[r].cached \in Nat
  BY RequestFacts DEF IInv
<1>2. CASE answers(r) = {}
  <2>1. pc = "receive" /\ Cardinality(answers(r)) = 0
    BY <1>2, FS_EmptySet
  <2>2. obj[r].cached <= obj[r].host
    BY <2>1, HostHas
  <2> QED
    BY <1>1, <2>1, <2>2
<1>3. CASE answers(r) # {}
  <2>1. PICK e \in answers(r) : TRUE
    BY <1>3
  <2>2. \A x \in answers(r) : x = e
    BY <2>1 DEF Answered
  <2>3. Cardinality(answers(r)) = 1
    <3> DEFINE S == answers(r)
    <3>1. e \in S /\ \A x \in S : x = e
      BY <2>1, <2>2
    <3> HIDE DEF S
    <3>2. Cardinality(S) = 1
      BY <3>1, OneIn
    <3> QED
      BY <3>2 DEF S
  <2>4. obj[r].cached <= obj[r].host + 1
    BY <2>1, HostHasAnswered DEF Appended
  <2> QED
    BY <2>3, <2>4
<1> QED
  BY <1>2, <1>3

\* input_ids[:cached_len] always has cached_len tokens: where cache_req is called,
\* at an abort or once a token is appended, the host has caught up that far.
THEOREM HostCatchesUp == ASSUME SafeAborts PROVE Spec => []HostKnows
<1>1. IInv => HostKnows
  BY HostAlwaysKnows
<1> QED
  BY <1>1, SchedulerInvariant, PTL

\* An idle scheduler has all its slots free and no request left behind.
LEMMA IdleLeavesNobody ==
  ASSUME IInv, pc = "receive", Blocking
  PROVE  NobodyLeft
<1>1. TypeOK /\ Queue /\ ThisBatch /\ Slots /\ Decoders
  BY DEF IInv
<1>2. pending = << >> /\ running = {} /\ last = NoBatch
  BY DEF Blocking
<1>3. \A x : ~ Contains(pending, x)
  BY <1>2 DEF Contains
<1>4. \A x : ~ InLast(x) /\ ~ Sampled(x) /\ ~ Ahead(x) /\ ~ Taken(x)
  BY <1>2, EmptyBatch DEF InLast, OpenIn, Sampled, Ahead, Taken, Preparing
<1>5. \A x \in Req : ~ Live(x)
  BY <1>1, <1>2, <1>3, <1>4 DEF Decoders, Queue
<1>6. \A x \in Req : stage[x] \in {"unsent", "gone", "finished", "aborted"}
  BY <1>1, <1>3, <1>5 DEF Queue, Live, TypeOK
<1>7. Len(table_free) = MaxRunning
  <2>1. table_free \in Seq(Slot) /\ Distinct(table_free) /\ \A s \in Slot : Contains(table_free, s)
    BY <1>1, <1>5 DEF TypeOK, Slots
  <2> DEFINE n == Len(table_free)
  <2>2. n \in Nat /\ table_free \in [1..n -> Slot] /\ MaxRunning \in Nat
    BY <2>1, ConfigAssumption
  <2>3. table_free \in Bijection(1..n, Slot)
    BY <2>1, <2>2 DEF Bijection, Injection, Surjection, IsInjective, Distinct, Contains
  <2>4. ExistsBijection(1..n, Slot)
    BY <2>3 DEF ExistsBijection
  <2>5. /\ IsFiniteSet(1..n) /\ Cardinality(1..n) = n
        /\ IsFiniteSet(Slot) /\ Cardinality(Slot) = MaxRunning
    <3>1. \A k \in Nat : IsFiniteSet(1..k) /\ Cardinality(1..k) = k
      BY FS_Interval
    <3> QED
      BY <2>2, <3>1 DEF Slot
  <2> QED
    BY <2>4, <2>5, FS_Bijection
<1> QED
  BY <1>6, <1>7 DEF NobodyLeft

THEOREM IdleSchedulerIsEmpty ==
  ASSUME SafeAborts PROVE Spec => [](pc = "receive" /\ Blocking => NobodyLeft)
<1>1. IInv => (pc = "receive" /\ Blocking => NobodyLeft)
  BY IdleLeavesNobody
<1> QED
  BY <1>1, SchedulerInvariant, PTL

-----------------------------------------------------------------------------
(* The operators of the cache manager's module are those of this one. *)

LEMMA SameOperators ==
  /\ \A c, h : CM!Lock(c, h) = Lock(c, h) /\ CM!Unlock(c, h) = Unlock(c, h)
  /\ \A c, p : CM!Walk(c, p) = Walk(c, p) /\ CM!Matched(c, p) = Matched(c, p)
  /\ \A c, h : CM!MatchedPages(c, h) = MatchedPages(c, h)
  /\ \A s : CM!Blocks(s) = Blocks(s)
  /\ \A c, b, w : CM!Insert(c, b, w) = Insert(c, b, w)
  /\ \A c : CM!Victims(c) = Victims(c)
  /\ \A c, v : CM!EvictLeaf(c, v) = EvictLeaf(c, v) /\ CM!EvictedPages(c, v) = EvictedPages(c, v)
  /\ \A a, b : CM!CeilDiv(a, b) = CeilDiv(a, b) /\ CM!Smaller(a, b) = Smaller(a, b)
  /\ CM!Page = Page
<1>1. \A s, t : CM!IsPrefix(s, t) <=> IsPrefix(s, t)
  BY DEF CM!IsPrefix, IsPrefix
<1>2. \A S : CM!Cardinality(S) = Cardinality(S)
  BY DEF CM!Cardinality, Cardinality, CM!IsFiniteSet, IsFiniteSet
<1>3. \A c : CM!Nodes(c) = Nodes(c) /\ CM!Paths(c) = Paths(c)
  BY DEF CM!Nodes, Nodes, CM!Paths, Paths
<1>4. \A c, p, n : CM!IsNodeOf(c, p, n) <=> IsNodeOf(c, p, n)
  BY <1>1, <1>3 DEF CM!IsNodeOf, IsNodeOf
<1>5. \A c, p : CM!NodeOf(c, p) = NodeOf(c, p)
  BY <1>3, <1>4 DEF CM!NodeOf, NodeOf
<1>6. \A c, h, k : CM!PagesAtRef(c, h, k) = PagesAtRef(c, h, k)
  BY <1>1, <1>2, <1>3, <1>5 DEF CM!PagesAtRef, PagesAtRef
<1>7. \A c, h, d : CM!Counted(c, h, d) = Counted(c, h, d)
  BY <1>1, <1>3 DEF CM!Counted, Counted
<1>8. \A c, h : CM!Lock(c, h) = Lock(c, h) /\ CM!Unlock(c, h) = Unlock(c, h)
  BY <1>6, <1>7 DEF CM!Lock, Lock, CM!Unlock, Unlock
<1>9. \A f : CM!Ranked(f) = Ranked(f)
  BY <1>2 DEF CM!Ranked, Ranked
<1>10. \A c, p : CM!Matched(c, p) = Matched(c, p)
  BY <1>1, <1>3 DEF CM!Matched, Matched, CM!Root, Root
<1>11. \A c, p : CM!Walk(c, p) = Walk(c, p)
  BY <1>1, <1>2, <1>3, <1>5, <1>9 DEF CM!Walk, Walk, CM!RefAfterWalk, RefAfterWalk,
       CM!AgeAfterWalk, AgeAfterWalk, CM!Root, Root, CM!Now, Now
<1>12. \A c, h : CM!MatchedPages(c, h) = MatchedPages(c, h)
  BY DEF CM!MatchedPages, MatchedPages
<1>13. \A s : CM!Blocks(s) = Blocks(s)
  BY DEF CM!Blocks, Blocks
<1>14. \A c, p, b, w : CM!NewLeaf(c, p, b, w) = NewLeaf(c, p, b, w)
  <2>1. \A c : CM!Now(c) = Now(c)
    BY <1>2, <1>3 DEF CM!Now, Now
  <2> SUFFICES ASSUME NEW c, NEW p, NEW b, NEW w
               PROVE  CM!NewLeaf(c, p, b, w) = NewLeaf(c, p, b, w)
    OBVIOUS
  <2> DEFINE ages == [n \in Nodes(c) \cup {b} |-> IF n = b THEN Now(c) ELSE c.age[n]]
             ages2 == [n \in CM!Nodes(c) \cup {b} |-> IF n = b THEN CM!Now(c) ELSE c.age[n]]
  <2>2. ages2 = ages
    BY <1>3, <2>1
  <2>3. CM!Ranked(ages2) = Ranked(ages)
    <3> HIDE DEF ages, ages2
    <3> QED
      BY <1>9, <2>2
  <2> QED
    BY <1>3, <2>3 DEF CM!NewLeaf, NewLeaf
<1>15. \A c, b, w : CM!Insert(c, b, w) = Insert(c, b, w)
  BY <1>10, <1>11, <1>14 DEF CM!Insert, Insert
<1>16. \A c : CM!Victims(c) = Victims(c)
  BY <1>1, <1>3 DEF CM!Victims, Victims, CM!Unlocked, Unlocked, CM!Leaves, Leaves
<1>17. \A c, v : CM!Key(c, v) = Key(c, v)
  BY <1>3, <1>5 DEF CM!Key, Key
<1>18. \A c, v : CM!EvictLeaf(c, v) = EvictLeaf(c, v) /\ CM!EvictedPages(c, v) = EvictedPages(c, v)
  BY <1>2, <1>3, <1>9, <1>17 DEF CM!EvictLeaf, EvictLeaf, CM!EvictedPages, EvictedPages
<1>19. \A a, b : CM!CeilDiv(a, b) = CeilDiv(a, b) /\ CM!Smaller(a, b) = Smaller(a, b)
  BY DEF CM!CeilDiv, CeilDiv, CM!Smaller, Smaller
<1>20. CM!Page = Page
  BY DEF CM!Page, Page
<1> QED
  BY <1>8, <1>10, <1>11, <1>12, <1>13, <1>15, <1>16, <1>18, <1>19, <1>20

-----------------------------------------------------------------------------
(* What a step leaves of the client's view. *)

\* The six maps of the view
ClientView == << ClientPhase, ClientIds, ClientLen, ClientHandle, ClientRow, ClientJob >>

\* r's part of the view stays: its stage, as far as the interface tells stages
\* apart, and of a live request the object and the tokens already computed
SameClient(r) ==
  /\ Live(r)' <=> Live(r)
  /\ Live(r) => /\ stage'[r] = stage[r]
                /\ obj'[r].slot = obj[r].slot /\ obj'[r].cached = obj[r].cached
                /\ obj'[r].handle = obj[r].handle
                /\ page_table'[obj[r].slot] = page_table[obj[r].slot]
                /\ obj[r].cached > InputLen(r) =>
                     SubSeq(tokens'[r], 1, obj[r].cached) = SubSeq(tokens[r], 1, obj[r].cached)
  /\ ~ Live(r) => (stage'[r] \in {"finished", "aborted"} <=> stage[r] \in {"finished", "aborted"})

LEMMA ViewSame ==
  ASSUME pc # "take", pc' # "take", \A x \in Req : SameClient(x)
  PROVE  UNCHANGED ClientView
<1>1. ClientPhase' = ClientPhase
  BY DEF ClientPhase, SameClient
<1>2. ClientIds' = ClientIds
  <2>1. ASSUME NEW x \in Req
        PROVE  (Live(x)' /\ obj'[x].cached > InputLen(x)) <=> (Live(x) /\ obj[x].cached > InputLen(x))
    BY DEF SameClient
  <2>2. ASSUME NEW x \in Req, Live(x), obj[x].cached > InputLen(x)
        PROVE  SubSeq(tokens'[x], 1, obj'[x].cached) = SubSeq(tokens[x], 1, obj[x].cached)
    BY <2>2 DEF SameClient
  <2>3. ClientIds = [x \in Req |-> IF Live(x) /\ obj[x].cached > InputLen(x)
                                   THEN SubSeq(tokens[x], 1, obj[x].cached) ELSE Prompt[x]]
    BY DEF ClientIds
  <2>4. ClientIds' = [x \in Req |-> IF Live(x)' /\ obj'[x].cached > InputLen(x)
                                    THEN SubSeq(tokens'[x], 1, obj'[x].cached) ELSE Prompt[x]]
    BY DEF ClientIds
  <2> QED
    BY <2>1, <2>2, <2>3, <2>4
<1>3. ClientLen' = ClientLen /\ ClientHandle' = ClientHandle
  BY DEF ClientLen, ClientHandle, SameClient
<1>4. ClientRow' = ClientRow
  BY DEF ClientRow, Row, SameClient
<1>5. ClientJob' = ClientJob
  BY DEF ClientJob
<1> QED
  BY <1>1, <1>2, <1>3, <1>4, <1>5 DEF ClientView

\* A step that changes neither the view nor the tree, the free pages and the pool is
\* a stutter of the cache manager.
LEMMA QuietStep ==
  ASSUME UNCHANGED ClientView, cache' = cache, free_slots' = free_slots, kv' = kv
  PROVE  UNCHANGED CM!vars
BY DEF ClientView, CM!vars

\* The objects, the tokens and the stages stay
LEMMA ViewOfSameObjects ==
  ASSUME pc # "take", pc' # "take", page_table' = page_table, obj' = obj, stage' = stage, tokens' = tokens
  PROVE  UNCHANGED ClientView
<1>1. \A x \in Req : SameClient(x)
  BY DEF SameClient, Live
<1> QED
  BY <1>1, ViewSame

LEMMA QuietSteps ==
  ASSUME IInv, \/ \E r \in Req : HandleUser(r) \/ AbortWaiting(r) \/ AddChunked(r)
               \/ Schedule \/ StopsAdding \/ PrefillBatch \/ DecodeBatch \/ NothingToRun
               \/ Launch \/ EndLoop
               \/ \E e \in Answered : SkipChunk(e) \/ ReplyOnly(e)
  PROVE  UNCHANGED CM!vars
<1>1. /\ TypeOK /\ Queue /\ ThisBatch /\ LastBatch
      /\ \A x \in Req : Live(x) => LengthsOf(x)
  BY DEF IInv
<1>2. ASSUME NEW r \in Req, HandleUser(r) \/ AbortWaiting(r) PROVE UNCHANGED CM!vars
  <2>1. /\ pc = "receive" /\ pc' = pc /\ obj' = obj /\ tokens' = tokens
        /\ cache' = cache /\ free_slots' = free_slots /\ kv' = kv /\ page_table' = page_table
    BY <1>2 DEF HandleUser, AbortWaiting, memory
  <2>2. \E t \in {"pending", "gone"} : stage' = [stage EXCEPT ![r] = t]
    BY <1>2 DEF HandleUser, AbortWaiting
  <2>3. stage[r] \in {"unsent", "pending"}
    <3>1. CASE HandleUser(r)
      BY <3>1 DEF HandleUser
    <3>2. CASE AbortWaiting(r)
      <4>1. Contains(pending, r) /\ r \notin chunked
        BY <3>2 DEF AbortWaiting
      <4>2. PICK i \in DOMAIN pending : pending[i] = r
        <5>1. pending \in Seq(Req)
          BY <1>1 DEF TypeOK
        <5> QED
          BY <4>1, <5>1 DEF Contains
      <4> QED
        BY <1>1, <2>1, <4>1, <4>2 DEF Queue
    <3> QED
      BY <1>2, <3>1, <3>2
  <2>4. \A x \in Req : SameClient(x)
    BY <1>1, <2>1, <2>2, <2>3 DEF SameClient, Live, TypeOK
  <2> QED
    BY <2>1, <2>4, ViewSame, QuietStep
<1>3. ASSUME NEW r \in Req, AddChunked(r) PROVE UNCHANGED CM!vars
  <2>1. /\ pc = "add" /\ pc' = pc /\ tokens' = tokens /\ stage' = stage
        /\ cache' = cache /\ free_slots' = free_slots /\ kv' = kv /\ page_table' = page_table
        /\ AddOneReq(r, obj[r].slot, obj[r].handle, obj[r].cached)
    BY <1>3 DEF AddChunked, memory
  <2>2. \A x \in Req : /\ obj'[x].slot = obj[x].slot /\ obj'[x].cached = obj[x].cached
                       /\ obj'[x].handle = obj[x].handle
    BY <1>1, <2>1 DEF AddOneReq, TypeOK
  <2>3. \A x \in Req : SameClient(x)
    BY <2>1, <2>2 DEF SameClient, Live
  <2> QED
    BY <2>1, <2>3, ViewSame, QuietStep
<1>4. ASSUME Schedule \/ StopsAdding \/ PrefillBatch \/ DecodeBatch \/ NothingToRun
      PROVE  UNCHANGED CM!vars
  <2>1. /\ pc # "take" /\ pc' # "take" /\ obj' = obj /\ stage' = stage /\ tokens' = tokens
        /\ cache' = cache /\ free_slots' = free_slots /\ kv' = kv /\ page_table' = page_table
    BY <1>4 DEF Schedule, StopsAdding, StopAdding, AddFails, PrefillBatch, DecodeBatch,
                NothingToRun, memory
  <2> QED
    BY <2>1, ViewOfSameObjects, QuietStep
<1>5. ASSUME Launch PROVE UNCHANGED CM!vars
  <2>1. /\ pc = "allocate" /\ pc' = "process" /\ obj' = obj /\ stage' = stage
        /\ cache' = cache /\ free_slots' = free_slots /\ kv' = kv /\ page_table' = page_table
    BY <1>5 DEF Launch, memory
  <2>2. \A x \in Req : tokens'[x] = tokens[x] \/ \E t \in Token : tokens'[x] = Append(tokens[x], t)
    BY <1>5 DEF Launch
  <2>3. ASSUME NEW x \in Req, Live(x)
        PROVE  SubSeq(tokens'[x], 1, obj[x].cached) = SubSeq(tokens[x], 1, obj[x].cached)
    <3>1. obj[x].cached <= Len(tokens[x]) /\ tokens[x] \in Seq(Token) /\ obj[x].cached \in Nat
      BY <1>1, <2>3, CachedKnown, RequestFacts
    <3> QED
      BY <2>2, <3>1
  <2>4. \A x \in Req : SameClient(x)
    BY <2>1, <2>3 DEF SameClient, Live
  <2> QED
    BY <2>1, <2>4, ViewSame, QuietStep
<1>6. ASSUME EndLoop PROVE UNCHANGED CM!vars
  <2>1. /\ pc = "process" /\ pc' = "receive" /\ tokens' = tokens /\ stage' = stage
        /\ cache' = cache /\ free_slots' = free_slots /\ kv' = kv /\ page_table' = page_table
    BY <1>6 DEF EndLoop, memory
  <2>2. \A x \in Req : Live(x) => obj'[x] = obj[x]
    BY <1>6 DEF EndLoop, Live
  <2>3. \A x \in Req : SameClient(x)
    BY <2>1, <2>2 DEF SameClient, Live
  <2> QED
    BY <2>1, <2>3, ViewSame, QuietStep
<1>7. ASSUME NEW e \in Answered, SkipChunk(e) PROVE UNCHANGED CM!vars
  <2>1. /\ pc = "process" /\ pc' = pc /\ obj' = obj /\ stage' = stage /\ tokens' = tokens
        /\ cache' = cache /\ free_slots' = free_slots /\ kv' = kv /\ page_table' = page_table
    BY <1>7 DEF SkipChunk, memory
  <2> QED
    BY <2>1, ViewOfSameObjects, QuietStep
<1>8. ASSUME NEW e \in Answered, ReplyOnly(e) PROVE UNCHANGED CM!vars
  <2>1. /\ pc = "process" /\ pc' = pc /\ stage' = stage /\ tokens' = tokens
        /\ cache' = cache /\ free_slots' = free_slots /\ kv' = kv /\ page_table' = page_table
        /\ obj' = [obj EXCEPT ![e.req].host = Appended(e.req)]
    BY <1>8 DEF ReplyOnly, Answer, memory
  <2>2. e.req \in Req
    BY <1>1, AnsweredEntry
  <2>3. \A x \in Req : /\ obj'[x].slot = obj[x].slot /\ obj'[x].cached = obj[x].cached
                       /\ obj'[x].handle = obj[x].handle
    BY <1>1, <2>1, <2>2, HostOnly, HostSet
  <2>4. \A x \in Req : SameClient(x)
    BY <2>1, <2>3 DEF SameClient, Live
  <2> QED
    BY <2>1, <2>4, ViewSame, QuietStep
<1> QED
  BY <1>2, <1>3, <1>4, <1>5, <1>6, <1>7, <1>8

-----------------------------------------------------------------------------
(* The steps that use the cache manager. *)

\* The first tokens of a live request are its prompt; the batch computes tokens that
\* the device has.
LEMMA PromptFirst ==
  ASSUME IInv, NEW r \in Req, Live(r)
  PROVE  /\ SubSeq(tokens[r], 1, InputLen(r)) = Prompt[r]
         /\ InputLen(r) <= Len(tokens[r])
         /\ obj[r].cached <= Len(tokens[r])
<1>1. TypeOK /\ LengthsOf(r)
  BY DEF IInv
<1>2. /\ Prompt[r] \in Seq(Token) /\ InputLen(r) \in Nat /\ tokens[r] \in Seq(Token)
      /\ obj[r].device \in Nat /\ InputLen(r) = Len(Prompt[r])
  BY <1>1, RequestFacts DEF InputLen
<1>3. CASE tokens[r] = Prompt[r]
  <2>1. SubSeq(Prompt[r], 1, Len(Prompt[r])) = Prompt[r]
    BY <1>2
  <2> QED
    BY <1>1, <1>2, <1>3, <2>1, CachedKnown
<1>4. CASE tokens[r] # Prompt[r]
  <2>1. Decoding(r)
    BY <1>1, <1>4 DEF LengthsOf, Extending, BetweenChunks
  <2>2. Len(tokens[r]) = obj[r].device - Bit(Taken(r)) /\ InputLen(r) < obj[r].device
        /\ SubSeq(tokens[r], 1, InputLen(r)) = Prompt[r]
    BY <2>1 DEF Decoding
  <2>3. Bit(Taken(r)) \in 0..1
    BY DEF Bit
  <2> QED
    BY <1>1, <1>2, <2>2, <2>3, CachedKnown
<1> QED
  BY <1>3, <1>4

LEMMA SubSeqTwice ==
  ASSUME NEW S, NEW s \in Seq(S), NEW n \in Nat, n <= Len(s), NEW m \in Nat, m <= n
  PROVE  /\ SubSeq(SubSeq(s, 1, n), 1, m) = SubSeq(s, 1, m)
         /\ SubSeq(s, 1, n) \in Seq(S) /\ Len(SubSeq(s, 1, n)) = n
<1> DEFINE t == SubSeq(s, 1, n)
           u == SubSeq(s, 1, m)
<1>1. /\ t \in Seq(S) /\ Len(t) = n /\ \A i \in 1..n : t[i] = s[i]
      /\ u \in Seq(S) /\ Len(u) = m /\ \A i \in 1..m : u[i] = s[i]
  OBVIOUS
<1> HIDE DEF t, u
<1>2. /\ SubSeq(t, 1, m) \in Seq(S) /\ Len(SubSeq(t, 1, m)) = m
      /\ \A i \in 1..m : SubSeq(t, 1, m)[i] = t[i]
  BY <1>1
<1>3. SubSeq(t, 1, m) = u
  <2> DEFINE v == SubSeq(t, 1, m)
  <2>1. \A i \in 1..m : v[i] = u[i]
    BY <1>1, <1>2
  <2> HIDE DEF v
  <2>2. v \in Seq(S) /\ Len(v) = m
    BY <1>2 DEF v
  <2>3. v = u
    BY <1>1, <2>1, <2>2
  <2> QED
    BY <2>3 DEF v
<1> QED
  BY <1>1, <1>3 DEF t, u

\* A prefix of what the client knows is a prefix of the tokens on the device.
LEMMA ClientPrefix ==
  ASSUME IInv, NEW r \in Req, Live(r), NEW n \in Nat, NEW m \in Nat, m <= n,
         n <= Len(tokens[r]),
         ClientIds[r] = IF n > InputLen(r) THEN SubSeq(tokens[r], 1, n) ELSE Prompt[r]
  PROVE  SubSeq(ClientIds[r], 1, m) = SubSeq(tokens[r], 1, m)
<1>1. TypeOK
  BY DEF IInv
<1>2. tokens[r] \in Seq(Token) /\ InputLen(r) \in Nat
  BY <1>1, RequestFacts
<1>3. CASE n > InputLen(r)
  BY <1>2, <1>3, SubSeqTwice
<1>4. CASE n <= InputLen(r)
  <2>1. SubSeq(tokens[r], 1, InputLen(r)) = Prompt[r] /\ InputLen(r) <= Len(tokens[r])
    BY PromptFirst
  <2>2. SubSeq(SubSeq(tokens[r], 1, InputLen(r)), 1, m) = SubSeq(tokens[r], 1, m)
    BY <1>2, <1>4, <2>1, SubSeqTwice
  <2>3. ClientIds[r] = SubSeq(tokens[r], 1, InputLen(r))
    BY <1>2, <1>4, <2>1
  <2> QED
    BY <2>2, <2>3
<1> QED
  BY <1>2, <1>3, <1>4

\* Where the host has caught up, cache_req inserts what the client has computed.
LEMMA ClientComputed ==
  ASSUME IInv, NEW r \in Req, Live(r), pc # "take", NEW host \in Nat, obj[r].cached <= host
  PROVE  CM!Computed(r) = Computed(r, host)
<1>1. TypeOK
  BY DEF IInv
<1>2. obj[r].cached \in Nat /\ obj[r].cached <= Len(tokens[r])
  BY <1>1, RequestFacts, PromptFirst
<1>3. ClientIds[r] = IF obj[r].cached > InputLen(r) THEN SubSeq(tokens[r], 1, obj[r].cached)
                                                    ELSE Prompt[r]
  BY DEF ClientIds
<1>4. SubSeq(ClientIds[r], 1, obj[r].cached) = SubSeq(tokens[r], 1, obj[r].cached)
  <2> DEFINE n == obj[r].cached
  <2>1. n \in Nat /\ n <= n /\ n <= Len(tokens[r])
    BY <1>2
  <2>2. ClientIds[r] = IF n > InputLen(r) THEN SubSeq(tokens[r], 1, n) ELSE Prompt[r]
    BY <1>3
  <2> HIDE DEF n
  <2>3. SubSeq(ClientIds[r], 1, n) = SubSeq(tokens[r], 1, n)
    BY <2>1, <2>2, ClientPrefix
  <2> QED
    BY <2>3 DEF n
<1>5. Smaller(obj[r].cached, host) = obj[r].cached
  BY <1>2 DEF Smaller
<1>6. ClientLen[r] = obj[r].cached
  BY DEF ClientLen
<1>7. CM!Computed(r) = CM!Blocks(SubSeq(ClientIds[r], 1, ClientLen[r]))
  BY DEF CM!Computed
<1>8. Computed(r, host) = Blocks(SubSeq(tokens[r], 1, Smaller(obj[r].cached, host)))
  BY DEF Computed
<1> QED
  BY <1>4, <1>5, <1>6, <1>7, <1>8, SameOperators

\* The request ends: cache_req(finished=True)
LEMMA FinishClient ==
  ASSUME IInv, NEW r \in Req, Live(r), pc # "take", pc' # "take", NEW host \in Nat,
         obj[r].cached <= host, FreeResources(r, host), kv' = kv, page_table' = page_table,
         stage'[r] \in {"finished", "aborted"}, \A x \in Req : x # r => stage'[x] = stage[x],
         tokens' = tokens, \A x \in Req : x # r => obj'[x] = obj[x]
  PROVE  CM!Finish(r)
<1>1. CM!Computed(r) = Computed(r, host)
  BY ClientComputed
<1>2. ClientRow[r] = Row(r) /\ ClientHandle[r] = obj[r].handle
  BY DEF ClientRow, ClientHandle
<1>3. cache' = CM!Unlock(CM!Insert(cache, CM!Computed(r), ClientRow[r]), ClientHandle[r])
  BY <1>1, <1>2, SameOperators DEF FreeResources
<1>4. free_slots' = free_slots \o CM!FreedAtFinish(r)
  <2>1. CM!FreedAtFinish(r) = Duplicates(r, host) \o Rest(r, host)
    BY <1>1, <1>2, SameOperators DEF CM!FreedAtFinish, Duplicates, Rest
  <2> QED
    BY <2>1 DEF FreeResources
<1>5. \A x \in Req : Live(x)' <=> Live(x) /\ x # r
  BY DEF Live
<1>6. ClientPhase' = [ClientPhase EXCEPT ![r] = "done"]
  BY <1>5 DEF ClientPhase
<1>7. ClientIds' = [ClientIds EXCEPT ![r] = Prompt[r]]
  BY <1>5 DEF ClientIds
<1>8. ClientLen' = [ClientLen EXCEPT ![r] = 0]
  BY <1>5 DEF ClientLen
<1>9. ClientHandle' = [ClientHandle EXCEPT ![r] = Root]
  BY <1>5 DEF ClientHandle
<1>10. ClientRow' = [ClientRow EXCEPT ![r] = << >>]
  BY <1>5 DEF ClientRow, Row
<1>11. ClientJob = CM!NoJob /\ ClientJob' = ClientJob
  BY DEF ClientJob, CM!NoJob
<1>12. CM!Live(r)
  BY DEF CM!Live, ClientPhase, Live
<1> QED
  BY <1>3, <1>4, <1>6, <1>7, <1>8, <1>9, <1>10, <1>11, <1>12 DEF CM!Finish, CM!Root, Root

LEMMA AbortClient ==
  ASSUME IInv, NEW r \in Req, AbortChunked(r) \/ AbortRunning(r)
  PROVE  CM!Finish(r)
<1>1. TypeOK /\ Queue /\ Decoders
  BY DEF IInv
<1>2. /\ pc = "receive" /\ pc' = pc /\ FreeResources(r, obj[r].host) /\ kv' = kv
      /\ page_table' = page_table /\ tokens' = tokens /\ obj' = obj
      /\ stage' = [stage EXCEPT ![r] = "aborted"]
  BY DEF AbortChunked, AbortRunning
<1>3. Live(r)
  <2>1. CASE AbortChunked(r)
    <3>1. Contains(pending, r) /\ r \in chunked /\ pending \in Seq(Req)
      BY <1>1, <2>1 DEF AbortChunked, TypeOK
    <3>2. PICK i \in DOMAIN pending : pending[i] = r
      BY <3>1 DEF Contains
    <3>3. stage[r] = "admitted"
      BY <1>1, <1>2, <3>1, <3>2 DEF Queue
    <3> QED
      BY <3>3 DEF Live
  <2>2. CASE AbortRunning(r)
    BY <1>1, <2>2 DEF AbortRunning, Decoders
  <2> QED
    BY <2>1, <2>2
<1>4. obj[r].host \in Nat
  BY <1>1, RequestFacts
<1>5. obj[r].cached <= obj[r].host
  BY <1>2, <1>3, HostHas
<1>6. stage'[r] \in {"finished", "aborted"} /\ \A x \in Req : x # r => stage'[x] = stage[x]
  BY <1>1, <1>2 DEF TypeOK
<1> DEFINE host == obj[r].host
<1>7. host \in Nat /\ obj[r].cached <= host /\ FreeResources(r, host)
  BY <1>2, <1>4, <1>5
<1> HIDE DEF host
<1>8. pc # "take" /\ pc' # "take" /\ \A x \in Req : x # r => obj'[x] = obj[x]
  BY <1>2
<1> QED
  BY <1>2, <1>3, <1>6, <1>7, <1>8, FinishClient

LEMMA FinishReqClient ==
  ASSUME IInv, NEW e \in Answered, FinishReq(e)
  PROVE  CM!Finish(e.req)
<1> DEFINE r == e.req
<1>1. TypeOK /\ Queue /\ ThisBatch /\ LastBatch
  BY DEF IInv
<1>2. /\ pc = "process" /\ pc' = pc /\ ~ e.chunk /\ e.req \notin finished_reqs
      /\ FreeResources(r, Appended(r)) /\ kv' = kv
      /\ page_table' = page_table /\ tokens' = tokens
      /\ obj' = [obj EXCEPT ![r].host = Appended(r)]
      /\ stage' = [stage EXCEPT ![r] = "finished"]
  BY DEF FinishReq, Answer, Over
<1>3. r \in Req /\ Live(r)
  BY <1>1, <1>2, AnsweredEntry, AnsweredRequest
<1>4. Appended(r) \in Nat /\ obj[r].cached <= Appended(r)
  BY <1>1, <1>2, <1>3, RequestFacts, HostHasAnswered DEF Appended
<1>5. stage'[r] \in {"finished", "aborted"} /\ \A x \in Req : x # r => stage'[x] = stage[x]
  BY <1>1, <1>2, <1>3 DEF TypeOK
<1>6. \A x \in Req : x # r => obj'[x] = obj[x]
  BY <1>1, <1>2, <1>3, HostOnly, HostSet
<1> DEFINE host == Appended(r)
<1>7. host \in Nat /\ obj[r].cached <= host /\ FreeResources(r, host)
  BY <1>2, <1>4
<1>8. pc # "take" /\ pc' # "take"
  BY <1>2
<1> HIDE DEF host, r
<1>9. CM!Finish(r)
  BY <1>2, <1>3, <1>5, <1>6, <1>7, <1>8, FinishClient
<1> QED
  BY <1>9 DEF r

\* The prompt has been computed: cache_req(finished=False)
LEMMA CommitClient ==
  ASSUME IInv, NEW e \in Answered, CommitReq(e)
  PROVE  CM!Commit(e.req)
<1> DEFINE r == e.req
           host == Appended(r)
           c == Computed(r, host)
<1>1. TypeOK /\ Queue /\ ThisBatch /\ LastBatch
  BY DEF IInv
<1>2. /\ pc = "process" /\ pc' = pc /\ ~ e.chunk /\ Results.prefill
      /\ kv' = kv /\ page_table' = page_table /\ tokens' = tokens
      /\ cache' = Lock(Unlock(Insert(cache, c, Row(r)), obj[r].handle), c)
      /\ free_slots' = free_slots \o Duplicates(r, host)
      /\ obj' = [obj EXCEPT ![r].host = Appended(r), ![r].handle = c]
      /\ stage' = [stage EXCEPT ![r] = "committed"]
  BY DEF CommitReq, Answer
<1>3. r \in Req /\ stage[r] = "admitted"
  BY <1>1, <1>2, AnsweredEntry, AnsweredRequest
<1>4. Live(r) /\ LengthsOf(r)
  BY <1>3 DEF Live, IInv
<1>5. host \in Nat /\ obj[r].cached <= host /\ obj[r].cached >= InputLen(r)
  BY <1>1, <1>2, <1>3, <1>4, RequestFacts, HostHasAnswered DEF Appended
<1>6. c \in Seq(Block)
  BY <1>1, <1>3, <1>4, <1>5, ComputedType
<1>7. CM!Computed(r) = c
  <2>1. pc # "take"
    BY <1>2
  <2> HIDE DEF host, r
  <2> QED
    BY <1>3, <1>4, <1>5, <2>1, ClientComputed DEF c
<1> HIDE DEF c
<1>8. /\ obj'[r].cached = obj[r].cached /\ obj'[r].slot = obj[r].slot /\ obj'[r].handle = c
      /\ \A x \in Req : x # r => obj'[x] = obj[x]
  BY <1>1, <1>2, <1>3, <1>6, HostSet
<1>9. /\ stage'[r] = "committed" /\ \A x \in Req : x # r => stage'[x] = stage[x]
      /\ \A x \in Req : Live(x)' <=> Live(x)
  BY <1>1, <1>2, <1>3 DEF Live, TypeOK
<1>10. ClientRow[r] = Row(r) /\ ClientHandle[r] = obj[r].handle /\ ClientLen[r] = obj[r].cached
       /\ ClientPhase[r] = "admitted"
  BY <1>3, <1>4 DEF ClientRow, ClientHandle, ClientLen, ClientPhase
<1>11. cache' = CM!Lock(CM!Unlock(CM!Insert(cache, CM!Computed(r), ClientRow[r]), ClientHandle[r]),
                        CM!Computed(r))
  <2> HIDE DEF r, host
  <2> QED
    BY <1>2, <1>7, <1>10, SameOperators
<1>12. free_slots' = free_slots \o SubSeq(ClientRow[r], Len(ClientHandle[r]) + 1,
                                          Len(CM!Matched(cache, CM!Computed(r))))
  <2>1. Duplicates(r, host) = SubSeq(Row(r), Len(obj[r].handle) + 1, Len(Matched(cache, c)))
    BY DEF Duplicates, c
  <2> HIDE DEF r, host
  <2> QED
    BY <1>2, <1>7, <1>10, <2>1, SameOperators
<1>13. ClientHandle' = [ClientHandle EXCEPT ![r] = CM!Computed(r)]
  BY <1>3, <1>4, <1>7, <1>8, <1>9 DEF ClientHandle
<1>14. ClientPhase' = [ClientPhase EXCEPT ![r] = "committed"]
  BY <1>3, <1>4, <1>9 DEF ClientPhase
<1>15. /\ \A x \in Req : obj'[x].cached = obj[x].cached /\ obj'[x].slot = obj[x].slot
       /\ \A x \in Req : Live(x)' <=> Live(x)
       /\ pc # "take" /\ pc' # "take" /\ tokens' = tokens /\ page_table' = page_table
  BY <1>2, <1>8, <1>9
<1>16. ClientIds' = ClientIds /\ ClientLen' = ClientLen /\ ClientRow' = ClientRow
  <2>1. ClientIds = [x \in Req |-> IF Live(x) /\ obj[x].cached > InputLen(x)
                                   THEN SubSeq(tokens[x], 1, obj[x].cached) ELSE Prompt[x]]
    BY <1>15 DEF ClientIds
  <2>2. ClientIds' = [x \in Req |-> IF Live(x)' /\ obj'[x].cached > InputLen(x)
                                    THEN SubSeq(tokens'[x], 1, obj'[x].cached) ELSE Prompt[x]]
    BY <1>15 DEF ClientIds
  <2>3. ClientIds' = ClientIds
    BY <1>15, <2>1, <2>2
  <2>4. ClientLen' = ClientLen
    BY <1>15 DEF ClientLen
  <2>5. \A x \in Req : Row(x)' = Row(x)
    BY <1>15 DEF Row
  <2>6. ClientRow' = ClientRow
    BY <1>15, <2>5 DEF ClientRow
  <2> QED
    BY <2>3, <2>4, <2>6
<1>17. ClientJob = CM!NoJob /\ ClientJob' = ClientJob
  BY <1>2 DEF ClientJob, CM!NoJob
<1>18. ClientLen[r] >= Len(Prompt[r])
  BY <1>5, <1>10 DEF InputLen
<1> HIDE DEF r
<1>19. CM!Commit(r)
  BY <1>2, <1>10, <1>11, <1>12, <1>13, <1>14, <1>15, <1>16, <1>17, <1>18 DEF CM!Commit
<1> QED
  BY <1>19 DEF r

LEMMA RefuseClient ==
  ASSUME IInv, NEW r \in Req, RefuseNew(r)
  PROVE  CM!Refuse(r)
<1>1. TypeOK /\ Queue /\ ThisBatch
  BY DEF IInv
<1>2. /\ pc = "add" /\ pc' = "added" /\ r \in Considered /\ r \notin chunked
      /\ cache' = Walk(cache, MatchReq(r))
      /\ free_slots' = free_slots /\ kv' = kv /\ page_table' = page_table
      /\ obj' = obj /\ stage' = stage /\ tokens' = tokens
  BY DEF RefuseNew
<1>3. stage[r] = "pending"
  BY <1>1, <1>2, ConsideredFacts
<1>4. UNCHANGED ClientView
  <2>1. pc # "take" /\ pc' # "take"
    BY <1>2
  <2> QED
    BY <1>2, <2>1, ViewOfSameObjects
<1>5. ClientPhase[r] = "waiting" /\ ClientJob = CM!NoJob
  BY <1>2, <1>3 DEF ClientPhase, Live, ClientJob, CM!NoJob
<1>6. CM!MatchReq(r) = MatchReq(r)
  BY SameOperators DEF CM!MatchReq, MatchReq, InputLen
<1>7. cache' = CM!Walk(cache, CM!MatchReq(r))
  BY <1>2, <1>6, SameOperators
<1> QED
  BY <1>2, <1>4, <1>5, <1>7 DEF CM!Refuse, ClientView

\* A request is admitted: the matched prefix is locked and copied to a free row
LEMMA AdmitClient ==
  ASSUME IInv, NEW r \in Req, AddNew(r)
  PROVE  CM!Admit(r)
<1> DEFINE h == MatchReq(r)
           slot == table_free[Len(table_free)]
           cached == PageSize * Len(h)
<1>1. TypeOK /\ Queue /\ ThisBatch /\ Slots
  BY DEF IInv
<1>2. /\ pc = "add" /\ pc' = pc /\ r \in Considered /\ r \notin chunked /\ table_free # << >>
      /\ cache' = Lock(Walk(cache, h), h)
      /\ page_table' = [page_table EXCEPT ![slot] = MatchedPages(cache, h)]
      /\ AddOneReq(r, slot, h, cached)
      /\ stage' = [stage EXCEPT ![r] = "admitted"]
      /\ free_slots' = free_slots /\ kv' = kv /\ tokens' = tokens
  BY DEF AddNew
<1>3. stage[r] = "pending"
  BY <1>1, <1>2, ConsideredFacts
<1>4. cached \in Nat /\ cached < InputLen(r)
  BY <1>1, MatchReqType
<1>5. slot \in Slot /\ Contains(table_free, slot)
  <2>1. table_free \in Seq(Slot)
    BY <1>1 DEF TypeOK
  <2>2. Len(table_free) \in DOMAIN table_free
    BY <1>2, <2>1
  <2> QED
    BY <2>1, <2>2 DEF Contains
<1>6. cache' = CM!Lock(CM!Walk(cache, h), h) /\ MatchedPages(cache, h) = CM!MatchedPages(cache, h)
  BY <1>2, SameOperators
<1>7. CM!MatchReq(r) = h
  BY SameOperators DEF CM!MatchReq, MatchReq, InputLen
<1> HIDE DEF h, slot, cached
<1>8. /\ obj'[r].slot = slot /\ obj'[r].cached = cached /\ obj'[r].handle = h
      /\ \A x \in Req : x # r => obj'[x] = obj[x]
  BY <1>1, <1>2 DEF AddOneReq, TypeOK
<1>9. /\ stage'[r] = "admitted" /\ \A x \in Req : x # r => stage'[x] = stage[x]
  BY <1>1, <1>2 DEF TypeOK
<1>10. ~ Live(r) /\ \A x \in Req : Live(x)' <=> Live(x) \/ x = r
  BY <1>3, <1>9 DEF Live
<1>11. pc # "take" /\ pc' # "take"
  BY <1>2
<1>12. ClientPhase[r] = "waiting" /\ ClientPhase' = [ClientPhase EXCEPT ![r] = "admitted"]
  BY <1>3, <1>9, <1>10 DEF ClientPhase
<1>13. ClientLen' = [ClientLen EXCEPT ![r] = cached]
  BY <1>8, <1>10 DEF ClientLen
<1>14. ClientHandle' = [ClientHandle EXCEPT ![r] = h]
  BY <1>8, <1>10 DEF ClientHandle
<1>15. ClientRow' = [ClientRow EXCEPT ![r] = MatchedPages(cache, h)]
  <2>1. Row(r)' = MatchedPages(cache, h)
    BY <1>1, <1>2, <1>5, <1>8 DEF Row, TypeOK
  <2>2. ASSUME NEW x \in Req, x # r, Live(x) PROVE Row(x)' = Row(x)
    <3>1. obj[x].slot \in Slot /\ obj[x].slot # slot
      BY <1>1, <1>5, <2>2 DEF Slots
    <3>2. page_table'[obj[x].slot] = page_table[obj[x].slot]
      BY <1>1, <1>2, <3>1 DEF TypeOK
    <3> QED
      BY <1>8, <2>2, <3>2 DEF Row
  <2> QED
    BY <1>10, <2>1, <2>2 DEF ClientRow
<1>16. ClientIds' = ClientIds
  <2>1. ClientIds = [x \in Req |-> IF Live(x) /\ obj[x].cached > InputLen(x)
                                   THEN SubSeq(tokens[x], 1, obj[x].cached) ELSE Prompt[x]]
    BY <1>11 DEF ClientIds
  <2>2. ClientIds' = [x \in Req |-> IF Live(x)' /\ obj'[x].cached > InputLen(x)
                                    THEN SubSeq(tokens'[x], 1, obj'[x].cached) ELSE Prompt[x]]
    BY <1>11 DEF ClientIds
  <2>3. ~ (obj'[r].cached > InputLen(r))
    BY <1>1, <1>4, <1>8, RequestFacts
  <2>4. tokens' = tokens
    BY <1>2
  <2> QED
    BY <1>8, <1>10, <2>1, <2>2, <2>3, <2>4
<1>17. ClientJob = CM!NoJob /\ ClientJob' = ClientJob
  BY <1>11 DEF ClientJob, CM!NoJob
<1> QED
  BY <1>2, <1>6, <1>7, <1>12, <1>13, <1>14, <1>15, <1>16, <1>17 DEF CM!Admit, cached

\* The entry whose pages are being allocated: what its request has and is to get.
LEMMA AllocFacts ==
  ASSUME IInv, NEW r \in Current, pc \in {"allocate", "take"}
  PROVE  /\ r \in Req /\ Live(r) /\ Current = {r}
         /\ obj[r].cached \in Nat /\ obj[r].device \in Nat
         /\ InputLen(r) \in Nat /\ InputLen(r) = Len(Prompt[r])
         /\ tokens[r] \in Seq(Token) /\ Prompt[r] \in Seq(Token)
         /\ obj[r].device <= Len(tokens[r])
         /\ SubSeq(tokens[r], 1, InputLen(r)) = Prompt[r] /\ InputLen(r) <= Len(tokens[r])
         /\ \/ obj[r].cached < obj[r].device /\ obj[r].device <= InputLen(r)
            \/ /\ InputLen(r) <= obj[r].cached /\ obj[r].device = obj[r].cached + 1
               /\ obj[r].device <= InputLen(r) + MaxSeqLen /\ CanDecode(r)
<1>1. /\ TypeOK /\ Queue /\ ThisBatch /\ Decoders
      /\ \A x \in Req : Live(x) => LengthsOf(x)
  BY DEF IInv
<1>2. /\ at \in DOMAIN batch.items /\ r = batch.items[at].req /\ r \in Req
      /\ ThisEntry(batch.items[at]) /\ batch.items[at].chunk \in BOOLEAN
      /\ \A i \in DOMAIN batch.items : batch.items[i].req = r => i = at
      /\ \A i \in DOMAIN batch.items : i \in Nat
  BY <1>1, CurrentFacts
<1>3. Preparing
  BY DEF Preparing
<1>4. Live(r)
  BY <1>2, <1>3 DEF ThisEntry
<1>5. Current = {r}
  BY <1>2 DEF Current
<1>6. Ahead(r) /\ ~ Taken(r)
  BY <1>2, <1>3 DEF Ahead, Taken
<1>7. /\ obj[r].cached \in Nat /\ obj[r].device \in Nat
      /\ InputLen(r) \in Nat /\ InputLen(r) = Len(Prompt[r])
      /\ tokens[r] \in Seq(Token) /\ Prompt[r] \in Seq(Token)
  BY <1>1, <1>2, RequestFacts DEF InputLen
<1>8. SubSeq(tokens[r], 1, InputLen(r)) = Prompt[r] /\ InputLen(r) <= Len(tokens[r])
  BY <1>2, <1>4, PromptFirst
<1>9. /\ obj[r].device <= Len(tokens[r])
      /\ \/ obj[r].cached < obj[r].device /\ obj[r].device <= InputLen(r)
         \/ /\ InputLen(r) <= obj[r].cached /\ obj[r].device = obj[r].cached + 1
            /\ obj[r].device <= InputLen(r) + MaxSeqLen /\ CanDecode(r)
  <2>1. CASE batch.prefill
    <3>1. Extending(r)
      BY <1>1, <1>2, <1>4, <1>6, <2>1 DEF LengthsOf
    <3> QED
      BY <1>7, <1>8, <3>1 DEF Extending
  <2>2. CASE ~ batch.prefill
    <3>1. r \in running
      BY <1>2, <1>3, <2>2 DEF ThisEntry
    <3>2. CanDecode(r) /\ r \notin chunked
      BY <1>1, <1>2, <1>6, <3>1 DEF Decoders, Queue
    <3>3. Decoding(r)
      BY <1>1, <1>2, <1>4, <2>2, <3>2 DEF LengthsOf
    <3>4. Bit(Taken(r)) = 0
      BY <1>6 DEF Bit
    <3>5. Len(tokens[r]) = obj[r].device /\ obj[r].cached = obj[r].device - 1
          /\ InputLen(r) < obj[r].device
      BY <1>7, <3>3, <3>4 DEF Decoding
    <3>6. /\ obj[r].device < InputLen(r) + OutputLen(r)
          /\ OutputLen(r) <= MaxSeqLen /\ OutputLen(r) \in Int
      <4> DEFINE e == NumPages * PageSize
      <4>1. MaxTokens[r] \in Int /\ MaxSeqLen \in Nat
        BY <1>2, RequestAssumption, ConfigAssumption
      <4>2. e \in Nat
        <5>1. NumPages \in Nat /\ PageSize \in Nat
          BY ConfigAssumption, PageSizeAssumption
        <5>2. \A a, b \in Nat : a * b \in Nat
          OBVIOUS
        <5> QED
          BY <5>1, <5>2
      <4> HIDE DEF e
      <4>3. OutputLen(r) = Smaller(MaxTokens[r], Smaller(MaxSeqLen, e) - InputLen(r))
        BY DEF OutputLen, EngineMaxSeqLen, e
      <4>4. OutputLen(r) \in Int /\ OutputLen(r) <= MaxSeqLen
        <5> DEFINE i == InputLen(r)
                   m == MaxTokens[r]
        <5>1. i \in Nat /\ m \in Int /\ OutputLen(r) = Smaller(m, Smaller(MaxSeqLen, e) - i)
          BY <1>7, <4>1, <4>3
        <5> HIDE DEF i, m
        <5> QED
          BY <4>1, <4>2, <5>1 DEF Smaller
      <4>5. InputLen(r) + OutputLen(r) - obj[r].device > 0
        BY <3>2 DEF CanDecode, RemainLen
      <4> QED
        BY <1>7, <4>4, <4>5
    <3>7. MaxSeqLen \in Nat
      BY ConfigAssumption
    <3> QED
      BY <1>7, <3>2, <3>5, <3>6, <3>7
  <2> QED
    BY <2>1, <2>2
<1> QED
  BY <1>2, <1>4, <1>5, <1>7, <1>8, <1>9

LEMMA SubSeqMore ==
  ASSUME NEW S, NEW s \in Seq(S), NEW n \in Nat, n + 1 <= Len(s)
  PROVE  SubSeq(s, 1, n + 1) = Append(SubSeq(s, 1, n), s[n + 1]) /\ s[n + 1] \in S
OBVIOUS

\* What the client knows, by the length its allocation or computation has reached
LEMMA CurrentIds ==
  ASSUME IInv, NEW r \in Current, pc \in {"allocate", "take"}
  PROVE  /\ ClientIds[r] = IF (IF pc = "take" THEN obj[r].device ELSE obj[r].cached) > InputLen(r)
                           THEN SubSeq(tokens[r], 1, IF pc = "take" THEN obj[r].device ELSE obj[r].cached)
                           ELSE Prompt[r]
         /\ ClientLen[r] = obj[r].cached /\ ClientRow[r] = Row(r)
         /\ pc = "take" => ClientJob = [req |-> {r}, upto |-> obj[r].device]
         /\ pc = "allocate" => ClientJob = CM!NoJob
         /\ CM!Live(r)
<1>1. r \in Req /\ Live(r) /\ Current = {r}
  BY AllocFacts
<1>2. (CHOOSE x \in Current : TRUE) = r
  BY <1>1
<1>3. CM!Live(r)
  BY <1>1 DEF CM!Live, ClientPhase, Live
<1>4. pc = "take" => ClientJob = [req |-> {r}, upto |-> obj[r].device]
  BY <1>1, <1>2 DEF ClientJob
<1>5. pc = "allocate" => ClientJob = CM!NoJob
  BY DEF ClientJob, CM!NoJob
<1>6. ClientLen[r] = obj[r].cached /\ ClientRow[r] = Row(r)
  BY <1>1 DEF ClientLen, ClientRow
<1>7. ClientIds[r] = IF (IF pc = "take" THEN obj[r].device ELSE obj[r].cached) > InputLen(r)
                     THEN SubSeq(tokens[r], 1, IF pc = "take" THEN obj[r].device ELSE obj[r].cached)
                     ELSE Prompt[r]
  BY <1>1 DEF ClientIds
<1> QED
  BY <1>3, <1>4, <1>5, <1>6, <1>7

LEMMA StartAllocClient ==
  ASSUME IInv, NEW r \in Req, StartAlloc(r), AllocationFits'
  PROVE  \E n \in CM!Targets(r) : CM!StartAlloc(r, n)
<1> DEFINE n == obj[r].device
           m == obj[r].cached
           k == InputLen(r)
<1>1. /\ pc = "allocate" /\ r \in Current /\ pc' = "take"
      /\ cache' = cache /\ free_slots' = free_slots /\ kv' = kv /\ page_table' = page_table
      /\ obj' = obj /\ stage' = stage /\ tokens' = tokens /\ batch' = batch /\ at' = at
  BY DEF StartAlloc, memory, loop
<1>2. /\ r \in Req /\ Live(r) /\ Current = {r}
      /\ m \in Nat /\ n \in Nat /\ k \in Nat /\ k = Len(Prompt[r])
      /\ tokens[r] \in Seq(Token) /\ Prompt[r] \in Seq(Token) /\ n <= Len(tokens[r])
      /\ SubSeq(tokens[r], 1, k) = Prompt[r] /\ k <= Len(tokens[r])
      /\ \/ m < n /\ n <= k
         \/ k <= m /\ n = m + 1 /\ n <= k + MaxSeqLen
  BY <1>1, AllocFacts
<1>3. /\ ClientIds[r] = IF m > k THEN SubSeq(tokens[r], 1, m) ELSE Prompt[r]
      /\ ClientLen[r] = m /\ ClientRow[r] = Row(r) /\ ClientJob = CM!NoJob /\ CM!Live(r)
  BY <1>1, CurrentIds
<1>4. Current' = {r} /\ (CHOOSE x \in Current' : TRUE) = r
  BY <1>1, <1>2 DEF Current
<1>5. CM!PagesFor(r, n) <= Len(free_slots) + cache.evictable
  <2>1. NeededPages(r)' <= Len(free_slots) + cache.evictable
    BY <1>1, <1>4 DEF AllocationFits
  <2>2. NeededPages(r)' = CeilDiv(n, PageSize) - CeilDiv(m, PageSize)
    BY <1>1 DEF NeededPages
  <2>3. CM!PagesFor(r, n) = CeilDiv(n, PageSize) - CeilDiv(m, PageSize)
    BY <1>3, SameOperators DEF CM!PagesFor
  <2> QED
    BY <2>1, <2>2, <2>3
<1>6. ClientJob' = [req |-> {r}, upto |-> n]
  BY <1>1, <1>4 DEF ClientJob
<1>7. \A x \in Req : Live(x)' <=> Live(x)
  BY <1>1 DEF Live
<1>8. UNCHANGED << ClientPhase, ClientLen, ClientHandle, ClientRow >>
  BY <1>1, <1>7 DEF ClientPhase, ClientLen, ClientHandle, ClientRow, Row
<1>9. /\ ClientIds'[r] = IF n > k THEN SubSeq(tokens[r], 1, n) ELSE Prompt[r]
      /\ \A x \in Req : x # r => ClientIds'[x] = ClientIds[x]
      /\ ClientIds' = [x \in Req |-> ClientIds'[x]] /\ ClientIds = [x \in Req |-> ClientIds[x]]
  <2>1. pc # "take" /\ pc' = "take" /\ \A x \in Req : x \in Current' <=> x = r
    BY <1>1, <1>4
  <2>2. ClientIds = [x \in Req |-> IF Live(x) /\ obj[x].cached > InputLen(x)
                                   THEN SubSeq(tokens[x], 1, obj[x].cached) ELSE Prompt[x]]
    BY <2>1 DEF ClientIds
  <2>3. ClientIds' = [x \in Req |->
                        LET d == IF x = r THEN obj[x].device ELSE obj[x].cached
                        IN IF Live(x) /\ d > InputLen(x) THEN SubSeq(tokens[x], 1, d) ELSE Prompt[x]]
    BY <1>1, <1>7, <2>1 DEF ClientIds
  <2> QED
    BY <1>2, <2>2, <2>3
<1> HIDE DEF n, m, k
<1>10. n \in CM!Targets(r)
  BY <1>2, <1>3 DEF CM!Targets
<1>11. \/ n <= Len(ClientIds[r]) /\ ClientIds' = ClientIds
       \/ n > Len(ClientIds[r]) /\ \E t \in Token : ClientIds' = [ClientIds EXCEPT ![r] = Append(@, t)]
  <2>1. CASE m < n /\ n <= k
    <3>1. ClientIds[r] = Prompt[r] /\ ClientIds'[r] = Prompt[r]
      BY <1>2, <1>3, <1>9, <2>1
    <3>2. n <= Len(ClientIds[r])
      BY <1>2, <2>1, <3>1
    <3>3. ClientIds' = ClientIds
      BY <1>9, <3>1
    <3> QED
      BY <3>2, <3>3
  <2>2. CASE k <= m /\ n = m + 1
    <3>1. ClientIds[r] = SubSeq(tokens[r], 1, m)
      BY <1>2, <1>3, <2>2
    <3>2. ClientIds'[r] = SubSeq(tokens[r], 1, m + 1)
      BY <1>2, <1>9, <2>2
    <3>3. /\ SubSeq(tokens[r], 1, m + 1) = Append(SubSeq(tokens[r], 1, m), tokens[r][m + 1])
          /\ tokens[r][m + 1] \in Token /\ Len(SubSeq(tokens[r], 1, m)) = m
      BY <1>2, <2>2, SubSeqMore
    <3>4. n > Len(ClientIds[r])
      BY <1>2, <2>2, <3>1, <3>3
    <3>5. ClientIds' = [ClientIds EXCEPT ![r] = Append(@, tokens[r][m + 1])]
      BY <1>9, <3>1, <3>2, <3>3
    <3> QED
      BY <3>3, <3>4, <3>5
  <2> QED
    BY <1>2, <2>1, <2>2
<1>12. CM!StartAlloc(r, n)
  BY <1>1, <1>3, <1>5, <1>6, <1>8, <1>10, <1>11 DEF CM!StartAlloc
<1> QED
  BY <1>10, <1>12

LEMMA EvictClient ==
  ASSUME IInv, NEW r \in Req, EvictOne(r)
  PROVE  CM!EvictOne(r)
<1>1. /\ pc = "take" /\ pc' = pc /\ r \in Current /\ NeededPages(r) > Len(free_slots)
      /\ \E v \in Victims(cache) : /\ cache' = EvictLeaf(cache, v)
                                   /\ free_slots' = free_slots \o EvictedPages(cache, v)
      /\ kv' = kv /\ page_table' = page_table
      /\ obj' = obj /\ stage' = stage /\ tokens' = tokens /\ batch' = batch /\ at' = at
  BY DEF EvictOne, loop
<1>2. Current' = Current /\ (\A x \in Req : Live(x)' <=> Live(x))
  BY <1>1 DEF Current, Live
<1>3. UNCHANGED ClientView
  BY <1>1, <1>2 DEF ClientView, ClientPhase, ClientIds, ClientLen, ClientHandle, ClientRow,
       ClientJob, Row
<1>4. ClientJob = [req |-> {r}, upto |-> obj[r].device] /\ ClientLen[r] = obj[r].cached
  BY <1>1, CurrentIds
<1>5. CM!PagesFor(r, ClientJob.upto) = NeededPages(r)
  BY <1>4, SameOperators DEF CM!PagesFor, NeededPages
<1>6. \E v \in CM!Victims(cache) : /\ cache' = CM!EvictLeaf(cache, v)
                                   /\ free_slots' = free_slots \o CM!EvictedPages(cache, v)
  BY <1>1, SameOperators
<1> QED
  BY <1>1, <1>3, <1>4, <1>5, <1>6 DEF CM!EvictOne, ClientView

\* The pages of the row, and what the forward pass stores in them
LEMMA TakeClient ==
  ASSUME IInv, NEW r \in Req, Take(r)
  PROVE  CM!Take(r)
<1> DEFINE d == obj[r].device
           c == obj[r].cached
           k == NeededPages(r)
           rw == Row(r) \o SubSeq(free_slots, 1, k)
<1>1. TypeOK /\ Slots
  BY DEF IInv
<1>2. /\ pc = "take" /\ pc' = "allocate" /\ r \in Current /\ k <= Len(free_slots)
      /\ page_table' = [page_table EXCEPT ![obj[r].slot] = rw]
      /\ free_slots' = SubSeq(free_slots, k + 1, Len(free_slots))
      /\ kv' = Stored(r, rw)
      /\ obj' = [obj EXCEPT ![r].cached = obj[r].device, ![r].device = @ + 1]
      /\ cache' = cache /\ stage' = stage /\ tokens' = tokens
  BY DEF Take
<1>3. /\ r \in Req /\ Live(r) /\ Current = {r} /\ c \in Nat /\ d \in Nat
      /\ tokens[r] \in Seq(Token) /\ d <= Len(tokens[r])
  BY <1>2, AllocFacts
<1>4. /\ ClientIds[r] = IF d > InputLen(r) THEN SubSeq(tokens[r], 1, d) ELSE Prompt[r]
      /\ ClientLen[r] = c /\ ClientRow[r] = Row(r)
      /\ ClientJob = [req |-> {r}, upto |-> d]
  BY <1>2, CurrentIds
<1>5. /\ obj'[r].cached = d /\ obj'[r].slot = obj[r].slot /\ obj'[r].handle = obj[r].handle
      /\ \A x \in Req : x # r => obj'[x] = obj[x]
  BY <1>1, <1>2, <1>3 DEF TypeOK
<1>6. CM!PagesFor(r, d) = k
  BY <1>4, SameOperators DEF CM!PagesFor, NeededPages
<1>7. CM!Stored(r, rw, d) = Stored(r, rw)
  <2> DEFINE first == c \div PageSize + 1
             end == CeilDiv(d, PageSize)
             part(i) == SubSeq(ClientIds[r], 1, Smaller(i * PageSize, d))
             own(i) == SubSeq(tokens[r], 1, Smaller(i * PageSize, d))
  <2>1. first \in Nat \ {0} /\ end \in Int
    <3>1. PageSize \in Nat \ {0}
      BY PageSizeAssumption
    <3>2. c \div PageSize \in Nat
      BY <1>3, <3>1, DivBounds
    <3>3. end \in Int
      BY <1>3, <3>1 DEF CeilDiv
    <3> HIDE DEF c
    <3> QED
      BY <3>2, <3>3
  <2> HIDE DEF first, end
  <2>2. ASSUME NEW i \in first..end PROVE part(i) = own(i)
    <3> DEFINE m == Smaller(i * PageSize, d)
    <3>1. i * PageSize \in Nat
      <4>1. i \in Nat /\ PageSize \in Nat
        BY <2>1, PageSizeAssumption
      <4>2. \A a, b \in Nat : a * b \in Nat
        OBVIOUS
      <4> QED
        BY <4>1, <4>2
    <3>2. m \in Nat /\ m <= d
      <4> DEFINE e == i * PageSize
      <4>1. e \in Nat
        BY <3>1
      <4> HIDE DEF e, d
      <4>2. Smaller(e, d) \in Nat /\ Smaller(e, d) <= d
        BY <1>3, <4>1 DEF Smaller
      <4> QED
        BY <4>2 DEF e
    <3> HIDE DEF m, d
    <3>3. SubSeq(ClientIds[r], 1, m) = SubSeq(tokens[r], 1, m)
      BY <1>3, <1>4, <3>2, ClientPrefix
    <3> QED
      BY <3>3 DEF m
  <2> HIDE DEF part, own
  <2>3. CM!Stored(r, rw, d) =
          [p \in Page |-> IF \E i \in first..end : rw[i] = p
                          THEN part(CHOOSE j \in first..end : rw[j] = p) ELSE kv[p]]
    BY <1>4, SameOperators DEF CM!Stored, first, end, part
  <2>4. Stored(r, rw) =
          [p \in Page |-> IF \E i \in first..end : rw[i] = p
                          THEN own(CHOOSE j \in first..end : rw[j] = p) ELSE kv[p]]
    BY DEF Stored, first, end, own
  <2> HIDE DEF rw
  <2>5. ASSUME NEW p \in Page, \E i \in first..end : rw[i] = p
        PROVE  (CHOOSE j \in first..end : rw[j] = p) \in first..end
    BY <2>5
  <2> QED
    BY <2>2, <2>3, <2>4, <2>5
<1> HIDE DEF d, c, k, rw
<1>8. \A x \in Req : Live(x)' <=> Live(x)
  BY <1>2 DEF Live
<1>9. ClientPhase' = ClientPhase /\ ClientHandle' = ClientHandle
  <2>1. stage' = stage /\ \A x \in Req : obj'[x].handle = obj[x].handle
    BY <1>2, <1>5
  <2> QED
    BY <1>8, <2>1 DEF ClientPhase, ClientHandle
<1>10. ClientLen' = [ClientLen EXCEPT ![r] = d]
  BY <1>3, <1>5, <1>8 DEF ClientLen
<1>11. ClientIds' = ClientIds
  <2>1. pc = "take" /\ pc' # "take" /\ \A x \in Req : x \in Current <=> x = r
    BY <1>2, <1>3
  <2>2. ClientIds = [x \in Req |->
                       LET n == IF x = r THEN obj[x].device ELSE obj[x].cached
                       IN IF Live(x) /\ n > InputLen(x) THEN SubSeq(tokens[x], 1, n) ELSE Prompt[x]]
    BY <2>1 DEF ClientIds
  <2>3. ClientIds' = [x \in Req |-> IF Live(x)' /\ obj'[x].cached > InputLen(x)
                                    THEN SubSeq(tokens'[x], 1, obj'[x].cached) ELSE Prompt[x]]
    BY <2>1 DEF ClientIds
  <2>4. tokens' = tokens
    BY <1>2
  <2> QED
    BY <1>5, <1>8, <2>2, <2>3, <2>4 DEF d
<1>12. ClientRow' = [ClientRow EXCEPT ![r] = rw]
  <2>1. obj[r].slot \in Slot /\ page_table = [s \in Slot |-> page_table[s]]
    BY <1>1, <1>3 DEF Slots, TypeOK
  <2>2. Row(r)' = rw
    BY <1>2, <1>5, <2>1 DEF Row
  <2>3. ASSUME NEW x \in Req, x # r, Live(x) PROVE Row(x)' = Row(x)
    <3>1. obj[x].slot \in Slot /\ obj[x].slot # obj[r].slot
      BY <1>1, <1>3, <2>3 DEF Slots
    <3>2. page_table'[obj[x].slot] = page_table[obj[x].slot]
      BY <1>2, <2>1, <3>1
    <3> QED
      BY <1>5, <2>3, <3>2 DEF Row
  <2> QED
    BY <1>3, <1>8, <2>2, <2>3 DEF ClientRow
<1>13. ClientJob' = CM!NoJob
  BY <1>2 DEF ClientJob, CM!NoJob
<1>14. rw = ClientRow[r] \o SubSeq(free_slots, 1, k)
  BY <1>4 DEF rw
<1>15. ClientJob.req = {r} /\ ClientJob.upto = d
  BY <1>4
<1> QED
  BY <1>2, <1>6, <1>7, <1>9, <1>10, <1>11, <1>12, <1>13, <1>14, <1>15 DEF CM!Take

LEMMA InitClient ==
  ASSUME Init PROVE CM!Init
<1>1. /\ pc = "receive" /\ cache = EmptyCache /\ free_slots = [i \in Page |-> i]
      /\ kv = [p \in Page |-> << >>] /\ stage = [r \in Req |-> "unsent"]
  BY DEF Init
<1>2. \A r \in Req : ~ Live(r)
  BY <1>1 DEF Live
<1>3. /\ ClientPhase = [r \in Req |-> "waiting"] /\ ClientLen = [r \in Req |-> 0]
      /\ ClientHandle = [r \in Req |-> Root] /\ ClientRow = [r \in Req |-> << >>]
  BY <1>1, <1>2 DEF ClientPhase, ClientLen, ClientHandle, ClientRow
<1>4. ClientIds = Prompt
  <2>1. ClientIds = [r \in Req |-> Prompt[r]]
    BY <1>2 DEF ClientIds
  <2> QED
    BY <2>1, RequestAssumption
<1>5. ClientJob = CM!NoJob
  BY <1>1 DEF ClientJob, CM!NoJob
<1>6. EmptyCache = CM!EmptyCache /\ Page = CM!Page /\ Root = CM!Root
  BY DEF EmptyCache, CM!EmptyCache, Page, CM!Page, Root, CM!Root
<1> QED
  BY <1>1, <1>3, <1>4, <1>5, <1>6 DEF CM!Init

\* The constants meet what the cache manager's module assumes of them.
LEMMA ClientConstants == CM!ReqAssumption /\ CM!PromptAssumption /\ CM!BoundAssumption
BY RequestAssumption, ConfigAssumption
   DEF CM!ReqAssumption, CM!PromptAssumption, CM!BoundAssumption, CM!IsFiniteSet, IsFiniteSet

LEMMA StutterClient ==
  ASSUME UNCHANGED vars PROVE UNCHANGED CM!vars
<1>1. Current' = Current /\ \A x \in Req : Live(x)' <=> Live(x)
  BY DEF vars, loop, Current, Live
<1>2. UNCHANGED ClientView
  BY <1>1 DEF vars, memory, loop, ClientView, ClientPhase, ClientIds, ClientLen,
     ClientHandle, ClientRow, ClientJob, Row
<1> QED
  BY <1>2, QuietStep DEF vars, memory

\* Every step is one operation of CacheManager on one request, or none, as long as an
\* allocation starts only when its pages are there.
LEMMA ClientStep ==
  ASSUME IInv, [Next]_vars, \A r \in Req : StartAlloc(r) => AllocationFits'
  PROVE  [CM!Next]_(CM!vars)
<1>1. ASSUME NEW r \in Req, \/ CM!Refuse(r) \/ CM!Admit(r)
                            \/ \E n \in CM!Targets(r) : CM!StartAlloc(r, n)
                            \/ CM!EvictOne(r) \/ CM!Take(r) \/ CM!Commit(r) \/ CM!Finish(r)
      PROVE  CM!Next
  BY <1>1 DEF CM!Next
<1>2. CASE \E r \in Req : Message(r)
  BY <1>1, <1>2, QuietSteps, AbortClient DEF Message
<1>3. CASE Step
  <2>1. CASE Schedule \/ StopsAdding \/ PrefillBatch \/ DecodeBatch \/ NothingToRun \/ Launch \/ EndLoop
    BY <2>1, QuietSteps
  <2>2. CASE \E r \in Req : AddChunked(r) \/ AddNew(r) \/ RefuseNew(r)
    BY <1>1, <2>2, QuietSteps, AdmitClient, RefuseClient
  <2>3. CASE \E r \in Req : StartAlloc(r) \/ EvictOne(r) \/ Take(r)
    BY <1>1, <2>3, StartAllocClient, EvictClient, TakeClient
  <2>4. CASE \E e \in Answered : SkipChunk(e) \/ FinishReq(e) \/ CommitReq(e) \/ ReplyOnly(e)
    <3>1. \A e \in Answered : e.req \in Req
      BY AnsweredEntry DEF IInv
    <3> QED
      BY <1>1, <2>4, <3>1, QuietSteps, FinishReqClient, CommitClient
  <2> QED
    BY <1>3, <2>1, <2>2, <2>3, <2>4 DEF Step, StopsAdding
<1>4. CASE Idle \/ UNCHANGED vars
  BY <1>4, StutterClient DEF Idle, Stopped
<1> QED
  BY <1>2, <1>3, <1>4 DEF Next

\* Whatever order messages arrive in and batches are formed, the loop calls the
\* cache manager as its interface permits, as long as each batch finds the pages it
\* needs (AllocationFits, which the code asserts and does not ensure).
THEOREM LoopUsesCacheManager ==
  ASSUME SafeAborts PROVE Spec /\ []AllocationFits => UsesCacheManager
<1>1. Init => CM!Init
  BY InitClient
<1>2. IInv /\ AllocationFits' /\ [Next]_vars => [CM!Next]_(CM!vars)
  BY ClientStep
<1> QED
  BY <1>1, <1>2, SchedulerInvariant, PTL DEF Spec, UsesCacheManager, CM!Spec

-----------------------------------------------------------------------------
(* What is proved of the cache manager holds in the loop: the theorems of    *)
(* CacheManagerProofs, of the state the loop shows its cache manager.        *)

CMP == INSTANCE CacheManagerProofs WITH
         MaxNew <- MaxSeqLen, phase <- ClientPhase, ids <- ClientIds, cached_len <- ClientLen,
         handle <- ClientHandle, row <- ClientRow, job <- ClientJob

\* The assumptions of that module
LEMMA SameConstants ==
  /\ MaxSeqLen \in Nat /\ NumPages \in Nat /\ Prompt \in [Req -> Seq(Token) \ {<< >>}]
  /\ CMP!IsFiniteSet(Req) /\ PageSize \in Nat \ {0}
BY RequestAssumption, ConfigAssumption, PageSizeAssumption DEF CMP!IsFiniteSet, IsFiniteSet

LEMMA SameActions ==
  /\ CM!Init <=> CMP!Init
  /\ CM!vars = CMP!vars
  /\ \A r : /\ CM!Refuse(r) <=> CMP!Refuse(r)
            /\ CM!Admit(r) <=> CMP!Admit(r)
            /\ CM!Targets(r) = CMP!Targets(r)
            /\ \A n : CM!StartAlloc(r, n) <=> CMP!StartAlloc(r, n)
            /\ CM!EvictOne(r) <=> CMP!EvictOne(r)
            /\ CM!Take(r) <=> CMP!Take(r)
            /\ CM!Commit(r) <=> CMP!Commit(r)
            /\ CM!Finish(r) <=> CMP!Finish(r)
  /\ CM!Done <=> CMP!Done
<1>1. /\ \A s, t : CM!IsPrefix(s, t) <=> CMP!IsPrefix(s, t)
      /\ \A S : CM!Cardinality(S) = CMP!Cardinality(S)
      /\ \A c : CM!Nodes(c) = CMP!Nodes(c) /\ CM!Paths(c) = CMP!Paths(c)
  BY DEF CM!IsPrefix, CMP!IsPrefix, CM!Cardinality, CMP!Cardinality, CM!IsFiniteSet,
         CMP!IsFiniteSet, CM!Nodes, CMP!Nodes, CM!Paths, CMP!Paths
<1>2. \A c, p : CM!NodeOf(c, p) = CMP!NodeOf(c, p)
  BY <1>1 DEF CM!NodeOf, CMP!NodeOf, CM!IsNodeOf, CMP!IsNodeOf
<1>3. /\ \A c, h : CM!Lock(c, h) = CMP!Lock(c, h) /\ CM!Unlock(c, h) = CMP!Unlock(c, h)
      /\ \A c, v : CM!EvictLeaf(c, v) = CMP!EvictLeaf(c, v)
      /\ \A c, v : CM!EvictedPages(c, v) = CMP!EvictedPages(c, v)
      /\ \A c : CM!Victims(c) = CMP!Victims(c)
  <2>1. \A c, h, k : CM!PagesAtRef(c, h, k) = CMP!PagesAtRef(c, h, k)
    BY <1>1, <1>2 DEF CM!PagesAtRef, CMP!PagesAtRef
  <2>2. \A c, h, d : CM!Counted(c, h, d) = CMP!Counted(c, h, d)
    BY <1>1 DEF CM!Counted, CMP!Counted
  <2>3. \A c, v : CM!Key(c, v) = CMP!Key(c, v)
    BY <1>1, <1>2 DEF CM!Key, CMP!Key
  <2>4. \A c : CM!Victims(c) = CMP!Victims(c)
    BY <1>1 DEF CM!Victims, CMP!Victims, CM!Unlocked, CMP!Unlocked, CM!Leaves, CMP!Leaves
  <2>5. \A a : CM!Ranked(a) = CMP!Ranked(a)
    BY <1>1 DEF CM!Ranked, CMP!Ranked
  <2> QED
    BY <1>1, <2>1, <2>2, <2>3, <2>4, <2>5 DEF CM!Lock, CMP!Lock, CM!Unlock, CMP!Unlock,
       CM!EvictLeaf, CMP!EvictLeaf, CM!EvictedPages, CMP!EvictedPages
<1>4. /\ \A c, p : CM!Matched(c, p) = CMP!Matched(c, p) /\ CM!Walk(c, p) = CMP!Walk(c, p)
      /\ \A c, h : CM!MatchedPages(c, h) = CMP!MatchedPages(c, h)
      /\ \A s : CM!Blocks(s) = CMP!Blocks(s)
      /\ CM!Root = CMP!Root
  <2>1. CM!Root = CMP!Root /\ \A c : CM!Now(c) = CMP!Now(c)
    BY <1>1 DEF CM!Root, CMP!Root, CM!Now, CMP!Now
  <2>2. \A a : CM!Ranked(a) = CMP!Ranked(a)
    BY <1>1 DEF CM!Ranked, CMP!Ranked
  <2>3. \A c, p : CM!RefAfterWalk(c, p) = CMP!RefAfterWalk(c, p)
    BY <1>1, <1>2, <2>1 DEF CM!RefAfterWalk, CMP!RefAfterWalk
  <2>4. \A c, p : CM!AgeAfterWalk(c, p) = CMP!AgeAfterWalk(c, p)
    BY <1>1, <1>2, <2>1, <2>2 DEF CM!AgeAfterWalk, CMP!AgeAfterWalk
  <2>5. \A c, p : CM!Matched(c, p) = CMP!Matched(c, p)
    BY <1>1, <2>1 DEF CM!Matched, CMP!Matched
  <2>6. \A c, p : CM!Walk(c, p) = CMP!Walk(c, p)
    BY <2>3, <2>4 DEF CM!Walk, CMP!Walk
  <2> QED
    BY <2>1, <2>5, <2>6 DEF CM!MatchedPages, CMP!MatchedPages, CM!Blocks, CMP!Blocks
<1>5. \A c, b, w : CM!Insert(c, b, w) = CMP!Insert(c, b, w)
  <2>1. \A c : CM!Now(c) = CMP!Now(c)
    BY <1>1 DEF CM!Now, CMP!Now
  <2>2. \A a : CM!Ranked(a) = CMP!Ranked(a)
    BY <1>1 DEF CM!Ranked, CMP!Ranked
  <2>3. \A c, p, b, w : CM!NewLeaf(c, p, b, w) = CMP!NewLeaf(c, p, b, w)
    <3> SUFFICES ASSUME NEW c, NEW p, NEW b, NEW w
                 PROVE  CM!NewLeaf(c, p, b, w) = CMP!NewLeaf(c, p, b, w)
      OBVIOUS
    <3> DEFINE ages == [n \in CMP!Nodes(c) \cup {b} |-> IF n = b THEN CMP!Now(c) ELSE c.age[n]]
               ages2 == [n \in CM!Nodes(c) \cup {b} |-> IF n = b THEN CM!Now(c) ELSE c.age[n]]
    <3>1. ages2 = ages
      BY <1>1, <2>1
    <3>2. CM!Ranked(ages2) = CMP!Ranked(ages)
      <4> HIDE DEF ages, ages2
      <4> QED
        BY <2>2, <3>1
    <3> QED
      BY <1>1, <3>2 DEF CM!NewLeaf, CMP!NewLeaf
  <2> QED
    BY <1>4, <2>3 DEF CM!Insert, CMP!Insert
<1>6. CM!Page = CMP!Page /\ CM!NoJob = CMP!NoJob /\ CM!vars = CMP!vars
      /\ \A a, b : CM!CeilDiv(a, b) = CMP!CeilDiv(a, b) /\ CM!Smaller(a, b) = CMP!Smaller(a, b)
      /\ \A r : CM!Live(r) <=> CMP!Live(r)
  BY DEF CM!Page, CMP!Page, CM!NoJob, CMP!NoJob, CM!vars, CMP!vars, CM!CeilDiv, CMP!CeilDiv,
     CM!Smaller, CMP!Smaller, CM!Live, CMP!Live
<1>7. CM!Init <=> CMP!Init
  BY <1>4, <1>6 DEF CM!Init, CMP!Init, CM!EmptyCache, CMP!EmptyCache
<1>8. \A r : CM!Refuse(r) <=> CMP!Refuse(r)
  BY <1>4, <1>6 DEF CM!Refuse, CMP!Refuse, CM!MatchReq, CMP!MatchReq
<1>9. \A r : CM!Admit(r) <=> CMP!Admit(r)
  BY <1>3, <1>4, <1>6 DEF CM!Admit, CMP!Admit, CM!MatchReq, CMP!MatchReq
<1>10. \A r : CM!Targets(r) = CMP!Targets(r) /\ \A n : CM!PagesFor(r, n) = CMP!PagesFor(r, n)
  BY <1>6 DEF CM!Targets, CMP!Targets, CM!PagesFor, CMP!PagesFor
<1>11. \A r, n : CM!StartAlloc(r, n) <=> CMP!StartAlloc(r, n)
  BY <1>6, <1>10 DEF CM!StartAlloc, CMP!StartAlloc
<1>12. \A r : CM!EvictOne(r) <=> CMP!EvictOne(r)
  BY <1>3, <1>10 DEF CM!EvictOne, CMP!EvictOne
<1>13. \A r : CM!Take(r) <=> CMP!Take(r)
  <2>1. \A r, rw, n : CM!Stored(r, rw, n) = CMP!Stored(r, rw, n)
    BY <1>6 DEF CM!Stored, CMP!Stored
  <2> QED
    BY <1>6, <1>10, <2>1 DEF CM!Take, CMP!Take
<1>14. \A r : CM!Computed(r) = CMP!Computed(r)
  BY <1>4 DEF CM!Computed, CMP!Computed
<1>15. \A r : CM!Commit(r) <=> CMP!Commit(r)
  BY <1>3, <1>4, <1>5, <1>6, <1>14 DEF CM!Commit, CMP!Commit
<1>16. \A r : CM!Finish(r) <=> CMP!Finish(r)
  BY <1>3, <1>4, <1>5, <1>6, <1>14 DEF CM!Finish, CMP!Finish, CM!FreedAtFinish, CMP!FreedAtFinish
<1>17. CM!Done <=> CMP!Done
  BY DEF CM!Done, CMP!Done, CM!vars, CMP!vars
<1> QED
  BY <1>6, <1>7, <1>8, <1>9, <1>10, <1>11, <1>12, <1>13, <1>15, <1>16, <1>17

LEMMA SameSpec == CM!Spec => CMP!Spec
<1>1. CM!Init => CMP!Init
  BY SameActions
<1>2. [CM!Next]_(CM!vars) => [CMP!Next]_(CMP!vars)
  <2>1. UNCHANGED CM!vars => UNCHANGED CMP!vars
    BY DEF CM!vars, CMP!vars
  <2>2. CM!Next => CMP!Next
    BY SameActions DEF CM!Next, CMP!Next
  <2> QED
    BY <2>1, <2>2
<1> QED
  BY <1>1, <1>2, PTL DEF CM!Spec, CMP!Spec

\* A scheduler with nothing to do has lost nothing, whatever was admitted, chunked,
\* generated, evicted, finished and aborted before: every page is free or can be
\* evicted and none is locked, every slot is free, and nobody waits for an answer.
\* run_when_idle checks the pages when it gets there (check_integrity).
THEOREM IdleLosesNothing ==
  ASSUME SafeAborts PROVE Spec /\ []AllocationFits => []IdleIntegrity
<1>1. CMP!Spec => []CMP!AllReturned
  BY CMP!NothingIsLost, SameConstants
<1>2. IInv /\ CMP!AllReturned => IdleIntegrity
  <2> SUFFICES ASSUME IInv, CMP!AllReturned, pc = "receive", Blocking
               PROVE  PagesAccounted /\ NobodyLeft
    BY DEF IdleIntegrity
  <2>1. NobodyLeft
    BY IdleLeavesNobody
  <2>2. \A r \in Req : ~CMP!Live(r)
    BY <2>1 DEF NobodyLeft, CMP!Live, ClientPhase, Live
  <2>3. /\ Len(free_slots) + cache.evictable + cache.protected = NumPages
        /\ cache.protected = 0
    BY <2>2 DEF CMP!AllReturned
  <2> QED
    BY <2>1, <2>3 DEF PagesAccounted
<1>3. Spec /\ []AllocationFits => CM!Spec
  BY LoopUsesCacheManager DEF UsesCacheManager
<1> QED
  BY <1>1, <1>2, <1>3, SameSpec, SchedulerInvariant, PTL

-----------------------------------------------------------------------------
(* Sums over finite sets. *)

LEMMA SmallestNat ==
  ASSUME NEW T \in SUBSET Nat, T # {}
  PROVE  \E m \in T : \A k \in T : m <= k
<1>1. PICK m \in T : \A k \in T : ~ (<< k, m >> \in OpToRel(<, Nat))
  BY NatLessThanWellFounded, WFMin
<1>2. \A k \in T : ~ (k < m)
  BY <1>1 DEF OpToRel
<1> QED
  BY <1>2

\* The sum of q[x] over the x of S
Total(q, S) == MapThenSumSet(LAMBDA x : q[x], S)

\* g is the function that sum looks up
Next1(s) == CHOOSE x \in s : TRUE
SumOf(g, q, s) == IF s = {} THEN 0 ELSE q[Next1(s)] + g[s \ {Next1(s)}]
Sums(g, q, S) == g = [s \in SUBSET S |-> SumOf(g, q, s)]

LEMMA SumsExists ==
  ASSUME NEW q, NEW S, IsFiniteSet(S)
  PROVE  \E g : Sums(g, q, S)
<1> DEFINE P(k) == \E g : /\ g = [s \in SUBSET S |-> g[s]]
                          /\ \A s \in SUBSET S : Cardinality(s) <= k => g[s] = SumOf(g, q, s)
           n == Cardinality(S)
           B == {k \in 0..n : ~ P(k)}
<1>1. n \in Nat /\ \A s \in SUBSET S : IsFiniteSet(s) /\ Cardinality(s) \in Nat /\ Cardinality(s) <= n
  BY FS_CardinalityType, FS_Subset
<1> HIDE DEF n, P
<1>2. ASSUME B # {} PROVE FALSE
  <2>1. B \in SUBSET Nat
    BY <1>1
  <2>2. PICK k \in B : \A j \in B : k <= j
    <3> HIDE DEF B
    <3> QED
      BY <1>2, <2>1, SmallestNat
  <2>3. k \in 0..n /\ k \in Nat /\ ~ P(k)
    BY <1>1, <2>2
  <2>4. CASE k = 0
    <3> DEFINE g == [s \in SUBSET S |-> 0]
    <3>1. \A s \in SUBSET S : Cardinality(s) <= 0 => s = {}
      BY <1>1, FS_EmptySet
    <3>2. \A s \in SUBSET S : Cardinality(s) <= k => g[s] = SumOf(g, q, s)
      BY <2>4, <3>1 DEF SumOf
    <3>3. g = [s \in SUBSET S |-> g[s]]
      OBVIOUS
    <3> HIDE DEF g
    <3>4. P(k)
      BY <3>2, <3>3 DEF P
    <3> QED
      BY <2>3, <3>4
  <2>5. CASE k # 0
    <3>1. k - 1 \in Nat /\ k - 1 \in 0..n /\ P(k - 1)
      BY <1>1, <2>2, <2>3, <2>5
    <3>2. PICK f : /\ f = [s \in SUBSET S |-> f[s]]
                   /\ \A s \in SUBSET S : Cardinality(s) <= k - 1 => f[s] = SumOf(f, q, s)
      BY <3>1 DEF P
    <3> PICK g : g = [s \in SUBSET S |-> IF Cardinality(s) = k THEN SumOf(f, q, s) ELSE f[s]]
      OBVIOUS
    <3>3. ASSUME NEW s \in SUBSET S, s # {}, Cardinality(s) <= k
          PROVE  g[s \ {Next1(s)}] = f[s \ {Next1(s)}] /\ s \ {Next1(s)} \in SUBSET S
      <4>1. Next1(s) \in s
        BY <3>3 DEF Next1
      <4>2. Cardinality(s \ {Next1(s)}) = Cardinality(s) - 1
        BY <1>1, <4>1, FS_RemoveElement
      <4>3. s \ {Next1(s)} \in SUBSET S /\ Cardinality(s) \in Nat
        BY <1>1
      <4>4. Cardinality(s \ {Next1(s)}) # k
        BY <2>3, <3>3, <4>2, <4>3
      <4> QED
        BY <4>3, <4>4
    <3>4. ASSUME NEW s \in SUBSET S, Cardinality(s) <= k
          PROVE  SumOf(g, q, s) = SumOf(f, q, s)
      BY <3>3, <3>4 DEF SumOf
    <3>5. ASSUME NEW s \in SUBSET S, Cardinality(s) <= k
          PROVE  g[s] = SumOf(g, q, s)
      <4>1. CASE Cardinality(s) = k
        BY <3>4, <3>5, <4>1
      <4>2. CASE Cardinality(s) # k
        <5>1. Cardinality(s) <= k - 1
          BY <1>1, <2>3, <3>5, <4>2
        <5> QED
          BY <3>2, <3>4, <3>5, <4>2, <5>1
      <4> QED
        BY <4>1, <4>2
    <3>6. g = [s \in SUBSET S |-> g[s]]
      OBVIOUS
    <3>7. P(k)
      BY <3>5, <3>6 DEF P
    <3> QED
      BY <2>3, <3>7
  <2> QED
    BY <2>4, <2>5
<1>3. P(n)
  BY <1>1, <1>2
<1>4. PICK g : /\ g = [s \in SUBSET S |-> g[s]]
               /\ \A s \in SUBSET S : Cardinality(s) <= n => g[s] = SumOf(g, q, s)
  BY <1>3 DEF P
<1>5. \A s \in SUBSET S : g[s] = SumOf(g, q, s)
  BY <1>1, <1>4
<1>6. Sums(g, q, S)
  BY <1>4, <1>5 DEF Sums
<1> QED
  BY <1>6

\* A smallest one among the finite sets of a family
LEMMA SmallestSet ==
  ASSUME NEW S, IsFiniteSet(S), NEW F \in SUBSET (SUBSET S), F # {}
  PROVE  \E s \in F : \A t \in F : Cardinality(s) <= Cardinality(t)
<1> DEFINE T == {Cardinality(s) : s \in F}
<1>1. \A s \in F : Cardinality(s) \in Nat
  BY FS_CardinalityType, FS_Subset
<1>2. T \in SUBSET Nat /\ T # {}
  BY <1>1
<1>3. PICK m \in T : \A k \in T : m <= k
  <2> HIDE DEF T
  <2> QED
    BY <1>2, SmallestNat
<1> QED
  BY <1>3

\* Two such functions agree where both are defined, and where the values are.
LEMMA SumsAgree ==
  ASSUME NEW q, NEW p, NEW S, NEW T, IsFiniteSet(S), IsFiniteSet(T), T \subseteq S,
         \A i \in T : p[i] = q[i],
         NEW g, NEW h, Sums(g, q, S), Sums(h, p, T)
  PROVE  \A s \in SUBSET T : h[s] = g[s]
<1> DEFINE F == {s \in SUBSET T : h[s] # g[s]}
<1>1. ASSUME F # {} PROVE FALSE
  <2>1. F \in SUBSET (SUBSET T)
    OBVIOUS
  <2>2. PICK s \in F : \A t \in F : Cardinality(s) <= Cardinality(t)
    <3> HIDE DEF F
    <3> QED
      BY <1>1, <2>1, SmallestSet
  <2>3. s \in SUBSET T /\ s \in SUBSET S /\ h[s] # g[s]
    BY <2>2
  <2>4. g[s] = SumOf(g, q, s) /\ h[s] = SumOf(h, p, s)
    BY <2>3 DEF Sums
  <2>5. s # {}
    BY <2>3, <2>4 DEF SumOf
  <2> DEFINE x == Next1(s)
  <2>6. x \in s
    BY <2>5 DEF Next1
  <2>7. Cardinality(s \ {x}) = Cardinality(s) - 1 /\ Cardinality(s) \in Nat /\ s \ {x} \in SUBSET T
    BY <2>3, <2>6, FS_RemoveElement, FS_Subset, FS_CardinalityType
  <2>8. s \ {x} \notin F
    <3> HIDE DEF F, x
    <3> QED
      BY <2>2, <2>7
  <2>9. h[s \ {x}] = g[s \ {x}]
    BY <2>7, <2>8
  <2> QED
    BY <2>3, <2>4, <2>5, <2>6, <2>9 DEF SumOf
<1> QED
  BY <1>1

\* It does not matter which element is taken first.
LEMMA SumsAny ==
  ASSUME NEW q, NEW S, IsFiniteSet(S), \A i \in S : q[i] \in Nat, NEW g, Sums(g, q, S)
  PROVE  \A s \in SUBSET S :
           g[s] \in Nat /\ \A x \in s : g[s] = q[x] + g[s \ {x}]
<1> DEFINE Fine(s) == g[s] \in Nat /\ \A x \in s : g[s] = q[x] + g[s \ {x}]
           F == {s \in SUBSET S : ~ Fine(s)}
<1>1. ASSUME F # {} PROVE FALSE
  <2>1. F \in SUBSET (SUBSET S)
    OBVIOUS
  <2>2. PICK s \in F : \A t \in F : Cardinality(s) <= Cardinality(t)
    <3> HIDE DEF F
    <3> QED
      BY <1>1, <2>1, SmallestSet
  <2>3. s \in SUBSET S /\ ~ Fine(s)
    BY <2>2
  <2>4. \A t \in SUBSET S : g[t] = SumOf(g, q, t)
    BY DEF Sums
  <2>5. CASE s = {}
    <3>1. g[s] = 0
      BY <2>3, <2>4, <2>5 DEF SumOf
    <3> QED
      BY <2>3, <2>5, <3>1
  <2>6. CASE s # {}
    <3> PICK y : y = Next1(s)
      OBVIOUS
    <3>1. y \in s /\ g[s] = q[y] + g[s \ {y}]
      BY <2>3, <2>4, <2>6 DEF SumOf, Next1
    <3>2. \A x \in s : s \ {x} \in SUBSET S /\ Fine(s \ {x})
      <4> SUFFICES ASSUME NEW x \in s PROVE s \ {x} \in SUBSET S /\ Fine(s \ {x})
        OBVIOUS
      <4>1. Cardinality(s \ {x}) = Cardinality(s) - 1 /\ Cardinality(s) \in Nat /\ s \ {x} \in SUBSET S
        BY <2>3, FS_RemoveElement, FS_Subset, FS_CardinalityType
      <4>2. s \ {x} \notin F
        <5> HIDE DEF F
        <5> QED
          BY <2>2, <4>1
      <4> QED
        BY <4>1, <4>2
    <3>3. q[y] \in Nat /\ g[s \ {y}] \in Nat
      BY <2>3, <3>1, <3>2
    <3>4. ASSUME NEW x \in s PROVE g[s] = q[x] + g[s \ {x}]
      <4>1. CASE x = y
        BY <3>1, <4>1
      <4>2. CASE x # y
        <5> DEFINE t == (s \ {x}) \ {y}
        <5>1. x \in s \ {y} /\ y \in s \ {x} /\ (s \ {y}) \ {x} = t
          BY <3>1, <4>2
        <5>2. g[s \ {y}] = q[x] + g[t] /\ g[s \ {x}] = q[y] + g[t]
          <6>1. Fine(s \ {y}) /\ Fine(s \ {x})
            BY <3>1, <3>2
          <6>2. g[s \ {y}] = q[x] + g[(s \ {y}) \ {x}]
            BY <5>1, <6>1
          <6>3. g[s \ {x}] = q[y] + g[(s \ {x}) \ {y}]
            BY <5>1, <6>1
          <6> QED
            BY <5>1, <6>2, <6>3
        <5>3. q[x] \in Nat /\ t \in SUBSET S /\ g[t] \in Nat
          <6>1. q[x] \in Nat /\ t \in SUBSET S
            BY <2>3
          <6>2. Cardinality(t) < Cardinality(s)
            <7>1. /\ Cardinality(s \ {x}) = Cardinality(s) - 1 /\ Cardinality(s) \in Nat
                  /\ IsFiniteSet(s \ {x})
              BY <2>3, FS_RemoveElement, FS_Subset, FS_CardinalityType
            <7>2. Cardinality(t) = Cardinality(s \ {x}) - 1
              BY <5>1, <7>1, FS_RemoveElement
            <7> QED
              BY <7>1, <7>2
          <6>3. t \notin F
            <7>1. Cardinality(t) \in Nat /\ Cardinality(s) \in Nat
              BY <2>3, <6>1, FS_Subset, FS_CardinalityType
            <7> HIDE DEF F, t
            <7> QED
              BY <2>2, <6>2, <7>1
          <6> QED
            BY <6>1, <6>3
        <5> HIDE DEF t
        <5> QED
          BY <3>1, <3>3, <5>2, <5>3
      <4> QED
        BY <4>1, <4>2
    <3>5. g[s] \in Nat
      BY <3>1, <3>3
    <3>6. Fine(s)
      BY <3>4, <3>5
    <3> QED
      BY <2>3, <3>6
  <2> QED
    BY <2>5, <2>6
<1> QED
  BY <1>1

LEMMA SumsLess ==
  ASSUME NEW q, NEW S, IsFiniteSet(S), \A i \in S : q[i] \in Nat, NEW g, Sums(g, q, S),
         NEW x \in S
  PROVE  g[S] = q[x] + g[S \ {x}] /\ g[S \ {x}] \in Nat
<1>1. S \in SUBSET S /\ S \ {x} \in SUBSET S /\ \A i \in S : q[i] \in Nat
  OBVIOUS
<1>2. \A s \in SUBSET S : g[s] \in Nat /\ \A y \in s : g[s] = q[y] + g[s \ {y}]
  <2> HIDE DEF Sums
  <2> QED
    BY <1>1, SumsAny
<1> QED
  BY <1>1, <1>2

LEMMA TotalIs ==
  ASSUME NEW q, NEW S, IsFiniteSet(S)
  PROVE  \E g : Sums(g, q, S) /\ Total(q, S) = g[S]
<1> DEFINE P(g) == g = [s \in SUBSET S |->
                          IF s = {} THEN 0
                          ELSE q[CHOOSE x \in s : TRUE] + g[s \ {CHOOSE x \in s : TRUE}]]
           c == CHOOSE g : P(g)
<1>1. \A g : P(g) <=> Sums(g, q, S)
  BY DEF Sums, SumOf, Next1
<1>2. Total(q, S) = c[S]
  BY DEF Total, MapThenSumSet, MapThenFoldSet
<1>3. P(c)
  <2>1. PICK g : Sums(g, q, S)
    BY SumsExists
  <2>2. P(g)
    BY <1>1, <2>1
  <2> HIDE DEF P
  <2> QED
    BY <2>2
<1> HIDE DEF c
<1> QED
  BY <1>1, <1>2, <1>3

\* Changing one value changes the sum by as much.
LEMMA TotalChanges ==
  ASSUME NEW q, NEW p, NEW S, IsFiniteSet(S), NEW x \in S,
         \A i \in S : q[i] \in Nat /\ p[i] \in Nat, \A i \in S \ {x} : q[i] = p[i]
  PROVE  \E rest \in Nat : Total(q, S) = q[x] + rest /\ Total(p, S) = p[x] + rest
<1> DEFINE T == S \ {x}
<1>1. IsFiniteSet(T) /\ T \subseteq S /\ T \in SUBSET T /\ \A i \in T : q[i] = p[i]
  BY FS_RemoveElement
<1>2. PICK g : Sums(g, q, S) /\ Total(q, S) = g[S]
  BY TotalIs
<1>3. PICK h : Sums(h, p, S) /\ Total(p, S) = h[S]
  BY TotalIs
<1>4. PICK k : Sums(k, p, T)
  BY <1>1, SumsExists
<1>5. k[T] = g[T]
  <2>1. \A i \in T : p[i] = q[i]
    BY <1>1
  <2>2. \A s \in SUBSET T : k[s] = g[s]
    <3> HIDE DEF T
    <3> QED
      BY <1>1, <1>2, <1>4, <2>1, SumsAgree
  <2> QED
    BY <1>1, <2>2
<1>6. k[T] = h[T]
  <2>1. \A i \in T : p[i] = p[i]
    OBVIOUS
  <2>2. \A s \in SUBSET T : k[s] = h[s]
    <3> HIDE DEF T
    <3> QED
      BY <1>1, <1>3, <1>4, <2>1, SumsAgree
  <2> QED
    BY <1>1, <2>2
<1>7. g[S] = q[x] + g[T] /\ g[T] \in Nat
  BY <1>2, SumsLess
<1>8. h[S] = p[x] + h[T]
  BY <1>3, SumsLess
<1> QED
  BY <1>2, <1>3, <1>5, <1>6, <1>7, <1>8

\* A sum is no less than one of smaller values.
LEMMA TotalMost ==
  ASSUME NEW q, NEW p, NEW S, IsFiniteSet(S), \A i \in S : q[i] \in Nat /\ p[i] \in Nat,
         \A i \in S : q[i] <= p[i]
  PROVE  Total(q, S) \in Nat /\ Total(p, S) \in Nat /\ Total(q, S) <= Total(p, S)
<1>0. (\A i \in S : q[i] \in Nat) /\ (\A i \in S : p[i] \in Nat)
  OBVIOUS
<1>1. PICK g : Sums(g, q, S) /\ Total(q, S) = g[S]
  BY TotalIs
<1>2. PICK h : Sums(h, p, S) /\ Total(p, S) = h[S]
  BY TotalIs
<1>3. \A s \in SUBSET S : g[s] \in Nat /\ \A x \in s : g[s] = q[x] + g[s \ {x}]
  <2> HIDE DEF Sums
  <2> QED
    BY <1>0, <1>1, SumsAny
<1>4. \A s \in SUBSET S : h[s] \in Nat /\ \A x \in s : h[s] = p[x] + h[s \ {x}]
  <2> HIDE DEF Sums
  <2> QED
    BY <1>0, <1>2, SumsAny
<1>5. g[{}] = 0 /\ h[{}] = 0
  BY <1>1, <1>2 DEF Sums, SumOf
<1> DEFINE F == {s \in SUBSET S : ~ (g[s] <= h[s])}
<1>6. ASSUME F # {} PROVE FALSE
  <2>1. F \in SUBSET (SUBSET S)
    OBVIOUS
  <2>2. PICK s \in F : \A t \in F : Cardinality(s) <= Cardinality(t)
    <3> HIDE DEF F
    <3> QED
      BY <1>6, <2>1, SmallestSet
  <2>3. s \in SUBSET S /\ ~ (g[s] <= h[s])
    BY <2>2
  <2>4. PICK x : x \in s
    BY <1>5, <2>3
  <2>5. Cardinality(s \ {x}) = Cardinality(s) - 1 /\ Cardinality(s) \in Nat /\ s \ {x} \in SUBSET S
    BY <2>3, <2>4, FS_RemoveElement, FS_Subset, FS_CardinalityType
  <2>6. s \ {x} \notin F
    <3> HIDE DEF F
    <3> QED
      BY <2>2, <2>5
  <2>7. g[s \ {x}] <= h[s \ {x}] /\ g[s \ {x}] \in Nat /\ h[s \ {x}] \in Nat
    BY <1>3, <1>4, <2>5, <2>6
  <2>8. g[s] = q[x] + g[s \ {x}] /\ h[s] = p[x] + h[s \ {x}]
    BY <1>3, <1>4, <2>3, <2>4
  <2>9. q[x] \in Nat /\ p[x] \in Nat /\ q[x] <= p[x]
    BY <2>3, <2>4
  <2> QED
    BY <2>3, <2>7, <2>8, <2>9
<1> QED
  BY <1>1, <1>2, <1>3, <1>4, <1>6

LEMMA TotalSame ==
  ASSUME NEW q, NEW p, NEW S, IsFiniteSet(S), \A i \in S : q[i] \in Nat, \A i \in S : q[i] = p[i]
  PROVE  Total(q, S) \in Nat /\ Total(q, S) = Total(p, S)
<1>1. \A i \in S : q[i] \in Nat /\ p[i] \in Nat
  OBVIOUS
<1>2. (\A i \in S : q[i] <= p[i]) /\ (\A i \in S : p[i] <= q[i])
  BY <1>1
<1>3. Total(q, S) \in Nat /\ Total(p, S) \in Nat /\ Total(q, S) <= Total(p, S)
  BY <1>1, <1>2, TotalMost
<1>4. Total(p, S) <= Total(q, S)
  BY <1>1, <1>2, TotalMost
<1> QED
  BY <1>3, <1>4

\* One value is no more than the sum.
LEMMA TotalOfOne ==
  ASSUME NEW q, NEW S, IsFiniteSet(S), \A i \in S : q[i] \in Nat, NEW x \in S
  PROVE  q[x] <= Total(q, S) /\ Total(q, S) \in Nat
<1>1. PICK g : Sums(g, q, S) /\ Total(q, S) = g[S]
  BY TotalIs
<1>2. g[S] = q[x] + g[S \ {x}] /\ g[S \ {x}] \in Nat /\ q[x] \in Nat
  BY <1>1, SumsLess
<1> QED
  BY <1>1, <1>2

\* What is 0 does not count.
LEMMA TotalPart ==
  ASSUME NEW q, NEW S, NEW T \in SUBSET S, IsFiniteSet(S), \A i \in S : q[i] \in Nat,
         \A i \in S \ T : q[i] = 0
  PROVE  Total(q, S) = Total(q, T)
<1>1. PICK g : Sums(g, q, S) /\ Total(q, S) = g[S]
  BY TotalIs
<1>2. IsFiniteSet(T) /\ S \cap T = T /\ T \in SUBSET T /\ S \in SUBSET S
  BY FS_Subset
<1>3. PICK h : Sums(h, q, T) /\ Total(q, T) = h[T]
  BY <1>2, TotalIs
<1>4. \A s \in SUBSET S : g[s] \in Nat /\ \A x \in s : g[s] = q[x] + g[s \ {x}]
  <2> HIDE DEF Sums
  <2> QED
    BY <1>1, SumsAny
<1> DEFINE F == {s \in SUBSET S : g[s] # g[s \cap T]}
<1>5. ASSUME F # {} PROVE FALSE
  <2>1. F \in SUBSET (SUBSET S)
    OBVIOUS
  <2>2. PICK s \in F : \A t \in F : Cardinality(s) <= Cardinality(t)
    <3> HIDE DEF F
    <3> QED
      BY <1>5, <2>1, SmallestSet
  <2>3. s \in SUBSET S /\ g[s] # g[s \cap T] /\ s \cap T \in SUBSET S
    BY <2>2
  <2>4. PICK x : x \in s
    <3>1. s # {}
      <4>1. s = {} => s \cap T = s
        OBVIOUS
      <4> QED
        BY <2>3, <4>1
    <3> QED
      BY <3>1
  <2>5. Cardinality(s \ {x}) = Cardinality(s) - 1 /\ Cardinality(s) \in Nat /\ s \ {x} \in SUBSET S
    BY <2>3, <2>4, FS_RemoveElement, FS_Subset, FS_CardinalityType
  <2>6. s \ {x} \notin F
    <3> HIDE DEF F
    <3> QED
      BY <2>2, <2>5
  <2>7. g[s \ {x}] = g[(s \ {x}) \cap T]
    BY <2>5, <2>6
  <2>8. g[s] = q[x] + g[s \ {x}] /\ g[s \ {x}] \in Nat
    BY <1>4, <2>3, <2>4, <2>5
  <2>9. CASE x \in T
    <3>1. x \in s \cap T /\ (s \ {x}) \cap T = (s \cap T) \ {x}
      BY <2>4, <2>9
    <3>2. g[s \cap T] = q[x] + g[(s \cap T) \ {x}]
      BY <1>4, <2>3, <3>1
    <3> QED
      BY <2>3, <2>7, <2>8, <3>1, <3>2
  <2>10. CASE x \notin T
    <3>1. (s \ {x}) \cap T = s \cap T
      BY <2>10
    <3>2. q[x] = 0
      BY <2>3, <2>4, <2>10
    <3>3. g[s] = g[s \ {x}]
      BY <2>8, <3>2
    <3>4. g[s \ {x}] = g[s \cap T]
      BY <2>7, <3>1, Zenon
    <3> QED
      BY <2>3, <3>3, <3>4
  <2> QED
    BY <2>9, <2>10
<1>6. g[S] = g[T]
  BY <1>2, <1>5
<1>7. h[T] = g[T]
  <2>1. \A s \in SUBSET T : h[s] = g[s]
    <3>1. \A i \in T : q[i] = q[i]
      OBVIOUS
    <3> QED
      BY <1>1, <1>2, <1>3, <3>1, SumsAgree
  <2> QED
    BY <1>2, <2>1
<1> QED
  BY <1>1, <1>3, <1>6, <1>7

-----------------------------------------------------------------------------
(* With pages of one token the admission checks are enough: what all live   *)
(* requests may still ask for is free or can be evicted.                    *)

LEMMA OutputLenType ==
  ASSUME NEW r \in Req
  PROVE  OutputLen(r) \in Int
<1> DEFINE e == NumPages * PageSize
           i == InputLen(r)
           m == MaxTokens[r]
<1>1. m \in Int /\ MaxSeqLen \in Nat
  BY RequestAssumption, ConfigAssumption
<1>2. e \in Nat
  <2>1. NumPages \in Nat /\ PageSize \in Nat
    BY ConfigAssumption, PageSizeAssumption
  <2>2. \A a, b \in Nat : a * b \in Nat
    OBVIOUS
  <2> QED
    BY <2>1, <2>2
<1>3. i \in Nat
  BY RequestAssumption DEF InputLen
<1> HIDE DEF e, i, m
<1>4. Smaller(m, Smaller(MaxSeqLen, e) - i) \in Int
  BY <1>1, <1>2, <1>3 DEF Smaller
<1> QED
  BY <1>4 DEF OutputLen, EngineMaxSeqLen, e, i, m

LEMMA ReplyLimitType ==
  ASSUME NEW r \in Req
  PROVE  /\ OutputLen(r) \in Int /\ ReplyLimit(r) \in Nat /\ ReplyLimit(r) > 0
         /\ OutputLen(r) > 0 => ReplyLimit(r) = OutputLen(r)
         /\ ~ OutputLen(r) > 0 => ReplyLimit(r) = 1
BY OutputLenType DEF ReplyLimit

\* The tokens r has yet to be computed, the last of its output never being computed
Claim(r) == InputLen(r) + ReplyLimit(r) - 1 - obj[r].cached

Claims == [r \in Req |-> IF Live(r) THEN Claim(r) ELSE 0]

\* Those of the requests that the adder has counted, because they run or because it
\* has added them
Reserved == [r \in Req |-> IF r \in running \cup InBatch(batch) THEN Claim(r) ELSE 0]

\* What is admitted has no negative output, and nothing is computed beyond it.
WithinOutput ==
  \A r \in Req : Live(r) =>
    OutputLen(r) >= 0 /\ obj[r].device <= InputLen(r) + ReplyLimit(r)

Adding == pc \in {"add", "added", "ended"} /\ batch # NoBatch

\* One request is in chunks at a time: it is the first of the list, and the budget
\* is spent on its next part before it is spent on others.
OneInChunks ==
  /\ Adding => batch.items # << >>
  /\ Adding => \A r \in chunked : r = batch.items[Len(batch.items)].req
  /\ ~ Adding => \A r \in chunked : pending # << >> /\ r = pending[1]
  /\ Adding /\ pc = "add" /\ adder.budget > 0 => chunked = {}

\* A request that cannot decode any more has been computed to the end of its output.
LEMMA ComputedToTheEnd ==
  ASSUME NEW r \in Req, NEW i \in Nat, NEW d \in Nat,
         ~ (i + OutputLen(r) - d > 0), i < d, d <= i + ReplyLimit(r)
  PROVE  d = i + ReplyLimit(r)
<1>1. \A o \in Int, l \in Nat :
        ~ (i + o - d > 0) /\ d <= i + l /\ (o > 0 => l = o) /\ (~ o > 0 => l = 1) => d = i + l
  OBVIOUS
<1> QED
  BY <1>1, ReplyLimitType

LEMMA LiveLengths ==
  ASSUME IInv, NEW r \in Req, Live(r)
  PROVE  \/ obj[r].device <= InputLen(r) /\ obj[r].cached < InputLen(r)
         \/ obj[r].cached = obj[r].device - 1
<1>1. LengthsOf(r) /\ TypeOK
  BY DEF IInv
<1>2. obj[r].cached \in Nat /\ obj[r].device \in Nat /\ InputLen(r) \in Nat
  BY <1>1, RequestFacts
<1>3. Extending(r) => obj[r].device <= InputLen(r) /\ obj[r].cached < InputLen(r)
  BY <1>2 DEF Extending
<1>4. BetweenChunks(r) => obj[r].device <= InputLen(r) /\ obj[r].cached < InputLen(r)
  BY <1>2 DEF BetweenChunks
<1>5. Decoding(r) => obj[r].cached = obj[r].device - 1
  BY DEF Decoding
<1> QED
  BY <1>1, <1>3, <1>4, <1>5 DEF LengthsOf

LEMMA ClaimType ==
  ASSUME IInv, WithinOutput, NEW r \in Req, Live(r)
  PROVE  /\ Claim(r) \in Nat /\ obj[r].cached \in Nat /\ InputLen(r) \in Nat /\ InputLen(r) > 0
         /\ OutputLen(r) \in Nat
<1>1. /\ obj[r].cached \in Nat /\ obj[r].device \in Nat
      /\ InputLen(r) \in Nat /\ InputLen(r) > 0
  BY RequestFacts DEF IInv
<1>2. /\ OutputLen(r) \in Nat /\ ReplyLimit(r) \in Nat /\ ReplyLimit(r) > 0
      /\ obj[r].device <= InputLen(r) + ReplyLimit(r)
  BY ReplyLimitType DEF WithinOutput
<1>3. \/ obj[r].device <= InputLen(r) /\ obj[r].cached < InputLen(r)
      \/ obj[r].cached = obj[r].device - 1
  BY LiveLengths
<1>4. \A i, c, d, o \in Nat :
        o > 0 /\ d <= i + o /\ ((d <= i /\ c < i) \/ c = d - 1) => i + o - 1 - c \in Nat
  OBVIOUS
<1> QED
  BY <1>1, <1>2, <1>3, <1>4 DEF Claim

LEMMA ClaimsType == ASSUME IInv, WithinOutput PROVE \A r \in Req : Claims[r] \in Nat
BY ClaimType DEF Claims

LEMMA ClaimsTypeNext == IInv' /\ WithinOutput' => (\A r \in Req : Claims[r] \in Nat)'
<1>1. IInv /\ WithinOutput => \A r \in Req : Claims[r] \in Nat
  BY ClaimsType
<1> QED
  BY <1>1, PTL

\* While nobody is in chunks the adder has counted all that is claimed: a live
\* request that does not run any more has nothing left to compute.
LEMMA AllReserved ==
  ASSUME IInv, WithinOutput, pc \in {"add", "added", "ended"}
  PROVE  /\ \A r \in Req : Reserved[r] \in Nat /\ Reserved[r] <= Claims[r]
         /\ \A r \in Req : r \notin chunked => Reserved[r] = Claims[r]
<1>1. TypeOK /\ ThisBatch /\ Decoders /\ Preparing
  BY DEF IInv, Preparing
<1> SUFFICES ASSUME NEW r \in Req
             PROVE  /\ Reserved[r] \in Nat /\ Reserved[r] <= Claims[r]
                    /\ r \notin chunked => Reserved[r] = Claims[r]
  OBVIOUS
<1>2. r \in running \cup InBatch(batch) => Live(r)
  BY <1>1 DEF Decoders, ThisBatch, ThisEntry, InBatch
<1>3. CASE r \in running \cup InBatch(batch)
  BY <1>2, <1>3, ClaimType DEF Reserved, Claims
<1>4. CASE r \notin running \cup InBatch(batch)
  <2>1. Reserved[r] = 0
    BY <1>4 DEF Reserved
  <2>2. Claims[r] \in Nat
    BY ClaimsType
  <2>3. ASSUME Live(r), r \notin chunked PROVE Claim(r) = 0
    <3>1. ~ Ahead(r) /\ ~ Taken(r)
      BY <1>4 DEF Ahead, Taken, InBatch
    <3>2. ~ CanDecode(r)
      BY <1>1, <1>4, <2>3, <3>1 DEF Decoders
    <3>3. Decoding(r)
      BY <2>3, <3>1 DEF IInv, LengthsOf
    <3>4. /\ InputLen(r) \in Nat /\ ReplyLimit(r) \in Nat /\ obj[r].device \in Nat
          /\ obj[r].device <= InputLen(r) + ReplyLimit(r)
      BY <1>1, <2>3, RequestFacts, ReplyLimitType DEF WithinOutput
    <3>5. obj[r].device = InputLen(r) + ReplyLimit(r)
      <4>1. ~ (InputLen(r) + OutputLen(r) - obj[r].device > 0) /\ InputLen(r) < obj[r].device
        BY <3>2, <3>3 DEF CanDecode, RemainLen, Decoding
      <4> QED
        BY <3>4, <4>1, ComputedToTheEnd
    <3>6. obj[r].cached = obj[r].device - 1
      BY <3>3 DEF Decoding
    <3> QED
      BY <3>4, <3>5, <3>6 DEF Claim
  <2>4. r \notin chunked => Claims[r] = 0
    BY <2>3 DEF Claims
  <2> QED
    BY <2>1, <2>2, <2>4
<1> QED
  BY <1>3, <1>4

LEMMA InitWithin == Init => WithinOutput /\ OneInChunks
BY DEF Init, WithinOutput, OneInChunks, Adding, Live

\* What a step has to show: whoever is live afterwards was live, and is not
\* computed further, or what it is computed to is within its output.
LEMMA WithinKept ==
  ASSUME WithinOutput,
         \A x \in Req : Live(x)' =>
           \/ Live(x) /\ obj'[x].device = obj[x].device
           \/ OutputLen(x) >= 0 /\ obj'[x].device <= InputLen(x) + ReplyLimit(x)
  PROVE  WithinOutput'
BY DEF WithinOutput

LEMMA MessageWithin ==
  ASSUME IInv, WithinOutput, NEW r \in Req, Message(r)
  PROVE  WithinOutput'
<1>1. TypeOK
  BY DEF IInv
<1>2. obj' = obj
  BY DEF Message, HandleUser, AbortWaiting, AbortChunked, AbortRunning
<1>3. \A x \in Req : x # r => stage'[x] = stage[x]
  BY <1>1 DEF Message, HandleUser, AbortWaiting, AbortChunked, AbortRunning, TypeOK
<1>4. stage'[r] \in {"pending", "gone", "aborted"}
  BY <1>1 DEF Message, HandleUser, AbortWaiting, AbortChunked, AbortRunning, TypeOK
<1>5. \A x \in Req : Live(x)' => Live(x) /\ obj'[x].device = obj[x].device
  BY <1>2, <1>3, <1>4 DEF Live
<1> QED
  BY <1>5, WithinKept

\* A request is added with some part of its prompt computed, never all of it.
LEMMA AddedFrom ==
  ASSUME IInv, NEW r \in Req, AddChunked(r) \/ AddNew(r)
  PROVE  \E s, h : \E c \in Nat : c < InputLen(r) /\ AddOneReq(r, s, h, c)
<1>1. TypeOK /\ Queue /\ ThisBatch
  BY DEF IInv
<1>2. pc = "add" /\ r \in Considered
  BY DEF AddChunked, AddNew
<1>3. CASE AddChunked(r)
  <2>1. r \in chunked /\ AddOneReq(r, obj[r].slot, obj[r].handle, obj[r].cached)
    BY <1>3 DEF AddChunked
  <2>2. Live(r) /\ ~ Ahead(r)
    <3>1. stage[r] = "admitted" /\ \A i \in DOMAIN batch.items : batch.items[i].req # r
      BY <1>1, <1>2, <2>1, ConsideredFacts
    <3> QED
      BY <3>1 DEF Live, Ahead
  <2>3. obj[r].cached \in Nat /\ obj[r].cached < InputLen(r)
    BY <1>1, <2>1, <2>2, RequestFacts DEF IInv, LengthsOf, BetweenChunks
  <2> QED
    BY <2>1, <2>3
<1>4. CASE AddNew(r)
  <2> DEFINE c == PageSize * Len(MatchReq(r))
  <2>1. AddOneReq(r, table_free[Len(table_free)], MatchReq(r), c)
    BY <1>4 DEF AddNew
  <2>2. c \in Nat /\ c < InputLen(r)
    BY <1>1, MatchReqType
  <2> HIDE DEF c
  <2> QED
    BY <2>1, <2>2
<1> QED
  BY <1>3, <1>4

\* One with a negative output fails the assertion of Req; one in chunks has passed it.
LEMMA AddedOutput ==
  ASSUME TypeOK, Queue, ThisBatch, WithinOutput, NEW r \in Req, AddChunked(r) \/ AddNew(r)
  PROVE  OutputLen(r) >= 0
<1>1. CASE AddChunked(r)
  <2>1. r \in chunked /\ r \in Considered /\ pc = "add"
    BY <1>1 DEF AddChunked
  <2>2. stage[r] = "admitted"
    BY <2>1, ConsideredFacts
  <2> QED
    BY <2>2 DEF WithinOutput, Live
<1>2. CASE AddNew(r)
  BY <1>2 DEF AddNew
<1> QED
  BY <1>1, <1>2

LEMMA AddWithin ==
  ASSUME IInv, WithinOutput, NEW r \in Req, AddChunked(r) \/ AddNew(r)
  PROVE  WithinOutput'
<1>1. TypeOK /\ Queue /\ ThisBatch
  BY DEF IInv
<1>2. /\ pc = "add" /\ r \in Considered
      /\ stage' = stage \/ stage' = [stage EXCEPT ![r] = "admitted"]
  BY DEF AddChunked, AddNew
<1>3. stage[r] \in {"admitted", "pending"}
  BY <1>1, <1>2, ConsideredFacts
<1>4. PICK s, h : \E c \in Nat : c < InputLen(r) /\ AddOneReq(r, s, h, c)
  BY AddedFrom
<1>5. PICK c \in Nat : c < InputLen(r) /\ AddOneReq(r, s, h, c)
  BY <1>4
<1>6. /\ InputLen(r) \in Nat /\ adder.budget \in Nat
      /\ OutputLen(r) >= 0 /\ ReplyLimit(r) \in Nat /\ ReplyLimit(r) > 0
  <2>1. OutputLen(r) >= 0
    BY <1>1, AddedOutput
  <2> QED
    BY <1>1, <2>1, RequestFacts, ReplyLimitType DEF TypeOK
<1>7. /\ obj'[r].device = c + Smaller(adder.budget, InputLen(r) - c)
      /\ \A x \in Req : x # r => obj'[x] = obj[x]
  BY <1>1, <1>5 DEF AddOneReq, TypeOK
<1>8. obj'[r].device <= InputLen(r) + ReplyLimit(r)
  <2>1. \A b, i, k, o \in Nat : k < i /\ o > 0 => k + Smaller(b, i - k) <= i + o
    BY DEF Smaller
  <2> QED
    BY <1>5, <1>6, <1>7, <2>1
<1>9. \A x \in Req : Live(x)' =>
        \/ Live(x) /\ obj'[x].device = obj[x].device
        \/ OutputLen(x) >= 0 /\ obj'[x].device <= InputLen(x) + ReplyLimit(x)
  BY <1>1, <1>2, <1>6, <1>7, <1>8 DEF Live, TypeOK
<1> QED
  BY <1>9, WithinKept

LEMMA MoreToCompute ==
  ASSUME NEW r \in Req, NEW i \in Nat, NEW d \in Nat, d <= i \/ i + OutputLen(r) - d > 0
  PROVE  d + 1 <= i + ReplyLimit(r)
<1>1. \A o \in Int, l \in Nat :
        /\ l > 0 /\ (d <= i \/ i + o - d > 0)
        /\ (o > 0 => l = o) /\ (~ o > 0 => l = 1)
        => d + 1 <= i + l
  OBVIOUS
<1> QED
  BY <1>1, ReplyLimitType

LEMMA TakeWithin ==
  ASSUME IInv, WithinOutput, NEW r \in Req, Take(r)
  PROVE  WithinOutput'
<1>1. TypeOK
  BY DEF IInv
<1>2. /\ pc = "take" /\ r \in Current /\ stage' = stage
      /\ obj' = [obj EXCEPT ![r].cached = obj[r].device, ![r].device = @ + 1]
  BY DEF Take
<1>3. /\ Live(r) /\ obj[r].cached \in Nat /\ obj[r].device \in Nat /\ InputLen(r) \in Nat
      /\ obj[r].device <= InputLen(r) \/ CanDecode(r)
  BY <1>2, AllocFacts
<1>4. OutputLen(r) >= 0 /\ obj[r].device + 1 <= InputLen(r) + ReplyLimit(r)
  <2>1. OutputLen(r) >= 0
    BY <1>3 DEF WithinOutput
  <2>2. CanDecode(r) => InputLen(r) + OutputLen(r) - obj[r].device > 0
    BY DEF CanDecode, RemainLen
  <2> QED
    BY <1>3, <2>1, <2>2, MoreToCompute
<1>5. obj'[r].device = obj[r].device + 1 /\ \A x \in Req : x # r => obj'[x] = obj[x]
  BY <1>1, <1>2 DEF TypeOK
<1>6. \A x \in Req : Live(x)' =>
        \/ Live(x) /\ obj'[x].device = obj[x].device
        \/ OutputLen(x) >= 0 /\ obj'[x].device <= InputLen(x) + ReplyLimit(x)
  BY <1>2, <1>4, <1>5 DEF Live
<1> QED
  BY <1>6, WithinKept

LEMMA OthersWithin ==
  ASSUME IInv, WithinOutput,
         \/ Schedule \/ StopsAdding \/ PrefillBatch \/ DecodeBatch \/ NothingToRun
         \/ Launch \/ EndLoop
         \/ \E r \in Req : RefuseNew(r) \/ StartAlloc(r) \/ EvictOne(r)
         \/ \E e \in Answered : SkipChunk(e) \/ FinishReq(e) \/ CommitReq(e) \/ ReplyOnly(e)
         \/ Idle \/ UNCHANGED vars
  PROVE  WithinOutput'
<1>1. TypeOK /\ ThisBatch /\ LastBatch /\ Queue
  BY DEF IInv
<1>2. CASE \/ Schedule \/ StopsAdding \/ PrefillBatch \/ DecodeBatch \/ NothingToRun
           \/ Launch \/ \E r \in Req : RefuseNew(r) \/ StartAlloc(r) \/ EvictOne(r)
           \/ \E e \in Answered : SkipChunk(e)
           \/ Idle \/ UNCHANGED vars
  <2>1. obj' = obj /\ stage' = stage
    BY <1>2 DEF Schedule, StopsAdding, StopAdding, AddFails, PrefillBatch, DecodeBatch,
         NothingToRun, Launch, RefuseNew,
         StartAlloc, EvictOne, SkipChunk, Idle, vars
  <2> QED
    BY <2>1, WithinKept DEF Live
<1>3. CASE EndLoop
  <2>1. stage' = stage /\ \A x \in Req : Live(x) => obj'[x] = obj[x]
    BY <1>3 DEF EndLoop, Live
  <2> QED
    BY <2>1, WithinKept DEF Live
<1>4. ASSUME NEW e \in Answered, FinishReq(e) \/ CommitReq(e) \/ ReplyOnly(e)
      PROVE  WithinOutput'
  <2> DEFINE r == e.req
  <2>1. /\ pc = "process" /\ ~ e.chunk
        /\ \/ obj' = [obj EXCEPT ![r].host = Appended(r)]
           \/ obj' = [obj EXCEPT ![r].host = Appended(r), ![r].handle = Computed(r, Appended(r))]
        /\ \E t \in {"finished", "committed", stage[r]} : stage' = [stage EXCEPT ![r] = t]
    <3>1. stage = [stage EXCEPT ![r] = stage[r]]
      BY <1>1 DEF TypeOK
    <3> QED
      BY <1>4, <3>1 DEF FinishReq, CommitReq, ReplyOnly, Answer
  <2>2. r \in Req /\ stage[r] \notin {"unsent", "pending", "gone"}
    BY <1>1, <2>1, AnsweredEntry, AnsweredRequest
  <2>3. \A x \in Req : obj'[x].device = obj[x].device
    <3> DEFINE T == [slot : Nat, cached : Nat, device : Nat, host : Nat, handle : Seq(Block)]
    <3>1. obj \in [Req -> T]
      BY <1>1 DEF TypeOK
    <3>2. PICK a, c : \/ obj' = [obj EXCEPT ![r].host = a]
                      \/ obj' = [obj EXCEPT ![r].host = a, ![r].handle = c]
      BY <2>1
    <3> HIDE DEF r
    <3>3. obj[r] \in T /\ \A x \in Req : x # r => obj'[x] = obj[x]
      BY <2>2, <3>1, <3>2
    <3>4. CASE obj' = [obj EXCEPT ![r].host = a]
      BY <2>2, <3>1, <3>3, <3>4
    <3>5. CASE obj' = [obj EXCEPT ![r].host = a, ![r].handle = c]
      <4>1. obj'[r] = [[obj[r] EXCEPT !.host = a] EXCEPT !.handle = c]
        BY <2>2, <3>1, <3>5
      <4>2. obj'[r].device = obj[r].device
        BY <3>3, <4>1
      <4> QED
        BY <3>3, <4>2
    <3> QED
      BY <3>2, <3>4, <3>5
  <2>4. Live(r) \/ ~ Live(r)'
    <3>1. CASE CommitReq(e)
      BY <1>1, <2>2, <3>1, CommitClient DEF CM!Commit, ClientPhase, Live
    <3>2. CASE FinishReq(e)
      BY <1>1, <2>2, <3>2 DEF FinishReq, TypeOK, Live
    <3>3. CASE ReplyOnly(e)
      BY <3>3 DEF ReplyOnly, Live
    <3> QED
      BY <1>4, <3>1, <3>2, <3>3
  <2>5. \A x \in Req : x # r => stage'[x] = stage[x]
    BY <1>1, <2>1, <2>2 DEF TypeOK
  <2>6. \A x \in Req : Live(x)' => Live(x) /\ obj'[x].device = obj[x].device
    BY <2>3, <2>4, <2>5 DEF Live
  <2> QED
    BY <2>6, WithinKept
<1> QED
  BY <1>2, <1>3, <1>4

LEMMA MessageChunks ==
  ASSUME IInv, OneInChunks, NEW r \in Req, Message(r)
  PROVE  OneInChunks'
<1>1. pending \in Seq(Req) /\ Distinct(pending) /\ chunked \subseteq Req
  BY DEF IInv, TypeOK, Queue
<1>2. pc = "receive" /\ pc' = pc
  BY DEF Message, HandleUser, AbortWaiting, AbortChunked, AbortRunning
<1>3. ~ Adding /\ ~ Adding'
  BY <1>2 DEF Adding
<1>4. \A x \in chunked : pending # << >> /\ x = pending[1]
  BY <1>3 DEF OneInChunks
<1>5. \A x \in chunked' : pending' # << >> /\ x = pending'[1]
  <2>1. CASE HandleUser(r)
    <3>1. chunked' = chunked /\ (pending' = pending \/ pending' = Append(pending, r))
      BY <2>1 DEF HandleUser
    <3>2. pending # << >> => Append(pending, r) # << >> /\ Append(pending, r)[1] = pending[1]
      BY <1>1
    <3> QED
      BY <1>4, <3>1, <3>2
  <2>2. CASE AbortWaiting(r)
    <3>1. /\ chunked' = chunked /\ pending' = RemoveFirst(pending, r)
          /\ Contains(pending, r) /\ r \notin chunked
      BY <2>2 DEF AbortWaiting
    <3>2. pending[1] # r => RemoveFirst(pending, r) # << >> /\ RemoveFirst(pending, r)[1] = pending[1]
      BY <1>1, <3>1, RemoveOnce
    <3> QED
      BY <1>4, <3>1, <3>2
  <2>3. CASE AbortChunked(r)
    BY <1>4, <2>3 DEF AbortChunked
  <2>4. CASE AbortRunning(r)
    BY <1>4, <2>4 DEF AbortRunning
  <2> QED
    BY <2>1, <2>2, <2>3, <2>4 DEF Message
<1> QED
  BY <1>3, <1>5 DEF OneInChunks

\* Who comes next while there is budget is alone in chunks, or nobody is.
LEMMA NoOtherInChunks ==
  ASSUME IInv, OneInChunks, pc = "add", adder.budget > 0, NEW r \in Considered
  PROVE  chunked \subseteq {r}
<1>1. TypeOK /\ Queue /\ ThisBatch
  BY DEF IInv
<1>2. CASE batch # NoBatch
  BY <1>2 DEF OneInChunks, Adding
<1>3. CASE batch = NoBatch
  <2>1. r = pending[Len(batch.items) + 1]
    BY <1>1, ConsideredFacts
  <2>2. Len(batch.items) + 1 = 1
    BY <1>3 DEF NoBatch
  <2> QED
    BY <1>3, <2>1, <2>2 DEF OneInChunks, Adding
<1> QED
  BY <1>2, <1>3

LEMMA AddChunks ==
  ASSUME IInv, OneInChunks, NEW r \in Req, AddChunked(r) \/ AddNew(r)
  PROVE  OneInChunks'
<1>1. TypeOK /\ Queue /\ ThisBatch
  BY DEF IInv
<1>2. /\ pc = "add" /\ pc' = pc /\ r \in Considered /\ adder.budget > 0
  BY DEF AddChunked, AddNew
<1>3. chunked \subseteq {r}
  BY <1>2, NoOtherInChunks
<1>4. PICK s, h, c : AddOneReq(r, s, h, c)
  BY DEF AddChunked, AddNew
<1> DEFINE remain == InputLen(r) - c
           d == c + Smaller(adder.budget, remain)
           isChunk == adder.budget < remain
<1>5. /\ batch' = [prefill |-> TRUE, items |-> Append(batch.items, Entry(r, isChunk, d))]
      /\ chunked' = IF isChunk THEN chunked \cup {r} ELSE chunked \ {r}
      /\ adder'.budget = adder.budget - Smaller(adder.budget, remain)
  BY <1>4 DEF AddOneReq
<1>6. isChunk => adder'.budget = 0
  <2>1. adder.budget \in Nat
    BY <1>1 DEF TypeOK
  <2> HIDE DEF remain
  <2>2. isChunk => Smaller(adder.budget, remain) = adder.budget
    BY DEF Smaller
  <2> QED
    BY <1>5, <2>1, <2>2
<1> HIDE DEF isChunk, remain, d
<1>7. chunked' \subseteq {r} /\ (adder'.budget > 0 => chunked' = {})
  BY <1>3, <1>5, <1>6
<1>8. batch' # NoBatch
  BY <1>5 DEF NoBatch
<1>9. batch'.items # << >> /\ batch'.items[Len(batch'.items)].req = r
  <2>1. Len(batch.items) \in Nat /\ batch.items \in Seq([req : Req, chunk : BOOLEAN, pos : Nat])
    BY <1>1 DEF TypeOK, BatchType
  <2> DEFINE q == batch.items
             e == Entry(r, isChunk, d)
  <2>2. batch'.items = Append(q, e) /\ e.req = r
    BY <1>5 DEF Entry
  <2> HIDE DEF q, e
  <2>3. q \in Seq([req : Req, chunk : BOOLEAN, pos : Nat])
    BY <2>1 DEF q
  <2>4. Append(q, e) # << >> /\ Append(q, e)[Len(Append(q, e))] = e
    <3>1. Len(Append(q, e)) = Len(q) + 1 /\ Append(q, e)[Len(q) + 1] = e /\ Len(q) \in Nat
      BY <2>3
    <3> QED
      BY <3>1
  <2> QED
    BY <2>2, <2>4
<1> QED
  BY <1>2, <1>7, <1>8, <1>9 DEF OneInChunks, Adding

LEMMA ScheduleChunks ==
  ASSUME IInv, OneInChunks, Schedule
  PROVE  OneInChunks'
<1>1. pending \in Seq(Req) /\ Distinct(pending) /\ pc = "receive" /\ batch = NoBatch
  BY DEF IInv, TypeOK, Queue, ThisBatch, Schedule
<1>2. /\ chunked' = chunked /\ batch' = batch
      /\ pending' = pending \/ pending' = SortedPending
  BY DEF Schedule
<1>3. ~ Adding /\ ~ Adding'
  BY <1>1, <1>2 DEF Adding
<1>4. \A x \in chunked : pending # << >> /\ x = pending[1]
  BY <1>3 DEF OneInChunks
<1>5. ASSUME NEW x \in chunked PROVE SortedPending # << >> /\ x = SortedPending[1]
  <2> DEFINE s == SortedPending
  <2>1. s \in Seq(Req) /\ (\A y : Contains(s, y) <=> Contains(pending, y))
        /\ \A i, j \in DOMAIN s : i < j /\ s[j] \in chunked => s[i] \in chunked
    BY <1>1, SortedSame
  <2> HIDE DEF s
  <2>2. Contains(pending, x)
    BY <1>1, <1>4, <1>5 DEF Contains
  <2>3. PICK k \in DOMAIN s : s[k] = x
    BY <2>1, <2>2 DEF Contains
  <2>4. 1 \in DOMAIN s /\ (1 < k \/ k = 1)
    BY <2>1
  <2>5. s[1] \in chunked
    BY <1>5, <2>1, <2>3, <2>4
  <2>6. s[1] = x
    BY <1>4, <1>5, <2>5
  <2> QED
    BY <2>1, <2>4, <2>6 DEF s
<1> QED
  BY <1>2, <1>3, <1>4, <1>5 DEF OneInChunks

LEMMA PrefillChunks ==
  ASSUME IInv, OneInChunks, PrefillBatch
  PROVE  OneInChunks'
<1>1. TypeOK /\ Queue /\ ThisBatch
  BY DEF IInv
<1> DEFINE n == Len(batch.items)
           D == {i \in 1..n : pending[i] \in chunked}
           Up(s) == \A i, j \in DOMAIN s : i < j => s[i] < s[j]
           kept == CHOOSE s \in SetToSeqs(D) : Up(s)
           rest == [k \in DOMAIN kept |-> pending[kept[k]]] \o SubSeq(pending, n + 1, Len(pending))
<1>2. /\ pc = "added" /\ batch # NoBatch /\ pc' = "allocate" /\ chunked' = chunked
  BY DEF PrefillBatch
<1>3. pending' = rest
  BY DEF PrefillBatch, InOrder
<1>4. /\ pending \in Seq(Req) /\ Distinct(pending) /\ n \in 0..Len(pending) /\ n \in Nat
      /\ DOMAIN batch.items = 1..n
  <2>1. pending \in Seq(Req) /\ Distinct(pending) /\ n <= Len(pending)
    BY <1>1, <1>2 DEF TypeOK, Queue
  <2>2. n \in Nat /\ DOMAIN batch.items = 1..n
    BY <1>1, BatchEntries DEF TypeOK
  <2>3. Len(pending) \in Nat
    BY <2>1
  <2> HIDE DEF n
  <2> QED
    BY <2>1, <2>2, <2>3
<1>5. ASSUME NEW x \in chunked PROVE rest # << >> /\ x = rest[1]
  <2>1. batch.items # << >> /\ x = batch.items[n].req
    BY <1>2, <1>5 DEF OneInChunks, Adding
  <2>2. n \in 1..n
    <3>1. n # 0
      BY <1>1, <2>1 DEF TypeOK, BatchType
    <3> HIDE DEF n
    <3> QED
      BY <1>4, <3>1
  <2>3. pending[n] = x
    <3>1. n \in DOMAIN pending
      <4>1. DOMAIN pending = 1..Len(pending) /\ Len(pending) \in Nat
        BY <1>4
      <4> HIDE DEF n
      <4> QED
        BY <1>4, <2>2, <4>1
    <3>2. batch.items[n].req = pending[n]
      <4>1. n <= Len(batch.items)
        BY <1>4
      <4> QED
        BY <1>1, <1>2, <3>1, <4>1 DEF Queue
    <3> QED
      BY <2>1, <3>2
  <2>4. D # {} /\ \A j \in D : pending[j] = x
    <3>1. \A y \in chunked : y = batch.items[n].req
      BY <1>2 DEF OneInChunks, Adding
    <3>2. n \in D
      BY <1>5, <2>2, <2>3
    <3> QED
      BY <2>1, <3>1, <3>2
  <2>5. n \in Nat /\ D \in SUBSET (1..n)
    BY <1>4
  <2> HIDE DEF n, D
  <2>6. IsFiniteSet(D) /\ \E s \in SetToSeqs(D) : Up(s)
    BY <2>5, PositionsInOrder
  <2>7. kept \in SetToSeqs(D)
    <3> HIDE DEF Up
    <3> QED
      BY <2>6
  <2> HIDE DEF kept
  <2>8. rest = [k \in DOMAIN kept |-> pending[kept[k]]] \o SubSeq(pending, n + 1, Len(pending))
    OBVIOUS
  <2> HIDE DEF rest, Up
  <2>9. KeptOf(n, D, kept, rest)
    BY <1>4, <2>5, <2>6, <2>7, <2>8 DEF KeptOf
  <2>10. rest # << >> /\ \E j \in D : rest[1] = pending[j]
    BY <1>4, <2>4, <2>9, KeptList
  <2> QED
    BY <2>4, <2>10
<1> HIDE DEF rest
<1>6. ~ Adding'
  BY <1>2 DEF Adding
<1> QED
  BY <1>2, <1>3, <1>5, <1>6 DEF OneInChunks

LEMMA OthersChunks ==
  ASSUME IInv, OneInChunks,
         \/ StopsAdding \/ DecodeBatch \/ NothingToRun \/ Launch \/ EndLoop
         \/ \E r \in Req : RefuseNew(r) \/ StartAlloc(r) \/ EvictOne(r) \/ Take(r)
         \/ \E e \in Answered : SkipChunk(e) \/ FinishReq(e) \/ CommitReq(e) \/ ReplyOnly(e)
         \/ Idle \/ UNCHANGED vars
  PROVE  OneInChunks'
<1>1. pending' = pending /\ chunked' = chunked
  BY DEF StopsAdding, StopAdding, AddFails, DecodeBatch, NothingToRun, Launch, EndLoop,
         RefuseNew, StartAlloc, EvictOne,
         Take, SkipChunk, FinishReq, CommitReq, ReplyOnly, Idle, vars, queues
<1>2. CASE StopsAdding \/ (\E r \in Req : RefuseNew(r)) \/ Idle \/ UNCHANGED vars
  <2>1. /\ batch' = batch /\ adder' = adder
        /\ pc' = pc \/ (pc = "add" /\ pc' \in {"added", "ended"})
    BY <1>2 DEF StopsAdding, StopAdding, AddFails, RefuseNew, Idle, vars, loop
  <2> QED
    BY <1>1, <2>1 DEF OneInChunks, Adding
<1>3. CASE \/ DecodeBatch \/ NothingToRun \/ Launch \/ EndLoop
           \/ \E r \in Req : StartAlloc(r) \/ EvictOne(r) \/ Take(r)
           \/ \E e \in Answered : SkipChunk(e) \/ FinishReq(e) \/ CommitReq(e) \/ ReplyOnly(e)
  <2>1. ~ Adding /\ ~ Adding'
    BY <1>3 DEF DecodeBatch, NothingToRun, Launch, EndLoop, StartAlloc, EvictOne,
         Take, SkipChunk, FinishReq, CommitReq, ReplyOnly, Answer, Adding
  <2> QED
    BY <1>1, <2>1 DEF OneInChunks
<1> QED
  BY <1>2, <1>3

LEMMA WithinStep ==
  ASSUME IInv, WithinOutput, OneInChunks, [Next]_vars
  PROVE  WithinOutput' /\ OneInChunks'
<1>1. CASE \E r \in Req : Message(r)
  BY <1>1, MessageWithin, MessageChunks
<1>2. CASE \E r \in Req : AddChunked(r) \/ AddNew(r)
  BY <1>2, AddWithin, AddChunks
<1>3. CASE \E r \in Req : Take(r)
  BY <1>3, TakeWithin, OthersChunks
<1>4. CASE Schedule
  BY <1>4, OthersWithin, ScheduleChunks
<1>5. CASE PrefillBatch
  BY <1>5, OthersWithin, PrefillChunks
<1>6. CASE \/ StopsAdding \/ DecodeBatch \/ NothingToRun \/ Launch \/ EndLoop
           \/ \E r \in Req : RefuseNew(r) \/ StartAlloc(r) \/ EvictOne(r)
           \/ \E e \in Answered : SkipChunk(e) \/ FinishReq(e) \/ CommitReq(e) \/ ReplyOnly(e)
           \/ Idle \/ UNCHANGED vars
  BY <1>6, OthersWithin, OthersChunks
<1> QED
  BY <1>1, <1>2, <1>3, <1>4, <1>5, <1>6 DEF Next, Step, StopsAdding

\* What all live requests may still ask for, and what there is for them
ClaimSum == Total(Claims, Req)
Supply == Len(free_slots) + cache.evictable

Covered == ClaimSum <= Supply

\* The adder's reserve, while it puts a batch together, covers what it has counted.
AdderCovers == pc = "add" => adder.reserved \in Nat /\ Total(Reserved, Req) <= adder.reserved

LEMMA OneTokenPages ==
  ASSUME PageSize = 1, NEW n \in Nat
  PROVE  CeilDiv(n, PageSize) = n
<1>1. ASSUME NEW m \in Nat PROVE m \div 1 = m
  OBVIOUS
<1>2. CeilDiv(n, 1) = n \div 1
  BY DEF CeilDiv
<1> QED
  BY <1>1, <1>2

LEMMA SupplyTyped == CMP!IInv => Len(free_slots) \in Nat /\ cache.evictable \in Int
BY DEF CMP!IInv, CMP!TypeOK, CMP!CacheType

LEMMA SupplyTypedNext == (CMP!IInv => Len(free_slots) \in Nat /\ cache.evictable \in Int)'
BY SupplyTyped, PTL

LEMMA ClaimsOfClient ==
  \A r \in Req : Claims[r] = IF ClientPhase[r] \in {"admitted", "committed"}
                             THEN InputLen(r) + ReplyLimit(r) - 1 - ClientLen[r] ELSE 0
BY DEF Claims, Claim, ClientPhase, ClientLen, Live

LEMMA ClaimsOfClientNext ==
  (\A r \in Req : Claims[r] = IF ClientPhase[r] \in {"admitted", "committed"}
                              THEN InputLen(r) + ReplyLimit(r) - 1 - ClientLen[r] ELSE 0)'
BY ClaimsOfClient, PTL

LEMMA ReqFinite == IsFiniteSet(Req)
BY RequestAssumption

\* When no claim grows, neither does their sum.
LEMMA SumsShrink ==
  ASSUME IInv, WithinOutput, IInv', WithinOutput', \A r \in Req : Claims'[r] <= Claims[r]
  PROVE  ClaimSum \in Nat /\ ClaimSum' \in Nat /\ ClaimSum' <= ClaimSum
<1>1. /\ \A r \in Req : Claims[r] \in Nat
      /\ \A r \in Req : Claims'[r] \in Nat
  BY ClaimsType, ClaimsTypeNext
<1> PICK a : a = Claims
  OBVIOUS
<1> PICK b : b = Claims'
  OBVIOUS
<1>2. (\A i \in Req : b[i] \in Nat /\ a[i] \in Nat) /\ \A i \in Req : b[i] <= a[i]
  BY <1>1
<1>3. Total(b, Req) \in Nat /\ Total(a, Req) \in Nat /\ Total(b, Req) <= Total(a, Req)
  BY <1>2, ReqFinite, TotalMost
<1> QED
  BY <1>3 DEF ClaimSum

\* When one claim changes, their sum changes by as much.
LEMMA SumsChange ==
  ASSUME IInv, WithinOutput, IInv', WithinOutput', NEW r \in Req,
         \A x \in Req \ {r} : Claims'[x] = Claims[x]
  PROVE  /\ Claims[r] \in Nat /\ Claims'[r] \in Nat
         /\ \E rest \in Nat : ClaimSum = Claims[r] + rest /\ ClaimSum' = Claims'[r] + rest
<1>1. /\ \A x \in Req : Claims[x] \in Nat
      /\ \A x \in Req : Claims'[x] \in Nat
  BY ClaimsType, ClaimsTypeNext
<1> PICK a : a = Claims
  OBVIOUS
<1> PICK b : b = Claims'
  OBVIOUS
<1>2. (\A i \in Req : a[i] \in Nat /\ b[i] \in Nat) /\ \A i \in Req \ {r} : a[i] = b[i]
  BY <1>1
<1>3. \E rest \in Nat : Total(a, Req) = a[r] + rest /\ Total(b, Req) = b[r] + rest
  BY <1>2, ReqFinite, TotalChanges
<1> QED
  BY <1>1, <1>3 DEF ClaimSum

\* An entry of the batch asks for no more than its claim, nor do all requests together.
LEMMA FutureIs ==
  ASSUME NEW S, S = {r \in Req : Live(r)}
  PROVE  MapThenSumSet(FuturePages, S) = Total([r \in Req |-> FuturePages(r)], S)
<1> DEFINE q == [r \in Req |-> FuturePages(r)]
           L(g) == g = [s \in SUBSET S |->
                          IF s = {} THEN 0
                          ELSE FuturePages(CHOOSE x \in s : TRUE) + g[s \ {CHOOSE x \in s : TRUE}]]
           R(g) == g = [s \in SUBSET S |->
                          IF s = {} THEN 0
                          ELSE q[CHOOSE x \in s : TRUE] + g[s \ {CHOOSE x \in s : TRUE}]]
<1>1. \A s \in SUBSET S : s # {} => q[CHOOSE x \in s : TRUE] = FuturePages(CHOOSE x \in s : TRUE)
  OBVIOUS
<1>2. MapThenSumSet(FuturePages, S) = (CHOOSE g : L(g))[S]
  BY DEF MapThenSumSet, MapThenFoldSet
<1>3. Total(q, S) = (CHOOSE g : R(g))[S]
  <2> HIDE DEF q
  <2> QED
    BY DEF Total, MapThenSumSet, MapThenFoldSet
<1>4. \A g : L(g) <=> R(g)
  <2> HIDE DEF q
  <2> QED
    BY <1>1
<1>5. (CHOOSE g : L(g)) = (CHOOSE g : R(g))
  <2> HIDE DEF L, R
  <2> QED
    BY <1>4
<1> QED
  BY <1>2, <1>3, <1>5

LEMMA SupplyIsEnough ==
  ASSUME IInv, WithinOutput, Covered, PageSize = 1,
         Len(free_slots) \in Nat, cache.evictable \in Int
  PROVE  AllocationFits /\ ReservationCovers
<1>1. \A r \in Req : Claims[r] \in Nat
  BY ClaimsType
<1>2. ClaimSum <= Len(free_slots) + cache.evictable
  BY DEF Covered, Supply
<1>3. AllocationFits
  <2> SUFFICES ASSUME NEW r \in Current, pc = "take"
               PROVE  NeededPages(r) <= Len(free_slots) + cache.evictable
    BY DEF AllocationFits
  <2>1. /\ r \in Req /\ Live(r) /\ obj[r].cached \in Nat /\ obj[r].device \in Nat
        /\ InputLen(r) \in Nat
        /\ obj[r].device <= InputLen(r) \/ CanDecode(r)
    BY AllocFacts
  <2>2. ReplyLimit(r) \in Nat
    BY <2>1, ReplyLimitType
  <2>3. obj[r].device + 1 <= InputLen(r) + ReplyLimit(r)
    <3>1. CanDecode(r) => InputLen(r) + OutputLen(r) - obj[r].device > 0
      BY DEF CanDecode, RemainLen
    <3> QED
      BY <2>1, <3>1, MoreToCompute
  <2>4. NeededPages(r) = obj[r].device - obj[r].cached
    BY <2>1, OneTokenPages DEF NeededPages
  <2>5. Claims[r] = InputLen(r) + ReplyLimit(r) - 1 - obj[r].cached
    BY <2>1 DEF Claims, Claim
  <2>6. NeededPages(r) <= Claims[r]
    <3>1. \A i, o, c, d \in Nat : d + 1 <= i + o => d - c <= i + o - 1 - c
      OBVIOUS
    <3> QED
      BY <2>1, <2>2, <2>3, <2>4, <2>5, <3>1
  <2>7. Claims[r] <= ClaimSum /\ ClaimSum \in Nat
    BY <1>1, <2>1, ReqFinite, TotalOfOne DEF ClaimSum
  <2>8. NeededPages(r) \in Int
    BY <2>1, <2>4
  <2> QED
    BY <1>1, <1>2, <2>1, <2>6, <2>7, <2>8
<1>4. ReservationCovers
  <2> DEFINE T == {r \in Req : Live(r)}
             q == [r \in Req |-> FuturePages(r)]
  <2>1. \A r \in T : q[r] = Claims[r]
    <3> SUFFICES ASSUME NEW r \in T PROVE FuturePages(r) = Claims[r]
      OBVIOUS
    <3>1. /\ obj[r].cached \in Nat /\ InputLen(r) \in Nat /\ InputLen(r) > 0
          /\ ReplyLimit(r) \in Nat /\ ReplyLimit(r) > 0
      BY ClaimType, ReplyLimitType
    <3>2. InputLen(r) + ReplyLimit(r) - 1 \in Nat
      BY <3>1
    <3>3. FuturePages(r) = InputLen(r) + ReplyLimit(r) - 1 - obj[r].cached
      BY <3>1, <3>2, OneTokenPages DEF FuturePages
    <3> QED
      BY <3>3 DEF Claims, Claim
  <2>2. IsFiniteSet(T) /\ T \in SUBSET Req
    BY ReqFinite, FS_Subset
  <2>3. MapThenSumSet(FuturePages, T) = Total(q, T)
    BY FutureIs
  <2>4. \A r \in Req \ T : Claims[r] = 0
    BY DEF Claims
  <2>5. Total(q, T) = Total(Claims, T)
    <3> HIDE DEF q, T
    <3>1. \A r \in T : Claims[r] \in Nat /\ Claims[r] = q[r]
      BY <1>1, <2>1, <2>2
    <3> QED
      BY <2>2, <3>1, TotalSame
  <2>6. Total(Claims, Req) = Total(Claims, T)
    <3> HIDE DEF q, T
    <3> QED
      BY <1>1, <2>2, <2>4, ReqFinite, TotalPart
  <2> QED
    BY <1>2, <2>3, <2>5, <2>6 DEF ReservationCovers, ClaimSum
<1> QED
  BY <1>3, <1>4

LEMMA SupplyIsEnoughNext ==
  (IInv /\ WithinOutput /\ Covered /\ PageSize = 1 /\ Len(free_slots) \in Nat
     /\ cache.evictable \in Int => AllocationFits /\ ReservationCovers)'
<1>1. IInv /\ WithinOutput /\ Covered /\ PageSize = 1 /\ Len(free_slots) \in Nat
        /\ cache.evictable \in Int => AllocationFits /\ ReservationCovers
  BY SupplyIsEnough
<1> QED
  BY <1>1, PTL

\* What the steps of the loop do to both sides
LEMMA QuietCovered ==
  ASSUME Covered, UNCHANGED CM!vars
  PROVE  Covered'
<1>1. /\ ClientPhase' = ClientPhase /\ ClientLen' = ClientLen
      /\ free_slots' = free_slots /\ cache' = cache
  BY DEF CM!vars
<1>2. \A r \in Req : Claims'[r] = Claims[r]
  BY <1>1, ClaimsOfClient, ClaimsOfClientNext
<1>3. Claims' = Claims
  <2>1. Claims = [r \in Req |-> Claims[r]] /\ Claims' = [r \in Req |-> Claims'[r]]
    BY DEF Claims
  <2> QED
    BY <1>2, <2>1
<1> QED
  BY <1>1, <1>3 DEF Covered, ClaimSum, Supply

\* Requests give back at least what they took, and no claim grows.
LEMMA GiveCovered ==
  ASSUME IInv, WithinOutput, IInv', WithinOutput', CMP!IInv, CMP!IInv', CMP!PageInv,
         Covered, NEW r \in Req,
         CM!Finish(r) \/ CM!Commit(r) \/ CM!EvictOne(r) \/ CM!Refuse(r)
  PROVE  Covered'
<1>1. /\ Len(free_slots) \in Nat /\ cache.evictable \in Int
      /\ Len(free_slots') \in Nat /\ cache'.evictable \in Int
  BY SupplyTyped, SupplyTypedNext
<1>2. Supply <= Supply'
  <2>1. Supply = CMP!Usable /\ Supply' = CMP!Usable'
    BY DEF Supply, CMP!Usable
  <2>2. CASE CM!Finish(r)
    <3>1. CMP!Finish(r)
      BY <2>2, SameActions
    <3> QED
      BY <2>1, <3>1, CMP!FinishGives, SameConstants
  <2>3. CASE CM!Commit(r)
    <3>1. CMP!Commit(r)
      BY <2>3, SameActions
    <3> QED
      BY <2>1, <3>1, CMP!CommitGives, SameConstants
  <2>4. CASE CM!EvictOne(r)
    <3>1. CMP!EvictOne(r)
      BY <2>4, SameActions
    <3>2. CMP!Usable' = CMP!Usable
      BY <3>1, CMP!EvictGives, SameConstants
    <3> QED
      BY <1>1, <2>1, <3>2 DEF Supply
  <2>5. CASE CM!Refuse(r)
    <3>1. cache' = CM!Walk(cache, CM!MatchReq(r)) /\ free_slots' = free_slots
      BY <2>5 DEF CM!Refuse
    <3>2. cache'.evictable = cache.evictable
      BY <3>1 DEF CM!Walk
    <3> QED
      BY <1>1, <3>1, <3>2 DEF Supply
  <2> QED
    BY <2>2, <2>3, <2>4, <2>5
<1>3. \A x \in Req : Claims'[x] <= Claims[x]
  <2>0. \A x \in Req : Claims[x] \in Nat
    BY ClaimsType
  <2>1. CASE CM!Finish(r)
    <3>1. \A x \in Req : \/ ClientPhase'[x] = "done"
                         \/ ClientPhase'[x] = ClientPhase[x] /\ ClientLen'[x] = ClientLen[x]
      BY <2>1 DEF CM!Finish, ClientPhase, ClientLen
    <3>2. \A x \in Req : Claims'[x] = 0 \/ Claims'[x] = Claims[x]
      BY <3>1, ClaimsOfClient, ClaimsOfClientNext
    <3> QED
      BY <2>0, <3>2
  <2>2. CASE CM!Commit(r)
    <3>1. /\ ClientLen' = ClientLen /\ ClientPhase[r] = "admitted"
          /\ \A x \in Req : \/ x = r /\ ClientPhase'[x] = "committed"
                            \/ ClientPhase'[x] = ClientPhase[x]
      BY <2>2 DEF CM!Commit, ClientPhase
    <3>2. \A x \in Req : Claims'[x] = Claims[x]
      BY <3>1, ClaimsOfClient, ClaimsOfClientNext
    <3> QED
      BY <2>0, <3>2
  <2>3. CASE CM!EvictOne(r) \/ CM!Refuse(r)
    <3>1. ClientLen' = ClientLen /\ ClientPhase' = ClientPhase
      BY <2>3 DEF CM!EvictOne, CM!Refuse
    <3>2. \A x \in Req : Claims'[x] = Claims[x]
      BY <3>1, ClaimsOfClient, ClaimsOfClientNext
    <3> QED
      BY <2>0, <3>2
  <2> QED
    BY <2>1, <2>2, <2>3
<1>4. ClaimSum \in Nat /\ ClaimSum' \in Nat /\ ClaimSum' <= ClaimSum
  BY <1>3, SumsShrink
<1>5. Supply \in Int /\ Supply' \in Int
  BY <1>1 DEF Supply
<1> QED
  BY <1>2, <1>4, <1>5 DEF Covered

\* Taking pages is what the claim was for.
LEMMA TakeCovered ==
  ASSUME IInv, WithinOutput, IInv', WithinOutput', CMP!IInv, CMP!IInv',
         Covered, PageSize = 1, NEW r \in Req, Take(r)
  PROVE  Covered'
<1> DEFINE k == NeededPages(r)
<1>1. TypeOK
  BY DEF IInv
<1>2. /\ pc = "take" /\ r \in Current /\ k <= Len(free_slots)
      /\ free_slots' = SubSeq(free_slots, k + 1, Len(free_slots))
      /\ obj' = [obj EXCEPT ![r].cached = obj[r].device, ![r].device = @ + 1]
      /\ cache' = cache /\ stage' = stage
  BY DEF Take
<1>3. /\ Live(r) /\ obj[r].cached \in Nat /\ obj[r].device \in Nat /\ InputLen(r) \in Nat
      /\ obj[r].cached <= obj[r].device
  BY <1>2, AllocFacts
<1>4. k = obj[r].device - obj[r].cached /\ k \in Nat
  BY <1>3, OneTokenPages DEF NeededPages
<1>5. /\ Len(free_slots) \in Nat /\ cache.evictable \in Int
      /\ Len(free_slots') \in Nat /\ cache'.evictable \in Int
  BY SupplyTyped, SupplyTypedNext
<1> HIDE DEF k
<1>6. Len(free_slots') = Len(free_slots) - k
  BY <1>2, <1>4, <1>5
<1>7. Supply' = Supply - k /\ Supply \in Int
  BY <1>2, <1>4, <1>5, <1>6 DEF Supply
<1>8. obj'[r].cached = obj[r].device /\ \A x \in Req : x # r => obj'[x] = obj[x]
  BY <1>1, <1>2 DEF TypeOK
<1>9. Live(r)' /\ \A x \in Req : Live(x)' <=> Live(x)
  BY <1>2, <1>3 DEF Live
<1>10. \A x \in Req \ {r} : Claims'[x] = Claims[x]
  BY <1>8, <1>9 DEF Claims, Claim
<1>11. Claims'[r] = Claims[r] - k
  <2>1. Claims[r] = InputLen(r) + ReplyLimit(r) - 1 - obj[r].cached
    BY <1>3 DEF Claims, Claim
  <2>2. Claims'[r] = InputLen(r) + ReplyLimit(r) - 1 - obj[r].device
    BY <1>8, <1>9 DEF Claims, Claim
  <2>3. ReplyLimit(r) \in Nat
    BY ReplyLimitType
  <2> QED
    BY <1>3, <1>4, <2>1, <2>2, <2>3
<1>12. /\ Claims[r] \in Nat /\ Claims'[r] \in Nat
       /\ \E rest \in Nat : ClaimSum = Claims[r] + rest /\ ClaimSum' = Claims'[r] + rest
  BY <1>10, SumsChange
<1>13. ClaimSum' = ClaimSum - k /\ ClaimSum \in Nat
  BY <1>4, <1>11, <1>12
<1> QED
  BY <1>4, <1>7, <1>13 DEF Covered

\* An allocation that starts has taken nothing yet.
LEMMA StartCovered ==
  ASSUME Covered, NEW r \in Req, StartAlloc(r)
  PROVE  Covered' /\ free_slots' = free_slots /\ cache' = cache
<1>1. obj' = obj /\ stage' = stage /\ free_slots' = free_slots /\ cache' = cache
  BY DEF StartAlloc, memory
<1>2. Claims' = Claims
  BY <1>1 DEF Claims, Claim, Live
<1> QED
  BY <1>1, <1>2 DEF Covered, ClaimSum, Supply

\* With nobody in chunks the adder's reserve stands for all claims, and the check of
\* the new request adds its own.
LEMMA AddNewCovered ==
  ASSUME IInv, WithinOutput, IInv', WithinOutput', CMP!IInv, CMP!IInv', OneInChunks,
         AdderCovers, PageSize = 1, NEW r \in Req, AddNew(r)
  PROVE  Covered'
<1> DEFINE h == MatchReq(r)
           n == PagesAtRef(Walk(cache, h), h, 0)
           slot == table_free[Len(table_free)]
<1>1. TypeOK /\ Queue /\ ThisBatch
  BY DEF IInv
<1>2. /\ pc = "add" /\ r \in Considered /\ adder.budget > 0 /\ r \notin chunked
      /\ Fits(r, h) /\ OutputLen(r) >= 0
      /\ cache' = Lock(Walk(cache, h), h) /\ free_slots' = free_slots
      /\ AddOneReq(r, slot, h, PageSize * Len(h))
      /\ stage' = [stage EXCEPT ![r] = "admitted"]
  BY DEF AddNew
<1>3. /\ Len(free_slots) \in Nat /\ cache.evictable \in Int
      /\ Len(free_slots') \in Nat /\ cache'.evictable \in Int
  BY SupplyTyped, SupplyTypedNext
<1>4. h \in Seq(Block) /\ Len(h) \in Nat
  <2>1. h \in Seq(Block)
    BY <1>1, MatchReqType
  <2> HIDE DEF h
  <2> QED
    BY <2>1
<1>5. stage[r] = "pending" /\ ~ Live(r)
  BY <1>1, <1>2, ConsideredFacts DEF Live
<1>6. n \in Nat
  <2>1. IsFiniteSet(Paths(cache))
    <3>1. CMP!IsFiniteSet(Paths(cache))
      BY DEF CMP!IInv, CMP!TypeOK, CMP!CacheType, CMP!Paths, Paths
    <3> QED
      BY <3>1 DEF CMP!IsFiniteSet, IsFiniteSet
  <2>2. Paths(Walk(cache, h)) = Paths(cache)
    BY DEF Walk, Paths
  <2> DEFINE w == Walk(cache, h)
             T == {p \in Paths(w) : IsPrefix(p, h) /\ w.ref[NodeOf(w, p)] = 0}
  <2>3. IsFiniteSet(T)
    <3> HIDE DEF w
    <3>1. T \subseteq Paths(w)
      OBVIOUS
    <3> QED
      BY <2>1, <2>2, <3>1, FS_Subset DEF w
  <2>4. n = Cardinality(T)
    BY DEF PagesAtRef
  <2> HIDE DEF n, T
  <2> QED
    BY <2>3, <2>4, FS_CardinalityType
<1>7. cache'.evictable = cache.evictable - n
  <2>1. cache'.evictable = Walk(cache, h).evictable - n
    BY <1>2 DEF Lock
  <2>2. Walk(cache, h).evictable = cache.evictable
    BY DEF Walk
  <2> QED
    BY <2>1, <2>2
<1>8. /\ InputLen(r) \in Nat /\ OutputLen(r) \in Int /\ ReplyLimit(r) \in Nat
      /\ ReplyLimit(r) - 1 <= OutputLen(r)
  BY <1>1, <1>2, RequestFacts, ReplyLimitType
<1>9. adder.reserved \in Nat /\ Total(Reserved, Req) <= adder.reserved
  BY <1>2 DEF AdderCovers
<1>10. ClaimSum <= adder.reserved
  <2>1. chunked = {}
    BY <1>2, NoOtherInChunks
  <2>2. \A x \in Req : Reserved[x] \in Nat /\ Reserved[x] = Claims[x]
    BY <1>2, <2>1, AllReserved
  <2>3. Total(Reserved, Req) = Total(Claims, Req)
    BY <2>2, ReqFinite, TotalSame
  <2> QED
    BY <1>9, <2>3 DEF ClaimSum
<1> HIDE DEF h, n
<1>11. PageSize * Len(h) = Len(h) /\ PageSize * n = n
       /\ AvailableSize = cache.evictable + Len(free_slots)
  <2>1. \A m \in Int : 1 * m = m /\ m * 1 = m
    OBVIOUS
  <2>2. PageSize * Len(h) = Len(h) /\ PageSize * n = n
    BY <1>4, <1>6, <2>1
  <2>3. cache.evictable * PageSize = cache.evictable /\ Len(free_slots) * PageSize = Len(free_slots)
    BY <1>3, <2>1
  <2> QED
    BY <2>2, <2>3 DEF AvailableSize
<1>12. InputLen(r) - Len(h) + OutputLen(r) + adder.reserved <= cache.evictable + Len(free_slots) - n
  <2> DEFINE x == PageSize * Len(h)
             y == PageSize * n
             z == AvailableSize
  <2>1. InputLen(r) - x + OutputLen(r) + adder.reserved <= z - y
    BY <1>2 DEF Fits, n
  <2>2. x = Len(h) /\ y = n /\ z = cache.evictable + Len(free_slots)
    BY <1>11
  <2> HIDE DEF x, y, z
  <2> QED
    BY <1>3, <1>4, <1>6, <1>8, <1>9, <2>1, <2>2
<1>13. /\ obj'[r].cached = Len(h) /\ Live(r)'
       /\ \A x \in Req : x # r => obj'[x] = obj[x] /\ (Live(x)' <=> Live(x))
  BY <1>1, <1>2, <1>11 DEF AddOneReq, TypeOK, Live
<1>14. /\ Claims[r] = 0
       /\ Claims'[r] = InputLen(r) + ReplyLimit(r) - 1 - Len(h)
       /\ \A x \in Req \ {r} : Claims'[x] = Claims[x]
  BY <1>5, <1>13 DEF Claims, Claim
<1>15. \E rest \in Nat : ClaimSum = Claims[r] + rest /\ ClaimSum' = Claims'[r] + rest
  BY <1>14, SumsChange
<1>16. ClaimSum \in Nat /\ ClaimSum' = ClaimSum + (InputLen(r) + ReplyLimit(r) - 1 - Len(h))
  BY <1>4, <1>8, <1>14, <1>15
<1>17. Supply' = Len(free_slots) + cache.evictable - n
  BY <1>2, <1>3, <1>6, <1>7 DEF Supply
<1>18. \A i, l, a, c, f, m, k \in Nat, o, e \in Int :
         c <= a /\ i - l + o + a <= e + f - m /\ k - 1 <= o => c + (i + k - 1 - l) <= f + e - m
  OBVIOUS
<1>19. ClaimSum + (InputLen(r) + ReplyLimit(r) - 1 - Len(h)) <= Len(free_slots) + cache.evictable - n
  BY <1>3, <1>4, <1>6, <1>8, <1>9, <1>10, <1>12, <1>16, <1>18
<1> QED
  BY <1>16, <1>17, <1>19 DEF Covered

-----------------------------------------------------------------------------
(* The adder's reserve *)

LEMMA ReservedNext ==
  (IInv /\ WithinOutput /\ pc \in {"add", "added", "ended"} => \A r \in Req : Reserved[r] \in Nat)'
<1>1. IInv /\ WithinOutput /\ pc \in {"add", "added", "ended"} => \A r \in Req : Reserved[r] \in Nat
  BY AllReserved
<1> QED
  BY <1>1, PTL

\* What r adds to the batch is reserved for it.
LEMMA AddReserves ==
  ASSUME IInv, WithinOutput, IInv', WithinOutput', AdderCovers, NEW r \in Req,
         AddChunked(r) \/ AddNew(r)
  PROVE  AdderCovers'
<1>1. TypeOK /\ Queue /\ ThisBatch /\ Decoders
  BY DEF IInv
<1>2. pc = "add" /\ pc' = pc /\ r \in Considered /\ running' = running
  BY DEF AddChunked, AddNew
<1>3. Contains(pending, r) /\ \A i \in DOMAIN batch.items : batch.items[i].req # r
  BY <1>1, <1>2, ConsideredFacts
<1>4. r \notin running \cup InBatch(batch)
  BY <1>1, <1>3 DEF Decoders, InBatch
<1>5. PICK s, h : \E m \in Nat : m < InputLen(r) /\ AddOneReq(r, s, h, m)
  BY AddedFrom
<1>6. PICK c \in Nat : c < InputLen(r) /\ AddOneReq(r, s, h, c)
  BY <1>5
<1>7. /\ obj'[r].cached = c /\ \A x \in Req : x # r => obj'[x] = obj[x]
      /\ batch'.items = Append(batch.items, Entry(r, adder.budget < InputLen(r) - c, 
                                    c + Smaller(adder.budget, InputLen(r) - c)))
      /\ adder'.reserved = adder.reserved + (InputLen(r) - c) + OutputLen(r)
  BY <1>1, <1>6 DEF AddOneReq, TypeOK
<1>8. InBatch(batch') = InBatch(batch) \cup {r}
  <2> DEFINE e == Entry(r, adder.budget < InputLen(r) - c,
                        c + Smaller(adder.budget, InputLen(r) - c))
  <2>1. batch.items \in Seq([req : Req, chunk : BOOLEAN, pos : Nat]) /\ e.req = r
    BY <1>1 DEF TypeOK, BatchType, Entry
  <2>2. batch'.items = Append(batch.items, e)
    BY <1>7
  <2> HIDE DEF e
  <2>3. /\ DOMAIN batch'.items = 1..(Len(batch.items) + 1) /\ DOMAIN batch.items = 1..Len(batch.items)
        /\ batch'.items[Len(batch.items) + 1] = e
        /\ \A i \in DOMAIN batch.items : batch'.items[i] = batch.items[i]
        /\ Len(batch.items) \in Nat
    BY <2>1, <2>2, AppendProperties
  <2>4. InBatch(batch') \subseteq InBatch(batch) \cup {r}
    BY <2>1, <2>3 DEF InBatch
  <2>5. InBatch(batch) \subseteq InBatch(batch')
    BY <2>3 DEF InBatch
  <2>6. r \in InBatch(batch')
    BY <2>1, <2>3 DEF InBatch
  <2> QED
    BY <2>4, <2>5, <2>6
<1>9. /\ Reserved[r] = 0
      /\ Reserved'[r] = InputLen(r) + ReplyLimit(r) - 1 - c
      /\ \A x \in Req \ {r} : Reserved'[x] = Reserved[x]
  BY <1>2, <1>4, <1>7, <1>8 DEF Reserved, Claim
<1>10. /\ \A x \in Req : Reserved[x] \in Nat
       /\ \A x \in Req : Reserved'[x] \in Nat
  BY <1>2, AllReserved, ReservedNext
<1>11. adder.reserved \in Nat /\ Total(Reserved, Req) <= adder.reserved
  BY <1>2 DEF AdderCovers
<1>12. /\ InputLen(r) \in Nat /\ OutputLen(r) \in Nat
       /\ ReplyLimit(r) \in Nat /\ ReplyLimit(r) - 1 <= OutputLen(r)
  <2>1. OutputLen(r) >= 0
    BY <1>1, AddedOutput
  <2> QED
    BY <1>1, <2>1, RequestFacts, ReplyLimitType
<1> PICK a : a = Reserved
  OBVIOUS
<1> PICK b : b = Reserved'
  OBVIOUS
<1>13. \E rest \in Nat : Total(a, Req) = a[r] + rest /\ Total(b, Req) = b[r] + rest
  <2>1. (\A i \in Req : a[i] \in Nat /\ b[i] \in Nat) /\ \A i \in Req \ {r} : a[i] = b[i]
    BY <1>9, <1>10
  <2> QED
    BY <2>1, ReqFinite, TotalChanges
<1>14. \A i, k, v, t, o, l \in Nat :
         k < i /\ l - 1 <= o /\ t <= v => /\ (i + l - 1 - k) + t <= v + (i - k) + o
                                         /\ v + (i - k) + o \in Nat
  OBVIOUS
<1>15. adder'.reserved \in Nat /\ Total(b, Req) <= adder'.reserved
  <2>1. PICK rest \in Nat : Total(a, Req) = a[r] + rest /\ Total(b, Req) = b[r] + rest
    BY <1>13
  <2>2. rest <= adder.reserved /\ Total(b, Req) = InputLen(r) + ReplyLimit(r) - 1 - c + rest
    BY <1>9, <1>11, <2>1
  <2> QED
    BY <1>6, <1>7, <1>11, <1>12, <1>14, <2>2
<1> QED
  BY <1>15 DEF AdderCovers

\* The inflight tokens are what the running requests claim.
LEMMA InflightIs ==
  ASSUME IInv
  PROVE  MapThenSumSet(RemainLen, running) = Total([r \in Req |-> RemainLen(r)], running)
<1> DEFINE q == [r \in Req |-> RemainLen(r)]
           S == running
           L(g) == g = [s \in SUBSET S |->
                          IF s = {} THEN 0
                          ELSE RemainLen(CHOOSE x \in s : TRUE) + g[s \ {CHOOSE x \in s : TRUE}]]
           R(g) == g = [s \in SUBSET S |->
                          IF s = {} THEN 0
                          ELSE q[CHOOSE x \in s : TRUE] + g[s \ {CHOOSE x \in s : TRUE}]]
<1>1. \A s \in SUBSET S : s # {} => q[CHOOSE x \in s : TRUE] = RemainLen(CHOOSE x \in s : TRUE)
  BY DEF IInv, TypeOK
<1>2. MapThenSumSet(RemainLen, S) = (CHOOSE g : L(g))[S]
  BY DEF MapThenSumSet, MapThenFoldSet
<1>3. Total(q, S) = (CHOOSE g : R(g))[S]
  <2> HIDE DEF q
  <2> QED
    BY DEF Total, MapThenSumSet, MapThenFoldSet
<1>4. \A g : L(g) <=> R(g)
  <2> HIDE DEF q, S
  <2> QED
    BY <1>1
<1>5. (CHOOSE g : L(g)) = (CHOOSE g : R(g))
  <2> HIDE DEF L, R
  <2> QED
    BY <1>4
<1> QED
  BY <1>2, <1>3, <1>5

LEMMA ScheduleReserves ==
  ASSUME IInv, WithinOutput, IInv', WithinOutput', PageSize = 1, Schedule
  PROVE  AdderCovers'
<1>1. TypeOK /\ Queue /\ ThisBatch /\ Decoders
  BY DEF IInv
<1>2. /\ pc = "receive" /\ pc' = "add" /\ running' = running /\ batch' = batch /\ obj' = obj
      /\ adder' = [budget |-> Budget, reserved |-> InflightTokens]
  BY DEF Schedule
<1>3. InBatch(batch') = {}
  BY <1>1, <1>2 DEF ThisBatch, NoBatch, InBatch
<1>4. \A x \in Req : Reserved'[x] \in Nat
  BY <1>2, ReservedNext
<1> DEFINE q == [x \in Req |-> RemainLen(x)]
<1>5. \A x \in running : Reserved'[x] = q[x]
  <2> SUFFICES ASSUME NEW x \in running PROVE Reserved'[x] = RemainLen(x)
    BY <1>1 DEF TypeOK
  <2>1. x \in Req /\ Live(x) /\ ~ Contains(pending, x)
    BY <1>1 DEF TypeOK, Decoders
  <2>2. x \notin chunked /\ ~ Ahead(x)
    BY <1>1, <1>2, <2>1 DEF Queue, Ahead, Preparing
  <2>3. obj[x].cached = obj[x].device - 1 /\ InputLen(x) < obj[x].device
    BY <2>1, <2>2 DEF IInv, LengthsOf, Decoding
  <2>4. Reserved'[x] = InputLen(x) + ReplyLimit(x) - 1 - obj[x].cached
    BY <1>2, <2>1 DEF Reserved, Claim
  <2>5. /\ InputLen(x) \in Nat /\ OutputLen(x) \in Int /\ obj[x].device \in Nat
        /\ ReplyLimit(x) \in Nat /\ (OutputLen(x) > 0 => ReplyLimit(x) = OutputLen(x))
    BY <1>1, <2>1, RequestFacts, ReplyLimitType
  <2>6. InputLen(x) + OutputLen(x) - obj[x].device > 0
    <3>1. ~ Taken(x)
      BY <1>2 DEF Taken, Preparing
    <3> QED
      BY <1>1, <3>1 DEF Decoders, CanDecode, RemainLen
  <2>7. \A i, d, l \in Nat, o \in Int :
          i < d /\ i + o - d > 0 /\ (o > 0 => l = o) => i + l - 1 - (d - 1) = i + o - d
    OBVIOUS
  <2> QED
    BY <2>3, <2>4, <2>5, <2>6, <2>7 DEF RemainLen
<1>6. \A x \in Req \ running : Reserved'[x] = 0
  BY <1>2, <1>3 DEF Reserved
<1>7. running \in SUBSET Req /\ IsFiniteSet(running)
  BY <1>1, ReqFinite, FS_Subset DEF TypeOK
<1> PICK b : b = Reserved'
  OBVIOUS
<1>8. Total(b, Req) = Total(b, running)
  BY <1>4, <1>6, <1>7, ReqFinite, TotalPart
<1>9. Total(b, running) = Total(q, running) /\ Total(b, running) \in Nat
  <2>1. \A x \in running : b[x] \in Nat /\ b[x] = q[x]
    BY <1>4, <1>5, <1>7
  <2> HIDE DEF q
  <2> QED
    BY <1>7, <2>1, TotalSame
<1>10. InflightTokens = Total(q, running)
  <2>1. (PageSize - 1) * Cardinality(running) = 0
    <3>1. Cardinality(running) \in Nat
      BY <1>7, FS_CardinalityType
    <3>2. \A m \in Nat : (1 - 1) * m = 0
      OBVIOUS
    <3> QED
      BY <3>1, <3>2
  <2>2. MapThenSumSet(RemainLen, running) = Total(q, running)
    BY InflightIs
  <2> HIDE DEF q
  <2> QED
    BY <1>9, <2>1, <2>2 DEF InflightTokens
<1>11. adder'.reserved \in Nat /\ Total(b, Req) <= adder'.reserved
  BY <1>2, <1>8, <1>9, <1>10
<1> QED
  BY <1>11 DEF AdderCovers

LEMMA AdderStep ==
  ASSUME IInv, WithinOutput, IInv', WithinOutput', AdderCovers, PageSize = 1, [Next]_vars
  PROVE  AdderCovers'
<1>1. CASE \E r \in Req : AddChunked(r) \/ AddNew(r)
  BY <1>1, AddReserves
<1>2. CASE Schedule
  BY <1>2, ScheduleReserves
<1>3. CASE UNCHANGED vars
  BY <1>3 DEF vars, queues, loop, AdderCovers, Reserved, Claim
<1>4. CASE pc' # "add"
  BY <1>4 DEF AdderCovers
<1>5. CASE \E r \in Req : Message(r)
  <2>1. pc' # "add"
    BY <1>5 DEF Message, HandleUser, AbortWaiting, AbortChunked, AbortRunning
  <2> QED
    BY <1>4, <2>1
<1>6. CASE \/ StopsAdding \/ PrefillBatch \/ DecodeBatch \/ NothingToRun \/ Launch \/ EndLoop
           \/ \E r \in Req : RefuseNew(r) \/ StartAlloc(r) \/ EvictOne(r) \/ Take(r)
           \/ \E e \in Answered : SkipChunk(e) \/ FinishReq(e) \/ CommitReq(e) \/ ReplyOnly(e)
  <2>1. pc' # "add"
    BY <1>6 DEF StopsAdding, StopAdding, AddFails, PrefillBatch, DecodeBatch, NothingToRun,
                Launch, EndLoop, RefuseNew,
       StartAlloc, EvictOne, Take, SkipChunk, FinishReq, CommitReq, ReplyOnly, Answer
  <2> QED
    BY <1>4, <2>1
<1> QED
  BY <1>1, <1>2, <1>3, <1>5, <1>6 DEF Next, Step, StopsAdding, Idle

-----------------------------------------------------------------------------
(* The theorems for pages of one token *)

CoverInv == IInv /\ WithinOutput /\ OneInChunks /\ Covered /\ AdderCovers /\ CMP!IInv /\ CMP!PageInv

LEMMA CoveredStep ==
  ASSUME IInv, WithinOutput, IInv', WithinOutput', CMP!IInv, CMP!IInv', CMP!PageInv,
         OneInChunks, Covered, AdderCovers, PageSize = 1, [Next]_vars
  PROVE  Covered'
<1>1. CASE \E r \in Req : Message(r)
  <2>1. CASE \E r \in Req : HandleUser(r) \/ AbortWaiting(r)
    BY <2>1, QuietSteps, QuietCovered
  <2>2. CASE \E r \in Req : AbortChunked(r) \/ AbortRunning(r)
    BY <2>2, AbortClient, GiveCovered
  <2> QED
    BY <1>1, <2>1, <2>2 DEF Message
<1>2. CASE \/ \E r \in Req : AddChunked(r)
           \/ Schedule \/ StopsAdding \/ PrefillBatch \/ DecodeBatch \/ NothingToRun
           \/ Launch \/ EndLoop
           \/ \E e \in Answered : SkipChunk(e) \/ ReplyOnly(e)
  BY <1>2, QuietSteps, QuietCovered
<1>3. CASE \E r \in Req : AddNew(r)
  BY <1>3, AddNewCovered
<1>4. CASE \E r \in Req : RefuseNew(r) \/ EvictOne(r)
  BY <1>4, RefuseClient, EvictClient, GiveCovered
<1>5. CASE \E r \in Req : StartAlloc(r)
  BY <1>5, StartCovered
<1>6. CASE \E r \in Req : Take(r)
  BY <1>6, TakeCovered
<1>7. CASE \E e \in Answered : FinishReq(e) \/ CommitReq(e)
  <2>1. \A e \in Answered : e.req \in Req
    BY AnsweredEntry DEF IInv
  <2> QED
    BY <1>7, <2>1, FinishReqClient, CommitClient, GiveCovered
<1>8. CASE Idle \/ UNCHANGED vars
  BY <1>8, StutterClient, QuietCovered DEF Idle, Stopped
<1> QED
  BY <1>1, <1>2, <1>3, <1>4, <1>5, <1>6, <1>7, <1>8 DEF Next, Step, StopsAdding

LEMMA InitCovered ==
  ASSUME Init PROVE Covered /\ AdderCovers /\ CMP!IInv /\ CMP!PageInv
<1>1. CMP!Init
  BY InitClient, SameActions
<1>2. CMP!IInv
  BY <1>1, CMP!InitIInv, SameConstants
<1>3. CMP!PageInv
  BY <1>1, CMP!PageInit, SameConstants
<1>4. AdderCovers
  BY DEF Init, AdderCovers
<1>5. Covered
  <2>1. \A r \in Req : Claims[r] = 0
    BY DEF Init, Claims, Live
  <2>2. ClaimSum = 0
    <3>1. Total(Claims, Req) = Total(Claims, {})
      BY <2>1, ReqFinite, TotalPart
    <3>2. Total(Claims, {}) = 0
      <4>1. IsFiniteSet({})
        BY FS_EmptySet
      <4>2. PICK g : Sums(g, Claims, {}) /\ Total(Claims, {}) = g[{}]
        BY <4>1, TotalIs
      <4> QED
        BY <4>2 DEF Sums, SumOf
    <3> QED
      BY <3>1, <3>2 DEF ClaimSum
  <2>3. Len(free_slots) \in Nat /\ cache.evictable = 0
    BY <1>2, SupplyTyped DEF Init, EmptyCache
  <2> QED
    BY <2>2, <2>3 DEF Covered, Supply
<1> QED
  BY <1>2, <1>3, <1>4, <1>5

\* An allocation that starts finds its pages.
LEMMA StartFits ==
  ASSUME CoverInv, IInv', WithinOutput', PageSize = 1, NEW r \in Req, StartAlloc(r)
  PROVE  AllocationFits'
<1>1. Covered' /\ free_slots' = free_slots /\ cache' = cache
  BY StartCovered DEF CoverInv
<1>2. Len(free_slots) \in Nat /\ cache.evictable \in Int
  BY SupplyTyped DEF CoverInv
<1>3. (PageSize = 1)'
  OBVIOUS
<1> QED
  BY <1>1, <1>2, <1>3, SupplyIsEnoughNext

LEMMA CoverStep ==
  ASSUME CoverInv, IInv', PageSize = 1, [Next]_vars
  PROVE  CoverInv'
<1>1. IInv /\ WithinOutput /\ OneInChunks /\ Covered /\ AdderCovers /\ CMP!IInv /\ CMP!PageInv
  BY DEF CoverInv
<1>2. WithinOutput' /\ OneInChunks'
  BY <1>1, WithinStep
<1>3. [CM!Next]_(CM!vars)
  BY <1>1, <1>2, StartFits, ClientStep
<1>4. [CMP!Next]_(CMP!vars)
  <2>1. UNCHANGED CM!vars => UNCHANGED CMP!vars
    BY DEF CM!vars, CMP!vars
  <2>2. CM!Next => CMP!Next
    BY SameActions DEF CM!Next, CMP!Next
  <2> QED
    BY <1>3, <2>1, <2>2
<1>5. CMP!IInv'
  BY <1>1, <1>4, CMP!StepIInv, SameConstants
<1>6. CMP!PageInv'
  BY <1>1, <1>4, CMP!PageStep, SameConstants
<1>7. Covered'
  BY <1>1, <1>2, <1>5, CoveredStep
<1>8. AdderCovers'
  BY <1>1, <1>2, AdderStep
<1> QED
  BY <1>2, <1>5, <1>6, <1>7, <1>8 DEF CoverInv

LEMMA CoverInvariance == ASSUME SafeAborts, PageSize = 1 PROVE Spec => []CoverInv
<1>1. Init => CoverInv
  BY InitIInv, InitWithin, InitCovered DEF CoverInv
<1>2. CoverInv /\ IInv' /\ [Next]_vars => CoverInv'
  BY CoverStep
<1> QED
  BY <1>1, <1>2, SchedulerInvariant, PTL DEF Spec

LEMMA CoverGives == ASSUME CoverInv, PageSize = 1 PROVE ReservationCovers /\ AllocationFits
BY SupplyIsEnough, SupplyTyped DEF CoverInv

\* With pages of one token, what all admitted requests may still ask for is free or can
\* be evicted, whatever is shared, committed, evicted, aborted and admitted meanwhile
\* (_try_allocate_one's check against inflight_tokens and the adder's reserved_size).
THEOREM ReservationIsEnough ==
  ASSUME SafeAborts, PageSize = 1 PROVE Spec => []ReservationCovers
<1>1. CoverInv => ReservationCovers
  BY CoverGives
<1> QED
  BY <1>1, CoverInvariance, PTL

\* So no batch finds the pool exhausted and _allocate's assertion never fails, the
\* loop uses the cache manager as its interface permits, and is whole when idle: the
\* hypothesis of LoopUsesCacheManager and IdleLosesNothing holds by itself.
THEOREM AllocationsSucceed ==
  ASSUME SafeAborts, PageSize = 1
  PROVE  Spec => []AllocationFits /\ UsesCacheManager /\ []IdleIntegrity
<1>1. CoverInv => AllocationFits
  BY CoverGives
<1>2. Spec => []AllocationFits
  BY <1>1, CoverInvariance, PTL
<1> QED
  BY <1>2, LoopUsesCacheManager, IdleLosesNothing

-----------------------------------------------------------------------------
(* The replies: what the loop has sent for a request, and the position the *)
(* next token of a request gets.                                           *)

LEMMA WithinInvariance == ASSUME SafeAborts PROVE Spec => [](WithinOutput /\ OneInChunks)
<1>1. Init => WithinOutput /\ OneInChunks
  BY InitWithin
<1>2. WithinOutput /\ OneInChunks /\ IInv /\ [Next]_vars => WithinOutput' /\ OneInChunks'
  BY WithinStep
<1> QED
  BY <1>1, <1>2, SchedulerInvariant, PTL DEF Spec

\* The end of a request has been told once, for a reason, and behind it comes at
\* most what was under way then: the answers to come are counted.
ToldAt(r, n) ==
  /\ sent[r][n] /\ \A i \in 1..(n - 1) : ~ sent[r][i]
  /\ Len(sent[r]) + Unanswered(r) <= n + Lag
  /\ \/ n \in (ReplyLimit(r) - Lag)..ReplyLimit(r)
     \/ r \notin IgnoreEos /\ tokens[r][InputLen(r) + n] = Eos

ToldOnce(r) == \E n \in DOMAIN sent[r] : ToldAt(r, n)

\* A live request has not been told its end, and has been sent the tokens beyond its
\* prompt that the host has.
Replying(r) ==
  /\ \A i \in DOMAIN sent[r] : ~ sent[r][i]
  /\ IF r \in chunked THEN sent[r] = << >> ELSE obj[r].host = InputLen(r) + Len(sent[r])

ReplyOf(r) ==
  /\ Live(r) => Replying(r)
  /\ stage[r] = "finished" => ToldOnce(r)

\* The entries still to be taken or answered name the position of the token they
\* sample.
Positions ==
  \A i \in DOMAIN batch.items :
    ~ batch.items[i].chunk /\ (Preparing \/ Overlap \/ i >= at) =>
      batch.items[i].pos = obj[batch.items[i].req].device + Bit(Preparing /\ i >= at)

\* So do those of the batch before: since then the next token has been asked for,
\* or not yet.
FirstOpen == IF pc = "process" THEN at ELSE 1

LastPos(r) == obj[r].device - Bit(Taken(r) \/ Sampled(r))

LastPositions ==
  \A i \in DOMAIN last.items :
    ~ last.items[i].chunk /\ i >= FirstOpen =>
      last.items[i].pos = LastPos(last.items[i].req)

ReplyInv == Positions /\ LastPositions /\ \A r \in Req : ReplyOf(r)

SameReplies(x) ==
  /\ stage'[x] = stage[x] /\ sent'[x] = sent[x]
  /\ Live(x) => obj'[x].host = obj[x].host /\ (x \in chunked' <=> x \in chunked)
  /\ stage[x] = "finished" => tokens'[x] = tokens[x] /\ Unanswered(x)' = Unanswered(x)

LEMMA ReplySame ==
  ASSUME NEW x \in Req, ReplyOf(x), SameReplies(x)
  PROVE  ReplyOf(x)'
<1>1. Live(x)' <=> Live(x)
  BY DEF SameReplies, Live
<1>2. Live(x) => Replying(x)'
  BY DEF ReplyOf, Replying, SameReplies
<1>3. ASSUME stage[x] = "finished" PROVE ToldOnce(x)'
  <2>1. PICK n \in DOMAIN sent[x] : ToldAt(x, n)
    BY <1>3 DEF ReplyOf, ToldOnce
  <2>2. sent'[x] = sent[x] /\ tokens'[x] = tokens[x] /\ Unanswered(x)' = Unanswered(x)
    BY <1>3 DEF SameReplies
  <2>3. ToldAt(x, n)'
    BY <2>1, <2>2 DEF ToldAt
  <2> QED
    BY <2>1, <2>2, <2>3 DEF ToldOnce
<1> QED
  BY <1>1, <1>2, <1>3 DEF ReplyOf, SameReplies

\* While the batch of this iteration is put together the answers to come are those
\* of the batch before.
LEMMA UnansweredQuiet ==
  ASSUME pc # "process", pc' # "process", last' = last
  PROVE  /\ \A x : Unanswered(x)' = Unanswered(x)
         /\ \A x : ~ Sampled(x) /\ ~ Sampled(x)'
         /\ \A x : InLast(x)' <=> InLast(x)
         /\ FirstOpen' = FirstOpen
<1>1. \A x : InLast(x)' <=> InLast(x)
  BY DEF InLast, OpenIn
<1>2. \A x : ~ Sampled(x) /\ ~ Sampled(x)'
  BY DEF Sampled
<1> QED
  BY <1>1, <1>2 DEF Unanswered, Bit, FirstOpen

LEMMA LastPositionsSame ==
  ASSUME LastPositions, IInv, last' = last, FirstOpen \in Int, FirstOpen' \in Int,
         FirstOpen' >= FirstOpen,
         \A x \in Req : InLast(x)' => LastPos(x)' = LastPos(x)
  PROVE  LastPositions'
<1>1. last \in BatchType
  BY DEF IInv, TypeOK
<1>2. \A i \in DOMAIN last.items : last.items[i].req \in Req /\ i \in Int
  BY <1>1, BatchEntries
<1>3. ASSUME NEW i \in DOMAIN last.items, ~ last.items[i].chunk, i >= FirstOpen'
      PROVE  last.items[i].pos = LastPos(last.items[i].req)'
  <2>1. i >= FirstOpen
    BY <1>2, <1>3
  <2>2. last.items[i].pos = LastPos(last.items[i].req)
    BY <1>3, <2>1 DEF LastPositions
  <2>3. InLast(last.items[i].req)'
    BY <1>3 DEF InLast, OpenIn, FirstOpen
  <2> QED
    BY <1>2, <2>2, <2>3
<1> QED
  BY <1>3 DEF LastPositions

LEMMA FirstOpenType == ASSUME TypeOK PROVE FirstOpen \in Int /\ FirstOpen >= 1
BY DEF TypeOK, FirstOpen

\* An empty batch has no positions.
LEMMA NoPositions ==
  ASSUME batch' = NoBatch
  PROVE  Positions'
BY EmptyBatch DEF Positions

\* The batch and the objects of its requests stay
LEMMA PositionsSame ==
  ASSUME Positions, batch' = batch, at' = at, Preparing' <=> Preparing,
         \A x \in Req : obj'[x].device = obj[x].device, batch \in BatchType
  PROVE  Positions'
<1>1. \A i \in DOMAIN batch.items : batch.items[i].req \in Req
  BY BatchEntries
<1> QED
  BY <1>1 DEF Positions

LEMMA MessageReplies ==
  ASSUME ReplyInv, IInv, NEW r \in Req, Message(r)
  PROVE  ReplyInv'
<1>1. TypeOK /\ ThisBatch /\ Queue
  BY DEF IInv
<1>2. /\ pc = "receive" /\ pc' = pc /\ obj' = obj /\ tokens' = tokens /\ sent' = sent
      /\ batch' = batch /\ last' = last /\ at' = at
  BY DEF Message, HandleUser, AbortWaiting, AbortChunked, AbortRunning, loop
<1>3. Positions'
  BY <1>1, <1>2, NoPositions DEF ThisBatch
<1>4. /\ \A x : Unanswered(x)' = Unanswered(x)
      /\ \A x : LastPos(x)' = LastPos(x) /\ FirstOpen' = FirstOpen
  <2>1. UNCHANGED << pc, batch, last, at >>
    BY <1>2
  <2>2. \A x : (Taken(x)' <=> Taken(x)) /\ (Sampled(x)' <=> Sampled(x)) /\ (InLast(x)' <=> InLast(x))
    BY <2>1, StandingSame
  <2> QED
    BY <1>2, <2>2 DEF Unanswered, LastPos, Bit, FirstOpen
<1>5. LastPositions'
  BY <1>1, <1>2, <1>4, FirstOpenType, LastPositionsSame DEF ReplyInv
<1>6. ASSUME NEW x \in Req, x # r PROVE ReplyOf(x)'
  <2>1. stage'[x] = stage[x]
    BY <1>1, <1>6 DEF Message, HandleUser, AbortWaiting, AbortChunked, AbortRunning, TypeOK
  <2>2. x \in chunked' <=> x \in chunked
    BY <1>6 DEF Message, HandleUser, AbortWaiting, AbortChunked, AbortRunning
  <2>3. SameReplies(x)
    BY <1>2, <1>4, <2>1, <2>2 DEF SameReplies
  <2> QED
    BY <2>3, ReplySame DEF ReplyInv
<1>7. ReplyOf(r)'
  <2>1. CASE HandleUser(r)
    <3>1. stage'[r] = "pending" \/ stage'[r] = "gone"
      BY <1>1, <2>1 DEF HandleUser, TypeOK
    <3> QED
      BY <3>1 DEF ReplyOf, Live
  <2>2. CASE AbortWaiting(r)
    <3>1. stage'[r] = "gone"
      BY <1>1, <2>2 DEF AbortWaiting, TypeOK
    <3> QED
      BY <3>1 DEF ReplyOf, Live
  <2>3. CASE AbortChunked(r) \/ AbortRunning(r)
    <3>1. stage'[r] = "aborted"
      BY <1>1, <2>3 DEF AbortChunked, AbortRunning, TypeOK
    <3> QED
      BY <3>1 DEF ReplyOf, Live
  <2> QED
    BY <2>1, <2>2, <2>3 DEF Message
<1> QED
  BY <1>3, <1>5, <1>6, <1>7 DEF ReplyInv

\* r joins the batch that is put together
LEMMA AddReplies ==
  ASSUME ReplyInv, IInv, NEW r \in Req, AddChunked(r) \/ AddNew(r)
  PROVE  ReplyInv'
<1>1. TypeOK /\ ThisBatch /\ LastBatch /\ Queue /\ Fresh
  BY DEF IInv
<1>2. /\ pc = "add" /\ pc' = pc /\ r \in Considered /\ tokens' = tokens /\ sent' = sent /\ at' = at
      /\ last' = last /\ adder.budget \in Nat
  BY <1>1 DEF AddChunked, AddNew, TypeOK
<1>3. /\ stage[r] = IF r \in chunked THEN "admitted" ELSE "pending"
      /\ \A i \in DOMAIN batch.items : batch.items[i].req # r
      /\ Contains(pending, r)
  BY <1>1, <1>2, ConsideredFacts
<1>4. PICK slot, handle, cached :
        /\ AddOneReq(r, slot, handle, cached) /\ cached \in Nat /\ cached < InputLen(r)
  <2>1. CASE AddNew(r)
    <3>1. PageSize * Len(MatchReq(r)) \in Nat /\ PageSize * Len(MatchReq(r)) < InputLen(r)
      BY <1>1, MatchReqType
    <3> QED
      BY <2>1, <3>1 DEF AddNew
  <2>2. CASE AddChunked(r)
    <3>1. AddOneReq(r, obj[r].slot, obj[r].handle, obj[r].cached) /\ r \in chunked
      BY <2>2 DEF AddChunked
    <3>2. Live(r) /\ ~ Ahead(r)
      BY <1>3, <3>1 DEF Live, Ahead
    <3>3. BetweenChunks(r)
      BY <3>1, <3>2 DEF IInv, LengthsOf
    <3>4. obj[r].cached \in Nat /\ obj[r].cached < InputLen(r)
      BY <1>1, <3>3, RequestFacts DEF BetweenChunks
    <3> QED
      BY <3>1, <3>4
  <2> QED
    BY <2>1, <2>2
<1> DEFINE d == cached + Smaller(adder.budget, InputLen(r) - cached)
           c == adder.budget < InputLen(r) - cached
<1>5. d \in Nat /\ InputLen(r) \in Nat /\ (~ c => d = InputLen(r)) /\ c \in BOOLEAN
  <2>1. InputLen(r) \in Nat
    BY <1>1, RequestFacts
  <2> QED
    BY <1>2, <1>4, <2>1 DEF Smaller
<1>6. /\ obj' = [obj EXCEPT ![r] = [slot |-> slot, cached |-> cached, device |-> d,
                                    host |-> d, handle |-> handle]]
      /\ batch' = [prefill |-> TRUE, items |-> Append(batch.items, Entry(r, c, d))]
      /\ chunked' = IF c THEN chunked \cup {r} ELSE chunked \ {r}
  BY <1>4 DEF AddOneReq
<1> HIDE DEF d, c
<1>7. obj'[r].device = d /\ obj'[r].host = d /\ \A x \in Req : x # r => obj'[x] = obj[x]
  BY <1>1, <1>6 DEF TypeOK
<1>8. /\ stage'[r] = "admitted" /\ \A x \in Req : x # r => stage'[x] = stage[x]
  BY <1>1, <1>3 DEF AddChunked, AddNew, TypeOK
<1>9. sent[r] = << >>
  <2>1. CASE r \in chunked
    <3>1. Live(r)
      BY <1>3, <2>1 DEF Live
    <3> QED
      BY <2>1, <3>1 DEF ReplyInv, ReplyOf, Replying
  <2>2. CASE r \notin chunked
    BY <1>1, <1>3, <2>2 DEF Fresh
  <2> QED
    BY <2>1, <2>2
<1>10. ReplyOf(r)'
  <2>1. r \in chunked' <=> c
    BY <1>6
  <2>2. sent'[r] = << >> /\ Len(sent'[r]) = 0 /\ DOMAIN sent'[r] = {}
    BY <1>2, <1>9
  <2>3. ~ c => obj'[r].host = InputLen(r) + Len(sent'[r])
    BY <1>5, <1>7, <2>2
  <2>4. Replying(r)'
    BY <2>1, <2>2, <2>3 DEF Replying
  <2> QED
    BY <1>8, <2>4 DEF ReplyOf
<1>11. \A x : Unanswered(x)' = Unanswered(x)
  BY <1>2, UnansweredQuiet
<1>12. ASSUME NEW x \in Req, x # r PROVE ReplyOf(x)'
  <2>1. x \in chunked' <=> x \in chunked
    BY <1>6, <1>12
  <2>2. SameReplies(x)
    BY <1>2, <1>7, <1>8, <1>11, <1>12, <2>1 DEF SameReplies
  <2> QED
    BY <2>2, ReplySame DEF ReplyInv
<1> DEFINE n == Len(batch.items)
<1>13. /\ n \in Nat /\ DOMAIN batch.items = 1..n /\ DOMAIN batch'.items = 1..(n + 1)
       /\ batch'.items[n + 1] = Entry(r, c, d)
       /\ \A i \in 1..n : batch'.items[i] = batch.items[i] /\ batch.items[i].req \in Req
       /\ at = 1 /\ Preparing /\ Preparing'
  <2>1. batch \in BatchType
    BY <1>1 DEF TypeOK
  <2>2. n \in Nat /\ DOMAIN batch.items = 1..n /\ \A i \in 1..n : batch.items[i].req \in Req
    BY <2>1, BatchEntries
  <2>3. at = 1 /\ Preparing /\ Preparing'
    BY <1>1, <1>2 DEF ThisBatch, Preparing
  <2>4. DOMAIN batch'.items = 1..(n + 1) /\ \A i \in DOMAIN batch.items : batch'.items[i] = batch.items[i]
    <3>1. batch' = WithEntry(batch, r, c, d)
      BY <1>6 DEF WithEntry
    <3> QED
      BY <1>5, <2>1, <3>1, EntryAppended
  <2>5. batch'.items[n + 1] = Entry(r, c, d)
    <3> DEFINE b == batch.items
               e == Entry(r, c, d)
               T == [req : Req, chunk : BOOLEAN, pos : Nat]
    <3>1. b \in Seq(T) /\ batch'.items = Append(b, e) /\ n = Len(b)
      BY <1>6, <2>1 DEF BatchType
    <3> HIDE DEF e, b, T, n
    <3>2. Append(b, e)[Len(b) + 1] = e
      BY <3>1
    <3> QED
      BY <3>1, <3>2 DEF e
  <2> QED
    BY <2>2, <2>3, <2>4, <2>5
<1> HIDE DEF n
<1>14. Positions'
  <2>1. Bit(Preparing' /\ n + 1 >= at') = 1
    BY <1>2, <1>13 DEF Bit
  <2>2. batch'.items[n + 1].pos = obj'[batch'.items[n + 1].req].device + Bit(Preparing' /\ n + 1 >= at')
    BY <1>5, <1>7, <1>13, <2>1 DEF Entry
  <2>3. ASSUME NEW i \in 1..n, ~ batch.items[i].chunk
        PROVE  batch'.items[i].pos = obj'[batch'.items[i].req].device + Bit(Preparing' /\ i >= at')
    <3>1. i \in DOMAIN batch.items /\ batch.items[i].req # r
      BY <1>3, <1>13
    <3>2. batch.items[i].pos = obj[batch.items[i].req].device + Bit(Preparing /\ i >= at)
      BY <1>13, <2>3, <3>1 DEF ReplyInv, Positions
    <3> QED
      BY <1>2, <1>7, <1>13, <3>1, <3>2
  <2>4. \A i \in 1..(n + 1) : i \in 1..n \/ i = n + 1
    BY <1>13
  <2> QED
    BY <1>13, <2>2, <2>3, <2>4 DEF Positions
<1>15. LastPositions'
  <2>1. ~ InLast(r)
    BY <1>1, <1>3, WaitingNotInLast
  <2>2. \A x : ~ Taken(x) /\ ~ Taken(x)'
    BY <1>2, <1>13 DEF Taken
  <2>3. /\ \A x : ~ Sampled(x) /\ ~ Sampled(x)'
        /\ \A x : InLast(x)' <=> InLast(x)
        /\ FirstOpen' = FirstOpen
    BY <1>2, UnansweredQuiet
  <2>4. \A x \in Req : InLast(x)' => LastPos(x)' = LastPos(x)
    BY <1>7, <2>1, <2>2, <2>3 DEF LastPos, Bit
  <2> QED
    BY <1>1, <1>2, <2>3, <2>4, FirstOpenType, LastPositionsSame DEF ReplyInv
<1> QED
  BY <1>10, <1>12, <1>14, <1>15 DEF ReplyInv

\* The steps of the loop that answer nothing and admit nobody
LEMMA OnwardReplies ==
  ASSUME ReplyInv, IInv,
         \/ Schedule \/ StopsAdding \/ PrefillBatch \/ NothingToRun
         \/ \E r \in Req : RefuseNew(r) \/ StartAlloc(r) \/ EvictOne(r)
  PROVE  ReplyInv'
<1>1. /\ TypeOK /\ batch \in BatchType /\ (pc = "receive" => batch = NoBatch)
      /\ (pc = "added" => at = 1)
  BY DEF IInv, TypeOK, ThisBatch
<1>2. /\ obj' = obj /\ stage' = stage /\ tokens' = tokens /\ sent' = sent /\ batch' = batch
      /\ at' = at /\ last' = last /\ chunked' = chunked /\ pc # "process"
      /\ (pc' = "process" => at = 1 /\ batch = NoBatch)
      /\ pc \in {"add", "added", "ended", "allocate", "take"} \/ batch = NoBatch
      /\ pc' \in {"add", "added", "ended", "allocate", "take"} \/ batch = NoBatch
  BY <1>1 DEF Schedule, StopsAdding, StopAdding, AddFails, PrefillBatch, NothingToRun,
              RefuseNew, StartAlloc, EvictOne, memory, queues, loop
<1>3. Positions'
  <2>1. CASE batch = NoBatch
    BY <1>2, <2>1, NoPositions
  <2>2. CASE batch # NoBatch
    <3>1. Preparing /\ Preparing'
      BY <1>2, <2>2 DEF Preparing
    <3> QED
      BY <1>1, <1>2, <3>1, PositionsSame DEF ReplyInv
  <2> QED
    BY <2>1, <2>2
<1>4. /\ \A x : ~ Sampled(x) /\ ~ Sampled(x)'
      /\ \A x : Taken(x)' <=> Taken(x)
  <2>1. CASE batch = NoBatch
    BY <1>2, <2>1, EmptyBatch DEF Sampled, OpenIn, Taken
  <2>2. CASE batch # NoBatch
    <3>1. Preparing /\ Preparing' /\ pc' # "process"
      BY <1>2, <2>2 DEF Preparing
    <3> QED
      BY <1>2, <3>1 DEF Sampled, Taken
  <2> QED
    BY <2>1, <2>2
<1>5. FirstOpen' = FirstOpen
  BY <1>2 DEF FirstOpen
<1>6. \A x : Unanswered(x)' = Unanswered(x)
  <2>1. \A x : InLast(x)' <=> InLast(x)
    BY <1>2, <1>5 DEF InLast, OpenIn, FirstOpen
  <2> QED
    BY <1>4, <2>1 DEF Unanswered, Bit
<1>7. LastPositions'
  <2>1. \A x : LastPos(x)' = LastPos(x)
    BY <1>2, <1>4 DEF LastPos, Bit
  <2> QED
    BY <1>1, <1>2, <1>5, <2>1, FirstOpenType, LastPositionsSame DEF ReplyInv
<1>8. \A x \in Req : SameReplies(x)
  BY <1>2, <1>6 DEF SameReplies
<1> QED
  BY <1>3, <1>7, <1>8, ReplySame DEF ReplyInv

LEMMA DecodeReplies ==
  ASSUME ReplyInv, IInv, DecodeBatch
  PROVE  ReplyInv'
<1>1. TypeOK /\ ThisBatch
  BY DEF IInv
<1>2. /\ obj' = obj /\ stage' = stage /\ tokens' = tokens /\ sent' = sent /\ at' = at
      /\ last' = last /\ chunked' = chunked
      /\ pc = "added" /\ pc' = "allocate" /\ at = 1 /\ batch = NoBatch
  BY <1>1 DEF DecodeBatch, memory, queues, ThisBatch
<1>3. PICK s \in SetToSeqs(running) :
        batch' = [prefill |-> FALSE,
                  items |-> [i \in DOMAIN s |-> Entry(s[i], FALSE, obj[s[i]].device)]]
  BY DEF DecodeBatch
<1>4. \A i \in DOMAIN batch'.items : i \in Int /\ i >= 1
  <2>1. DOMAIN batch'.items = DOMAIN s
    BY <1>3
  <2>2. DOMAIN s = 1..Cardinality(running)
    BY <1>3 DEF SetToSeqs
  <2> QED
    BY <2>1, <2>2
<1>5. Positions'
  <2>1. ASSUME NEW i \in DOMAIN batch'.items
        PROVE  batch'.items[i].pos = obj'[batch'.items[i].req].device + Bit(Preparing' /\ i >= at')
    <3>1. DOMAIN batch'.items = DOMAIN s /\ batch'.items[i] = Entry(s[i], FALSE, obj[s[i]].device)
      BY <1>3, <2>1
    <3>2. Preparing' /\ i >= at'
      BY <1>2, <1>4, <2>1 DEF Preparing
    <3>3. Bit(Preparing' /\ i >= at') = 1
      BY <3>2 DEF Bit
    <3> QED
      BY <1>2, <3>1, <3>3 DEF Entry
  <2> QED
    BY <2>1 DEF Positions
<1>6. /\ \A x : Unanswered(x)' = Unanswered(x)
      /\ \A x : ~ Sampled(x) /\ ~ Sampled(x)'
      /\ FirstOpen' = FirstOpen
  BY <1>2, UnansweredQuiet
<1>7. \A x : ~ Taken(x) /\ ~ Taken(x)'
  BY <1>2, <1>4, EmptyBatch DEF Taken
<1>8. LastPositions'
  <2>1. \A x : LastPos(x)' = LastPos(x)
    BY <1>2, <1>6, <1>7 DEF LastPos, Bit
  <2> QED
    BY <1>1, <1>2, <1>6, <2>1, FirstOpenType, LastPositionsSame DEF ReplyInv
<1>9. \A x \in Req : SameReplies(x)
  BY <1>2, <1>6 DEF SameReplies
<1> QED
  BY <1>5, <1>8, <1>9, ReplySame DEF ReplyInv

LEMMA TakeReplies ==
  ASSUME ReplyInv, IInv, NEW r \in Req, Take(r)
  PROVE  ReplyInv'
<1>1. TypeOK /\ ThisBatch
  BY DEF IInv
<1>2. /\ pc = "take" /\ pc' = "allocate" /\ r \in Current /\ at' = at + 1 /\ at \in Nat
      /\ obj' = [obj EXCEPT ![r].cached = obj[r].device, ![r].device = @ + 1]
      /\ stage' = stage /\ tokens' = tokens /\ sent' = sent /\ batch' = batch
      /\ last' = last /\ chunked' = chunked
  BY <1>1 DEF Take, queues, TypeOK
<1>3. /\ at \in DOMAIN batch.items /\ r = batch.items[at].req
      /\ \A i \in DOMAIN batch.items : batch.items[i].req = r => i = at
      /\ \A i \in DOMAIN batch.items : i \in Nat /\ batch.items[i].req \in Req
  BY <1>1, <1>2, CurrentFacts, BatchEntries DEF TypeOK
<1>4. obj[r].device \in Nat
  BY <1>1, RequestFacts
<1>5. /\ obj'[r].device = obj[r].device + 1
      /\ \A x \in Req : obj'[x].host = obj[x].host
      /\ \A x \in Req : x # r => obj'[x] = obj[x]
  BY <1>1, <1>2, <1>3 DEF TypeOK
<1>6. Preparing /\ Preparing'
  BY <1>2 DEF Preparing
<1>7. Positions'
  <2>1. ASSUME NEW i \in DOMAIN batch.items, ~ batch.items[i].chunk
        PROVE  batch.items[i].pos = obj'[batch.items[i].req].device + Bit(Preparing' /\ i >= at')
    <3>1. batch.items[i].pos = obj[batch.items[i].req].device + Bit(Preparing /\ i >= at)
      BY <1>6, <2>1 DEF ReplyInv, Positions
    <3>2. CASE i = at
      <4>1. Bit(Preparing /\ i >= at) = 1 /\ Bit(Preparing' /\ i >= at') = 0
        BY <1>2, <1>6, <3>2 DEF Bit
      <4> QED
        BY <1>3, <1>4, <1>5, <3>1, <3>2, <4>1
    <3>3. CASE i # at
      <4>1. i >= at <=> i >= at'
        BY <1>2, <1>3, <3>3
      <4>2. obj'[batch.items[i].req] = obj[batch.items[i].req]
        BY <1>3, <1>5, <3>3
      <4> QED
        BY <1>6, <3>1, <4>1, <4>2
    <3> QED
      BY <3>2, <3>3
  <2> QED
    BY <1>2, <2>1 DEF Positions
<1>8. /\ \A x : Unanswered(x)' = Unanswered(x)
      /\ \A x : ~ Sampled(x) /\ ~ Sampled(x)'
      /\ FirstOpen' = FirstOpen
  BY <1>2, UnansweredQuiet
<1>9. LastPositions'
  <2>1. ~ Taken(r) /\ Taken(r)' /\ \A x : x # r => (Taken(x)' <=> Taken(x))
    BY <1>1, <1>2, StandingTaken
  <2>2. LastPos(r)' = LastPos(r)
    <3>1. LastPos(r) = obj[r].device - 0 /\ LastPos(r)' = obj'[r].device - 1
      BY <1>8, <2>1 DEF LastPos, Bit
    <3> QED
      BY <1>4, <1>5, <3>1
  <2>3. \A x \in Req : x # r => LastPos(x)' = LastPos(x)
    BY <1>5, <1>8, <2>1 DEF LastPos, Bit
  <2> QED
    BY <1>1, <1>2, <1>8, <2>2, <2>3, FirstOpenType, LastPositionsSame DEF ReplyInv
<1>10. \A x \in Req : SameReplies(x)
  BY <1>2, <1>5, <1>8 DEF SameReplies
<1> QED
  BY <1>7, <1>9, <1>10, ReplySame DEF ReplyInv

LEMMA LaunchReplies ==
  ASSUME ReplyInv, IInv, Launch
  PROVE  ReplyInv'
<1>1. TypeOK /\ ThisBatch
  BY DEF IInv
<1>2. /\ pc = "allocate" /\ pc' = "process" /\ at > Len(batch.items) /\ at' = 1 /\ at \in Nat
      /\ obj' = obj /\ stage' = stage /\ sent' = sent /\ batch' = batch
      /\ last' = last /\ chunked' = chunked
  BY <1>1 DEF Launch, memory, TypeOK
<1>3. batch \in BatchType /\ DOMAIN batch.items = 1..Len(batch.items) /\ Len(batch.items) \in Nat
      /\ \A i \in DOMAIN batch.items : batch.items[i].req \in Req
  BY <1>1, BatchEntries DEF TypeOK
<1>4. Preparing /\ ~ Preparing'
  BY <1>2 DEF Preparing
<1>5. Positions'
  <2>1. ASSUME NEW i \in DOMAIN batch.items, ~ batch.items[i].chunk
        PROVE  batch.items[i].pos = obj[batch.items[i].req].device + Bit(Preparing' /\ i >= at')
    <3>1. batch.items[i].pos = obj[batch.items[i].req].device + Bit(Preparing /\ i >= at)
      BY <1>4, <2>1 DEF ReplyInv, Positions
    <3>2. Bit(Preparing /\ i >= at) = 0
      BY <1>2, <1>3, <2>1 DEF Bit
    <3>3. Bit(Preparing' /\ i >= at') = 0
      BY <1>4 DEF Bit
    <3> QED
      BY <3>1, <3>2, <3>3
  <2> QED
    BY <1>2, <2>1 DEF Positions
<1>6. /\ \A x : InLast(x)' <=> InLast(x)
      /\ \A x : ~ Sampled(x) /\ ~ Taken(x)'
      /\ \A x : Sampled(x)' <=> \E i \in DOMAIN batch.items : batch.items[i].req = x /\ ~ batch.items[i].chunk
      /\ \A x : Taken(x) <=> \E i \in DOMAIN batch.items : batch.items[i].req = x
  BY <1>1, <1>2, StandingLaunched
<1>7. LastPositions'
  <2>1. ASSUME NEW x \in Req, InLast(x) PROVE Sampled(x)' <=> Taken(x)
    <3>1. \A i \in DOMAIN batch.items : batch.items[i].req = x => ~ batch.items[i].chunk
      BY <1>1, <2>1 DEF ThisBatch, ThisEntry
    <3> QED
      BY <1>6, <3>1
  <2>2. \A x \in Req : InLast(x)' => LastPos(x)' = LastPos(x)
    BY <1>2, <1>6, <2>1 DEF LastPos, Bit
  <2>3. FirstOpen' = 1 /\ FirstOpen = 1
    BY <1>2 DEF FirstOpen
  <2> QED
    BY <1>1, <1>2, <2>2, <2>3, LastPositionsSame DEF ReplyInv
<1>8. ASSUME NEW x \in Req, stage[x] = "finished"
      PROVE  tokens'[x] = tokens[x] /\ Unanswered(x)' = Unanswered(x)
  <2>1. \A i \in DOMAIN batch.items : Live(batch.items[i].req)
    BY <1>1, <1>4 DEF ThisBatch, ThisEntry
  <2>2. \A i \in DOMAIN batch.items : batch.items[i].req # x
    BY <1>8, <2>1 DEF Live
  <2>3. tokens'[x] = tokens[x]
    BY <2>2 DEF Launch
  <2>4. ~ Sampled(x) /\ ~ Sampled(x)'
    BY <1>6, <2>2
  <2> QED
    BY <1>6, <2>3, <2>4 DEF Unanswered, Bit
<1>9. \A x \in Req : SameReplies(x)
  BY <1>2, <1>8 DEF SameReplies
<1> QED
  BY <1>5, <1>7, <1>9, ReplySame DEF ReplyInv

\* The batch of this iteration is the one before of the next, in the overlap loop.
LEMMA EndReplies ==
  ASSUME ReplyInv, IInv, EndLoop
  PROVE  ReplyInv'
<1>1. TypeOK /\ ThisBatch /\ LastBatch
  BY DEF IInv
<1>2. /\ batch' = NoBatch /\ stage' = stage /\ tokens' = tokens /\ sent' = sent
      /\ chunked' = chunked /\ pc = "process" /\ pc' = "receive" /\ at > Len(Results.items)
      /\ last' = IF Overlap THEN batch ELSE NoBatch
      /\ \A x \in Req : Live(x) \/ x \in InBatch(last') => obj'[x] = obj[x]
  BY DEF EndLoop, Live
<1>3. /\ \A x : InLast(x)' <=> InLast(x) \/ Sampled(x)
      /\ \A x : ~ InLast(x) \/ ~ Sampled(x)
      /\ \A x : ~ Sampled(x)' /\ ~ Taken(x)'
      /\ ~ Preparing
  BY <1>1, <1>2, StandingEnded
<1>4. \A x : Unanswered(x)' = Unanswered(x)
  BY <1>3 DEF Unanswered, Bit
<1>5. \A x \in Req : SameReplies(x)
  BY <1>2, <1>4 DEF SameReplies
<1>6. LastPositions'
  <2>1. CASE ~ Overlap
    BY <1>2, <2>1, EmptyBatch DEF LastPositions
  <2>2. CASE Overlap
    <3>1. last' = batch
      BY <1>2, <2>2
    <3>2. ASSUME NEW i \in DOMAIN batch.items, ~ batch.items[i].chunk,
                 NEW x \in Req, x = batch.items[i].req
          PROVE  batch.items[i].pos = LastPos(x)'
      <4>1. batch.items[i].pos = obj[x].device + Bit(Preparing /\ i >= at)
        BY <2>2, <3>2 DEF ReplyInv, Positions
      <4>2. Bit(Preparing /\ i >= at) = 0
        BY <1>3 DEF Bit
      <4>3. obj'[x] = obj[x]
        BY <1>2, <3>1, <3>2 DEF InBatch
      <4>4. LastPos(x)' = obj'[x].device - 0
        BY <1>3 DEF LastPos, Bit
      <4>5. obj[x].device \in Nat
        BY <1>1, RequestFacts
      <4> QED
        BY <3>2, <4>1, <4>2, <4>3, <4>4, <4>5
    <3>3. \A i \in DOMAIN batch.items : batch.items[i].req \in Req
      BY <1>1, BatchEntries DEF TypeOK
    <3>4. \A i \in DOMAIN last'.items :
            ~ last'.items[i].chunk => last'.items[i].pos = LastPos(last.items[i].req)'
      BY <3>1, <3>2, <3>3
    <3> QED
      BY <3>4 DEF LastPositions
  <2> QED
    BY <2>1, <2>2
<1> QED
  BY <1>2, <1>5, <1>6, NoPositions, ReplySame DEF ReplyInv

\* The position answered is behind the walk.
LEMMA PositionsBehind ==
  ASSUME ReplyInv, IInv, NEW e \in Answered, pc = "process", pc' = pc,
         batch' = batch, last' = last, at' = at + 1,
         \A x \in Req : obj'[x].device = obj[x].device
  PROVE  Positions' /\ LastPositions'
<1>1. TypeOK /\ ThisBatch /\ LastBatch /\ at \in Nat /\ batch \in BatchType
  BY DEF IInv, TypeOK
<1>2. \A i \in DOMAIN batch.items : batch.items[i].req \in Req /\ i \in Nat
  BY <1>1, BatchEntries
<1>3. /\ ~ Preparing /\ ~ Preparing'
      /\ \A x : ~ Taken(x) /\ ~ Taken(x)'
      /\ \A x : x # e.req \/ e.chunk => (Sampled(x)' <=> Sampled(x))
      /\ ~ e.chunk => (Sampled(e.req)' <=> Sampled(e.req)) \/ ~ InLast(e.req)'
  BY <1>1, StandingAnswered
<1>4. Positions'
  <2>1. \A i \in DOMAIN batch.items : i >= at' => i >= at
    BY <1>1, <1>2
  <2> QED
    BY <1>2, <1>3, <2>1 DEF ReplyInv, Positions, Bit
<1>5. LastPositions'
  <2>1. \A x \in Req : InLast(x)' => LastPos(x)' = LastPos(x)
    BY <1>3 DEF LastPos, Bit
  <2>2. FirstOpen = at /\ FirstOpen' = at + 1
    BY DEF FirstOpen
  <2>3. at \in Int /\ at + 1 \in Int /\ at + 1 >= at
    BY <1>1
  <2>4. LastPositions
    BY DEF ReplyInv
  <2> QED
    BY <2>1, <2>2, <2>3, <2>4, LastPositionsSame
<1> QED
  BY <1>4, <1>5

LEMMA SkipReplies ==
  ASSUME ReplyInv, IInv, NEW e \in Answered, SkipChunk(e)
  PROVE  ReplyInv'
<1>1. /\ pc = "process" /\ pc' = pc /\ at' = at + 1 /\ batch' = batch /\ last' = last /\ obj' = obj
      /\ stage' = stage /\ tokens' = tokens /\ sent' = sent /\ chunked' = chunked /\ e.chunk
  BY DEF SkipChunk, queues
<1>2. \A x : Unanswered(x)' = Unanswered(x)
  BY <1>1, StandingAnswered DEF IInv, Unanswered, Bit
<1>3. \A x \in Req : SameReplies(x)
  BY <1>1, <1>2 DEF SameReplies
<1>4. Positions' /\ LastPositions'
  BY <1>1, PositionsBehind
<1> QED
  BY <1>3, <1>4, ReplySame DEF ReplyInv

\* The token of r that the overlap loop has asked for behind the one it answers
Behind(r) == Bit(Overlap /\ Sampled(r))

\* What an answer leaves unanswered
LEMMA AnsweredOnce ==
  ASSUME IInv, NEW e \in Answered, ~ e.chunk, pc = "process", pc' = pc, at' = at + 1,
         batch' = batch, last' = last
  PROVE  /\ Unanswered(e.req) = Behind(e.req) + 1 /\ Unanswered(e.req)' = Behind(e.req)
         /\ \A x : x # e.req => Unanswered(x)' = Unanswered(x)
         /\ Behind(e.req) \in Int /\ 0 <= Behind(e.req) /\ Behind(e.req) <= Lag
<1>1. TypeOK /\ ThisBatch /\ LastBatch
  BY DEF IInv
<1>2. /\ \A x : x # e.req => (InLast(x)' <=> InLast(x)) /\ (Sampled(x)' <=> Sampled(x))
      /\ IF Overlap THEN InLast(e.req) /\ ~ InLast(e.req)' /\ (Sampled(e.req)' <=> Sampled(e.req))
         ELSE Sampled(e.req) /\ ~ Sampled(e.req)' /\ ~ InLast(e.req) /\ ~ InLast(e.req)'
  BY <1>1, StandingAnswered
<1>3. \A x : x # e.req => Unanswered(x)' = Unanswered(x)
  BY <1>2 DEF Unanswered, Bit
<1>4. Unanswered(e.req) = Behind(e.req) + 1 /\ Unanswered(e.req)' = Behind(e.req)
  BY <1>2 DEF Unanswered, Behind, Bit
<1>5. Behind(e.req) \in Int /\ 0 <= Behind(e.req) /\ Behind(e.req) <= Lag
  BY DEF Behind, Bit, Lag
<1> QED
  BY <1>3, <1>4, <1>5

\* The request a result is for, if it has not ended: it is live, the token is the
\* one behind those replied, and the entry names its position.
LEMMA AnsweredReplies ==
  ASSUME ReplyInv, IInv, NEW e \in Answered, ~ e.chunk, pc = "process",
         e.req \notin finished_reqs
  PROVE  /\ e.req \in Req /\ Live(e.req) /\ e.req \notin chunked
         /\ InputLen(e.req) \in Nat /\ obj[e.req].device \in Nat /\ Len(sent[e.req]) \in Nat
         /\ Replying(e.req) /\ sent[e.req] \in Seq(BOOLEAN)
         /\ InputLen(e.req) < obj[e.req].device
         /\ obj[e.req].host = InputLen(e.req) + Len(sent[e.req])
         /\ obj[e.req].device = InputLen(e.req) + Len(sent[e.req]) + 1 + Behind(e.req)
         /\ e.pos = InputLen(e.req) + Len(sent[e.req]) + 1
<1> DEFINE r == e.req
<1>1. TypeOK /\ ThisBatch /\ LastBatch /\ Queue
  BY DEF IInv
<1>2. /\ r \in Req /\ at \in DOMAIN Results.items /\ e = Results.items[at]
      /\ r \notin chunked /\ Live(r)
  BY <1>1, AnsweredEntry, AnsweredRequest
<1>3. /\ InputLen(r) \in Nat /\ obj[r].device \in Nat /\ obj[r].host \in Nat
      /\ sent[r] \in Seq(BOOLEAN) /\ Len(sent[r]) \in Nat
  <2>1. sent[r] \in Seq(BOOLEAN)
    BY <1>1, <1>2 DEF TypeOK
  <2>2. Len(sent[r]) \in Nat
    BY <2>1
  <2> QED
    BY <1>1, <1>2, <2>1, <2>2, RequestFacts
<1>4. Replying(r)
  BY <1>2 DEF ReplyInv, ReplyOf
<1>5. ~ Preparing /\ ~ Taken(r)
  BY DEF Preparing, Taken
<1>6. Decoding(r)
  BY <1>2, HostHasAnswered
<1>7. IF Overlap THEN InLast(r) ELSE Sampled(r) /\ ~ InLast(r)
  <2>1. ~ Overlap => ~ InLast(r)
    BY <1>1, EmptyBatch DEF InLast, OpenIn, LastBatch
  <2> QED
    BY <1>1, <2>1, AnsweredRequest
<1>8. Bit(Taken(r)) = 0 /\ Unanswered(r) = Behind(r) + 1 /\ Behind(r) \in Int
  BY <1>5, <1>7 DEF Unanswered, Behind, Bit
<1>9. obj[r].host = obj[r].device - 0 - (Behind(r) + 1) /\ InputLen(r) < obj[r].device
  BY <1>6, <1>8 DEF Decoding
<1>10. obj[r].host = InputLen(r) + Len(sent[r])
  BY <1>2, <1>4 DEF Replying
<1>11. obj[r].device = InputLen(r) + Len(sent[r]) + 1 + Behind(r)
  <2> DEFINE h == obj[r].host
             d == obj[r].device
             i == InputLen(r)
             m == Len(sent[r])
             b == Behind(r)
  <2>1. h \in Int /\ d \in Int /\ i \in Int /\ m \in Int /\ b \in Int
    BY <1>3, <1>8
  <2>2. h = d - 0 - (b + 1) /\ h = i + m
    BY <1>9, <1>10
  <2> HIDE DEF h, d, i, m, b
  <2>3. d = i + m + 1 + b
    BY <2>1, <2>2
  <2> QED
    BY <2>3 DEF d, i, m, b
<1>12. e.pos = obj[r].device - Behind(r)
  <2>1. CASE Overlap
    <3>1. at \in DOMAIN last.items /\ e = last.items[at] /\ FirstOpen = at /\ at \in Nat
      BY <1>1, <1>2, <2>1 DEF Results, FirstOpen, TypeOK
    <3>2. e.pos = LastPos(r)
      BY <3>1 DEF ReplyInv, LastPositions
    <3> QED
      BY <1>5, <2>1, <3>2 DEF LastPos, Behind
  <2>2. CASE ~ Overlap
    <3>1. at \in DOMAIN batch.items /\ e = batch.items[at] /\ at \in Nat
      BY <1>1, <1>2, <2>2 DEF Results, TypeOK
    <3>2. e.pos = obj[r].device + Bit(Preparing /\ at >= at)
      BY <3>1 DEF ReplyInv, Positions
    <3>3. Bit(Preparing /\ at >= at) = 0 /\ Behind(r) = 0
      BY <1>5, <2>2 DEF Bit, Behind
    <3> QED
      BY <1>3, <3>2, <3>3
  <2> QED
    BY <2>1, <2>2
<1>13. e.pos = InputLen(r) + Len(sent[r]) + 1
  BY <1>3, <1>8, <1>11, <1>12
<1> QED
  BY <1>2, <1>3, <1>4, <1>9, <1>10, <1>11, <1>13

\* A reply more, and what it leaves of the replies before it
LEMMA OneMore ==
  ASSUME NEW s \in Seq(BOOLEAN), NEW f \in BOOLEAN, NEW t, t = Append(s, f)
  PROVE  /\ Len(t) = Len(s) + 1 /\ DOMAIN t = 1..(Len(s) + 1) /\ t[Len(s) + 1] = f
         /\ DOMAIN s = 1..Len(s) /\ Len(s) \in Nat
         /\ \A i \in 1..Len(s) : t[i] = s[i]
OBVIOUS

LEMMA FinishReplies ==
  ASSUME ReplyInv, IInv, WithinOutput, NEW e \in Answered, FinishReq(e)
  PROVE  ReplyInv'
<1> DEFINE r == e.req
           s == sent[r]
<1>1. TypeOK
  BY DEF IInv
<1>2. /\ pc = "process" /\ pc' = pc /\ ~ e.chunk /\ at' = at + 1 /\ Finished(e)
      /\ r \notin finished_reqs
      /\ sent' = [sent EXCEPT ![e.req] = Append(@, Finished(e))]
      /\ obj' = [obj EXCEPT ![r].host = Appended(r)]
      /\ stage' = [stage EXCEPT ![e.req] = "finished"]
      /\ tokens' = tokens /\ batch' = batch /\ last' = last /\ chunked' = chunked
  BY DEF FinishReq, Answer, Over
<1>3. /\ r \in Req /\ Live(r)
      /\ InputLen(r) \in Nat /\ obj[r].device \in Nat /\ Len(s) \in Nat
      /\ Replying(r) /\ s \in Seq(BOOLEAN) /\ InputLen(r) < obj[r].device
      /\ obj[r].device = InputLen(r) + Len(s) + 1 + Behind(r)
      /\ e.pos = InputLen(r) + Len(s) + 1
  BY <1>2, AnsweredReplies
<1>4. /\ \A x \in Req : obj'[x].device = obj[x].device
      /\ \A x \in Req : x # r => obj'[x] = obj[x]
  BY <1>1, <1>2, <1>3, HostOnly, HostSet
<1>5. Positions' /\ LastPositions'
  BY <1>2, <1>4, PositionsBehind
<1>6. /\ sent'[r] = Append(s, TRUE) /\ \A x \in Req : x # r => sent'[x] = sent[x]
      /\ stage'[r] = "finished" /\ \A x \in Req : x # r => stage'[x] = stage[x]
  <2>1. Finished(e) = TRUE
    BY <1>2 DEF Finished
  <2> QED
    BY <1>1, <1>2, <1>3, <2>1, RepliedType DEF TypeOK
<1>7. /\ Unanswered(r)' = Behind(r) /\ \A x : x # r => Unanswered(x)' = Unanswered(x)
      /\ Behind(r) \in Int /\ 0 <= Behind(r) /\ Behind(r) <= Lag
  BY <1>2, AnsweredOnce
<1>8. ToldOnce(r)'
  <2> DEFINE l == Len(s)
  <2>1. PICK n \in Nat : n = l + 1
    BY <1>3
  <2>2. /\ DOMAIN sent'[r] = 1..n /\ sent'[r][n] = TRUE /\ Len(sent'[r]) = n
        /\ \A i \in 1..(n - 1) : ~ sent'[r][i]
    <3>1. \A i \in DOMAIN s : ~ s[i]
      BY <1>3 DEF Replying
    <3>2. /\ Len(sent'[r]) = l + 1 /\ DOMAIN sent'[r] = 1..(l + 1) /\ sent'[r][l + 1] = TRUE
          /\ DOMAIN s = 1..l /\ \A i \in 1..l : sent'[r][i] = s[i]
      BY <1>3, <1>6, OneMore
    <3>3. n - 1 = l
      BY <1>3, <2>1
    <3> HIDE DEF l
    <3> QED
      BY <2>1, <3>1, <3>2, <3>3
  <2>3. obj[r].device = InputLen(r) + n + Behind(r) /\ e.pos = InputLen(r) + n
    <3>1. \A i, k, m, b \in Int : m = k + 1 => i + k + 1 + b = i + m + b /\ i + k + 1 = i + m
      OBVIOUS
    <3> QED
      BY <1>3, <1>7, <2>1, <3>1
  <2> HIDE DEF s, r, l
  <2>4. Len(sent'[r]) + Unanswered(r)' <= n + Lag
    BY <1>7, <2>2 DEF Lag
  <2>5. \/ n \in (ReplyLimit(r) - Lag)..ReplyLimit(r)
        \/ r \notin IgnoreEos /\ tokens[r][InputLen(r) + n] = Eos
    <3>1. CASE ~ CanDecode(r)
      <4>1. ReplyLimit(r) \in Nat /\ Lag \in Int
        BY <1>3, ReplyLimitType DEF Lag
      <4>2. obj[r].device <= InputLen(r) + ReplyLimit(r)
        BY <1>3 DEF WithinOutput
      <4>3. ~ (InputLen(r) + OutputLen(r) - obj[r].device > 0)
        BY <3>1 DEF CanDecode, RemainLen
      <4>4. obj[r].device = InputLen(r) + ReplyLimit(r)
        BY <1>3, <4>2, <4>3, ComputedToTheEnd
      <4>5. \A i, d, t, m, b, g \in Int :
              d = i + t /\ d = i + m + b /\ 0 <= b /\ b <= g => m \in (t - g)..t
        OBVIOUS
      <4> QED
        BY <1>3, <1>7, <2>3, <4>1, <4>4, <4>5
    <3>2. CASE CanDecode(r)
      <4>1. Finished(e) /\ e.req = r
        BY <1>2 DEF r
      <4>2. r \notin IgnoreEos /\ tokens[r][e.pos] = Eos
        BY <3>2, <4>1 DEF Finished
      <4> QED
        BY <2>3, <4>2
    <3> QED
      BY <3>1, <3>2
  <2>6. ToldAt(r, n)'
    BY <1>2, <2>2, <2>4, <2>5 DEF ToldAt
  <2>7. n \in DOMAIN sent'[r]
    <3>1. \A k, m \in Nat : m = k + 1 => m \in 1..m
      OBVIOUS
    <3>2. l \in Nat
      BY <1>3 DEF l, s, r
    <3> QED
      BY <2>1, <2>2, <3>1, <3>2
  <2> QED
    BY <2>6, <2>7 DEF ToldOnce
<1>9. ReplyOf(r)'
  BY <1>6, <1>8 DEF ReplyOf, Live
<1>10. ASSUME NEW x \in Req, x # r PROVE ReplyOf(x)'
  <2>1. SameReplies(x)
    BY <1>2, <1>4, <1>6, <1>7, <1>10 DEF SameReplies
  <2> QED
    BY <2>1, ReplySame DEF ReplyInv
<1> QED
  BY <1>5, <1>9, <1>10 DEF ReplyInv

\* A reply that is not the last one
LEMMA GoesOnReplies ==
  ASSUME ReplyInv, IInv, NEW e \in Answered, CommitReq(e) \/ ReplyOnly(e),
         e.req \notin finished_reqs
  PROVE  ReplyInv'
<1> DEFINE r == e.req
           s == sent[r]
<1>1. TypeOK
  BY DEF IInv
<1>2. /\ pc = "process" /\ pc' = pc /\ ~ e.chunk /\ at' = at + 1 /\ ~ Over(e)
      /\ sent' = [sent EXCEPT ![e.req] = Append(@, Finished(e))]
      /\ stage' = stage \/ stage' = [stage EXCEPT ![e.req] = "committed"]
      /\ tokens' = tokens /\ batch' = batch /\ last' = last /\ chunked' = chunked
  BY DEF CommitReq, ReplyOnly, Answer, queues
<1>3. /\ r \in Req /\ Live(r) /\ r \notin chunked
      /\ InputLen(r) \in Nat /\ Len(s) \in Nat /\ obj[r].host \in Nat
      /\ Replying(r) /\ s \in Seq(BOOLEAN)
      /\ obj[r].host = InputLen(r) + Len(s)
  BY <1>1, <1>2, AnsweredReplies, RequestFacts
<1>4. /\ \A x \in Req : obj'[x].device = obj[x].device
      /\ obj'[r].host = obj[r].host + 1
      /\ \A x \in Req : x # r => obj'[x] = obj[x]
  <2>1. CASE ReplyOnly(e)
    <3>1. obj' = [obj EXCEPT ![r].host = Appended(r)]
      BY <2>1 DEF ReplyOnly
    <3> QED
      BY <1>1, <1>3, <3>1, HostOnly, HostSet
  <2>2. CASE CommitReq(e)
    <3> DEFINE c == Computed(r, Appended(r))
    <3>1. obj' = [obj EXCEPT ![r].host = Appended(r), ![r].handle = c]
      BY <2>2 DEF CommitReq
    <3>2. c \in Seq(Block)
      <4>1. Appended(r) \in Nat
        BY <1>1, <1>3, RequestFacts DEF Appended
      <4>2. LengthsOf(r)
        BY <1>3 DEF IInv
      <4> QED
        BY <1>1, <1>3, <4>1, <4>2, ComputedType
    <3> HIDE DEF c
    <3> QED
      BY <1>1, <1>3, <3>1, <3>2, HostSet
  <2> QED
    BY <2>1, <2>2
<1>5. Positions' /\ LastPositions'
  BY <1>2, <1>4, PositionsBehind
<1>6. /\ sent'[r] = Append(s, FALSE) /\ \A x \in Req : x # r => sent'[x] = sent[x]
  <2>1. Finished(e) = FALSE
    BY <1>2 DEF Over, Finished
  <2> QED
    BY <1>1, <1>2, <1>3, <2>1, RepliedType DEF TypeOK
<1>7. /\ stage'[r] \in {stage[r], "committed"}
      /\ \A x \in Req : x # r => stage'[x] = stage[x]
  BY <1>1, <1>2, <1>3 DEF TypeOK
<1>8. Replying(r)'
  <2>1. /\ Len(sent'[r]) = Len(s) + 1 /\ DOMAIN sent'[r] = 1..(Len(s) + 1)
        /\ sent'[r][Len(s) + 1] = FALSE /\ DOMAIN s = 1..Len(s)
        /\ \A i \in 1..Len(s) : sent'[r][i] = s[i]
    BY <1>3, <1>6, OneMore
  <2>2. \A i \in DOMAIN sent'[r] : ~ sent'[r][i]
    <3>1. \A i \in DOMAIN s : ~ s[i]
      BY <1>3 DEF Replying
    <3>2. \A i \in 1..(Len(s) + 1) : i \in 1..Len(s) \/ i = Len(s) + 1
      BY <1>3
    <3> QED
      BY <2>1, <3>1, <3>2
  <2>3. obj'[r].host = InputLen(r) + Len(sent'[r])
    <3> DEFINE i == InputLen(r)
               m == Len(s)
    <3>1. /\ obj[r].host = i + m /\ obj'[r].host = obj[r].host + 1 /\ Len(sent'[r]) = m + 1
          /\ i \in Nat /\ m \in Nat
      BY <1>3, <1>4, <2>1
    <3> HIDE DEF i, m, r
    <3>2. obj'[r].host = i + Len(sent'[r])
      BY <3>1
    <3> QED
      BY <3>2 DEF i
  <2> QED
    BY <1>2, <1>3, <2>2, <2>3 DEF Replying
<1>9. ReplyOf(r)'
  BY <1>3, <1>7, <1>8 DEF ReplyOf, Live
<1>10. ASSUME NEW x \in Req, x # r PROVE ReplyOf(x)'
  <2>1. \A y : y # r => Unanswered(y)' = Unanswered(y)
    BY <1>2, AnsweredOnce
  <2>2. SameReplies(x)
    BY <1>2, <1>4, <1>6, <1>7, <1>10, <2>1 DEF SameReplies
  <2> QED
    BY <2>2, ReplySame DEF ReplyInv
<1> QED
  BY <1>5, <1>9, <1>10 DEF ReplyInv

\* The reply of the batch that was under way when the request ended: it is one of
\* those counted behind its end.
LEMMA LateReplies ==
  ASSUME ReplyInv, IInv, NEW e \in Answered, CommitReq(e) \/ ReplyOnly(e),
         e.req \in finished_reqs
  PROVE  ReplyInv'
<1> DEFINE r == e.req
           s == sent[r]
<1>1. TypeOK /\ ThisBatch /\ LastBatch /\ Queue
  BY DEF IInv
<1>2. /\ pc = "process" /\ pc' = pc /\ ~ e.chunk /\ at' = at + 1
      /\ sent' = [sent EXCEPT ![e.req] = Append(@, Finished(e))]
      /\ tokens' = tokens /\ batch' = batch /\ last' = last /\ chunked' = chunked
  BY DEF CommitReq, ReplyOnly, Answer, queues
<1>3. r \in Req /\ stage[r] = "finished"
  BY <1>1, AnsweredEntry DEF LastBatch
<1>4. ReplyOnly(e)
  BY <1>1, <1>2, <1>3, AnsweredRequest DEF CommitReq
<1>5. stage' = stage /\ obj' = [obj EXCEPT ![r].host = Appended(r)]
  BY <1>4 DEF ReplyOnly
<1>6. /\ \A x \in Req : obj'[x].device = obj[x].device
      /\ \A x \in Req : x # r => obj'[x] = obj[x]
  BY <1>1, <1>3, <1>5, HostOnly, HostSet
<1>7. Positions' /\ LastPositions'
  BY <1>2, <1>6, PositionsBehind
<1>8. /\ Unanswered(r) = Behind(r) + 1 /\ Unanswered(r)' = Behind(r) /\ Behind(r) \in Int
      /\ \A x : x # r => Unanswered(x)' = Unanswered(x)
  BY <1>2, AnsweredOnce
<1>9. /\ s \in Seq(BOOLEAN) /\ sent'[r] = Append(s, Finished(e)) /\ Finished(e) \in BOOLEAN
      /\ \A x \in Req : x # r => sent'[x] = sent[x]
  <2>1. Finished(e) \in BOOLEAN
    BY DEF Finished
  <2> QED
    BY <1>1, <1>2, <1>3, <2>1, RepliedType DEF TypeOK
<1>10. ToldOnce(r)'
  <2>1. PICK n \in DOMAIN s : ToldAt(r, n)
    BY <1>3 DEF ReplyInv, ReplyOf, ToldOnce
  <2>2. /\ Len(sent'[r]) = Len(s) + 1 /\ DOMAIN sent'[r] = 1..(Len(s) + 1) /\ Len(s) \in Nat
        /\ DOMAIN s = 1..Len(s) /\ \A i \in 1..Len(s) : sent'[r][i] = s[i]
    BY <1>9, OneMore
  <2>3. n \in 1..(Len(s) + 1) /\ \A i \in 1..(n - 1) : i \in 1..Len(s)
    <3>1. n \in 1..Len(s)
      BY <2>1, <2>2
    <3> QED
      BY <2>2, <3>1
  <2>4. sent'[r][n] /\ \A i \in 1..(n - 1) : ~ sent'[r][i]
    BY <2>1, <2>2, <2>3 DEF ToldAt
  <2>5. Len(sent'[r]) + Unanswered(r)' = Len(s) + Unanswered(r)
    <3> DEFINE m == Len(s)
               b == Behind(r)
    <3>1. /\ Len(sent'[r]) = m + 1 /\ Unanswered(r)' = b /\ Unanswered(r) = b + 1
          /\ m \in Nat /\ b \in Int
      BY <1>8, <2>2
    <3> HIDE DEF m, b, r
    <3>2. Len(sent'[r]) + Unanswered(r)' = m + Unanswered(r)
      BY <3>1
    <3> QED
      BY <3>2 DEF m
  <2>6. ToldAt(r, n)'
    BY <1>2, <2>1, <2>4, <2>5 DEF ToldAt
  <2> QED
    BY <2>2, <2>3, <2>6 DEF ToldOnce
<1>11. ReplyOf(r)'
  BY <1>3, <1>5, <1>10 DEF ReplyOf, Live
<1>12. ASSUME NEW x \in Req, x # r PROVE ReplyOf(x)'
  <2>1. SameReplies(x)
    BY <1>2, <1>5, <1>6, <1>8, <1>9, <1>12 DEF SameReplies
  <2> QED
    BY <2>1, ReplySame DEF ReplyInv
<1> QED
  BY <1>7, <1>11, <1>12 DEF ReplyInv

LEMMA InitReplies ==
  ASSUME Init PROVE ReplyInv
<1>1. batch = NoBatch /\ last = NoBatch /\ stage = [r \in Req |-> "unsent"]
  BY DEF Init
<1>2. Positions /\ LastPositions
  BY <1>1, EmptyBatch DEF Positions, LastPositions
<1>3. \A r \in Req : ReplyOf(r)
  BY <1>1 DEF ReplyOf, Live
<1> QED
  BY <1>2, <1>3 DEF ReplyInv

LEMMA StutterReplies ==
  ASSUME ReplyInv, IInv, UNCHANGED vars PROVE ReplyInv'
<1>1. /\ pc' = pc /\ obj' = obj /\ stage' = stage /\ tokens' = tokens /\ sent' = sent
      /\ batch' = batch /\ last' = last /\ at' = at /\ chunked' = chunked
  BY DEF vars, loop, queues
<1>2. /\ \A x : InLast(x)' <=> InLast(x)
      /\ \A x : Sampled(x)' <=> Sampled(x)
      /\ \A x : Taken(x)' <=> Taken(x)
      /\ Preparing' <=> Preparing
  BY <1>1, StandingSame
<1>3. \A x \in Req : SameReplies(x)
  BY <1>1, <1>2 DEF SameReplies, Unanswered, Bit
<1>4. Positions'
  BY <1>1, <1>2, PositionsSame DEF ReplyInv, IInv, TypeOK
<1>5. LastPositions'
  <2>1. \A x : LastPos(x)' = LastPos(x)
    BY <1>1, <1>2 DEF LastPos, Bit
  <2>2. FirstOpen' = FirstOpen /\ TypeOK
    BY <1>1 DEF FirstOpen, IInv
  <2> QED
    BY <1>1, <2>1, <2>2, FirstOpenType, LastPositionsSame DEF ReplyInv
<1> QED
  BY <1>3, <1>4, <1>5, ReplySame DEF ReplyInv

\* Both loops tell the end of a request for a reason and in time (_process_last_data):
\* the first final reply brings the end token or is the last the request may get, or,
\* in the overlap loop, the last but one; behind it the normal loop sends nothing and
\* the overlap loop at most one reply (the finding Duplicates).  max_tokens is any
\* integer: with 0 one reply comes, a negative one ends the process.
THEOREM OneReplyEnds == ASSUME SafeAborts PROVE Spec => []OneFinalReply
<1>1. Init => ReplyInv
  BY InitReplies
<1>2. ReplyInv /\ IInv /\ (WithinOutput /\ OneInChunks) /\ [Next]_vars => ReplyInv'
  <2> SUFFICES ASSUME ReplyInv, IInv, WithinOutput, [Next]_vars PROVE ReplyInv'
    OBVIOUS
  <2>1. CASE \E r \in Req : Message(r)
    BY <2>1, MessageReplies
  <2>2. CASE Step
    <3>1. CASE Schedule \/ StopsAdding \/ PrefillBatch \/ NothingToRun
      BY <3>1, OnwardReplies
    <3>2. CASE \E r \in Req : AddChunked(r) \/ AddNew(r) \/ RefuseNew(r)
      BY <3>2, AddReplies, OnwardReplies
    <3>3. CASE DecodeBatch
      BY <3>3, DecodeReplies
    <3>4. CASE \E r \in Req : StartAlloc(r) \/ EvictOne(r) \/ Take(r)
      BY <3>4, OnwardReplies, TakeReplies
    <3>5. CASE Launch
      BY <3>5, LaunchReplies
    <3>6. CASE \E e \in Answered : SkipChunk(e) \/ FinishReq(e) \/ CommitReq(e) \/ ReplyOnly(e)
      BY <3>6, SkipReplies, FinishReplies, GoesOnReplies, LateReplies
    <3>7. CASE EndLoop
      BY <3>7, EndReplies
    <3> QED
      BY <2>2, <3>1, <3>2, <3>3, <3>4, <3>5, <3>6, <3>7 DEF Step, StopsAdding
  <2>3. CASE Idle
    BY <2>3, StutterReplies DEF Idle, Stopped
  <2>4. CASE UNCHANGED vars
    BY <2>4, StutterReplies
  <2> QED
    BY <2>1, <2>2, <2>3, <2>4 DEF Next
<1>3. ReplyInv /\ IInv => OneFinalReply
  <2> SUFFICES ASSUME ReplyInv, IInv, NEW r \in Req, stage[r] = "finished"
               PROVE  \E n \in DOMAIN sent[r] :
                        /\ sent[r][n] /\ \A i \in 1..(n - 1) : ~ sent[r][i]
                        /\ Len(sent[r]) <= n + Lag
                        /\ \/ n \in (ReplyLimit(r) - Lag)..ReplyLimit(r)
                           \/ r \notin IgnoreEos /\ tokens[r][InputLen(r) + n] = Eos
    BY DEF OneFinalReply
  <2>1. PICK n \in DOMAIN sent[r] : ToldAt(r, n)
    BY DEF ReplyInv, ReplyOf, ToldOnce
  <2>2. n \in Int /\ Len(sent[r]) \in Int /\ Lag \in Int
    <3>1. sent[r] \in Seq(BOOLEAN)
      BY DEF IInv, TypeOK
    <3> QED
      BY <2>1, <3>1 DEF Lag
  <2>3. Unanswered(r) \in Int /\ Unanswered(r) >= 0
    BY DEF Unanswered, Bit
  <2>4. Len(sent[r]) <= n + Lag
    <3>1. Len(sent[r]) + Unanswered(r) <= n + Lag
      BY <2>1 DEF ToldAt
    <3> QED
      BY <2>2, <2>3, <3>1
  <2> QED
    BY <2>1, <2>4 DEF ToldAt
<1> QED
  BY <1>1, <1>2, <1>3, SchedulerInvariant, WithinInvariance, PTL DEF Spec
====
